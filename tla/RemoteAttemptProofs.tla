------------------------- MODULE RemoteAttemptProofs -------------------------
(***************************************************************************)
(* The recovery of attempts, the agreement of job and attempt rows, the    *)
(* single process of a job and the outcome of a run that succeeded, for    *)
(* any number of jobs, attempts, lost connections, restarts and            *)
(* cancellations.                                                          *)
(***************************************************************************)
EXTENDS RemoteAttempt, FiniteSetTheorems, TLAPS

(* A queue holds one of these frames; it holds at most one of them. *)
In(q, S) == \E i \in 1..Len(q) : q[i] \in S
Once(q, S) == \A i, k \in 1..Len(q) : q[i] \in S /\ q[k] \in S => i = k

-----------------------------------------------------------------------------
(* What is in flight for an attempt. *)

Offer(a) == {Frame("lease_offer", a, "none")}
Prepare(a) == {Frame("prepare_source", a, "full"), Frame("prepare_source", a, "overlay")}
Begin(a) == Offer(a) \cup Prepare(a)
Run(a) == {Frame("run_job", a, "none")}
Accept(a) == {Frame("lease_accept", a, "none"), Frame("source_need", a, "fallback")}
Asked(a) == Accept(a) \cup {Frame("source_need", a, "bundle")}
Reject(a) == {Frame("lease_reject", a, "none")}
Report(a) == {Frame("recovery_report", a, "live"), Frame("recovery_report", a, "completed")}

(* The handshake before a run is under way: somewhere there is the frame or the
   promise that makes the Agent prepare the source. *)
Underway(a) ==
    In(toAgent, Begin(a)) \/ In(toController, Accept(a)) \/ <<"fallback", a>> \in work

OneHandshake(a) ==
    /\ Once(toAgent, Begin(a)) /\ Once(toController, Accept(a))
    /\ ~(In(toAgent, Begin(a)) /\ In(toController, Accept(a)))
    /\ ~(In(toAgent, Begin(a)) /\ <<"fallback", a>> \in work)
    /\ ~(In(toController, Accept(a)) /\ <<"fallback", a>> \in work)

HandshakeFirst(a) ==
    Underway(a) =>
       phase[a] \in {"none", "reserved", "escalated"} /\ a \notin fenced /\ meta[a] # "completed"

(* The Agent knows nothing of the attempt, and the Controller waits for nothing. *)
Untouched(a) ==
    /\ phase[a] = "none" /\ meta[a] = "none" /\ a \notin fenced
    /\ ~In(toController, Asked(a))
    /\ \A k \in {"bundle", "fallback", "severed"} : <<k, a>> \notin work

OfferedOnce(a) ==
    /\ In(toAgent, Offer(a)) \/ In(toController, Reject(a)) \/ state[a] = "absent" => Untouched(a)
    /\ In(toController, Reject(a)) \/ state[a] = "absent" => ~In(toAgent, Begin(a))
    /\ state[a] = "absent" => ~In(toController, Reject(a))
    /\ <<"dispatch", a>> \in work => state[a] = "absent"

(* The Agent was told to run the attempt. *)
Launched(a) ==
    \/ phase[a] \in {"starting", "running", "expired", "exited", "granting", "cleaning", "resuming",
                     "resumed"}
    \/ a \in fenced \/ meta[a] = "completed" \/ reporting[a] \in {"live", "completed"}
    \/ In(toAgent, Run(a)) \/ In(toController, Report(a))

ToldToRun(a) == Launched(a) => state[a] \notin {"absent", "leasing", "preparing_source"}

Early == {"reserved", "overlaying", "awaiting", "escalated", "preparing", "ready", "starting"}

Reportable(a) ==
    /\ phase[a] \in Early => a \notin fenced /\ meta[a] # "completed"
    /\ phase[a] = "running" /\ a \in fenced => meta[a] \in {"accepted", "running", "orphaned"}

PerAttempt(a) ==
    OneHandshake(a) /\ HandshakeFirst(a) /\ OfferedOnce(a) /\ ToldToRun(a) /\ Reportable(a)

AttemptInv == \A a \in Attempts : PerAttempt(a)

-----------------------------------------------------------------------------
CurrentIsOfJob ==
    \A j \in Jobs : current[j] # NoAttempt => JobOf[current[j]] = j /\ state[current[j]] # "absent"

Dispatching(j) == \E a \in Attempts : JobOf[a] = j /\ <<"dispatch", a>> \in work

OneDispatch ==
    /\ \A a, b \in Attempts :
          <<"dispatch", a>> \in work /\ <<"dispatch", b>> \in work /\ JobOf[a] = JobOf[b] => a = b
    /\ \A j \in Jobs : Dispatching(j) => job[j] \in {"queued", "completed"}
    /\ \A j \in FailFast : job[j] = "queued" \/ Dispatching(j) => current[j] = NoAttempt

Quiet(a) == Untouched(a) /\ ~In(toAgent, Offer(a))

PastIsQuiet ==
    \A a \in Attempts :
        a # current[JobOf[a]] \/ job[JobOf[a]] = "queued" \/ Dispatching(JobOf[a]) => Quiet(a)

JobInv == JobFollowsAttempt /\ OneDispatch /\ PastIsQuiet

-----------------------------------------------------------------------------
(* Queues. *)

(* The first frame is read. *)
LEMMA QueueTail ==
    ASSUME NEW F, NEW q \in Seq(F), q # <<>>, NEW S
    PROVE  /\ Tail(q) \in Seq(F)
           /\ In(Tail(q), S) => In(q, S)
           /\ Once(q, S) => Once(Tail(q), S)
           /\ Once(q, S) /\ Head(q) \in S => ~In(Tail(q), S)
           /\ Head(q) \in S => In(q, S)
<1>1. /\ Tail(q) \in Seq(F) /\ Len(Tail(q)) = Len(q) - 1 /\ Len(q) \in Nat \ {0}
      /\ Head(q) = q[1]
      /\ \A i \in 1..(Len(q) - 1) : Tail(q)[i] = q[i + 1]
    OBVIOUS
<1>2. \A i \in 1..(Len(q) - 1) : i + 1 \in 1..Len(q) /\ i + 1 # 1
    BY <1>1
<1>3. In(Tail(q), S) => In(q, S)
    BY <1>1, <1>2 DEF In
<1>4. Once(q, S) => Once(Tail(q), S)
  <2> SUFFICES ASSUME Once(q, S), NEW i \in 1..(Len(q) - 1), NEW k \in 1..(Len(q) - 1),
                      Tail(q)[i] \in S, Tail(q)[k] \in S
               PROVE  i = k
      BY <1>1 DEF Once
  <2>1. i + 1 = k + 1
      BY <1>1, <1>2 DEF Once
  <2> QED
      BY <2>1
<1>5. Once(q, S) /\ Head(q) \in S => ~In(Tail(q), S)
    BY <1>1, <1>2 DEF In, Once
<1>6. Head(q) \in S => In(q, S)
    BY <1>1 DEF In
<1> QED
    BY <1>1, <1>3, <1>4, <1>5, <1>6

(* The rest of a queue is another queue. *)
LEMMA TailDiffers == ASSUME NEW F, NEW q \in Seq(F), q # <<>> PROVE Tail(q) # q
<1>1. Len(Tail(q)) = Len(q) - 1
    OBVIOUS
<1>2. Len(q) \in Nat
    OBVIOUS
<1>3. Len(q) - 1 # Len(q)
    BY <1>2
<1> QED
    BY <1>1, <1>3

(* A frame is sent. *)
LEMMA QueueAppend ==
    ASSUME NEW F, NEW q \in Seq(F), NEW m \in F, NEW S
    PROVE  /\ Append(q, m) \in Seq(F)
           /\ In(Append(q, m), S) <=> In(q, S) \/ m \in S
           /\ Once(q, S) /\ (m \in S => ~In(q, S)) => Once(Append(q, m), S)
<1>1. /\ Append(q, m) \in Seq(F) /\ Len(Append(q, m)) = Len(q) + 1 /\ Len(q) \in Nat
      /\ Append(q, m)[Len(q) + 1] = m
      /\ \A i \in 1..Len(q) : Append(q, m)[i] = q[i]
    OBVIOUS
<1>2. \A i \in 1..(Len(q) + 1) : i \in 1..Len(q) \/ i = Len(q) + 1
    BY <1>1
<1>3. In(Append(q, m), S) <=> In(q, S) \/ m \in S
  <2>1. Len(q) + 1 \in 1..(Len(q) + 1) /\ \A i \in 1..Len(q) : i \in 1..(Len(q) + 1)
      BY <1>1
  <2> QED
      BY <1>1, <1>2, <2>1 DEF In
<1>4. Once(q, S) /\ (m \in S => ~In(q, S)) => Once(Append(q, m), S)
  <2> SUFFICES ASSUME Once(q, S), m \in S => ~In(q, S),
                      NEW i \in 1..(Len(q) + 1), NEW k \in 1..(Len(q) + 1),
                      Append(q, m)[i] \in S, Append(q, m)[k] \in S
               PROVE  i = k
      BY <1>1 DEF Once
  <2>1. CASE i \in 1..Len(q) /\ k \in 1..Len(q)
      BY <1>1, <2>1 DEF Once
  <2>2. CASE i = Len(q) + 1 \/ k = Len(q) + 1
      BY <1>1, <1>2, <2>2 DEF In
  <2> QED
      BY <1>2, <2>1, <2>2
<1> QED
    BY <1>1, <1>3, <1>4

(* Several frames are sent, none of them of the set. *)
LEMMA QueueConcat ==
    ASSUME NEW F, NEW q \in Seq(F), NEW r \in Seq(F), NEW S, \A i \in 1..Len(r) : r[i] \notin S
    PROVE  /\ q \o r \in Seq(F)
           /\ In(q \o r, S) => In(q, S)
           /\ Once(q, S) => Once(q \o r, S)
<1>1. /\ q \o r \in Seq(F) /\ Len(q \o r) = Len(q) + Len(r) /\ Len(q) \in Nat /\ Len(r) \in Nat
    OBVIOUS
<1>2. ASSUME NEW i \in 1..Len(q \o r), (q \o r)[i] \in S
      PROVE  i \in 1..Len(q) /\ (q \o r)[i] = q[i]
  <2>1. CASE i \in 1..Len(q)
      BY <2>1
  <2>2. CASE i \notin 1..Len(q)
    <3>1. i - Len(q) \in 1..Len(r) /\ (q \o r)[i] = r[i - Len(q)]
        BY <1>1, <2>2
    <3> QED
        BY <1>2, <3>1
  <2> QED
      BY <2>1, <2>2
<1>3. In(q \o r, S) => In(q, S)
    BY <1>2 DEF In
<1>4. Once(q, S) => Once(q \o r, S)
    BY <1>2 DEF Once
<1> QED
    BY <1>1, <1>3, <1>4

(* Nothing is in flight on a new connection. *)
LEMMA QueueEmpty == \A S : ~In(<<>>, S) /\ Once(<<>>, S)
BY DEF In, Once

-----------------------------------------------------------------------------
(* Types, in parts. *)

RowsOK ==
    /\ state \in [Attempts -> States] /\ outcome \in [Attempts -> Outcomes]
    /\ identity \in [Attempts -> {"none", "same", "other"}]
    /\ job \in [Jobs -> JobStates] /\ jobOutcome \in [Jobs -> Outcomes]
    /\ current \in [Jobs -> Attempts \cup {NoAttempt}]

TimersOK == grace \subseteq Attempts /\ orphan \subseteq Attempts /\ reconcile \subseteq Attempts

WorkOK == work \subseteq {"dispatch", "bundle", "fallback", "severed", "grant", "drain"} \X Attempts

WireOK ==
    session \in {"none", "live", "stale"} /\ link \in {"up", "down"} /\ boot \in Nat /\ bootSeen \in Nat

QueuesOK == toAgent \in Seq(Commands) /\ toController \in Seq(Notices)

RegistryOK ==
    /\ phase \in [Attempts -> Phases]
    /\ cancelled \subseteq Attempts /\ rejected \subseteq Attempts
    /\ reporting \in [Attempts -> {"none", "unread", "unfenced", "live", "completed"}]

FilesOK ==
    /\ meta \in [Attempts -> Metas] /\ fenced \subseteq Attempts
    /\ exit \in [Attempts -> Results] /\ result \in [Attempts -> Results]

FaultsOK == cuts \in Nat /\ restarts \in Nat /\ reboots \in Nat /\ cancels \in Nat

(* The type invariant is the conjunction of its parts. *)
LEMMA TypeParts ==
    TypeOK <=> /\ RowsOK /\ TimersOK /\ WorkOK /\ WireOK /\ QueuesOK /\ RegistryOK /\ FilesOK
               /\ FaultsOK
BY DEF TypeOK, RowsOK, TimersOK, WorkOK, WireOK, QueuesOK, RegistryOK, FilesOK, FaultsOK

(* The type invariant of the next state. *)
LEMMA TypePartsNext ==
    TypeOK' <=> /\ RowsOK' /\ TimersOK' /\ WorkOK' /\ WireOK' /\ QueuesOK' /\ RegistryOK' /\ FilesOK'
                /\ FaultsOK'
BY DEF TypeOK, RowsOK, TimersOK, WorkOK, WireOK, QueuesOK, RegistryOK, FilesOK, FaultsOK

(* The parts depend on their variables only. *)
LEMMA PartsKept ==
    ASSUME TypeOK
    PROVE  /\ UNCHANGED rows => RowsOK'
           /\ UNCHANGED timers => TimersOK'
           /\ UNCHANGED work => WorkOK'
           /\ UNCHANGED wire => WireOK'
           /\ UNCHANGED <<toAgent, toController>> => QueuesOK'
           /\ UNCHANGED registry => RegistryOK'
           /\ UNCHANGED files => FilesOK'
           /\ UNCHANGED faults => FaultsOK'
<1>1. /\ RowsOK /\ TimersOK /\ WorkOK /\ WireOK /\ QueuesOK /\ RegistryOK /\ FilesOK /\ FaultsOK
    BY TypeParts
<1> QED
    BY <1>1 DEF RowsOK, TimersOK, WorkOK, WireOK, QueuesOK, RegistryOK, FilesOK, FaultsOK, rows, timers,
        wire, registry, files, faults

(* Every frame is of its queue's type. *)
LEMMA FrameTypes ==
    ASSUME NEW a \in Attempts
    PROVE  /\ \A t \in {"lease_offer", "bundle_download", "run_job", "artifact_upload_grant",
                        "cancel_job"} : Frame(t, a, "none") \in Commands
           /\ \A x \in {"full", "overlay"} : Frame("prepare_source", a, x) \in Commands
           /\ \A x \in {"adopt", "terminate"} : Frame("reconcile_decision", a, x) \in Commands
           /\ \A t \in {"lease_accept", "lease_reject", "source_ready", "job_started",
                        "artifact_manifest", "cleanup_complete"} : Frame(t, a, "none") \in Notices
           /\ \A x \in {"bundle", "fallback"} : Frame("source_need", a, x) \in Notices
           /\ \A x \in Results : Frame("job_exit", a, x) \in Notices
           /\ \A x \in {"live", "completed"} : Frame("recovery_report", a, x) \in Notices
           /\ \A x \in Nat : Frame("capabilities", NoAttempt, x) \in Notices
BY DEF Frame, Commands, Notices

(* What the first frame of a queue carries. *)
LEMMA HeadTypes ==
    ASSUME TypeOK
    PROVE  /\ toController # <<>> => Head(toController) \in Notices
           /\ toAgent # <<>> => Head(toAgent) \in Commands
BY DEF TypeOK

(* What a notice carries, by its type. *)
LEMMA NoticeFields ==
    ASSUME NEW m \in Notices
    PROVE  /\ m.type = "source_need" => m.x \in {"bundle", "fallback"}
           /\ m.type = "job_exit" => m.x \in Results
           /\ m.type = "recovery_report" => m.x \in {"live", "completed"}
           /\ m.type = "capabilities" => m.x \in Nat
           /\ m.type # "capabilities" => m.a \in Attempts
           /\ m = Frame(m.type, m.a, m.x)
           /\ m.type \in {"lease_accept", "lease_reject", "source_ready", "job_started",
                          "artifact_manifest", "cleanup_complete"} => m.x = "none"
BY DEF Notices, Frame

(* What a command carries, by its type. *)
LEMMA CommandFields ==
    ASSUME NEW m \in Commands
    PROVE  /\ m.type = "prepare_source" => m.x \in {"full", "overlay"}
           /\ m.type = "reconcile_decision" => m.x \in {"adopt", "terminate"}
           /\ m.a \in Attempts
           /\ m = Frame(m.type, m.a, m.x)
           /\ m.type \in {"lease_offer", "bundle_download", "run_job", "artifact_upload_grant",
                          "cancel_job"} => m.x = "none"
BY DEF Commands, Frame

(* Frames of different types, attempts or contents differ. *)
LEMMA FramesDiffer ==
    ASSUME NEW t, NEW a, NEW x, NEW u, NEW b, NEW y
    PROVE  Frame(t, a, x) = Frame(u, b, y) <=> t = u /\ a = b /\ x = y
<1>1. ASSUME Frame(t, a, x) = Frame(u, b, y) PROVE t = u /\ a = b /\ x = y
  <2>1. /\ Frame(t, a, x).type = t /\ Frame(t, a, x).a = a /\ Frame(t, a, x).x = x
        /\ Frame(u, b, y).type = u /\ Frame(u, b, y).a = b /\ Frame(u, b, y).x = y
      BY DEF Frame
  <2> QED
      BY <1>1, <2>1
<1> QED
    BY <1>1

(* Writing the rows. *)
LEMMA CompleteAllType ==
    ASSUME TypeOK, NEW S \in SUBSET Attempts, NEW o \in Outcomes, CompleteAll(S, o)
    PROVE  RowsOK'
<1>1. "completed" \in States /\ "completed" \in JobStates
    BY DEF States, JobStates
<1>2. RowsOK
    BY TypeParts
<1> QED
    BY <1>1, <1>2 DEF CompleteAll, RowsOK

(* One row of each table. *)
LEMMA AdvanceType ==
    ASSUME TypeOK, NEW a \in Attempts, NEW s \in States \cap JobStates, Advance(a, s)
    PROVE  state' \in [Attempts -> States] /\ job' \in [Jobs -> JobStates]
BY AttemptConstants DEF Advance, TypeOK

(* Sending keeps the queues' types. *)
LEMMA SendTypes ==
    ASSUME TypeOK
    PROVE  /\ \A m \in Commands : ToAgent(m) => toAgent' \in Seq(Commands)
           /\ \A ms \in Seq(Notices) : ToController(ms) => toController' \in Seq(Notices)
           /\ toAgent # <<>> => Tail(toAgent) \in Seq(Commands)
           /\ toController # <<>> => Tail(toController) \in Seq(Notices)
<1>1. toAgent \in Seq(Commands) /\ toController \in Seq(Notices)
    BY DEF TypeOK
<1>2. \A m \in Commands : ToAgent(m) => toAgent' \in Seq(Commands)
    BY <1>1 DEF ToAgent
<1>3. ASSUME NEW ms \in Seq(Notices), ToController(ms) PROVE toController' \in Seq(Notices)
    BY <1>1, <1>3 DEF ToController
<1>4. /\ toAgent # <<>> => Tail(toAgent) \in Seq(Commands)
      /\ toController # <<>> => Tail(toController) \in Seq(Notices)
    BY <1>1
<1> QED
    BY <1>2, <1>3, <1>4

(* Frames arrive in order and are taken one at a time. *)
LEMMA ReceivedHead ==
    ASSUME TypeOK, NEW t, NEW a, Received(t, a)
    PROVE  /\ toController # <<>> /\ toController' = Tail(toController)
           /\ toController' \in Seq(Notices)
           /\ Head(toController) \in Notices
           /\ Head(toController).type = t /\ Head(toController).a = a
BY HeadTypes, SendTypes DEF Received

-----------------------------------------------------------------------------
(* The Controller's steps keep the types. *)

(* Its handlers of frames. *)
LEMMA HandlesType ==
    ASSUME TypeOK, NEW a \in Attempts, ControllerHandles(a)
    PROVE  TypeOK'
<1>1. /\ UNCHANGED agent /\ UNCHANGED faults /\ UNCHANGED wire
    BY DEF ControllerHandles, HandleLeaseAccept, HandleLeaseReject, HandleSourceNeed, HandleSourceReady,
           HandleJobStarted, HandleJobExit, HandleArtifactManifest, HandleCleanupComplete,
           HandleRecoveryReport
<1>2. RegistryOK' /\ FilesOK' /\ FaultsOK' /\ WireOK'
    BY <1>1, PartsKept DEF agent
<1>3. toController' \in Seq(Notices) /\ toController # <<>>
    BY ReceivedHead DEF ControllerHandles, HandleLeaseAccept, HandleLeaseReject, HandleSourceNeed,
           HandleSourceReady, HandleJobStarted, HandleJobExit, HandleArtifactManifest,
           HandleCleanupComplete, HandleRecoveryReport, Accepted
<1>4. toAgent' \in Seq(Commands)
  <2>1. \/ UNCHANGED toAgent
        \/ \E m \in Commands : ToAgent(m)
    <3>1. CASE HandleLeaseAccept(a)
        BY <3>1, FrameTypes DEF HandleLeaseAccept
    <3>2. CASE HandleSourceReady(a)
        BY <3>2, FrameTypes DEF HandleSourceReady
    <3>3. CASE HandleRecoveryReport(a)
        BY <3>3, FrameTypes DEF HandleRecoveryReport, Defer, Adopt, TerminateStale
    <3> QED
        BY <3>1, <3>2, <3>3 DEF ControllerHandles, HandleLeaseReject, HandleSourceNeed, HandleJobStarted,
           HandleJobExit, HandleArtifactManifest, HandleCleanupComplete
  <2> QED
      BY <2>1, SendTypes DEF TypeOK
<1>5. WorkOK'
  <2>1. CASE HandleSourceNeed(a)
    <3>1. Head(toController).x \in {"bundle", "fallback"}
        BY <2>1, ReceivedHead, NoticeFields DEF HandleSourceNeed, Accepted
    <3>2. work' = work \/ work' = work \cup {<<Head(toController).x, a>>}
        BY <2>1 DEF HandleSourceNeed
    <3> QED
        BY <3>1, <3>2 DEF TypeOK, WorkOK
  <2>2. CASE work' \in {work, work \cup {<<"grant", a>>}, work \cup {<<"drain", a>>}}
      BY <2>2 DEF TypeOK, WorkOK
  <2> QED
      BY <2>1, <2>2 DEF ControllerHandles, HandleLeaseAccept, HandleLeaseReject, HandleSourceReady,
           HandleJobStarted, HandleJobExit, HandleArtifactManifest, HandleCleanupComplete,
           HandleRecoveryReport
<1>6. TimersOK'
    BY DEF ControllerHandles, HandleLeaseAccept, HandleLeaseReject, HandleSourceNeed, HandleSourceReady,
           HandleJobStarted, HandleJobExit, HandleArtifactManifest, HandleCleanupComplete,
           HandleRecoveryReport, Defer, Adopt, TerminateStale, ClearTimers, timers, TypeOK, TimersOK
<1>7. RowsOK'
  <2>1. ASSUME CompleteAll({a}, "failed") PROVE RowsOK'
      BY <2>1, CompleteAllType DEF Outcomes
  <2>2. ASSUME NEW s \in States \cap JobStates, Advance(a, s), UNCHANGED <<identity, jobOutcome, current>>,
               outcome' \in [Attempts -> Outcomes]
        PROVE  RowsOK'
    <3>1. state' \in [Attempts -> States] /\ job' \in [Jobs -> JobStates]
        BY <2>2, AdvanceType
    <3> QED
        BY <2>2, <3>1 DEF TypeOK, RowsOK
  <2>3. {"preparing_source", "running", "collecting_artifacts"} \subseteq States \cap JobStates
      BY DEF States, JobStates
  <2>4. CASE HandleLeaseAccept(a)
      BY <2>1, <2>2, <2>3, <2>4 DEF HandleLeaseAccept, TypeOK
  <2>5. CASE HandleLeaseReject(a)
    <3>1. CASE CompleteAll({a}, "failed")
        BY <2>1, <3>1
    <3>2. CASE /\ state' = [state EXCEPT ![a] = "completed"]
               /\ outcome' = [outcome EXCEPT ![a] = "failed"]
               /\ job' = [job EXCEPT ![JobOf[a]] = "queued"]
               /\ jobOutcome' = [jobOutcome EXCEPT ![JobOf[a]] = "none"]
               /\ UNCHANGED <<identity, current>>
      <4>1. "completed" \in States /\ "queued" \in JobStates /\ {"none", "failed"} \subseteq Outcomes
          BY DEF States, JobStates, Outcomes
      <4> QED
          BY <3>2, <4>1 DEF TypeOK, RowsOK
    <3> QED
        BY <2>5, <3>1, <3>2 DEF HandleLeaseReject
  <2>6. CASE HandleSourceReady(a)
      BY <2>2, <2>3, <2>6 DEF HandleSourceReady, TypeOK
  <2>7. CASE HandleJobExit(a)
    <3>1. Head(toController).x \in Outcomes
        BY <2>7, ReceivedHead, NoticeFields DEF HandleJobExit, Accepted, Results, Outcomes
    <3>2. outcome' \in [Attempts -> Outcomes]
        BY <2>7, <3>1 DEF HandleJobExit, TypeOK
    <3> QED
        BY <2>2, <2>3, <2>7, <3>2 DEF HandleJobExit
  <2>8. CASE HandleJobStarted(a)
      BY <2>8, AttemptConstants DEF HandleJobStarted, TypeOK, RowsOK
  <2>9. CASE HandleRecoveryReport(a)
    <3>1. CASE Adopt(a)
      <4>1. {"collecting_artifacts", "running"} \subseteq States
          BY DEF States
      <4> QED
          BY <3>1, <4>1 DEF Adopt, TypeOK, RowsOK
    <3>2. CASE UNCHANGED rows
        BY <3>2, PartsKept
    <3> QED
        BY <2>1, <2>9, <3>1, <3>2 DEF HandleRecoveryReport, Defer, TerminateStale
  <2>10. CASE UNCHANGED rows
      BY <2>10, PartsKept
  <2> QED
      BY <2>1, <2>4, <2>5, <2>6, <2>7, <2>8, <2>9, <2>10 DEF ControllerHandles, HandleSourceNeed,
         HandleArtifactManifest, HandleCleanupComplete
<1>8. QueuesOK'
    BY <1>3, <1>4 DEF QueuesOK
<1> QED
    BY <1>2, <1>5, <1>6, <1>7, <1>8, TypePartsNext

(* What was awaited. *)
LEMMA SettlesType ==
    ASSUME TypeOK, NEW a \in Attempts, ControllerSettles(a) \/ DispatchJob(a)
    PROVE  TypeOK'
<1> USE DEF ControllerSettles, DispatchJob, InitiateRemoteAttempt, NoAgentSelected, SourceProvided,
        SourceFails, GrantUpload, CompleteCleanup
<1>1. /\ UNCHANGED agent /\ UNCHANGED faults /\ UNCHANGED wire /\ UNCHANGED timers
      /\ UNCHANGED toController
    OBVIOUS
<1>2. RegistryOK' /\ FilesOK' /\ FaultsOK' /\ WireOK' /\ TimersOK'
    BY <1>1, PartsKept DEF agent
<1>3. QueuesOK'
  <2>1. UNCHANGED toAgent \/ \E m \in Commands : ToAgent(m)
      BY FrameTypes
  <2> QED
      BY <1>1, <2>1, SendTypes DEF TypeOK, QueuesOK
<1>4. WorkOK'
  <2>1. work' \subseteq work \/ work' = work \cup {<<"dispatch", a>>}
      OBVIOUS
  <2> QED
      BY <2>1 DEF TypeOK, WorkOK
<1>5. RowsOK'
  <2>1. CASE InitiateRemoteAttempt(a)
    <3>1. "leasing" \in States \cap JobStates
        BY DEF States, JobStates
    <3>2. state' \in [Attempts -> States] /\ job' \in [Jobs -> JobStates]
        BY <2>1, <3>1, AdvanceType
    <3>3. current' \in [Jobs -> Attempts \cup {NoAttempt}]
        BY <2>1 DEF TypeOK
    <3> QED
        BY <2>1, <3>2, <3>3 DEF TypeOK, RowsOK
  <2>2. CASE FinishJob(JobOf[a], "failed")
      BY <2>2 DEF FinishJob, TypeOK, RowsOK, JobStates, States, Outcomes
  <2>3. CASE UNCHANGED rows
      BY <2>3, PartsKept
  <2>4. CASE \E o \in Outcomes : CompleteAll({a}, o)
      BY <2>4, CompleteAllType
  <2>5. "failed" \in Outcomes /\ "succeeded" \in Outcomes /\ outcome[a] \in Outcomes
      BY DEF TypeOK, Outcomes
  <2> QED
      BY <2>1, <2>2, <2>3, <2>4, <2>5
<1> QED
    BY <1>2, <1>3, <1>4, <1>5, TypePartsNext

(* The recovery timers, the lease sweep and a cancellation. *)
LEMMA TimersType ==
    ASSUME TypeOK,
           \/ \E a \in Attempts : TimerFires(a) \/ ExpireStaleLease(a)
           \/ \E j \in Jobs : CancelJob(j)
    PROVE  TypeOK'
<1> USE DEF TimerFires, OnGraceElapsed, OnOrphanTimeout, OnReconcileDeadline, ExpireStaleLease,
        CancelJob
<1>1. UNCHANGED agent /\ UNCHANGED wire /\ UNCHANGED work /\ UNCHANGED toController
    OBVIOUS
<1>2. RegistryOK' /\ FilesOK' /\ WireOK' /\ WorkOK'
    BY <1>1, PartsKept DEF agent
<1>3. FaultsOK'
  <2>1. FaultsOK
      BY TypeParts
  <2>2. UNCHANGED faults \/ (cancels' = cancels + 1 /\ UNCHANGED <<cuts, restarts, reboots>>)
      OBVIOUS
  <2> QED
      BY <2>1, <2>2 DEF FaultsOK, faults
<1>4. QueuesOK'
  <2>1. UNCHANGED toAgent \/ \E j \in Jobs : RequestRemoteJobCancel(j) /\ current[j] # NoAttempt
      OBVIOUS
  <2>2. ASSUME NEW j \in Jobs, RequestRemoteJobCancel(j), current[j] # NoAttempt
        PROVE  toAgent' \in Seq(Commands)
    <3>1. current[j] \in Attempts
        BY <2>2 DEF TypeOK
    <3>2. Frame("cancel_job", current[j], "none") \in Commands
        BY <3>1, FrameTypes
    <3> QED
        BY <2>2, <3>2, SendTypes DEF RequestRemoteJobCancel
  <2> QED
      BY <1>1, <2>1, <2>2 DEF TypeOK, QueuesOK
<1>5. TimersOK'
    BY DEF ClearTimers, timers, TypeOK, TimersOK
<1>6. RowsOK'
  <2>1. \/ UNCHANGED rows
        \/ \E a \in Attempts : Active(a) /\ state' = [state EXCEPT ![a] = "orphaned"]
                               /\ UNCHANGED <<outcome, identity, job, jobOutcome, current>>
        \/ \E a \in Attempts : CompleteAll({a}, "lost") \/ CompleteAll({a}, "failed")
        \/ \E j \in Jobs : FinishJob(j, "cancelled")
        \/ \E j \in Jobs : current[j] # NoAttempt /\ CompleteAll({current[j]}, "cancelled")
      BY DEF rows, RequestRemoteJobCancel
  <2>2. CASE UNCHANGED rows
      BY <2>2, PartsKept
  <2>3. CASE \E a \in Attempts : Active(a) /\ state' = [state EXCEPT ![a] = "orphaned"]
                               /\ UNCHANGED <<outcome, identity, job, jobOutcome, current>>
      BY <2>3 DEF TypeOK, RowsOK, States
  <2>4. CASE \E a \in Attempts : CompleteAll({a}, "lost") \/ CompleteAll({a}, "failed")
      BY <2>4, CompleteAllType DEF Outcomes
  <2>5. CASE \E j \in Jobs : FinishJob(j, "cancelled")
      BY <2>5 DEF FinishJob, TypeOK, RowsOK, JobStates, States, Outcomes
  <2>6. CASE \E j \in Jobs : current[j] # NoAttempt /\ CompleteAll({current[j]}, "cancelled")
    <3>1. PICK j \in Jobs : current[j] # NoAttempt /\ CompleteAll({current[j]}, "cancelled")
        BY <2>6
    <3>2. {current[j]} \in SUBSET Attempts /\ "cancelled" \in Outcomes
        BY <3>1 DEF TypeOK, Outcomes
    <3> QED
        BY <3>1, <3>2, CompleteAllType
  <2> QED
      BY <2>1, <2>2, <2>3, <2>4, <2>5, <2>6
<1> QED
    BY <1>2, <1>3, <1>4, <1>5, <1>6, TypePartsNext

(* The connection and the Controller itself. *)
LEMMA SessionType ==
    ASSUME TypeOK, IgnoreStale \/ HandleCapabilities \/ ControllerDrops \/ ControllerRestarts
    PROVE  TypeOK'
<1>1. UNCHANGED agent
    BY DEF IgnoreStale, HandleCapabilities, ControllerDrops, ControllerRestarts
<1>2. RegistryOK' /\ FilesOK'
    BY <1>1, PartsKept DEF agent
<1>3. FaultsOK'
  <2>1. FaultsOK
      BY TypeParts
  <2>2. /\ cuts' = cuts \/ cuts' = cuts + 1
        /\ restarts' = restarts \/ restarts' = restarts + 1
        /\ UNCHANGED <<reboots, cancels>>
      BY DEF IgnoreStale, HandleCapabilities, ControllerDrops, ControllerRestarts, faults
  <2> QED
      BY <2>1, <2>2 DEF FaultsOK
<1>4. QueuesOK'
  <2>1. /\ toAgent' = toAgent \/ toAgent' = <<>>
        /\ (toController # <<>> /\ toController' = Tail(toController)) \/ toController' = <<>>
      BY DEF IgnoreStale, HandleCapabilities, ControllerDrops, ControllerRestarts, Received
  <2>2. <<>> \in Seq(Commands) /\ <<>> \in Seq(Notices)
      OBVIOUS
  <2>3. toController' \in Seq(Notices)
      BY <2>1, <2>2, SendTypes
  <2>4. toAgent' \in Seq(Commands)
      BY <2>1, <2>2 DEF TypeOK
  <2> QED
      BY <2>3, <2>4 DEF QueuesOK
<1>5. WireOK'
  <2>1. CASE HandleCapabilities
    <3>1. Head(toController).x \in Nat
        BY <2>1, ReceivedHead, NoticeFields DEF HandleCapabilities
    <3> QED
        BY <2>1, <3>1 DEF HandleCapabilities, TypeOK, WireOK
  <2> QED
      BY <2>1 DEF IgnoreStale, ControllerDrops, ControllerRestarts, TypeOK, WireOK, wire
<1>6. WorkOK'
    BY DEF IgnoreStale, HandleCapabilities, ControllerDrops, ControllerRestarts, TypeOK, WorkOK, controller
<1>7. RowsOK' /\ TimersOK'
  <2>1. CASE HandleCapabilities
    <3>1. PICK S \in SUBSET Attempts : CompleteAll(S, "lost") /\ ClearTimers(S)
        BY <2>1 DEF HandleCapabilities
    <3>2. RowsOK'
        BY <3>1, CompleteAllType DEF Outcomes
    <3>3. TimersOK'
        BY <3>1 DEF ClearTimers, TypeOK, TimersOK
    <3> QED
        BY <3>2, <3>3
  <2>2. CASE ControllerDrops
    <3>1. RowsOK'
      <4>1. PICK S \in SUBSET Attempts : CompleteAll(S, "failed")
          BY <2>2 DEF ControllerDrops, OnAgentDisconnect
      <4> QED
          BY <4>1, CompleteAllType DEF Outcomes
    <3>2. TimersOK'
        BY <2>2 DEF ControllerDrops, OnAgentDisconnect, TypeOK, TimersOK
    <3> QED
        BY <3>1, <3>2
  <2>3. CASE ControllerRestarts
    <3>1. UNCHANGED rows
        BY <2>3 DEF ControllerRestarts
    <3>2. TimersOK'
        BY <2>3 DEF ControllerRestarts, TimersOK
    <3> QED
        BY <3>1, <3>2, PartsKept
  <2>4. CASE IgnoreStale
      BY <2>4, PartsKept DEF IgnoreStale, controller
  <2> QED
      BY <2>1, <2>2, <2>3, <2>4
<1> QED
    BY <1>2, <1>3, <1>4, <1>5, <1>6, <1>7, TypePartsNext

-----------------------------------------------------------------------------
(* The Agent's steps keep the types. *)

(* The frames an attempt ends with. *)
LEMMA ExitFramesType ==
    ASSUME NEW a \in Attempts
    PROVE  \A o \in Results : /\ ExitFrames(a, o) \in Seq(Notices)
                              /\ <<Frame("job_exit", a, "cancelled")>> \o ExitFrames(a, o) \in Seq(Notices)
<1> SUFFICES ASSUME NEW o \in Results
             PROVE  /\ ExitFrames(a, o) \in Seq(Notices)
                    /\ <<Frame("job_exit", a, "cancelled")>> \o ExitFrames(a, o) \in Seq(Notices)
    OBVIOUS
<1>1. /\ Frame("job_exit", a, o) \in Notices /\ Frame("cleanup_complete", a, "none") \in Notices
      /\ Frame("job_exit", a, "cancelled") \in Notices
    BY FrameTypes DEF Results
<1>2. ExitFrames(a, o) \in Seq(Notices)
    BY <1>1 DEF ExitFrames
<1> QED
    BY <1>1, <1>2

(* The first command is taken. *)
LEMMA CommandHead ==
    ASSUME TypeOK, NEW t, NEW a, Command(t, a)
    PROVE  /\ toAgent # <<>> /\ toAgent' = Tail(toAgent) /\ toAgent' \in Seq(Commands)
           /\ Head(toAgent) \in Commands
           /\ Head(toAgent).type = t /\ Head(toAgent).a = a
           /\ link = "up"
BY HeadTypes, SendTypes DEF Command

(* What the Agent does for one attempt. *)
AgentStep(a) ==
    AgentHandles(a) \/ AgentWorks(a) \/ SelfTerminate(a) \/ EmitRecoveryReport(a)

(* It leaves the Controller and the connection alone, and of the Agent it changes
   this attempt only. *)
LEMMA AgentFrame ==
    ASSUME TypeOK, NEW a \in Attempts, AgentStep(a)
    PROVE  /\ UNCHANGED controller /\ UNCHANGED wire /\ UNCHANGED faults
           /\ phase' = phase \/ \E p \in Phases : phase' = [phase EXCEPT ![a] = p]
           /\ meta' = meta \/ \E m \in Metas : meta' = [meta EXCEPT ![a] = m]
           /\ fenced' = fenced \/ fenced' = fenced \cup {a}
           /\ reporting' = reporting \/ reporting' = [reporting EXCEPT ![a] = "none"]
           /\ exit' = exit \/ \E o \in Results : exit' = [exit EXCEPT ![a] = o]
           /\ result' = result \/ \E o \in Results : result' = [result EXCEPT ![a] = o]
           /\ cancelled' \in {cancelled, cancelled \cup {a}}
           /\ rejected' \in {rejected, rejected \cup {a}}
<1> USE DEF Phases, Metas, Results
<1>1. phase[a] \in Phases /\ meta[a] \in Metas
    BY DEF TypeOK
<1>2. CASE AgentHandles(a)
  <2>1. CASE HandleLeaseOffer(a)
      BY <2>1 DEF HandleLeaseOffer, SetPhase, SetMeta, agent, registry, files
  <2>2. CASE HandlePrepareSource(a)
      BY <2>2 DEF HandlePrepareSource, SetPhase, files
  <2>3. CASE HandleBundleDownload(a)
      BY <2>3 DEF HandleBundleDownload, SetPhase, files
  <2>4. CASE HandleRunJob(a)
      BY <2>4 DEF HandleRunJob, SetPhase, files
  <2>5. CASE HandleArtifactUploadGrant(a)
    <3>1. \E p \in Phases : phase' = [phase EXCEPT ![a] = p]
        BY <1>1, <2>5 DEF HandleArtifactUploadGrant
    <3> QED
        BY <2>5, <3>1 DEF HandleArtifactUploadGrant, files
  <2>6. CASE HandleCancelJob(a)
      BY <2>6 DEF HandleCancelJob, EndAttempt, SetPhase, SetMeta
  <2>7. CASE HandleReconcileDecision(a)
    <3>1. CASE Terminate(a)
      <4>1. Abandoned(phase[a]) \in Phases
          BY <1>1 DEF Abandoned
      <4>2. phase' = [phase EXCEPT ![a] = Abandoned(phase[a])]
          BY <3>1 DEF Terminate
      <4> QED
          BY <2>7, <3>1, <4>1, <4>2 DEF HandleReconcileDecision, Terminate, SetMeta
    <3>2. CASE ~Terminate(a)
      <4>1. phase' = phase \/ phase' = [phase EXCEPT ![a] = "resuming"]
          BY <2>7, <3>2 DEF HandleReconcileDecision, ResumeUpload, SetPhase
      <4>2. \E m \in Metas : meta' = [meta EXCEPT ![a] = m]
          BY <1>1, <2>7, <3>2 DEF HandleReconcileDecision
      <4> QED
          BY <2>7, <3>2, <4>1, <4>2 DEF HandleReconcileDecision
    <3> QED
        BY <3>1, <3>2
  <2> QED
      BY <1>2, <2>1, <2>2, <2>3, <2>4, <2>5, <2>6, <2>7 DEF AgentHandles
<1>3. CASE AgentWorks(a)
  <2> USE DEF SetPhase, SetMeta, files
  <2>1. CASE RequestBundle(a) \/ BundleTimesOut(a) \/ CleanupEnds(a)
      BY <2>1 DEF RequestBundle, BundleTimesOut, CleanupEnds
  <2>2. CASE PrepareEnds(a) \/ StartFails(a)
      BY <2>2 DEF PrepareEnds, StartFails, EndAttempt
  <2>3. CASE SpawnJobScript(a)
      BY <2>3 DEF SpawnJobScript
  <2>4. CASE ProcessExits(a)
      BY <2>4 DEF ProcessExits
  <2>5. CASE CollectArtifacts(a)
      BY <2>5 DEF CollectArtifacts, EndAttempt
  <2>6. CASE GrantTimesOut(a)
      BY <2>6 DEF GrantTimesOut, EndAttempt
  <2>7. CASE SelfTerminated(a)
      BY <2>7 DEF SelfTerminated
  <2>8. CASE ZombieEnds(a)
      BY <2>8 DEF ZombieEnds
  <2> QED
      BY <1>3, <2>1, <2>2, <2>3, <2>4, <2>5, <2>6, <2>7, <2>8 DEF AgentWorks
<1>4. CASE SelfTerminate(a)
  <2>1. \E p \in Phases : phase' = [phase EXCEPT ![a] = p]
      BY <1>1, <1>4 DEF SelfTerminate
  <2> QED
      BY <1>4, <2>1 DEF SelfTerminate, SetMeta
<1>5. CASE EmitRecoveryReport(a)
  <2>1. Abandoned(phase[a]) \in Phases
      BY <1>1 DEF Abandoned
  <2>2. phase' = phase \/ phase' = [phase EXCEPT ![a] = Abandoned(phase[a])]
      BY <1>5 DEF EmitRecoveryReport, Terminate
  <2> QED
      BY <1>5, <2>1, <2>2 DEF EmitRecoveryReport, Terminate, SetMeta
<1> QED
    BY <1>2, <1>3, <1>4, <1>5 DEF AgentStep

(* The notices that neither begin an attempt nor report one. *)
Plain == {"source_ready", "job_started", "job_exit", "artifact_manifest", "cleanup_complete"}

PlainSeq(a) == {ms \in Seq(Notices) : \A i \in 1..Len(ms) : ms[i].type \in Plain /\ ms[i].a = a}

(* Plain frames in a row. *)
LEMMA PlainConcat ==
    ASSUME NEW a, NEW r \in PlainSeq(a), NEW s \in PlainSeq(a)
    PROVE  r \o s \in PlainSeq(a)
<1>1. r \in Seq(Notices) /\ s \in Seq(Notices)
    BY DEF PlainSeq
<1>2. r \o s \in Seq(Notices) /\ Len(r \o s) = Len(r) + Len(s) /\ Len(r) \in Nat /\ Len(s) \in Nat
    BY <1>1
<1>3. ASSUME NEW i \in 1..Len(r \o s)
      PROVE  (r \o s)[i].type \in Plain /\ (r \o s)[i].a = a
  <2>1. CASE i \in 1..Len(r)
    <3>1. (r \o s)[i] = r[i]
        BY <1>1, <2>1
    <3> QED
        BY <2>1, <3>1 DEF PlainSeq
  <2>2. CASE i \notin 1..Len(r)
    <3>1. i - Len(r) \in 1..Len(s) /\ (r \o s)[i] = s[i - Len(r)]
        BY <1>1, <1>2, <2>2
    <3> QED
        BY <3>1 DEF PlainSeq
  <2> QED
      BY <2>1, <2>2
<1> QED
    BY <1>2, <1>3 DEF PlainSeq

(* The frames an attempt ends with are plain. *)
LEMMA ExitFramesPlain ==
    ASSUME NEW a \in Attempts
    PROVE  /\ <<>> \in PlainSeq(a)
           /\ \A t \in Plain \ {"job_exit"} : <<Frame(t, a, "none")>> \in PlainSeq(a)
           /\ \A o \in Results : /\ <<Frame("job_exit", a, o)>> \in PlainSeq(a)
                                 /\ ExitFrames(a, o) \in PlainSeq(a)
                                 /\ <<Frame("job_exit", a, "cancelled")>> \o ExitFrames(a, o) \in PlainSeq(a)
                                 /\ <<Frame("job_exit", a, o)>> \o <<Frame("artifact_manifest", a, "none")>>
                                       \in PlainSeq(a)
                                 /\ <<Frame("job_exit", a, o)>> \o <<>> \in PlainSeq(a)
<1>1. <<>> \in PlainSeq(a)
    BY DEF PlainSeq
<1>2. \A t \in Plain \ {"job_exit"} :
         Frame(t, a, "none") \in Notices /\ Frame(t, a, "none").type = t /\ Frame(t, a, "none").a = a
    BY FrameTypes DEF Plain, Frame
<1>3. \A o \in Results :
         Frame("job_exit", a, o) \in Notices /\ Frame("job_exit", a, o).type = "job_exit"
         /\ Frame("job_exit", a, o).a = a
    BY FrameTypes DEF Frame
<1>4. \A t \in Plain \ {"job_exit"} : <<Frame(t, a, "none")>> \in PlainSeq(a)
    BY <1>2 DEF PlainSeq
<1>5. ASSUME NEW o \in Results
      PROVE  /\ <<Frame("job_exit", a, o)>> \in PlainSeq(a)
             /\ ExitFrames(a, o) \in PlainSeq(a)
             /\ <<Frame("job_exit", a, "cancelled")>> \o ExitFrames(a, o) \in PlainSeq(a)
             /\ <<Frame("job_exit", a, o)>> \o <<Frame("artifact_manifest", a, "none")>> \in PlainSeq(a)
             /\ <<Frame("job_exit", a, o)>> \o <<>> \in PlainSeq(a)
  <2> DEFINE e == Frame("job_exit", a, o)
             c == Frame("cleanup_complete", a, "none")
             k == Frame("job_exit", a, "cancelled")
             m == Frame("artifact_manifest", a, "none")
  <2>1. /\ e \in Notices /\ c \in Notices /\ k \in Notices /\ m \in Notices
        /\ e.type \in Plain /\ c.type \in Plain /\ k.type \in Plain /\ m.type \in Plain
        /\ e.a = a /\ c.a = a /\ k.a = a /\ m.a = a
      BY <1>2, <1>3 DEF Plain, Results
  <2> HIDE DEF e, c, k, m
  <2>2. <<e>> \in PlainSeq(a) /\ <<k>> \in PlainSeq(a) /\ <<m>> \in PlainSeq(a)
      BY <2>1 DEF PlainSeq
  <2>3. <<e, c>> \in PlainSeq(a)
      BY <2>1 DEF PlainSeq
  <2>4. /\ <<k>> \o <<e, c>> \in PlainSeq(a) /\ <<e>> \o <<m>> \in PlainSeq(a)
        /\ <<e>> \o <<>> \in PlainSeq(a)
      BY <1>1, <2>2, <2>3, PlainConcat
  <2> QED
      BY <2>2, <2>3, <2>4 DEF e, c, k, m, ExitFrames
<1> QED
    BY <1>1, <1>4, <1>5

(* What the Agent's steps do to the queues. *)
LEMMA AgentQueues ==
    ASSUME TypeOK, NEW a \in Attempts, AgentStep(a)
    PROVE  /\ \/ toAgent' = toAgent
              \/ toAgent # <<>> /\ toAgent' = Tail(toAgent) /\ Head(toAgent).a = a
           /\ \/ toController' = toController
              \/ \E ms \in PlainSeq(a) : ToController(ms)
              \/ /\ HandleLeaseOffer(a)
                 /\ \/ ToController(<<Frame("lease_accept", a, "none")>>)
                    \/ ToController(<<Frame("lease_reject", a, "none")>>)
              \/ RequestBundle(a) /\ ToController(<<Frame("source_need", a, "bundle")>>)
              \/ /\ HandleBundleDownload(a) \/ BundleTimesOut(a)
                 /\ ToController(<<Frame("source_need", a, "fallback")>>)
              \/ /\ EmitRecoveryReport(a) /\ reporting[a] \in {"live", "completed"}
                 /\ ToController(<<Frame("recovery_report", a, reporting[a])>>)
<1>1. /\ exit[a] \in Results /\ {"cancelled", "failed", "succeeded"} \subseteq Results
      /\ reporting[a] \in {"none", "unread", "unfenced", "live", "completed"}
    BY DEF TypeOK, Results
<1>2. CASE AgentHandles(a)
  <2>1. toAgent # <<>> /\ toAgent' = Tail(toAgent) /\ Head(toAgent).a = a
      BY <1>2 DEF AgentHandles, HandleLeaseOffer, HandlePrepareSource, HandleBundleDownload, HandleRunJob,
            HandleArtifactUploadGrant, HandleCancelJob, HandleReconcileDecision, Command
  <2>2. CASE HandleLeaseOffer(a)
      BY <2>1, <2>2 DEF HandleLeaseOffer
  <2>3. CASE HandlePrepareSource(a) \/ HandleRunJob(a) \/ HandleArtifactUploadGrant(a)
      BY <2>1, <2>3 DEF HandlePrepareSource, HandleRunJob, HandleArtifactUploadGrant
  <2>4. CASE HandleBundleDownload(a)
      BY <2>1, <2>4 DEF HandleBundleDownload
  <2>5. CASE HandleCancelJob(a)
      BY <1>1, <2>1, <2>5, ExitFramesPlain DEF HandleCancelJob, EndAttempt
  <2>6. CASE HandleReconcileDecision(a)
    <3>1. \/ toController' = toController
          \/ ToController(<<Frame("job_exit", a, exit[a])>> \o <<Frame("artifact_manifest", a, "none")>>)
          \/ ToController(<<Frame("job_exit", a, exit[a])>> \o <<>>)
        BY <2>6 DEF HandleReconcileDecision, ResumeUpload
    <3> QED
        BY <1>1, <2>1, <3>1, ExitFramesPlain
  <2> QED
      BY <1>2, <2>2, <2>3, <2>4, <2>5, <2>6 DEF AgentHandles
<1>3. CASE AgentWorks(a)
  <2>1. toAgent' = toAgent
      BY <1>3 DEF AgentWorks, RequestBundle, BundleTimesOut, PrepareEnds, StartFails, SpawnJobScript,
         ProcessExits, CollectArtifacts, GrantTimesOut, CleanupEnds, SelfTerminated, ZombieEnds
  <2>2. CASE RequestBundle(a) \/ BundleTimesOut(a)
      BY <2>1, <2>2 DEF RequestBundle, BundleTimesOut
  <2>3. CASE PrepareEnds(a) \/ StartFails(a)
      BY <1>1, <2>1, <2>3, ExitFramesPlain DEF PrepareEnds, StartFails, EndAttempt, Plain
  <2>4. CASE SpawnJobScript(a)
      BY <2>1, <2>4, ExitFramesPlain DEF SpawnJobScript, Plain
  <2>5. CASE ProcessExits(a)
      BY <1>1, <2>1, <2>5, ExitFramesPlain DEF ProcessExits, Plain
  <2>6. CASE CollectArtifacts(a) \/ GrantTimesOut(a)
      BY <1>1, <2>1, <2>6, ExitFramesPlain DEF CollectArtifacts, GrantTimesOut, EndAttempt, Plain
  <2>7. CASE CleanupEnds(a) \/ SelfTerminated(a)
      BY <1>1, <2>1, <2>7, ExitFramesPlain DEF CleanupEnds, SelfTerminated, Plain
  <2>8. CASE ZombieEnds(a)
      BY <1>1, <2>1, <2>8, ExitFramesPlain DEF ZombieEnds, Plain
  <2> QED
      BY <1>3, <2>2, <2>3, <2>4, <2>5, <2>6, <2>7, <2>8 DEF AgentWorks
<1>4. CASE SelfTerminate(a)
    BY <1>4 DEF SelfTerminate
<1>5. CASE EmitRecoveryReport(a)
    BY <1>1, <1>5 DEF EmitRecoveryReport
<1> QED
    BY <1>2, <1>3, <1>4, <1>5 DEF AgentStep

(* The Agent's steps for one attempt keep the types. *)
LEMMA AgentType ==
    ASSUME TypeOK, NEW a \in Attempts, AgentStep(a)
    PROVE  TypeOK'
<1>1. RowsOK' /\ TimersOK' /\ WorkOK' /\ WireOK' /\ FaultsOK'
    BY AgentFrame, PartsKept DEF controller
<1>2. toAgent' \in Seq(Commands)
    BY AgentQueues, SendTypes DEF TypeOK
<1>3. toController' \in Seq(Notices)
  <2>1. \A ms \in PlainSeq(a) : ms \in Seq(Notices)
      BY DEF PlainSeq
  <2>2. \A m \in Notices : <<m>> \in Seq(Notices)
      OBVIOUS
  <2> QED
      BY <2>1, <2>2, AgentQueues, SendTypes, FrameTypes DEF TypeOK
<1>4. RegistryOK'
  <2>1. /\ phase' = phase \/ \E p \in Phases : phase' = [phase EXCEPT ![a] = p]
        /\ reporting' = reporting \/ reporting' = [reporting EXCEPT ![a] = "none"]
        /\ cancelled' \in {cancelled, cancelled \cup {a}}
        /\ rejected' \in {rejected, rejected \cup {a}}
      BY AgentFrame
  <2>2. phase \in [Attempts -> Phases]
        /\ reporting \in [Attempts -> {"none", "unread", "unfenced", "live", "completed"}]
        /\ cancelled \subseteq Attempts /\ rejected \subseteq Attempts
      BY DEF TypeOK
  <2>3. phase' \in [Attempts -> Phases]
      BY <2>1, <2>2
  <2>4. reporting' \in [Attempts -> {"none", "unread", "unfenced", "live", "completed"}]
      BY <2>1, <2>2
  <2>5. cancelled' \subseteq Attempts /\ rejected' \subseteq Attempts
      BY <2>1, <2>2
  <2> QED
      BY <2>3, <2>4, <2>5 DEF RegistryOK
<1>5. FilesOK'
  <2>1. /\ meta' = meta \/ \E m \in Metas : meta' = [meta EXCEPT ![a] = m]
        /\ fenced' = fenced \/ fenced' = fenced \cup {a}
        /\ exit' = exit \/ \E o \in Results : exit' = [exit EXCEPT ![a] = o]
        /\ result' = result \/ \E o \in Results : result' = [result EXCEPT ![a] = o]
      BY AgentFrame
  <2>2. /\ meta \in [Attempts -> Metas] /\ fenced \subseteq Attempts
        /\ exit \in [Attempts -> Results] /\ result \in [Attempts -> Results]
      BY DEF TypeOK
  <2>3. meta' \in [Attempts -> Metas]
      BY <2>1, <2>2
  <2>4. fenced' \subseteq Attempts
      BY <2>1, <2>2
  <2>5. exit' \in [Attempts -> Results]
      BY <2>1, <2>2
  <2>6. result' \in [Attempts -> Results]
      BY <2>1, <2>2
  <2> QED
      BY <2>3, <2>4, <2>5, <2>6 DEF FilesOK
<1> QED
    BY <1>1, <1>2, <1>3, <1>4, <1>5, TypePartsNext DEF QueuesOK

(* The Agent's connection and restart. *)
LEMMA AgentLinkType ==
    ASSUME TypeOK, ListAttemptMetadata \/ AgentDrops \/ Reconnect \/ AgentRestarts
    PROVE  TypeOK'
<1>1. RowsOK' /\ TimersOK'
    BY PartsKept DEF ListAttemptMetadata, AgentDrops, Reconnect, AgentRestarts, controller
<1>2. WorkOK'
  <2>1. CASE Reconnect
      BY <2>1 DEF Reconnect, TypeOK, WorkOK
  <2>2. CASE UNCHANGED work
      BY <2>2, PartsKept
  <2> QED
      BY <2>1, <2>2 DEF ListAttemptMetadata, AgentDrops, AgentRestarts, controller
<1>3. WireOK'
    BY DEF ListAttemptMetadata, AgentDrops, Reconnect, AgentRestarts, wire, TypeOK, WireOK
<1>4. FaultsOK'
  <2>1. FaultsOK
      BY TypeParts
  <2>2. /\ cuts' = cuts \/ cuts' = cuts + 1
        /\ reboots' = reboots \/ reboots' = reboots + 1
        /\ UNCHANGED <<restarts, cancels>>
      BY DEF ListAttemptMetadata, AgentDrops, Reconnect, AgentRestarts, faults
  <2> QED
      BY <2>1, <2>2 DEF FaultsOK
<1>5. QueuesOK'
  <2>1. /\ <<Frame("capabilities", NoAttempt, boot)>> \in Seq(Notices)
        /\ <<>> \in Seq(Commands) /\ <<>> \in Seq(Notices)
      BY DEF Frame, Notices, TypeOK
  <2>2. /\ toAgent' = toAgent \/ toAgent' = <<>>
        /\ \/ toController' = toController \/ toController' = <<>>
           \/ toController' = <<Frame("capabilities", NoAttempt, boot)>>
      BY DEF ListAttemptMetadata, AgentDrops, Reconnect, AgentRestarts
  <2> QED
      BY <2>1, <2>2 DEF TypeOK, QueuesOK
<1>6. RegistryOK'
  <2>1. \A a \in Attempts : ReadMeta(a) \in {"none", "unread", "unfenced", "live", "completed"}
      BY DEF ReadMeta
  <2>2. "none" \in Phases
      BY DEF Phases
  <2> QED
      BY <2>1, <2>2 DEF ListAttemptMetadata, AgentDrops, Reconnect, AgentRestarts, registry, TypeOK, RegistryOK
<1>7. FilesOK'
  <2>1. CASE AgentDrops
    <3>1. \A a \in Attempts : Parked(a) \in Metas
        BY DEF Parked, TypeOK, Metas
    <3> QED
        BY <2>1, <3>1 DEF AgentDrops, TypeOK, FilesOK
  <2> QED
      BY <2>1, PartsKept DEF ListAttemptMetadata, Reconnect, AgentRestarts
<1> QED
    BY <1>1, <1>2, <1>3, <1>4, <1>5, <1>6, <1>7, TypePartsNext

(* Every step keeps the types. *)
LEMMA TypeNext == TypeOK /\ [Next]_vars => TypeOK'
<1> SUFFICES ASSUME TypeOK, [Next]_vars PROVE TypeOK'
    OBVIOUS
<1>1. ASSUME NEW a \in Attempts, ControllerHandles(a) PROVE TypeOK'
    BY <1>1, HandlesType
<1>2. ASSUME NEW a \in Attempts, ControllerSettles(a) \/ DispatchJob(a) PROVE TypeOK'
    BY <1>2, SettlesType
<1>3. ASSUME NEW a \in Attempts, TimerFires(a) \/ ExpireStaleLease(a) PROVE TypeOK'
    BY <1>3, TimersType
<1>4. ASSUME NEW a \in Attempts, AgentStep(a) PROVE TypeOK'
    BY <1>4, AgentType
<1>5. ASSUME NEW j \in Jobs, CancelJob(j) PROVE TypeOK'
    BY <1>5, TimersType
<1>6. CASE IgnoreStale \/ HandleCapabilities \/ ControllerDrops \/ ControllerRestarts
    BY <1>6, SessionType
<1>7. CASE ListAttemptMetadata \/ AgentDrops \/ Reconnect \/ AgentRestarts
    BY <1>7, AgentLinkType
<1>8. CASE UNCHANGED vars
    BY <1>8, PartsKept, TypePartsNext DEF vars, controller, agent
<1> QED
    BY <1>1, <1>2, <1>3, <1>4, <1>5, <1>6, <1>7, <1>8 DEF Next, AgentStep

-----------------------------------------------------------------------------
(* Each attempt by itself. *)

(* No frame that begins or runs the attempt is added for the Agent. *)
LessToAgent(b) ==
    /\ In(toAgent', Begin(b)) => In(toAgent, Begin(b))
    /\ In(toAgent', Offer(b)) => In(toAgent, Offer(b))
    /\ In(toAgent', Run(b)) => In(toAgent, Run(b))
    /\ Once(toAgent, Begin(b)) => Once(toAgent', Begin(b))

(* No answer about the handshake and no report is added for the Controller. *)
LessToController(b) ==
    /\ In(toController', Accept(b)) => In(toController, Accept(b))
    /\ In(toController', Asked(b)) => In(toController, Asked(b))
    /\ In(toController', Reject(b)) => In(toController, Reject(b))
    /\ In(toController', Report(b)) => In(toController, Report(b))
    /\ Once(toController, Accept(b)) => Once(toController', Accept(b))

(* Nothing is awaited that was not awaited before. *)
LessWork(b) ==
    \A k \in {"dispatch", "bundle", "fallback", "severed"} : <<k, b>> \in work' => <<k, b>> \in work

(* Reading, losing or leaving the commands. *)
LEMMA ReadToAgent ==
    ASSUME TypeOK, NEW b \in Attempts,
           \/ toAgent' = toAgent \/ toAgent' = <<>>
           \/ toAgent # <<>> /\ toAgent' = Tail(toAgent)
    PROVE  LessToAgent(b)
<1>1. toAgent \in Seq(Commands)
    BY DEF TypeOK
<1>2. CASE toAgent' = toAgent
    BY <1>2 DEF LessToAgent
<1>3. CASE toAgent' = <<>>
    BY <1>3, QueueEmpty DEF LessToAgent
<1>4. CASE toAgent # <<>> /\ toAgent' = Tail(toAgent)
    BY <1>1, <1>4, QueueTail DEF LessToAgent
<1> QED
    BY <1>2, <1>3, <1>4

(* Sending a command that neither begins nor runs this attempt. *)
LEMMA SendToAgent ==
    ASSUME TypeOK, NEW b \in Attempts, NEW m \in Commands, ToAgent(m), m \notin Begin(b) \cup Run(b)
    PROVE  LessToAgent(b)
<1>1. toAgent \in Seq(Commands)
    BY DEF TypeOK
<1>2. CASE toAgent' = toAgent
    BY <1>2 DEF LessToAgent
<1>3. CASE toAgent' = Append(toAgent, m)
    BY <1>1, <1>3, QueueAppend DEF LessToAgent, Begin
<1> QED
    BY <1>2, <1>3 DEF ToAgent

(* Reading, losing or leaving the notices. *)
LEMMA ReadToController ==
    ASSUME TypeOK, NEW b \in Attempts,
           \/ toController' = toController \/ toController' = <<>>
           \/ toController # <<>> /\ toController' = Tail(toController)
    PROVE  LessToController(b)
<1>1. toController \in Seq(Notices)
    BY DEF TypeOK
<1>2. CASE toController' = toController
    BY <1>2 DEF LessToController
<1>3. CASE toController' = <<>>
    BY <1>3, QueueEmpty DEF LessToController
<1>4. CASE toController # <<>> /\ toController' = Tail(toController)
    BY <1>1, <1>4, QueueTail DEF LessToController
<1> QED
    BY <1>2, <1>3, <1>4

(* Sending notices of other kinds. *)
LEMMA SendToController ==
    ASSUME TypeOK, NEW b \in Attempts, NEW ms \in Seq(Notices), ToController(ms),
           \A i \in 1..Len(ms) : ms[i] \notin Asked(b) \cup Reject(b) \cup Report(b)
    PROVE  LessToController(b)
<1>1. toController \in Seq(Notices)
    BY DEF TypeOK
<1>2. CASE toController' = toController
    BY <1>2 DEF LessToController
<1>3. CASE toController' = toController \o ms
  <2>1. \A i \in 1..Len(ms) : /\ ms[i] \notin Accept(b) /\ ms[i] \notin Asked(b)
                              /\ ms[i] \notin Reject(b) /\ ms[i] \notin Report(b)
      BY DEF Asked
  <2> QED
      BY <1>1, <1>3, <2>1, QueueConcat DEF LessToController
<1> QED
    BY <1>2, <1>3 DEF ToController

(* Frames are told apart by their attempt and type. *)
LEMMA TokenFields ==
    ASSUME NEW b, NEW m
    PROVE  /\ m \in Begin(b) => m.a = b /\ m.type \in {"lease_offer", "prepare_source"}
           /\ m \in Offer(b) => m.type = "lease_offer"
           /\ m \in Run(b) => m.a = b /\ m.type = "run_job"
           /\ m \in Asked(b) => m.a = b /\ m.type \in {"lease_accept", "source_need"}
           /\ m \in Reject(b) => m.a = b /\ m.type = "lease_reject"
           /\ m \in Report(b) => m.a = b /\ m.type = "recovery_report"
BY DEF Begin, Offer, Prepare, Run, Asked, Accept, Reject, Report, Frame

(* Plain notices are none of these. *)
LEMMA SendPlain ==
    ASSUME TypeOK, NEW a, NEW b \in Attempts, NEW ms \in PlainSeq(a), ToController(ms)
    PROVE  LessToController(b)
<1>1. ms \in Seq(Notices) /\ \A i \in 1..Len(ms) : ms[i].type \in Plain
    BY DEF PlainSeq
<1>2. \A i \in 1..Len(ms) : ms[i] \notin Asked(b) \cup Reject(b) \cup Report(b)
    BY <1>1, TokenFields DEF Plain
<1> QED
    BY <1>1, <1>2, SendToController

(* A notice about another attempt. *)
LEMMA SendOther ==
    ASSUME TypeOK, NEW a, NEW b \in Attempts, a # b, NEW m \in Notices, m.a = a, ToController(<<m>>)
    PROVE  LessToController(b)
<1>1. <<m>> \in Seq(Notices) /\ \A i \in 1..Len(<<m>>) : <<m>>[i] = m
    OBVIOUS
<1>2. \A i \in 1..Len(<<m>>) : <<m>>[i] \notin Asked(b) \cup Reject(b) \cup Report(b)
    BY <1>1, TokenFields
<1> QED
    BY <1>1, <1>2, SendToController

NotTold == {"absent", "leasing", "preparing_source"}

(* What an attempt's part of the invariant is made of: it holds on when frames and
   promises only go, the row only advances and the Agent's side stays. *)
LEMMA ShrinkKept ==
    ASSUME NEW b \in Attempts, PerAttempt(b), LessToAgent(b), LessToController(b), LessWork(b),
           state'[b] = "absent" => state[b] = "absent",
           state'[b] \in NotTold => state[b] \in NotTold,
           <<"dispatch", b>> \in work' => state'[b] = state[b],
           phase'[b] = phase[b], meta'[b] = meta[b], b \in fenced' <=> b \in fenced,
           reporting'[b] = reporting[b] \/ reporting'[b] \notin {"live", "completed"}
    PROVE  PerAttempt(b)'
<1> USE DEF LessToAgent, LessToController, LessWork
<1>1. OneHandshake(b)'
    BY DEF PerAttempt, OneHandshake
<1>2. HandshakeFirst(b)'
    BY DEF PerAttempt, HandshakeFirst, Underway
<1>3. Untouched(b) => Untouched(b)'
    BY DEF Untouched
<1>4. OfferedOnce(b)'
    BY <1>3 DEF PerAttempt, OfferedOnce
<1>5. ToldToRun(b)'
    BY DEF PerAttempt, ToldToRun, Launched, NotTold
<1>6. Reportable(b)'
    BY DEF PerAttempt, Reportable
<1> QED
    BY <1>1, <1>2, <1>4, <1>5, <1>6 DEF PerAttempt

(* A step of the Controller that begins nothing. *)
LEMMA QuietStep ==
    ASSUME AttemptInv, UNCHANGED agent,
           \A b \in Attempts :
              /\ LessToAgent(b) /\ LessToController(b) /\ LessWork(b)
              /\ state'[b] = state[b] \/ (state[b] # "absent" /\ state'[b] \notin NotTold)
    PROVE  AttemptInv'
<1> SUFFICES ASSUME NEW b \in Attempts PROVE PerAttempt(b)'
    BY DEF AttemptInv
<1>1. PerAttempt(b)
    BY DEF AttemptInv
<1>2. /\ phase' = phase /\ meta' = meta /\ fenced' = fenced /\ reporting' = reporting
    BY DEF agent, registry, files
<1>3. "absent" \in NotTold
    BY DEF NotTold
<1>4. <<"dispatch", b>> \in work' => state'[b] = state[b]
    BY <1>1 DEF LessWork, PerAttempt, OfferedOnce
<1> QED
    BY <1>1, <1>2, <1>3, <1>4, ShrinkKept

(* A step of the Controller for attempt a, which may begin it. *)
LEMMA OthersQuiet ==
    ASSUME AttemptInv, UNCHANGED agent, NEW a \in Attempts, PerAttempt(a)',
           \A b \in Attempts \ {a} :
              /\ LessToAgent(b) /\ LessToController(b) /\ LessWork(b)
              /\ state'[b] = state[b]
    PROVE  AttemptInv'
<1> SUFFICES ASSUME NEW b \in Attempts \ {a} PROVE PerAttempt(b)'
    BY DEF AttemptInv
<1>1. PerAttempt(b)
    BY DEF AttemptInv
<1>2. /\ phase' = phase /\ meta' = meta /\ fenced' = fenced /\ reporting' = reporting
    BY DEF agent, registry, files
<1> QED
    BY <1>1, <1>2, ShrinkKept

(* Rows that are completed are past everything. *)
LEMMA CompleteState ==
    ASSUME TypeOK, NEW S, NEW o, CompleteAll(S, o), \A b \in S \cap Attempts : state[b] # "absent"
    PROVE  \A b \in Attempts : state'[b] = state[b] \/ (state[b] # "absent" /\ state'[b] \notin NotTold)
BY DEF CompleteAll, NotTold

(* An attempt advances. *)
LEMMA AdvanceState ==
    ASSUME TypeOK, NEW a \in Attempts, NEW s, state' = [state EXCEPT ![a] = s]
    PROVE  state'[a] = s /\ \A b \in Attempts \ {a} : state'[b] = state[b]
BY DEF TypeOK

(* The lease offer. *)
LEMMA InitiateAttempts ==
    ASSUME TypeOK, AttemptInv, NEW a \in Attempts, InitiateRemoteAttempt(a)
    PROVE  AttemptInv'
<1> DEFINE m == Frame("lease_offer", a, "none")
<1>1. /\ <<"dispatch", a>> \in work /\ work' = work \ {<<"dispatch", a>>} /\ ToAgent(m)
      /\ state' = [state EXCEPT ![a] = "leasing"] /\ toController' = toController
      /\ UNCHANGED agent
    BY DEF InitiateRemoteAttempt, Advance
<1>2. state'[a] = "leasing" /\ \A b \in Attempts \ {a} : state'[b] = state[b]
    BY <1>1, AdvanceState
<1>3. m \in Commands /\ m.a = a /\ m.type = "lease_offer"
    BY FrameTypes DEF Frame
<1>4. \A b \in Attempts \ {a} : LessToAgent(b)
    BY <1>1, <1>3, SendToAgent, TokenFields
<1>5. \A b \in Attempts : LessToController(b) /\ LessWork(b)
    BY <1>1, ReadToController DEF LessWork
<1>6. PerAttempt(a) /\ state[a] = "absent" /\ Untouched(a) /\ ~In(toAgent, Begin(a))
      /\ ~In(toController, Reject(a)) /\ ~Launched(a)
    BY <1>1 DEF AttemptInv, PerAttempt, OfferedOnce, ToldToRun
<1>7. /\ Once(toAgent', Begin(a)) /\ ~In(toAgent', Run(a))
  <2>1. toAgent \in Seq(Commands) /\ m \notin Run(a) /\ ~In(toAgent, Run(a))
      BY <1>3, <1>6, TokenFields DEF TypeOK, Launched
  <2>2. Once(toAgent, Begin(a))
      BY <1>6 DEF PerAttempt, OneHandshake
  <2>3. CASE toAgent' = toAgent
      BY <2>1, <2>2, <2>3
  <2>4. CASE toAgent' = Append(toAgent, m)
      BY <1>3, <1>6, <2>1, <2>2, <2>4, QueueAppend
  <2> QED
      BY <1>1, <2>3, <2>4 DEF ToAgent
<1>8. Untouched(a)' /\ ~In(toController', Reject(a)) /\ ~In(toController', Accept(a))
      /\ phase' = phase /\ meta' = meta /\ fenced' = fenced /\ reporting' = reporting
      /\ <<"fallback", a>> \notin work' /\ <<"dispatch", a>> \notin work'
  <2>1. phase' = phase /\ meta' = meta /\ fenced' = fenced /\ reporting' = reporting
      BY <1>1 DEF agent, registry, files
  <2>2. Untouched(a)'
      BY <1>1, <1>6, <2>1 DEF Untouched
  <2>3. ~In(toController, Accept(a))
      BY <1>6 DEF Untouched, In, Asked
  <2> QED
      BY <1>1, <1>6, <2>1, <2>2, <2>3 DEF Untouched
<1>9. PerAttempt(a)'
  <2> HIDE DEF m
  <2>1. OneHandshake(a)'
      BY <1>1, <1>6, <1>7, <1>8 DEF OneHandshake, PerAttempt
  <2>2. HandshakeFirst(a)' /\ OfferedOnce(a)' /\ Reportable(a)'
      BY <1>2, <1>6, <1>8 DEF HandshakeFirst, OfferedOnce, Untouched, Reportable, PerAttempt, Early
  <2>3. ToldToRun(a)'
      BY <1>1, <1>6, <1>7, <1>8 DEF ToldToRun, Launched
  <2> QED
      BY <2>1, <2>2, <2>3 DEF PerAttempt
<1> QED
    BY <1>1, <1>2, <1>4, <1>5, <1>9, OthersQuiet

(* The frame that is being handled says that the handshake is under way, and is
   the only sign of it. *)
LEMMA AcceptHandled ==
    ASSUME TypeOK, NEW a \in Attempts, PerAttempt(a), toController # <<>>, toController' = Tail(toController),
           Head(toController) \in Asked(a)
    PROVE  /\ ~Untouched(a) /\ ~In(toAgent, Offer(a)) /\ ~In(toController, Reject(a))
           /\ state[a] # "absent" /\ <<"dispatch", a>> \notin work
           /\ Head(toController) \in Accept(a) =>
                 /\ Underway(a) /\ ~In(toAgent, Begin(a)) /\ <<"fallback", a>> \notin work
                 /\ ~In(toController', Accept(a))
<1>1. toController \in Seq(Notices)
    BY DEF TypeOK
<1>2. In(toController, Asked(a))
    BY <1>1, QueueTail
<1>3. ~Untouched(a)
    BY <1>2 DEF Untouched
<1>4. ASSUME Head(toController) \in Accept(a)
      PROVE  In(toController, Accept(a)) /\ ~In(toController', Accept(a))
    BY <1>1, <1>4, QueueTail DEF PerAttempt, OneHandshake
<1> QED
    BY <1>3, <1>4 DEF PerAttempt, OfferedOnce, OneHandshake, Underway

(* Sending one command. *)
LEMMA SendOne ==
    ASSUME TypeOK, NEW a \in Attempts, NEW m \in Commands, m.a = a, ToAgent(m)
    PROVE  /\ \A b \in Attempts \ {a} : LessToAgent(b)
           /\ \A S : In(toAgent', S) => In(toAgent, S) \/ m \in S
           /\ \A S : Once(toAgent, S) /\ ~In(toAgent, S) => Once(toAgent', S)
<1>1. toAgent \in Seq(Commands)
    BY DEF TypeOK
<1>2. \A b \in Attempts \ {a} : LessToAgent(b)
    BY SendToAgent, TokenFields
<1>3. CASE toAgent' = toAgent
    BY <1>2, <1>3
<1>4. CASE toAgent' = Append(toAgent, m)
    BY <1>1, <1>2, <1>4, QueueAppend
<1> QED
    BY <1>3, <1>4 DEF ToAgent

(* prepare_source is the next step of a handshake that stays the only one. *)
LEMMA PrepareSent ==
    ASSUME TypeOK, AttemptInv, NEW a \in Attempts, NEW x \in {"full", "overlay"},
           ToAgent(Frame("prepare_source", a, x)),
           UNCHANGED agent,
           \A b \in Attempts : LessToController(b) /\ LessWork(b),
           \A b \in Attempts \ {a} : state'[b] = state[b],
           state'[a] = state[a] \/ (state[a] = "leasing" /\ state'[a] = "preparing_source"),
           state[a] # "absent",
           ~In(toController, Reject(a)), ~In(toAgent, Begin(a)), Underway(a),
           ~In(toController', Accept(a)), <<"fallback", a>> \notin work'
    PROVE  AttemptInv'
<1> DEFINE m == Frame("prepare_source", a, x)
<1>1. m \in Commands /\ m.a = a /\ m.type = "prepare_source"
    BY FrameTypes DEF Frame
<1>2. /\ \A b \in Attempts \ {a} : LessToAgent(b)
      /\ \A S : In(toAgent', S) => In(toAgent, S) \/ m \in S
      /\ \A S : Once(toAgent, S) /\ ~In(toAgent, S) => Once(toAgent', S)
    BY <1>1, SendOne
<1>3. /\ PerAttempt(a) /\ phase' = phase /\ meta' = meta /\ fenced' = fenced /\ reporting' = reporting
    BY DEF AttemptInv, agent, registry, files
<1>4. m \notin Offer(a) /\ m \notin Run(a)
    BY <1>1, TokenFields
<1>5. ~In(toAgent, Offer(a)) /\ Once(toAgent, Begin(a)) /\ Once(toController', Accept(a))
    BY <1>3 DEF In, Begin, PerAttempt, OneHandshake, LessToController
<1> HIDE DEF m
<1>6. OneHandshake(a)'
    BY <1>2, <1>5 DEF OneHandshake
<1>7. HandshakeFirst(a)'
    BY <1>3 DEF PerAttempt, HandshakeFirst
<1>8. ~In(toAgent', Offer(a)) /\ ~In(toController', Reject(a)) /\ <<"dispatch", a>> \notin work'
    BY <1>2, <1>3, <1>4, <1>5 DEF LessToController, LessWork, PerAttempt, OfferedOnce
<1>9. OfferedOnce(a)'
    BY <1>8 DEF OfferedOnce
<1>10. ToldToRun(a)'
  <2>1. Launched(a)' => Launched(a)
      BY <1>2, <1>3, <1>4 DEF Launched, LessToController
  <2> QED
      BY <1>3, <2>1 DEF PerAttempt, ToldToRun
<1>11. Reportable(a)'
    BY <1>3 DEF PerAttempt, Reportable
<1>12. PerAttempt(a)'
    BY <1>6, <1>7, <1>9, <1>10, <1>11 DEF PerAttempt
<1> QED
    BY <1>2, <1>12, OthersQuiet

(* lease_accept and source_need. *)
LEMMA AcceptAttempts ==
    ASSUME TypeOK, AttemptInv, NEW a \in Attempts, HandleLeaseAccept(a) \/ HandleSourceNeed(a)
    PROVE  AttemptInv'
<1>1. /\ toController # <<>> /\ toController' = Tail(toController) /\ UNCHANGED agent
      /\ Head(toController) \in Notices
      /\ Head(toController).a = a
      /\ \A b \in Attempts : LessToController(b)
      /\ PerAttempt(a)
    BY ReceivedHead, ReadToController DEF HandleLeaseAccept, HandleSourceNeed, Accepted, AttemptInv
<1>2. ASSUME CompleteAll({a}, "failed"), UNCHANGED <<toAgent, work>>, state[a] # "absent"
      PROVE  AttemptInv'
  <2>1. \A b \in Attempts : state'[b] = state[b] \/ (state[b] # "absent" /\ state'[b] \notin NotTold)
      BY <1>2, CompleteState
  <2>2. \A b \in Attempts : LessToAgent(b) /\ LessWork(b)
      BY <1>2, ReadToAgent DEF LessWork
  <2> QED
      BY <1>1, <2>1, <2>2, QuietStep
<1>3. CASE HandleLeaseAccept(a)
  <2>1. Head(toController).type = "lease_accept" /\ state[a] = "leasing" /\ UNCHANGED work
      BY <1>3, ReceivedHead DEF HandleLeaseAccept, Accepted, Expected
  <2>2. Head(toController) \in Accept(a) /\ Head(toController) \in Asked(a)
      BY <1>1, <2>1, NoticeFields DEF Accept, Asked
  <2>3. /\ ~In(toController, Reject(a)) /\ Underway(a) /\ ~In(toAgent, Begin(a))
        /\ <<"fallback", a>> \notin work /\ ~In(toController', Accept(a))
      BY <1>1, <2>2, AcceptHandled
  <2>4. CASE CompleteAll({a}, "failed") /\ UNCHANGED toAgent
      BY <1>2, <2>1, <2>4
  <2>5. CASE /\ Advance(a, "preparing_source")
             /\ ToAgent(Frame("prepare_source", a, IF a \in Overlay THEN "overlay" ELSE "full"))
    <3>1. state'[a] = "preparing_source" /\ \A b \in Attempts \ {a} : state'[b] = state[b]
        BY <2>5, AdvanceState DEF Advance
    <3>2. \A b \in Attempts : LessWork(b)
        BY <2>1 DEF LessWork
    <3>3. PICK x \in {"full", "overlay"} : ToAgent(Frame("prepare_source", a, x))
        BY <2>5
    <3> QED
        BY <1>1, <2>1, <2>3, <3>1, <3>2, <3>3, PrepareSent
  <2> QED
      BY <1>3, <2>4, <2>5 DEF HandleLeaseAccept
<1>4. CASE HandleSourceNeed(a)
  <2>1. Head(toController).type = "source_need" /\ state[a] = "preparing_source" /\ UNCHANGED toAgent
      BY <1>4, ReceivedHead DEF HandleSourceNeed, Accepted, Expected
  <2>2. PICK x \in {"bundle", "fallback"} : Head(toController) = Frame("source_need", a, x)
      BY <1>1, <2>1, NoticeFields
  <2>3. /\ Head(toController) \in Asked(a)
        /\ x = "fallback" => Head(toController) \in Accept(a)
        /\ Head(toController).x = x
      BY <2>2 DEF Accept, Asked, Frame
  <2>4. /\ ~In(toAgent, Offer(a)) /\ ~In(toController, Reject(a))
        /\ <<"dispatch", a>> \notin work
        /\ x = "fallback" => /\ Underway(a) /\ ~In(toAgent, Begin(a)) /\ ~In(toController', Accept(a))
      BY <1>1, <2>3, AcceptHandled
  <2>5. CASE CompleteAll({a}, "failed") /\ UNCHANGED work
      BY <1>2, <2>1, <2>5
  <2>6. CASE work' = work \cup {<<x, a>>} /\ UNCHANGED rows
    <3>1. \A b \in Attempts : LessToAgent(b)
        BY <2>1, ReadToAgent
    <3>2. \A b \in Attempts \ {a} : LessWork(b) /\ state'[b] = state[b]
        BY <2>6 DEF LessWork, rows
    <3>3. phase' = phase /\ meta' = meta /\ fenced' = fenced /\ reporting' = reporting /\ state' = state
        BY <1>1, <2>6 DEF agent, registry, files, rows
    <3>4. /\ <<"fallback", a>> \in work' => <<"fallback", a>> \in work \/ x = "fallback"
          /\ <<"dispatch", a>> \notin work'
        BY <2>4, <2>6
    <3>5. OneHandshake(a)'
        BY <1>1, <2>1, <2>4, <3>1, <3>4 DEF OneHandshake, PerAttempt, LessToController, LessToAgent
    <3>6. HandshakeFirst(a)'
        BY <1>1, <2>1, <2>4, <3>3, <3>4 DEF HandshakeFirst, Underway, PerAttempt, LessToController
    <3>7. OfferedOnce(a)'
        BY <1>1, <2>1, <2>4, <3>3, <3>4 DEF OfferedOnce, LessToController
    <3>8. ToldToRun(a)' /\ Reportable(a)'
        BY <1>1, <2>1, <3>3 DEF ToldToRun, Launched, Reportable, PerAttempt, LessToController
    <3>9. PerAttempt(a)'
        BY <3>5, <3>6, <3>7, <3>8 DEF PerAttempt
    <3> QED
        BY <1>1, <3>1, <3>2, <3>9, OthersQuiet
  <2> QED
      BY <1>4, <2>3, <2>5, <2>6 DEF HandleSourceNeed
<1> QED
    BY <1>3, <1>4

(* The source was prepared, or not. *)
LEMMA SourceAttempts ==
    ASSUME TypeOK, AttemptInv, NEW a \in Attempts, SourceProvided(a) \/ SourceFails(a)
    PROVE  AttemptInv'
<1>1. /\ UNCHANGED agent /\ toController' = toController
      /\ PerAttempt(a) /\ \A b \in Attempts : LessToController(b)
    BY ReadToController DEF SourceProvided, SourceFails, AttemptInv
<1>2. PICK k \in {"bundle", "fallback", "severed"} : <<k, a>> \in work /\ work' = work \ {<<k, a>>}
    BY DEF SourceProvided, SourceFails
<1>3. /\ ~Untouched(a) /\ \A b \in Attempts : LessWork(b)
    BY <1>2 DEF Untouched, LessWork
<1>4. state[a] # "absent" /\ ~In(toController, Reject(a)) /\ <<"dispatch", a>> \notin work
    BY <1>1, <1>3 DEF PerAttempt, OfferedOnce
<1>5. CASE SourceFails(a)
  <2>1. \A b \in Attempts : state'[b] = state[b] \/ (state[b] # "absent" /\ state'[b] \notin NotTold)
      BY <1>4, <1>5, CompleteState DEF SourceFails
  <2>2. \A b \in Attempts : LessToAgent(b)
      BY <1>5, ReadToAgent DEF SourceFails
  <2> QED
      BY <1>1, <1>3, <2>1, <2>2, QuietStep
<1>6. CASE SourceProvided(a) /\ UNCHANGED toAgent
  <2>1. \A b \in Attempts : LessToAgent(b) /\ state'[b] = state[b]
      BY <1>6, ReadToAgent DEF SourceProvided, rows
  <2> QED
      BY <1>1, <1>3, <2>1, QuietStep
<1>7. CASE SourceProvided(a) /\ ToAgent(Frame("bundle_download", a, "none"))
  <2>1. /\ Frame("bundle_download", a, "none") \in Commands
        /\ Frame("bundle_download", a, "none").type = "bundle_download"
      BY FrameTypes DEF Frame
  <2>2. \A b \in Attempts : Frame("bundle_download", a, "none") \notin Begin(b) \cup Run(b)
      BY <2>1, TokenFields
  <2>3. \A b \in Attempts : LessToAgent(b) /\ state'[b] = state[b]
      BY <1>7, <2>1, <2>2, SendToAgent DEF SourceProvided, rows
  <2> QED
      BY <1>1, <1>3, <2>3, QuietStep
<1>8. CASE SourceProvided(a) /\ <<"fallback", a>> \in work /\ work' = work \ {<<"fallback", a>>}
           /\ ToAgent(Frame("prepare_source", a, "full"))
  <2>1. Underway(a) /\ ~In(toAgent, Begin(a)) /\ ~In(toController', Accept(a)) /\ <<"fallback", a>> \notin work'
      BY <1>1, <1>8 DEF Underway, PerAttempt, OneHandshake
  <2>2. \A b \in Attempts : state'[b] = state[b]
      BY <1>8 DEF SourceProvided, rows
  <2> QED
      BY <1>1, <1>3, <1>4, <1>8, <2>1, <2>2, PrepareSent
<1> QED
    BY <1>5, <1>6, <1>7, <1>8 DEF SourceProvided

(* source_ready: the Agent is told to run, and the row says so. *)
LEMMA ReadyAttempts ==
    ASSUME TypeOK, AttemptInv, NEW a \in Attempts, HandleSourceReady(a)
    PROVE  AttemptInv'
<1> DEFINE m == Frame("run_job", a, "none")
<1>1. /\ toController # <<>> /\ toController' = Tail(toController) /\ UNCHANGED agent /\ UNCHANGED work
      /\ state[a] = "preparing_source" /\ state' = [state EXCEPT ![a] = "running"] /\ ToAgent(m)
      /\ PerAttempt(a)
    BY ReceivedHead DEF HandleSourceReady, Accepted, Expected, Advance, AttemptInv
<1>2. m \in Commands /\ m.a = a /\ m.type = "run_job"
    BY FrameTypes DEF Frame
<1>3. m \notin Begin(a) /\ m \notin Offer(a)
    BY <1>2, TokenFields
<1>4. /\ \A b \in Attempts \ {a} : LessToAgent(b)
      /\ \A S : In(toAgent', S) => In(toAgent, S) \/ m \in S
    BY <1>1, <1>2, SendOne
<1>5. Once(toAgent', Begin(a))
  <2>1. Once(toAgent, Begin(a)) /\ toAgent \in Seq(Commands)
      BY <1>1 DEF PerAttempt, OneHandshake, TypeOK
  <2> QED
      BY <1>1, <1>2, <1>3, <2>1, QueueAppend DEF ToAgent
<1>6. \A b \in Attempts : LessToController(b) /\ LessWork(b)
    BY <1>1, ReadToController DEF LessWork
<1>7. state'[a] = "running" /\ \A b \in Attempts \ {a} : state'[b] = state[b]
    BY <1>1, AdvanceState
<1>8. phase' = phase /\ meta' = meta /\ fenced' = fenced /\ reporting' = reporting
    BY <1>1 DEF agent, registry, files
<1>9. PerAttempt(a)'
  <2> HIDE DEF m
  <2>1. OneHandshake(a)'
      BY <1>1, <1>3, <1>4, <1>5, <1>6 DEF OneHandshake, PerAttempt, LessToController
  <2>2. HandshakeFirst(a)'
      BY <1>1, <1>3, <1>4, <1>6, <1>8 DEF HandshakeFirst, Underway, PerAttempt, LessToController
  <2>3. Untouched(a) => Untouched(a)'
      BY <1>1, <1>6, <1>8 DEF Untouched, LessToController
  <2>4. OfferedOnce(a)'
      BY <1>1, <1>3, <1>4, <1>6, <1>7, <2>3 DEF OfferedOnce, PerAttempt, LessToController
  <2>5. ToldToRun(a)' /\ Reportable(a)'
      BY <1>1, <1>7, <1>8 DEF ToldToRun, Reportable, PerAttempt
  <2> QED
      BY <2>1, <2>2, <2>4, <2>5 DEF PerAttempt
<1> QED
    BY <1>1, <1>4, <1>6, <1>7, <1>9, OthersQuiet

(* The other handlers begin nothing. *)
LEMMA HandlesAttempts ==
    ASSUME TypeOK, AttemptInv, NEW a \in Attempts, ControllerHandles(a)
    PROVE  AttemptInv'
<1>1. CASE HandleLeaseAccept(a) \/ HandleSourceNeed(a)
    BY <1>1, AcceptAttempts
<1>2. CASE HandleSourceReady(a)
    BY <1>2, ReadyAttempts
<1>3. CASE \/ HandleLeaseReject(a) \/ HandleJobStarted(a) \/ HandleJobExit(a)
           \/ HandleArtifactManifest(a) \/ HandleCleanupComplete(a) \/ HandleRecoveryReport(a)
  <2> USE <1>3 DEF HandleLeaseReject, HandleJobStarted, HandleJobExit, HandleArtifactManifest,
          HandleCleanupComplete, HandleRecoveryReport, Accepted
  <2>1. UNCHANGED agent /\ toController # <<>> /\ toController' = Tail(toController)
      BY ReceivedHead
  <2>2. \A b \in Attempts : LessToController(b)
      BY <2>1, ReadToController
  <2>3. \A b \in Attempts : LessWork(b)
      BY DEF LessWork
  <2>4. \A b \in Attempts : LessToAgent(b)
    <3>1. \/ UNCHANGED toAgent
          \/ \E x \in {"adopt", "terminate"} : ToAgent(Frame("reconcile_decision", a, x))
        BY DEF Defer, Adopt, TerminateStale
    <3>2. ASSUME NEW x \in {"adopt", "terminate"}, ToAgent(Frame("reconcile_decision", a, x)),
                 NEW b \in Attempts
          PROVE  LessToAgent(b)
      <4>1. Frame("reconcile_decision", a, x) \in Commands
            /\ Frame("reconcile_decision", a, x).type = "reconcile_decision"
          BY FrameTypes DEF Frame
      <4>2. Frame("reconcile_decision", a, x) \notin Begin(b) \cup Run(b)
          BY <4>1, TokenFields
      <4> QED
          BY <3>2, <4>1, <4>2, SendToAgent
    <3> QED
        BY <3>1, <3>2, ReadToAgent
  <2>5. \A b \in Attempts : state'[b] = state[b] \/ (state[b] # "absent" /\ state'[b] \notin NotTold)
    <3>1. \/ UNCHANGED state
          \/ state[a] # "absent" /\ \E o : CompleteAll({a}, o)
          \/ /\ state[a] # "absent"
             /\ \E s \in {"completed", "collecting_artifacts", "running"} :
                   state' = [state EXCEPT ![a] = s]
        BY DEF Expected, Defer, Adopt, TerminateStale, Active, rows, Advance
    <3>2. CASE UNCHANGED state
        BY <3>2
    <3>3. CASE state[a] # "absent" /\ \E o : CompleteAll({a}, o)
        BY <3>3, CompleteState
    <3>4. CASE /\ state[a] # "absent"
               /\ \E s \in {"completed", "collecting_artifacts", "running"} :
                     state' = [state EXCEPT ![a] = s]
        BY <3>4, AdvanceState DEF NotTold
    <3> QED
        BY <3>1, <3>2, <3>3, <3>4
  <2> QED
      BY <2>1, <2>2, <2>3, <2>4, <2>5, QuietStep
<1> QED
    BY <1>1, <1>2, <1>3 DEF ControllerHandles

(* What was awaited. *)
LEMMA SettlesAttempts ==
    ASSUME TypeOK, AttemptInv, NEW a \in Attempts, ControllerSettles(a) \/ DispatchJob(a)
    PROVE  AttemptInv'
<1>1. CASE InitiateRemoteAttempt(a)
    BY <1>1, InitiateAttempts
<1>2. CASE SourceProvided(a) \/ SourceFails(a)
    BY <1>2, SourceAttempts
<1>3. CASE NoAgentSelected(a) \/ GrantUpload(a) \/ CompleteCleanup(a)
  <2> USE <1>3 DEF NoAgentSelected, GrantUpload, CompleteCleanup
  <2>1. UNCHANGED agent /\ toController' = toController
      OBVIOUS
  <2>2. \A b \in Attempts : LessToController(b) /\ LessWork(b)
      BY <2>1, ReadToController DEF LessWork
  <2>3. \A b \in Attempts : LessToAgent(b)
    <3>1. CASE UNCHANGED toAgent
        BY <3>1, ReadToAgent
    <3>2. CASE ToAgent(Frame("artifact_upload_grant", a, "none"))
      <4>1. Frame("artifact_upload_grant", a, "none") \in Commands
            /\ Frame("artifact_upload_grant", a, "none").type = "artifact_upload_grant"
          BY FrameTypes DEF Frame
      <4>2. \A b \in Attempts : Frame("artifact_upload_grant", a, "none") \notin Begin(b) \cup Run(b)
          BY <4>1, TokenFields
      <4> QED
          BY <3>2, <4>1, <4>2, SendToAgent
    <3> QED
        BY <3>1, <3>2
  <2>4. \A b \in Attempts : state'[b] = state[b] \/ (state[b] # "absent" /\ state'[b] \notin NotTold)
    <3>1. UNCHANGED state \/ (state[a] # "absent" /\ \E o : CompleteAll({a}, o))
        BY DEF FinishJob, rows, Expected
    <3> QED
        BY <3>1, CompleteState
  <2> QED
      BY <2>1, <2>2, <2>3, <2>4, QuietStep
<1>4. CASE DispatchJob(a)
  <2>1. /\ UNCHANGED agent /\ UNCHANGED rows /\ toController' = toController /\ toAgent' = toAgent
        /\ work' = work \cup {<<"dispatch", a>>} /\ state[a] = "absent"
      BY <1>4 DEF DispatchJob
  <2>2. \A b \in Attempts \ {a} :
           LessToAgent(b) /\ LessToController(b) /\ LessWork(b) /\ state'[b] = state[b]
      BY <2>1, ReadToAgent, ReadToController DEF LessWork, rows
  <2>3. phase' = phase /\ meta' = meta /\ fenced' = fenced /\ reporting' = reporting /\ state' = state
      BY <2>1 DEF agent, registry, files, rows
  <2>4. <<"fallback", a>> \in work' <=> <<"fallback", a>> \in work
      BY <2>1
  <2>5. Untouched(a) => Untouched(a)'
      BY <2>1, <2>3 DEF Untouched
  <2>6. PerAttempt(a)
      BY DEF AttemptInv
  <2>7. PerAttempt(a)'
      BY <2>1, <2>3, <2>4, <2>5, <2>6 DEF PerAttempt, OneHandshake, HandshakeFirst, Underway, OfferedOnce,
         ToldToRun, Launched, Reportable
  <2> QED
      BY <2>1, <2>2, <2>7, OthersQuiet
<1> QED
    BY <1>1, <1>2, <1>3, <1>4 DEF ControllerSettles

(* The recovery timers, the lease sweep and a cancellation. *)
LEMMA TimersAttempts ==
    ASSUME TypeOK, AttemptInv, CurrentIsOfJob,
           \/ \E a \in Attempts : TimerFires(a) \/ ExpireStaleLease(a)
           \/ \E j \in Jobs : CancelJob(j)
    PROVE  AttemptInv'
<1> USE DEF TimerFires, OnGraceElapsed, OnOrphanTimeout, OnReconcileDeadline, ExpireStaleLease,
        CancelJob
<1>1. UNCHANGED agent /\ UNCHANGED work /\ UNCHANGED toController
    OBVIOUS
<1>2. \A b \in Attempts : LessToController(b) /\ LessWork(b)
    BY <1>1, ReadToController DEF LessWork
<1>3. \A b \in Attempts : LessToAgent(b)
  <2>1. CASE UNCHANGED toAgent
      BY <2>1, ReadToAgent
  <2>2. ASSUME NEW j \in Jobs, RequestRemoteJobCancel(j), current[j] # NoAttempt, NEW b \in Attempts
        PROVE  LessToAgent(b)
    <3>1. current[j] \in Attempts
        BY <2>2 DEF TypeOK
    <3>2. Frame("cancel_job", current[j], "none") \in Commands
          /\ Frame("cancel_job", current[j], "none").type = "cancel_job"
        BY <3>1, FrameTypes DEF Frame
    <3>3. Frame("cancel_job", current[j], "none") \notin Begin(b) \cup Run(b)
        BY <3>2, TokenFields
    <3> QED
        BY <2>2, <3>2, <3>3, SendToAgent DEF RequestRemoteJobCancel
  <2> QED
      BY <2>1, <2>2
<1>4. \A b \in Attempts : state'[b] = state[b] \/ (state[b] # "absent" /\ state'[b] \notin NotTold)
  <2>1. \/ UNCHANGED state
        \/ \E a \in Attempts : Active(a) /\ state' = [state EXCEPT ![a] = "orphaned"]
        \/ \E a \in Attempts : Active(a) /\ \E o : CompleteAll({a}, o)
        \/ \E j \in Jobs : current[j] # NoAttempt /\ CompleteAll({current[j]}, "cancelled")
      BY DEF rows, RequestRemoteJobCancel, FinishJob, Active
  <2>2. CASE UNCHANGED state
      BY <2>2
  <2>3. CASE \E a \in Attempts : Active(a) /\ state' = [state EXCEPT ![a] = "orphaned"]
      BY <2>3, AdvanceState DEF Active, NotTold
  <2>4. CASE \E a \in Attempts : Active(a) /\ \E o : CompleteAll({a}, o)
      BY <2>4, CompleteState DEF Active
  <2>5. CASE \E j \in Jobs : current[j] # NoAttempt /\ CompleteAll({current[j]}, "cancelled")
      BY <2>5, CompleteState DEF CurrentIsOfJob
  <2> QED
      BY <2>1, <2>2, <2>3, <2>4, <2>5
<1> QED
    BY <1>1, <1>2, <1>3, <1>4, QuietStep

(* The connection and the Controller itself. *)
LEMMA SessionAttempts ==
    ASSUME TypeOK, AttemptInv,
           IgnoreStale \/ HandleCapabilities \/ ControllerDrops \/ ControllerRestarts
    PROVE  AttemptInv'
<1>1. /\ UNCHANGED agent /\ (work' = work \/ work' = {})
      /\ toAgent' = toAgent \/ toAgent' = <<>>
      /\ (toController # <<>> /\ toController' = Tail(toController)) \/ toController' = <<>>
    BY DEF IgnoreStale, HandleCapabilities, ControllerDrops, ControllerRestarts, Received, controller
<1>2. \A b \in Attempts : LessToAgent(b) /\ LessToController(b) /\ LessWork(b)
    BY <1>1, ReadToAgent, ReadToController DEF LessWork
<1>3. \A b \in Attempts : state'[b] = state[b] \/ (state[b] # "absent" /\ state'[b] \notin NotTold)
  <2>1. \/ UNCHANGED state
        \/ \E S \in SUBSET Attempts : (\A b \in S : state[b] # "absent") /\ \E o : CompleteAll(S, o)
    <3>1. CASE HandleCapabilities
        BY <3>1 DEF HandleCapabilities, Active
    <3>2. CASE ControllerDrops
      <4> DEFINE S == {a \in Attempts : PreStart(a)}
      <4>1. CompleteAll(S, "failed") /\ \A b \in S : state[b] # "absent"
          BY <3>2 DEF ControllerDrops, OnAgentDisconnect, PreStart
      <4> QED
          BY <4>1
    <3> QED
        BY <3>1, <3>2 DEF IgnoreStale, ControllerRestarts, controller, rows
  <2> QED
      BY <2>1, CompleteState
<1> QED
    BY <1>1, <1>2, <1>3, QuietStep

-----------------------------------------------------------------------------
(* The Agent's steps for one attempt. *)

Settled(a) == phase[a] \in {"none", "reserved", "escalated"} /\ a \notin fenced /\ meta[a] # "completed"

Unknown(a) == phase[a] = "none" /\ meta[a] = "none" /\ a \notin fenced

(* What shows on the Agent that it was told to run the attempt. *)
Told(a) ==
    \/ phase[a] \in {"starting", "running", "expired", "exited", "granting", "cleaning", "resuming",
                     "resumed"}
    \/ a \in fenced \/ meta[a] = "completed" \/ reporting[a] \in {"live", "completed"}

(* The attempt's part of the invariant, when only the Agent's side of it moves and
   no frame of the handshake is sent. *)
LEMMA MoveKept ==
    ASSUME NEW a \in Attempts, PerAttempt(a), LessToAgent(a), LessToController(a),
           UNCHANGED controller,
           Settled(a) => Settled(a)', Unknown(a) => Unknown(a)', Told(a)' => Launched(a),
           Reportable(a) => Reportable(a)'
    PROVE  PerAttempt(a)'
<1>1. work' = work /\ state' = state
    BY DEF controller, rows
<1> USE DEF LessToAgent, LessToController
<1>2. OneHandshake(a)'
    BY <1>1 DEF PerAttempt, OneHandshake
<1>3. HandshakeFirst(a)'
  <2>1. Underway(a)' => Underway(a)
      BY <1>1 DEF Underway
  <2>2. Underway(a) => Settled(a)
      BY DEF PerAttempt, HandshakeFirst, Settled
  <2> QED
      BY <2>1, <2>2 DEF HandshakeFirst, Settled
<1>4. Untouched(a) => Untouched(a)'
    BY <1>1 DEF Untouched, Unknown
<1>5. OfferedOnce(a)'
    BY <1>1, <1>4 DEF PerAttempt, OfferedOnce
<1>6. ToldToRun(a)'
  <2>1. Launched(a)' => Launched(a)
      BY DEF Launched, Told
  <2> QED
      BY <1>1, <2>1 DEF PerAttempt, ToldToRun
<1>7. Reportable(a)'
    BY DEF PerAttempt
<1> QED
    BY <1>2, <1>3, <1>5, <1>6, <1>7 DEF PerAttempt

(* The other attempts are not concerned. *)
LEMMA AgentOthers ==
    ASSUME TypeOK, AttemptInv, NEW a \in Attempts, AgentStep(a), NEW b \in Attempts, b # a
    PROVE  PerAttempt(b)'
<1>1. PerAttempt(b) /\ LessToAgent(b)
    BY AgentQueues, ReadToAgent DEF AttemptInv
<1>2. LessToController(b)
  <2>1. CASE toController' = toController \/ \E ms \in PlainSeq(a) : ToController(ms)
      BY <2>1, ReadToController, SendPlain
  <2>2. ASSUME NEW m \in Notices, m.a = a, ToController(<<m>>) PROVE LessToController(b)
      BY <2>2, SendOther
  <2>3. \A t, x : Frame(t, a, x).a = a
      BY DEF Frame
  <2>4. /\ \A t \in {"lease_accept", "lease_reject"} : Frame(t, a, "none") \in Notices
        /\ \A x \in {"bundle", "fallback"} : Frame("source_need", a, x) \in Notices
        /\ \A x \in {"live", "completed"} : Frame("recovery_report", a, x) \in Notices
      BY FrameTypes
  <2> QED
      BY <2>1, <2>2, <2>3, <2>4, AgentQueues
<1>3. work' = work /\ state' = state
    BY AgentFrame DEF controller, rows
<1>4. /\ phase'[b] = phase[b] /\ meta'[b] = meta[b] /\ (b \in fenced' <=> b \in fenced)
      /\ reporting'[b] = reporting[b]
  <2>1. /\ phase' = phase \/ \E p \in Phases : phase' = [phase EXCEPT ![a] = p]
        /\ meta' = meta \/ \E m \in Metas : meta' = [meta EXCEPT ![a] = m]
        /\ fenced' = fenced \/ fenced' = fenced \cup {a}
        /\ reporting' = reporting \/ reporting' = [reporting EXCEPT ![a] = "none"]
      BY AgentFrame
  <2>2. phase'[b] = phase[b]
      BY <2>1 DEF TypeOK
  <2>3. meta'[b] = meta[b]
      BY <2>1 DEF TypeOK
  <2>4. reporting'[b] = reporting[b]
      BY <2>1 DEF TypeOK
  <2> QED
      BY <2>1, <2>2, <2>3, <2>4
<1>5. LessWork(b)
    BY <1>3 DEF LessWork
<1> QED
    BY <1>1, <1>2, <1>3, <1>4, <1>5, ShrinkKept

(* Ending an attempt, or taking it out of the registry, on the Agent. *)
LEMMA EndMoves ==
    ASSUME TypeOK, NEW a \in Attempts, fenced' = fenced,
           meta' = [meta EXCEPT ![a] = "none"],
           phase' = [phase EXCEPT ![a] = "none"] \/ phase' = [phase EXCEPT ![a] = Abandoned(phase[a])],
           reporting' = reporting \/ reporting' = [reporting EXCEPT ![a] = "none"]
    PROVE  /\ Settled(a) => Settled(a)'
           /\ Unknown(a) => Unknown(a)'
           /\ Told(a)' => Launched(a)
           /\ Reportable(a) => Reportable(a)'
<1>1. meta'[a] = "none" /\ (phase'[a] = "none" \/ phase'[a] = Abandoned(phase[a]))
      /\ (reporting'[a] = reporting[a] \/ reporting'[a] = "none")
    BY DEF TypeOK
<1>2. /\ Abandoned(phase[a]) \in {"none", "zombiePrepare", "zombieRun"}
      /\ phase[a] \in {"none", "reserved", "escalated"} => Abandoned(phase[a]) = "none"
    BY DEF Abandoned
<1> QED
    BY <1>1, <1>2 DEF Settled, Unknown, Told, Launched, Reportable, Early

(* What a step does to its own attempt on the Agent, unless it takes a frame of
   the handshake. *)
LEMMA AgentMoves ==
    ASSUME TypeOK, NEW a \in Attempts, AgentStep(a), PerAttempt(a),
           ~HandleLeaseOffer(a), ~HandlePrepareSource(a), ~HandleBundleDownload(a), ~BundleTimesOut(a)
    PROVE  /\ Settled(a) => Settled(a)'
           /\ Unknown(a) => Unknown(a)'
           /\ Told(a)' => Launched(a)
           /\ Reportable(a) => Reportable(a)'
<1> DEFINE Kept == /\ Settled(a) => Settled(a)'
                   /\ Unknown(a) => Unknown(a)'
                   /\ Told(a)' => Launched(a)
                   /\ Reportable(a) => Reportable(a)'
<1>1. ASSUME NEW o, EndAttempt(a, o), UNCHANGED <<fenced, reporting>> PROVE Kept
    BY <1>1, EndMoves DEF EndAttempt, SetPhase, SetMeta
<1>2. ASSUME Terminate(a), fenced' = fenced,
             reporting' = reporting \/ reporting' = [reporting EXCEPT ![a] = "none"]
      PROVE  Kept
    BY <1>2, EndMoves DEF Terminate, SetMeta
<1>3. \A s : meta' = [meta EXCEPT ![a] = s] => meta'[a] = s
    BY DEF TypeOK
<1>4. \A p : phase' = [phase EXCEPT ![a] = p] => phase'[a] = p
    BY DEF TypeOK
<1>5. CASE AgentHandles(a)
  <2>1. CASE HandleRunJob(a)
    <3>1. In(toAgent, Run(a))
      <4>1. Head(toAgent) \in Run(a) /\ toAgent # <<>>
          BY <2>1, CommandHead, CommandFields DEF HandleRunJob, Run
      <4> QED
          BY <4>1, QueueTail DEF TypeOK
    <3>2. /\ UNCHANGED <<meta, fenced, reporting>>
          /\ (phase[a] = "ready" /\ phase'[a] = "starting") \/ phase'[a] = phase[a]
        BY <1>4, <2>1 DEF HandleRunJob, SetPhase, files
    <3> QED
        BY <3>1, <3>2 DEF Settled, Unknown, Told, Launched, Reportable, Early
  <2>2. CASE HandleArtifactUploadGrant(a)
    <3>1. /\ UNCHANGED <<meta, fenced, reporting>>
          /\ \/ phase[a] = "granting" /\ phase'[a] = "cleaning"
             \/ phase[a] = "resuming" /\ phase'[a] = "resumed"
             \/ phase'[a] = phase[a]
        BY <1>4, <2>2 DEF HandleArtifactUploadGrant, files, TypeOK
    <3> QED
        BY <3>1 DEF Settled, Unknown, Told, Launched, Reportable, Early
  <2>3. CASE HandleCancelJob(a)
    <3>1. UNCHANGED <<fenced, reporting>> /\ (UNCHANGED <<phase, meta>> \/ EndAttempt(a, "cancelled"))
        BY <2>3 DEF HandleCancelJob
    <3> QED
        BY <1>1, <3>1 DEF Settled, Unknown, Told, Launched, Reportable
  <2>4. CASE HandleReconcileDecision(a)
    <3>1. CASE Terminate(a)
        BY <1>2, <2>4, <3>1 DEF HandleReconcileDecision
    <3>2. CASE ~Terminate(a)
      <4>1. /\ UNCHANGED <<fenced, reporting>>
            /\ \/ phase'[a] = phase[a]
               \/ meta[a] = "completed" /\ phase[a] \in {"none", "resumed"} /\ phase'[a] = "resuming"
            /\ meta'[a] = IF meta[a] \in {"none", "completed"} THEN meta[a] ELSE "running"
          BY <1>3, <1>4, <2>4, <3>2 DEF HandleReconcileDecision, ResumeUpload, SetPhase
      <4> QED
          BY <4>1 DEF Settled, Unknown, Told, Launched, Reportable, Early
    <3> QED
        BY <3>1, <3>2
  <2> QED
      BY <1>5, <2>1, <2>2, <2>3, <2>4 DEF AgentHandles
<1>6. CASE AgentWorks(a)
  <2>1. CASE RequestBundle(a) \/ CleanupEnds(a) \/ ZombieEnds(a) \/ SelfTerminated(a)
    <3>1. /\ UNCHANGED <<meta, fenced, reporting>>
          /\ \/ phase[a] = "overlaying" /\ phase'[a] = "awaiting"
             \/ phase'[a] = "none"
        BY <1>4, <2>1 DEF RequestBundle, CleanupEnds, ZombieEnds, SelfTerminated, SetPhase, files
    <3> QED
        BY <3>1 DEF Settled, Unknown, Told, Launched, Reportable, Early
  <2>2. CASE PrepareEnds(a) \/ StartFails(a)
    <3>1. /\ UNCHANGED <<fenced, reporting>>
          /\ \/ phase[a] \in {"preparing", "overlaying"} /\ phase'[a] = "ready" /\ UNCHANGED meta
             \/ \E o : EndAttempt(a, o)
        BY <1>4, <2>2 DEF PrepareEnds, StartFails, SetPhase
    <3> QED
        BY <1>1, <3>1 DEF Settled, Unknown, Told, Launched, Reportable, Early
  <2>3. CASE SpawnJobScript(a)
    <3>1. /\ UNCHANGED reporting /\ phase[a] = "starting" /\ phase'[a] = "running"
          /\ \/ UNCHANGED <<meta, fenced>>
             \/ meta'[a] = "running"
        BY <1>3, <1>4, <2>3 DEF SpawnJobScript, SetPhase, SetMeta
    <3> QED
        BY <3>1 DEF Settled, Unknown, Told, Launched, Reportable, Early
  <2>4. CASE ProcessExits(a)
    <3>1. /\ UNCHANGED <<fenced, reporting>> /\ phase[a] = "running" /\ phase'[a] = "exited"
        BY <1>4, <2>4 DEF ProcessExits, SetPhase
    <3> QED
        BY <3>1 DEF Settled, Unknown, Told, Launched, Reportable, Early
  <2>5. CASE CollectArtifacts(a) \/ GrantTimesOut(a)
    <3>1. /\ UNCHANGED <<fenced, reporting>>
          /\ \/ phase[a] = "exited" /\ phase'[a] = "granting"
             \/ phase[a] = "resuming" /\ phase'[a] = "resumed"
             \/ \E o : EndAttempt(a, o)
        BY <1>4, <2>5 DEF CollectArtifacts, GrantTimesOut, SetPhase
    <3> QED
        BY <1>1, <3>1 DEF Settled, Unknown, Told, Launched, Reportable, Early
  <2> QED
      BY <1>6, <2>1, <2>2, <2>3, <2>4, <2>5 DEF AgentWorks
<1>7. CASE SelfTerminate(a)
  <2>1. /\ UNCHANGED <<fenced, reporting>> /\ meta'[a] = "terminal" /\ phase[a] # "none"
        /\ phase'[a] = IF phase[a] = "running" THEN "expired" ELSE phase[a]
      BY <1>3, <1>4, <1>7 DEF SelfTerminate, SetMeta, Offered, Registered
  <2> QED
      BY <2>1 DEF Settled, Unknown, Told, Launched, Reportable, Early
<1>8. CASE EmitRecoveryReport(a)
  <2>1. CASE reporting[a] = "unfenced"
      BY <1>2, <1>8, <2>1 DEF EmitRecoveryReport
  <2>2. CASE reporting[a] # "unfenced"
    <3>1. UNCHANGED <<phase, meta, fenced>> /\ reporting'[a] = "none"
        BY <1>8, <2>2 DEF EmitRecoveryReport, TypeOK
    <3> QED
        BY <3>1 DEF Settled, Unknown, Told, Launched, Reportable
  <2> QED
      BY <2>1, <2>2
<1> QED
    BY <1>5, <1>6, <1>7, <1>8 DEF AgentStep

(* Sending one notice. *)
LEMMA NotifyOne ==
    ASSUME TypeOK, NEW m \in Notices, ToController(<<m>>)
    PROVE  /\ \A S : In(toController', S) => In(toController, S) \/ m \in S
           /\ \A S : Once(toController, S) /\ (m \in S => ~In(toController, S)) => Once(toController', S)
<1>1. toController \in Seq(Notices)
    BY DEF TypeOK
<1>2. CASE toController' = toController
    BY <1>2
<1>3. CASE toController' = toController \o <<m>>
  <2>1. toController' = Append(toController, m)
      BY <1>1, <1>3
  <2> QED
      BY <1>1, <2>1, QueueAppend
<1> QED
    BY <1>2, <1>3 DEF ToController

(* The lease offer is taken, and accepted, refused or ignored. *)
LEMMA OfferAttempts ==
    ASSUME TypeOK, NEW a \in Attempts, PerAttempt(a), HandleLeaseOffer(a)
    PROVE  PerAttempt(a)'
<1>1. /\ toAgent # <<>> /\ toAgent' = Tail(toAgent) /\ Head(toAgent) \in Offer(a)
      /\ toAgent \in Seq(Commands)
  <2>1. /\ toAgent # <<>> /\ toAgent' = Tail(toAgent) /\ Head(toAgent) \in Commands
        /\ Head(toAgent).type = "lease_offer" /\ Head(toAgent).a = a
      BY CommandHead DEF HandleLeaseOffer
  <2>2. Head(toAgent) = Frame("lease_offer", a, "none")
      BY <2>1, CommandFields
  <2> QED
      BY <2>1, <2>2 DEF Offer, TypeOK
<1>2. /\ In(toAgent, Offer(a)) /\ In(toAgent, Begin(a)) /\ ~In(toAgent', Begin(a)) /\ LessToAgent(a)
  <2>1. Head(toAgent) \in Begin(a) /\ Once(toAgent, Begin(a))
      BY <1>1 DEF Begin, PerAttempt, OneHandshake
  <2> QED
      BY <1>1, <2>1, QueueTail, ReadToAgent
<1>3. /\ Untouched(a) /\ ~In(toController, Reject(a)) /\ state[a] # "absent"
      /\ <<"dispatch", a>> \notin work /\ ~In(toController, Accept(a)) /\ <<"fallback", a>> \notin work
    BY <1>2 DEF PerAttempt, OfferedOnce, OneHandshake
<1>4. /\ work' = work /\ state' = state /\ UNCHANGED controller
    BY DEF HandleLeaseOffer, controller, rows
<1>5. CASE UNCHANGED <<agent, toController>>
  <2>1. LessToController(a) /\ LessWork(a)
      BY <1>4, <1>5, ReadToController DEF LessWork
  <2>2. phase' = phase /\ meta' = meta /\ fenced' = fenced /\ reporting' = reporting
      BY <1>5 DEF agent, registry, files
  <2> QED
      BY <1>2, <1>4, <2>1, <2>2, ShrinkKept
<1>6. CASE ToController(<<Frame("lease_reject", a, "none")>>) /\ UNCHANGED agent
  <2> DEFINE m == Frame("lease_reject", a, "none")
  <2>1. m \in Notices /\ m.type = "lease_reject"
      BY FrameTypes DEF Frame
  <2>2. m \notin Accept(a) /\ m \notin Asked(a) /\ m \notin Report(a)
      BY <2>1, TokenFields DEF Asked
  <2>3. /\ \A S : In(toController', S) => In(toController, S) \/ m \in S
        /\ \A S : Once(toController, S) /\ (m \in S => ~In(toController, S)) => Once(toController', S)
      BY <1>6, <2>1, NotifyOne
  <2>4. phase' = phase /\ meta' = meta /\ fenced' = fenced /\ reporting' = reporting
      BY <1>6 DEF agent, registry, files
  <2> HIDE DEF m
  <2>5. Untouched(a)'
      BY <1>3, <1>4, <2>2, <2>3, <2>4 DEF Untouched
  <2>6. OneHandshake(a)'
      BY <1>2, <1>3, <1>4, <2>2, <2>3 DEF OneHandshake, PerAttempt, LessToAgent
  <2>7. HandshakeFirst(a)' /\ Reportable(a)'
      BY <2>4, <2>5 DEF HandshakeFirst, Untouched, Reportable, PerAttempt
  <2>8. OfferedOnce(a)'
      BY <1>2, <1>3, <1>4, <2>5 DEF OfferedOnce
  <2>9. ToldToRun(a)'
      BY <1>2, <1>4, <2>2, <2>3, <2>4 DEF ToldToRun, Launched, PerAttempt, LessToAgent
  <2> QED
      BY <2>6, <2>7, <2>8, <2>9 DEF PerAttempt
<1>7. CASE /\ SetPhase(a, "reserved") /\ SetMeta(a, "accepted")
           /\ ToController(<<Frame("lease_accept", a, "none")>>)
           /\ UNCHANGED <<cancelled, rejected, reporting, fenced, exit, result>>
  <2> DEFINE m == Frame("lease_accept", a, "none")
  <2>1. m \in Notices /\ m.type = "lease_accept"
      BY FrameTypes DEF Frame
  <2>2. m \notin Reject(a) /\ m \notin Report(a)
      BY <2>1, TokenFields
  <2>3. /\ \A S : In(toController', S) => In(toController, S) \/ m \in S
        /\ \A S : Once(toController, S) /\ (m \in S => ~In(toController, S)) => Once(toController', S)
      BY <1>7, <2>1, NotifyOne
  <2>4. phase'[a] = "reserved" /\ meta'[a] = "accepted" /\ fenced' = fenced /\ reporting' = reporting
      BY <1>7 DEF SetPhase, SetMeta, TypeOK
  <2> HIDE DEF m
  <2>5. OneHandshake(a)'
      BY <1>2, <1>3, <1>4, <2>3 DEF OneHandshake, PerAttempt, LessToAgent
  <2>6. HandshakeFirst(a)' /\ Reportable(a)'
      BY <1>3, <2>4 DEF HandshakeFirst, Untouched, Reportable
  <2>7. ~In(toAgent', Offer(a)) /\ ~In(toController', Reject(a))
      BY <1>2, <1>3, <2>2, <2>3 DEF In, Begin
  <2>8. OfferedOnce(a)'
      BY <1>3, <1>4, <2>7 DEF OfferedOnce
  <2>9. ToldToRun(a)'
      BY <1>2, <1>4, <2>2, <2>3, <2>4 DEF ToldToRun, Launched, PerAttempt, LessToAgent
  <2> QED
      BY <2>5, <2>6, <2>8, <2>9 DEF PerAttempt
<1> QED
    BY <1>5, <1>6, <1>7 DEF HandleLeaseOffer

(* prepare_source is taken: the handshake is over. *)
LEMMA PrepareAttempts ==
    ASSUME TypeOK, NEW a \in Attempts, PerAttempt(a), HandlePrepareSource(a)
    PROVE  PerAttempt(a)'
<1>1. /\ toAgent # <<>> /\ toAgent' = Tail(toAgent) /\ Head(toAgent) \in Prepare(a)
      /\ toAgent \in Seq(Commands)
    BY CommandHead, CommandFields DEF HandlePrepareSource, Prepare, TypeOK
<1>2. /\ In(toAgent, Begin(a)) /\ ~In(toAgent', Begin(a)) /\ LessToAgent(a)
  <2>1. Head(toAgent) \in Begin(a) /\ Once(toAgent, Begin(a))
      BY <1>1 DEF Begin, PerAttempt, OneHandshake
  <2> QED
      BY <1>1, <2>1, QueueTail, ReadToAgent
<1>3. /\ work' = work /\ state' = state /\ toController' = toController
      /\ meta' = meta /\ fenced' = fenced /\ reporting' = reporting
    BY DEF HandlePrepareSource, controller, rows, files
<1>4. /\ Settled(a) /\ ~In(toController', Accept(a)) /\ <<"fallback", a>> \notin work'
    BY <1>2, <1>3 DEF PerAttempt, HandshakeFirst, Underway, Settled, OneHandshake
<1>5. phase'[a] = phase[a] \/ (phase[a] # "none" /\ phase'[a] \in {"preparing", "overlaying"})
    BY DEF HandlePrepareSource, SetPhase, Offered, Registered, TypeOK
<1>6. OneHandshake(a)' /\ HandshakeFirst(a)'
    BY <1>2, <1>3, <1>4 DEF OneHandshake, HandshakeFirst, Underway, PerAttempt, LessToAgent
<1>7. Untouched(a) => Untouched(a)'
    BY <1>3, <1>5 DEF Untouched
<1>8. OfferedOnce(a)'
    BY <1>2, <1>3, <1>7 DEF OfferedOnce, PerAttempt, LessToAgent
<1>9. ToldToRun(a)' /\ Reportable(a)'
    BY <1>2, <1>3, <1>4, <1>5 DEF ToldToRun, Launched, Reportable, Settled, PerAttempt, LessToAgent
<1> QED
    BY <1>6, <1>8, <1>9 DEF PerAttempt

(* A source is asked for again: the full snapshot, once for an attempt that waits
   for its bundle; or the bundle. *)
LEMMA NeedAttempts ==
    ASSUME TypeOK, NEW a \in Attempts, PerAttempt(a), AgentStep(a), NEW x \in {"bundle", "fallback"},
           ToController(<<Frame("source_need", a, x)>>),
           UNCHANGED files, reporting' = reporting,
           x = "fallback" => phase[a] = "awaiting" /\ phase'[a] = "escalated",
           x = "bundle" => phase[a] = "overlaying" /\ phase'[a] = "awaiting"
    PROVE  PerAttempt(a)'
<1> DEFINE m == Frame("source_need", a, x)
<1>1. m \in Notices /\ m.type = "source_need"
    BY FrameTypes DEF Frame
<1>2. m \notin Reject(a) /\ m \notin Report(a) /\ (x = "bundle" => m \notin Accept(a))
  <2>1. x = "bundle" => m.x = "bundle" /\ \A n \in Accept(a) : n.type = "lease_accept" \/ n.x = "fallback"
      BY DEF Frame, Accept
  <2> QED
      BY <1>1, <2>1, TokenFields
<1>3. /\ \A S : In(toController', S) => In(toController, S) \/ m \in S
      /\ \A S : Once(toController, S) /\ (m \in S => ~In(toController, S)) => Once(toController', S)
    BY <1>1, NotifyOne
<1>4. /\ work' = work /\ state' = state /\ LessToAgent(a)
    BY AgentFrame, AgentQueues, ReadToAgent DEF controller, rows
<1>5. meta' = meta /\ fenced' = fenced
    BY DEF files
<1>6. /\ ~Underway(a) /\ ~Untouched(a)
    BY DEF PerAttempt, HandshakeFirst, Untouched
<1>7. a \notin fenced /\ meta[a] # "completed"
    BY DEF PerAttempt, Reportable, Early
<1> HIDE DEF m
<1>8. OneHandshake(a)'
    BY <1>2, <1>3, <1>4, <1>6 DEF OneHandshake, PerAttempt, LessToAgent, Underway
<1>9. HandshakeFirst(a)'
    BY <1>2, <1>3, <1>4, <1>5, <1>6, <1>7 DEF HandshakeFirst, Underway, LessToAgent
<1>10. OfferedOnce(a)'
    BY <1>2, <1>3, <1>4, <1>6 DEF OfferedOnce, PerAttempt, LessToAgent
<1>11. ToldToRun(a)' /\ Reportable(a)'
    BY <1>2, <1>3, <1>4, <1>5, <1>7 DEF ToldToRun, Launched, Reportable, Early, PerAttempt, LessToAgent
<1> QED
    BY <1>8, <1>9, <1>10, <1>11 DEF PerAttempt

(* A report goes out only of an attempt that was told to run. *)
LEMMA ReportAttempts ==
    ASSUME TypeOK, NEW a \in Attempts, PerAttempt(a), EmitRecoveryReport(a),
           reporting[a] \in {"live", "completed"},
           ToController(<<Frame("recovery_report", a, reporting[a])>>)
    PROVE  PerAttempt(a)'
<1> DEFINE m == Frame("recovery_report", a, reporting[a])
<1>1. m \in Notices /\ m.type = "recovery_report"
    BY FrameTypes DEF Frame
<1>2. m \notin Reject(a) /\ m \notin Asked(a) /\ m \notin Accept(a)
    BY <1>1, TokenFields DEF Asked
<1>3. /\ \A S : In(toController', S) => In(toController, S) \/ m \in S
      /\ \A S : Once(toController, S) /\ (m \in S => ~In(toController, S)) => Once(toController', S)
    BY <1>1, NotifyOne
<1>4. /\ work' = work /\ state' = state /\ toAgent' = toAgent
      /\ phase' = phase /\ meta' = meta /\ fenced' = fenced
    BY DEF EmitRecoveryReport, controller, rows
<1>5. Launched(a)
    BY DEF Launched
<1> HIDE DEF m
<1>6. OneHandshake(a)' /\ HandshakeFirst(a)'
    BY <1>2, <1>3, <1>4 DEF OneHandshake, HandshakeFirst, Underway, PerAttempt
<1>7. Untouched(a) => Untouched(a)'
    BY <1>2, <1>3, <1>4 DEF Untouched
<1>8. OfferedOnce(a)'
    BY <1>2, <1>3, <1>4, <1>7 DEF OfferedOnce, PerAttempt
<1>9. ToldToRun(a)' /\ Reportable(a)'
    BY <1>4, <1>5 DEF ToldToRun, Reportable, PerAttempt
<1> QED
    BY <1>6, <1>8, <1>9 DEF PerAttempt

(* Every step of the Agent for one attempt. *)
LEMMA AgentAttempts ==
    ASSUME TypeOK, AttemptInv, NEW a \in Attempts, AgentStep(a)
    PROVE  AttemptInv'
<1>1. PerAttempt(a)
    BY DEF AttemptInv
<1>2. SUFFICES PerAttempt(a)'
    BY AgentOthers DEF AttemptInv
<1>3. CASE HandleLeaseOffer(a)
    BY <1>1, <1>3, OfferAttempts
<1>4. CASE HandlePrepareSource(a)
    BY <1>1, <1>4, PrepareAttempts
<1>5. LessToAgent(a) /\ UNCHANGED controller
    BY AgentQueues, AgentFrame, ReadToAgent
<1>6. CASE HandleBundleDownload(a) \/ BundleTimesOut(a)
  <2>1. /\ UNCHANGED files /\ reporting' = reporting
        /\ \/ phase[a] = "awaiting" /\ phase'[a] = "escalated"
              /\ ToController(<<Frame("source_need", a, "fallback")>>)
           \/ /\ phase' = phase \/ (phase[a] = "awaiting" /\ phase'[a] = "preparing")
              /\ toController' = toController
      BY <1>6 DEF HandleBundleDownload, BundleTimesOut, SetPhase, TypeOK
  <2>2. CASE phase[a] = "awaiting" /\ phase'[a] = "escalated"
              /\ ToController(<<Frame("source_need", a, "fallback")>>)
      BY <1>1, <2>1, <2>2, NeedAttempts
  <2>3. CASE /\ phase' = phase \/ (phase[a] = "awaiting" /\ phase'[a] = "preparing")
             /\ toController' = toController
    <3>1. LessToController(a)
        BY <2>3, ReadToController
    <3>2. /\ (Settled(a) => Settled(a)') /\ (Unknown(a) => Unknown(a)')
          /\ (Told(a)' => Launched(a)) /\ (Reportable(a) => Reportable(a)')
        BY <2>1, <2>3 DEF Settled, Unknown, Told, Launched, Reportable, Early, files
    <3> QED
        BY <1>1, <1>5, <3>1, <3>2, MoveKept
  <2> QED
      BY <2>1, <2>2, <2>3
<1>7. CASE RequestBundle(a)
  <2>1. /\ phase[a] = "overlaying" /\ phase'[a] = "awaiting" /\ UNCHANGED files /\ reporting' = reporting
        /\ ToController(<<Frame("source_need", a, "bundle")>>)
      BY <1>7 DEF RequestBundle, SetPhase, TypeOK
  <2> QED
      BY <1>1, <2>1, NeedAttempts
<1>8. CASE /\ EmitRecoveryReport(a) /\ reporting[a] \in {"live", "completed"}
           /\ ToController(<<Frame("recovery_report", a, reporting[a])>>)
    BY <1>1, <1>8, ReportAttempts
<1>9. CASE /\ ~HandleLeaseOffer(a) /\ ~HandlePrepareSource(a) /\ ~HandleBundleDownload(a)
           /\ ~BundleTimesOut(a)
           /\ toController' = toController \/ \E ms \in PlainSeq(a) : ToController(ms)
  <2>1. LessToController(a)
      BY <1>9, ReadToController, SendPlain
  <2>2. /\ (Settled(a) => Settled(a)') /\ (Unknown(a) => Unknown(a)')
        /\ (Told(a)' => Launched(a)) /\ (Reportable(a) => Reportable(a)')
      BY <1>1, <1>9, AgentMoves
  <2> QED
      BY <1>1, <1>5, <2>1, <2>2, MoveKept
<1> QED
    BY <1>3, <1>4, <1>6, <1>7, <1>8, <1>9, AgentQueues

(* The Agent's connection and its restart. *)
LEMMA LinkAttempts ==
    ASSUME TypeOK, AttemptInv, ListAttemptMetadata \/ AgentDrops \/ Reconnect \/ AgentRestarts
    PROVE  AttemptInv'
<1> SUFFICES ASSUME NEW a \in Attempts PROVE PerAttempt(a)'
    BY DEF AttemptInv
<1>1. PerAttempt(a)
    BY DEF AttemptInv
<1>2. LessToAgent(a)
    BY ReadToAgent DEF ListAttemptMetadata, AgentDrops, Reconnect, AgentRestarts
<1>3. CASE ListAttemptMetadata \/ AgentDrops \/ AgentRestarts
  <2>1. LessToController(a) /\ UNCHANGED controller /\ fenced' = fenced
      BY <1>3, ReadToController DEF ListAttemptMetadata, AgentDrops, AgentRestarts, files
  <2>2. CASE ListAttemptMetadata
    <3>1. phase' = phase /\ meta' = meta /\ reporting'[a] = ReadMeta(a)
        BY <2>2 DEF ListAttemptMetadata, files
    <3>2. reporting'[a] \in {"live", "completed"} => a \in fenced
        BY <3>1 DEF ReadMeta
    <3>3. /\ (Settled(a) => Settled(a)') /\ (Unknown(a) => Unknown(a)')
          /\ (Told(a)' => Launched(a)) /\ (Reportable(a) => Reportable(a)')
        BY <2>1, <3>1, <3>2 DEF Settled, Unknown, Told, Launched, Reportable
    <3> QED
        BY <1>1, <1>2, <2>1, <3>3, MoveKept
  <2>3. CASE AgentDrops
    <3>1. phase' = phase /\ reporting' = reporting /\ meta'[a] = Parked(a)
        BY <2>3 DEF AgentDrops, registry
    <3>2. meta'[a] = meta[a] \/ (phase[a] # "none" /\ meta'[a] = "orphaned")
        BY <3>1 DEF Parked, Registered
    <3>3. /\ (Settled(a) => Settled(a)') /\ (Unknown(a) => Unknown(a)')
          /\ (Told(a)' => Launched(a)) /\ (Reportable(a) => Reportable(a)')
        BY <2>1, <3>1, <3>2 DEF Settled, Unknown, Told, Launched, Reportable
    <3> QED
        BY <1>1, <1>2, <2>1, <3>3, MoveKept
  <2>4. CASE AgentRestarts
    <3>1. phase'[a] = "none" /\ reporting'[a] = "none" /\ meta' = meta
        BY <2>4 DEF AgentRestarts, files
    <3>2. /\ (Settled(a) => Settled(a)') /\ (Unknown(a) => Unknown(a)')
          /\ (Told(a)' => Launched(a)) /\ (Reportable(a) => Reportable(a)')
        BY <2>1, <3>1 DEF Settled, Unknown, Told, Launched, Reportable, Early
    <3> QED
        BY <1>1, <1>2, <2>1, <3>2, MoveKept
  <2> QED
      BY <1>3, <2>2, <2>3, <2>4
<1>4. CASE Reconnect
  <2>1. /\ state' = state /\ phase' = phase /\ meta' = meta /\ fenced' = fenced
        /\ reporting'[a] = "unread"
        /\ toController' = <<Frame("capabilities", NoAttempt, boot)>>
        /\ work' = {<<IF w[1] \in {"bundle", "fallback"} THEN "severed" ELSE w[1], w[2]>> : w \in work}
      BY <1>4 DEF Reconnect, rows, files
  <2>2. \A S : (\A m \in S : m.type # "capabilities") => ~In(toController', S) /\ Once(toController', S)
    <3>1. Len(toController') = 1 /\ toController'[1].type = "capabilities"
        BY <2>1 DEF Frame
    <3> QED
        BY <3>1 DEF In, Once
  <2>3. /\ ~In(toController', Accept(a)) /\ Once(toController', Accept(a))
        /\ ~In(toController', Asked(a)) /\ ~In(toController', Reject(a)) /\ ~In(toController', Report(a))
      BY <2>2, TokenFields DEF Asked
  <2>4. <<"fallback", a>> \notin work' /\ <<"bundle", a>> \notin work'
      BY <2>1
  <2>5. /\ <<"dispatch", a>> \in work' => <<"dispatch", a>> \in work
        /\ <<"severed", a>> \in work' => \E k \in {"bundle", "fallback", "severed"} : <<k, a>> \in work
    <3>1. \A w \in work : w = <<w[1], w[2]>> /\ w[1] \in {"dispatch", "bundle", "fallback", "severed",
                                                          "grant", "drain"}
        BY DEF TypeOK
    <3> QED
        BY <2>1, <3>1
  <2>6. OneHandshake(a)' /\ HandshakeFirst(a)'
      BY <1>1, <1>2, <2>1, <2>3, <2>4 DEF OneHandshake, HandshakeFirst, Underway, PerAttempt, LessToAgent
  <2>7. Untouched(a) => Untouched(a)'
      BY <2>1, <2>3, <2>4, <2>5 DEF Untouched
  <2>8. OfferedOnce(a)'
      BY <1>1, <1>2, <2>1, <2>3, <2>5, <2>7 DEF OfferedOnce, PerAttempt, LessToAgent
  <2>9. ToldToRun(a)' /\ Reportable(a)'
      BY <1>1, <1>2, <2>1, <2>3 DEF ToldToRun, Launched, Reportable, PerAttempt, LessToAgent
  <2> QED
      BY <2>6, <2>8, <2>9 DEF PerAttempt
<1> QED
    BY <1>3, <1>4

-----------------------------------------------------------------------------
(* The rows of jobs and attempts. *)

(* Steps that leave the Controller's rows alone. *)
LEMMA RowsAlone ==
    ASSUME TypeOK
    PROVE  /\ \A a \in Attempts : AgentStep(a) => UNCHANGED controller
           /\ \A a \in Attempts : DispatchJob(a) \/ GrantUpload(a) \/ SourceProvided(a)
                                     \/ HandleArtifactManifest(a) \/ HandleCleanupComplete(a)
                                     => UNCHANGED rows /\ UNCHANGED timers
           /\ IgnoreStale \/ ListAttemptMetadata \/ AgentDrops \/ AgentRestarts => UNCHANGED controller
           /\ Reconnect => UNCHANGED rows /\ UNCHANGED timers
           /\ ControllerRestarts => UNCHANGED rows
<1>1. \A a \in Attempts : AgentStep(a) => UNCHANGED controller
    BY AgentFrame
<1> QED
    BY <1>1 DEF DispatchJob, GrantUpload, SourceProvided, HandleArtifactManifest, HandleCleanupComplete,
       IgnoreStale, ListAttemptMetadata, AgentDrops, AgentRestarts, Reconnect, ControllerRestarts

(* A step that writes rows is one of these; what it may write of an attempt. *)
RowStep ==
    \/ UNCHANGED rows
    \/ \E a \in Attempts : InitiateRemoteAttempt(a) \/ NoAgentSelected(a) \/ SourceFails(a)
                              \/ CompleteCleanup(a)
    \/ \E a \in Attempts : HandleLeaseAccept(a) \/ HandleLeaseReject(a) \/ HandleSourceNeed(a)
                              \/ HandleSourceReady(a) \/ HandleJobStarted(a) \/ HandleJobExit(a)
                              \/ HandleRecoveryReport(a)
    \/ \E a \in Attempts : TimerFires(a) \/ ExpireStaleLease(a)
    \/ \E j \in Jobs : CancelJob(j)
    \/ HandleCapabilities \/ ControllerDrops

(* Every step is. *)
LEMMA RowSteps == TypeOK /\ [Next]_vars => RowStep
<1> SUFFICES ASSUME TypeOK, [Next]_vars PROVE RowStep
    OBVIOUS
<1>1. CASE UNCHANGED vars
    BY <1>1 DEF vars, controller, RowStep
<1>2. ASSUME NEW a \in Attempts, AgentStep(a) PROVE RowStep
    BY <1>2, RowsAlone DEF controller, RowStep
<1>3. ASSUME NEW a \in Attempts, DispatchJob(a) \/ ControllerHandles(a) \/ ControllerSettles(a)
                                    \/ TimerFires(a) \/ ExpireStaleLease(a)
      PROVE  RowStep
    BY <1>3, RowsAlone DEF ControllerHandles, ControllerSettles, RowStep
<1>4. CASE \/ IgnoreStale \/ HandleCapabilities \/ ListAttemptMetadata
           \/ ControllerDrops \/ AgentDrops \/ Reconnect
           \/ ControllerRestarts \/ AgentRestarts
    BY <1>4, RowsAlone DEF controller, RowStep
<1> QED
    BY <1>1, <1>2, <1>3, <1>4 DEF Next, AgentStep, RowStep

(* No row returns to absent, and a job's latest attempt is one of its own. *)
LEMMA CurrentNext == TypeOK /\ CurrentIsOfJob /\ [Next]_vars => CurrentIsOfJob'
<1> SUFFICES ASSUME TypeOK, CurrentIsOfJob, [Next]_vars PROVE CurrentIsOfJob'
    OBVIOUS
<1>1. RowStep
    BY RowSteps
<1>2. ASSUME NEW S, NEW o, CompleteAll(S, o) PROVE CurrentIsOfJob'
  <2>1. current' = current /\ \A b \in Attempts : state'[b] \in {state[b], "completed"}
      BY <1>2 DEF CompleteAll
  <2> QED
      BY <2>1 DEF CurrentIsOfJob, TypeOK
<1>3. ASSUME NEW a \in Attempts, NEW s, s # "absent", state' = [state EXCEPT ![a] = s], current' = current
      PROVE  CurrentIsOfJob'
    BY <1>3 DEF CurrentIsOfJob, TypeOK
<1>4. ASSUME UNCHANGED <<state, current>> PROVE CurrentIsOfJob'
    BY <1>4 DEF CurrentIsOfJob
<1>5. ASSUME NEW a \in Attempts, InitiateRemoteAttempt(a) PROVE CurrentIsOfJob'
  <2>1. state' = [state EXCEPT ![a] = "leasing"] /\ current' = [current EXCEPT ![JobOf[a]] = a]
      BY <1>5 DEF InitiateRemoteAttempt, Advance
  <2>2. JobOf[a] \in Jobs
      BY AttemptConstants
  <2>3. ASSUME NEW j \in Jobs, current'[j] # NoAttempt
        PROVE  JobOf[current'[j]] = j /\ state'[current'[j]] # "absent"
    <3>1. CASE j = JobOf[a]
        BY <2>1, <2>2, <3>1 DEF TypeOK
    <3>2. CASE j # JobOf[a]
      <4>1. current'[j] = current[j] /\ current[j] \in Attempts
          BY <2>1, <2>3, <3>2 DEF TypeOK
      <4> QED
          BY <2>1, <2>3, <4>1 DEF CurrentIsOfJob, TypeOK
    <3> QED
        BY <3>1, <3>2
  <2> QED
      BY <2>3 DEF CurrentIsOfJob
<1>6. ASSUME NEW a \in Attempts, NoAgentSelected(a) \/ SourceFails(a) \/ CompleteCleanup(a)
      PROVE  CurrentIsOfJob'
    BY <1>2, <1>4, <1>6 DEF NoAgentSelected, SourceFails, CompleteCleanup, FinishJob, rows
<1>7. ASSUME NEW a \in Attempts, HandleLeaseAccept(a) \/ HandleLeaseReject(a) \/ HandleSourceNeed(a)
                              \/ HandleSourceReady(a) \/ HandleJobStarted(a) \/ HandleJobExit(a)
      PROVE  CurrentIsOfJob'
    BY <1>2, <1>3, <1>4, <1>7 DEF HandleLeaseAccept, HandleLeaseReject, HandleSourceNeed, HandleSourceReady,
       HandleJobStarted, HandleJobExit, Advance, rows
<1>8. ASSUME NEW a \in Attempts, HandleRecoveryReport(a) PROVE CurrentIsOfJob'
    BY <1>2, <1>3, <1>4, <1>8 DEF HandleRecoveryReport, Defer, Adopt, TerminateStale, rows
<1>9. ASSUME NEW a \in Attempts, TimerFires(a) \/ ExpireStaleLease(a) PROVE CurrentIsOfJob'
    BY <1>2, <1>3, <1>4, <1>9 DEF TimerFires, OnGraceElapsed, OnOrphanTimeout, OnReconcileDeadline,
       ExpireStaleLease, rows
<1>10. ASSUME NEW j \in Jobs, CancelJob(j) PROVE CurrentIsOfJob'
    BY <1>2, <1>4, <1>10 DEF CancelJob, FinishJob, RequestRemoteJobCancel, rows
<1>11. CASE HandleCapabilities \/ ControllerDrops
    BY <1>2, <1>11 DEF HandleCapabilities, ControllerDrops, OnAgentDisconnect
<1> QED
    BY <1>1, <1>4, <1>5, <1>6, <1>7, <1>8, <1>9, <1>10, <1>11 DEF RowStep, rows

(* What concerns each attempt by itself is invariant. *)
LEMMA AttemptNext == TypeOK /\ AttemptInv /\ CurrentIsOfJob /\ [Next]_vars => AttemptInv'
<1> SUFFICES ASSUME TypeOK, AttemptInv, CurrentIsOfJob, [Next]_vars PROVE AttemptInv'
    OBVIOUS
<1>1. CASE UNCHANGED vars
  <2>1. UNCHANGED agent /\ UNCHANGED <<toAgent, toController, work, state>>
      BY <1>1 DEF vars, controller, rows
  <2>2. \A b \in Attempts : LessToAgent(b) /\ LessToController(b) /\ LessWork(b)
      BY <2>1, ReadToAgent, ReadToController DEF LessWork
  <2> QED
      BY <2>1, <2>2, QuietStep
<1>2. ASSUME NEW a \in Attempts, DispatchJob(a) \/ ControllerHandles(a) \/ ControllerSettles(a)
      PROVE  AttemptInv'
    BY <1>2, HandlesAttempts, SettlesAttempts
<1>3. CASE \/ \E a \in Attempts : TimerFires(a) \/ ExpireStaleLease(a)
           \/ \E j \in Jobs : CancelJob(j)
    BY <1>3, TimersAttempts
<1>4. CASE IgnoreStale \/ HandleCapabilities \/ ControllerDrops \/ ControllerRestarts
    BY <1>4, SessionAttempts
<1>5. ASSUME NEW a \in Attempts, AgentStep(a) PROVE AttemptInv'
    BY <1>5, AgentAttempts
<1>6. CASE ListAttemptMetadata \/ AgentDrops \/ Reconnect \/ AgentRestarts
    BY <1>6, LinkAttempts
<1> QED
    BY <1>1, <1>2, <1>3, <1>4, <1>5, <1>6 DEF Next, AgentStep

(* Orphans are watched: a timer of theirs goes only with the state. *)
LEMMA OrphanNext == TypeOK /\ OrphanWatched /\ [Next]_vars => OrphanWatched'
<1> SUFFICES ASSUME TypeOK, OrphanWatched, [Next]_vars PROVE OrphanWatched'
    OBVIOUS
<1>1. ASSUME UNCHANGED <<state, orphan, reconcile>> PROVE OrphanWatched'
    BY <1>1 DEF OrphanWatched
<1>2. ASSUME NEW S, NEW o, CompleteAll(S, o), orphan \ S \subseteq orphan', reconcile \ S \subseteq reconcile'
      PROVE  OrphanWatched'
  <2>1. \A b \in Attempts : state'[b] = "orphaned" => state[b] = "orphaned" /\ b \notin S
      BY <1>2 DEF CompleteAll
  <2> QED
      BY <1>2, <2>1 DEF OrphanWatched
<1>3. ASSUME NEW a \in Attempts, NEW s, s # "orphaned", state' = [state EXCEPT ![a] = s],
             orphan \ {a} \subseteq orphan', reconcile \ {a} \subseteq reconcile'
      PROVE  OrphanWatched'
    BY <1>3 DEF OrphanWatched, TypeOK
<1>4. ASSUME NEW a \in Attempts, ControllerHandles(a), ~HandleRecoveryReport(a) PROVE OrphanWatched'
    BY <1>1, <1>2, <1>3, <1>4 DEF ControllerHandles, HandleLeaseAccept, HandleLeaseReject, HandleSourceNeed,
       HandleSourceReady, HandleJobStarted, HandleJobExit, HandleArtifactManifest, HandleCleanupComplete,
       Advance, rows, timers
<1>5. ASSUME NEW a \in Attempts, HandleRecoveryReport(a) PROVE OrphanWatched'
  <2>1. CASE Defer(a)
      BY <2>1 DEF Defer, OrphanWatched, rows
  <2>2. CASE Adopt(a)
      BY <1>3, <2>2 DEF Adopt, ClearTimers
  <2>3. CASE TerminateStale(a)
    <3>1. CASE Active(a)
        BY <1>2, <2>3, <3>1 DEF TerminateStale, ClearTimers
    <3>2. CASE ~Active(a)
        BY <2>3, <3>2 DEF TerminateStale, ClearTimers, Active, rows, OrphanWatched
    <3> QED
        BY <3>1, <3>2
  <2> QED
      BY <1>5, <2>1, <2>2, <2>3 DEF HandleRecoveryReport
<1>6. ASSUME NEW a \in Attempts, ControllerSettles(a) \/ DispatchJob(a) PROVE OrphanWatched'
    BY <1>1, <1>2, <1>3, <1>6 DEF ControllerSettles, InitiateRemoteAttempt, NoAgentSelected, SourceProvided,
       SourceFails, GrantUpload, CompleteCleanup, DispatchJob, FinishJob, Advance, rows, timers
<1>7. ASSUME NEW a \in Attempts, OnGraceElapsed(a) PROVE OrphanWatched'
    BY <1>7 DEF OnGraceElapsed, OrphanWatched, TypeOK
<1>8. ASSUME NEW a \in Attempts, OnOrphanTimeout(a) PROVE OrphanWatched'
  <2>1. CASE state[a] = "orphaned"
      BY <1>2, <1>8, <2>1 DEF OnOrphanTimeout, ClearTimers
  <2>2. CASE state[a] # "orphaned"
      BY <1>8, <2>2 DEF OnOrphanTimeout, OrphanWatched, rows
  <2> QED
      BY <2>1, <2>2
<1>9. ASSUME NEW a \in Attempts, OnReconcileDeadline(a) PROVE OrphanWatched'
  <2>1. CASE Active(a)
      BY <1>2, <1>9, <2>1 DEF OnReconcileDeadline, ClearTimers
  <2>2. CASE ~Active(a)
      BY <1>9, <2>2 DEF OnReconcileDeadline, OrphanWatched, Active, rows
  <2> QED
      BY <2>1, <2>2
<1>10. ASSUME NEW a \in Attempts, ExpireStaleLease(a) PROVE OrphanWatched'
    BY <1>2, <1>10 DEF ExpireStaleLease, timers
<1>11. ASSUME NEW j \in Jobs, CancelJob(j) PROVE OrphanWatched'
    BY <1>1, <1>2, <1>11 DEF CancelJob, FinishJob, RequestRemoteJobCancel, rows, timers
<1>12. CASE HandleCapabilities
    BY <1>2, <1>12 DEF HandleCapabilities, ClearTimers
<1>13. CASE ControllerDrops
    BY <1>2, <1>13 DEF ControllerDrops, OnAgentDisconnect
<1>14. CASE ControllerRestarts
    BY <1>14 DEF ControllerRestarts, OrphanWatched, Active, rows
<1>15. ASSUME NEW a \in Attempts, AgentStep(a) PROVE OrphanWatched'
    BY <1>1, <1>15, RowsAlone DEF controller, rows, timers
<1>16. CASE IgnoreStale \/ ListAttemptMetadata \/ AgentDrops \/ Reconnect \/ AgentRestarts
    BY <1>1, <1>16, RowsAlone DEF controller, rows, timers
<1>17. CASE UNCHANGED vars
    BY <1>1, <1>17 DEF vars, controller, rows, timers
<1> QED
    BY <1>4, <1>5, <1>6, <1>7, <1>8, <1>9, <1>10, <1>11, <1>12, <1>13, <1>14, <1>15, <1>16, <1>17
    DEF Next, AgentStep, TimerFires

-----------------------------------------------------------------------------
(* A report of a run the Agent still has. *)

(* On the Controller's own host no process is taken for another. *)
IdentityKnown == \A a \in Attempts : identity[a] # "other"

(* It never is. *)
LEMMA IdentityNext ==
    ASSUME SameHost, TypeOK, IdentityKnown, [Next]_vars
    PROVE  IdentityKnown'
<1>1. ASSUME UNCHANGED identity PROVE IdentityKnown'
    BY <1>1 DEF IdentityKnown
<1>2. ASSUME NEW a \in Attempts, HandleJobStarted(a) PROVE IdentityKnown'
  <2>1. PICK i \in {identity[a], "same"} : identity' = [identity EXCEPT ![a] = i]
      BY <1>2 DEF HandleJobStarted
  <2> QED
      BY <2>1 DEF IdentityKnown, TypeOK
<1>3. ASSUME NEW S, NEW o, CompleteAll(S, o) PROVE UNCHANGED identity
    BY <1>3 DEF CompleteAll
<1>4. ASSUME NEW a \in Attempts, InitiateRemoteAttempt(a) \/ NoAgentSelected(a) \/ SourceFails(a)
                              \/ CompleteCleanup(a)
      PROVE  UNCHANGED identity
    BY <1>3, <1>4 DEF InitiateRemoteAttempt, NoAgentSelected, SourceFails, CompleteCleanup, FinishJob, rows
<1>5. ASSUME NEW a \in Attempts, HandleLeaseAccept(a) \/ HandleLeaseReject(a) \/ HandleSourceNeed(a)
                              \/ HandleSourceReady(a) \/ HandleJobExit(a) \/ HandleRecoveryReport(a)
      PROVE  UNCHANGED identity
    BY <1>3, <1>5 DEF HandleLeaseAccept, HandleLeaseReject, HandleSourceNeed, HandleSourceReady,
       HandleJobExit, HandleRecoveryReport, Defer, Adopt, TerminateStale, rows
<1>6. ASSUME NEW a \in Attempts, TimerFires(a) \/ ExpireStaleLease(a) PROVE UNCHANGED identity
    BY <1>3, <1>6 DEF TimerFires, OnGraceElapsed, OnOrphanTimeout, OnReconcileDeadline, ExpireStaleLease,
       rows
<1>7. ASSUME NEW j \in Jobs, CancelJob(j) PROVE UNCHANGED identity
    BY <1>3, <1>7 DEF CancelJob, FinishJob, RequestRemoteJobCancel, rows
<1>8. ASSUME HandleCapabilities \/ ControllerDrops PROVE UNCHANGED identity
    BY <1>3, <1>8 DEF HandleCapabilities, ControllerDrops, OnAgentDisconnect
<1> QED
    BY <1>1, <1>2, <1>4, <1>5, <1>6, <1>7, <1>8, RowSteps DEF RowStep, rows

(* The step that takes a report of an active attempt off the queue leaves the
   attempt active: a disconnect at that moment does not fail it either, because
   what can be reported was told to run. *)
LEMMA ReportedSurvives ==
    ASSUME TypeOK, AttemptInv, IdentityKnown, [Next]_vars
    PROVE  ReportStep
<1> SUFFICES ASSUME NEW a \in Attempts, toController # <<>>, toController' = Tail(toController),
                    Head(toController).type = "recovery_report", Head(toController).a = a, Active(a)
             PROVE  state'[a] # "completed"
    BY DEF ReportStep
<1>1. toController' # toController
  <2>1. toController \in Seq(Notices)
      BY DEF TypeOK
  <2> QED
      BY <2>1, TailDiffers
<1>2. CASE UNCHANGED rows
    BY <1>2 DEF rows, Active
<1>3. ASSUME NEW b \in Attempts, InitiateRemoteAttempt(b) \/ NoAgentSelected(b) \/ SourceFails(b)
                              \/ CompleteCleanup(b) \/ TimerFires(b) \/ ExpireStaleLease(b)
      PROVE  FALSE
    BY <1>1, <1>3 DEF InitiateRemoteAttempt, NoAgentSelected, SourceFails, CompleteCleanup, TimerFires,
       OnGraceElapsed, OnOrphanTimeout, OnReconcileDeadline, ExpireStaleLease
<1>4. ASSUME NEW j \in Jobs, CancelJob(j) PROVE FALSE
    BY <1>1, <1>4 DEF CancelJob
<1>5. ASSUME NEW b \in Attempts, HandleLeaseAccept(b) \/ HandleLeaseReject(b) \/ HandleSourceNeed(b)
                              \/ HandleSourceReady(b) \/ HandleJobStarted(b) \/ HandleJobExit(b)
      PROVE  FALSE
    BY <1>5 DEF HandleLeaseAccept, HandleLeaseReject, HandleSourceNeed, HandleSourceReady,
       HandleJobStarted, HandleJobExit, Accepted, Received
<1>6. ASSUME HandleCapabilities PROVE FALSE
    BY <1>6 DEF HandleCapabilities, Received
<1>7. ASSUME NEW b \in Attempts, HandleRecoveryReport(b) PROVE state'[a] # "completed"
  <2>1. b = a /\ (Defer(a) \/ Adopt(a) \/ TerminateStale(a))
      BY <1>7 DEF HandleRecoveryReport, Received
  <2>2. ~TerminateStale(a)
      BY DEF TerminateStale, IdentityKnown
  <2> QED
      BY <2>1, <2>2 DEF Defer, Adopt, Active, rows, TypeOK
<1>8. CASE ControllerDrops
  <2>1. Head(toController) \in Report(a)
      BY HeadTypes, NoticeFields DEF Report
  <2>2. Launched(a) /\ ToldToRun(a)
      BY <2>1, QueueTail DEF Launched, AttemptInv, PerAttempt, TypeOK
  <2>3. ~PreStart(a)
      BY <2>2 DEF ToldToRun, PreStart
  <2>4. CompleteAll({b \in Attempts : PreStart(b)}, "failed")
      BY <1>8 DEF ControllerDrops, OnAgentDisconnect
  <2> QED
      BY <2>3, <2>4 DEF CompleteAll, Active
<1> QED
    BY <1>2, <1>3, <1>4, <1>5, <1>6, <1>7, <1>8, RowSteps DEF RowStep

-----------------------------------------------------------------------------
(* Jobs and their attempts. *)

(* What is quiet stays so when nothing is sent or awaited for it. *)
LEMMA QuietKept ==
    ASSUME NEW b \in Attempts, LessToAgent(b), LessToController(b), LessWork(b),
           Unknown(b) => Unknown(b)'
    PROVE  Quiet(b) => Quiet(b)'
BY DEF Quiet, Untouched, Unknown, LessToAgent, LessToController, LessWork

(* The Agent does not wake up an attempt by itself. *)
LEMMA QuietAgent ==
    ASSUME TypeOK, AttemptInv, NEW a \in Attempts, AgentStep(a), NEW b \in Attempts, Quiet(b)
    PROVE  Quiet(b)'
<1>1. PerAttempt(a) /\ PerAttempt(b) /\ LessToAgent(b)
    BY AgentQueues, ReadToAgent DEF AttemptInv
<1>2. work' = work /\ LessWork(b)
    BY AgentFrame DEF controller, LessWork
<1>3. CASE b # a
  <2>1. LessToController(b)
    <3>1. CASE toController' = toController \/ \E ms \in PlainSeq(a) : ToController(ms)
        BY <3>1, ReadToController, SendPlain
    <3>2. ASSUME NEW m \in Notices, m.a = a, ToController(<<m>>) PROVE LessToController(b)
        BY <1>3, <3>2, SendOther
    <3>3. \A t, x : Frame(t, a, x).a = a
        BY DEF Frame
    <3>4. /\ \A t \in {"lease_accept", "lease_reject"} : Frame(t, a, "none") \in Notices
          /\ \A x \in {"bundle", "fallback"} : Frame("source_need", a, x) \in Notices
          /\ \A x \in {"live", "completed"} : Frame("recovery_report", a, x) \in Notices
        BY FrameTypes
    <3> QED
        BY <3>1, <3>2, <3>3, <3>4, AgentQueues
  <2>2. phase'[b] = phase[b] /\ meta'[b] = meta[b] /\ (b \in fenced' <=> b \in fenced)
    <3>1. /\ phase' = phase \/ \E p \in Phases : phase' = [phase EXCEPT ![a] = p]
          /\ meta' = meta \/ \E m \in Metas : meta' = [meta EXCEPT ![a] = m]
          /\ fenced' = fenced \/ fenced' = fenced \cup {a}
        BY AgentFrame
    <3>2. phase'[b] = phase[b]
        BY <1>3, <3>1 DEF TypeOK
    <3>3. meta'[b] = meta[b]
        BY <1>3, <3>1 DEF TypeOK
    <3> QED
        BY <1>3, <3>1, <3>2, <3>3
  <2> QED
      BY <1>1, <1>2, <2>1, <2>2, QuietKept DEF Unknown
<1>4. CASE b = a
  <2>1. phase[a] = "none" /\ ~In(toAgent, Offer(a)) /\ ~In(toController, Asked(a))
      BY <1>4 DEF Quiet, Untouched
  <2>2. ~HandleLeaseOffer(a)
    <3>1. ASSUME HandleLeaseOffer(a) PROVE In(toAgent, Offer(a))
      <4>1. /\ toAgent # <<>> /\ Head(toAgent) \in Commands
            /\ Head(toAgent).type = "lease_offer" /\ Head(toAgent).a = a
          BY <3>1, CommandHead DEF HandleLeaseOffer
      <4>2. Head(toAgent) = Frame("lease_offer", a, "none")
          BY <4>1, CommandFields
      <4> QED
          BY <4>1, <4>2, QueueTail DEF Offer, TypeOK
    <3> QED
        BY <2>1, <3>1
  <2>3. /\ ~RequestBundle(a) /\ ~BundleTimesOut(a)
        /\ HandleBundleDownload(a) => phase' = phase /\ toController' = toController /\ UNCHANGED files
        /\ HandlePrepareSource(a) => phase' = phase /\ toController' = toController /\ UNCHANGED files
      BY <2>1 DEF RequestBundle, BundleTimesOut, HandleBundleDownload, HandlePrepareSource, Offered, Registered
  <2>4. Unknown(a) => Unknown(a)'
    <3>1. CASE HandleBundleDownload(a) \/ HandlePrepareSource(a)
        BY <2>3, <3>1 DEF Unknown, files
    <3>2. CASE ~HandleBundleDownload(a) /\ ~HandlePrepareSource(a)
        BY <1>1, <2>2, <2>3, <3>2, AgentMoves
    <3> QED
        BY <3>1, <3>2
  <2>5. ~In(toController', Asked(a))
    <3>1. CASE toController' = toController \/ \E ms \in PlainSeq(a) : ToController(ms)
        BY <2>1, <3>1, ReadToController, SendPlain DEF LessToController
    <3>2. CASE /\ reporting[a] \in {"live", "completed"}
               /\ ToController(<<Frame("recovery_report", a, reporting[a])>>)
      <4>1. /\ Frame("recovery_report", a, reporting[a]) \in Notices
            /\ Frame("recovery_report", a, reporting[a]).type = "recovery_report"
          BY <3>2, FrameTypes DEF Frame
      <4>2. Frame("recovery_report", a, reporting[a]) \notin Asked(a)
          BY <4>1, TokenFields
      <4> QED
          BY <2>1, <3>2, <4>1, <4>2, NotifyOne
    <3>3. CASE HandleBundleDownload(a) /\ ToController(<<Frame("source_need", a, "fallback")>>)
        BY <2>1, <2>3, <3>3
    <3> QED
        BY <2>2, <2>3, <3>1, <3>2, <3>3, AgentQueues
  <2> QED
      BY <1>1, <1>2, <1>4, <2>1, <2>4, <2>5 DEF Quiet, Untouched, Unknown, LessToAgent
<1> QED
    BY <1>3, <1>4

(* Nor does a new connection, a restart of the Agent or the reading of its disk. *)
LEMMA QuietLink ==
    ASSUME TypeOK, NEW b \in Attempts, ListAttemptMetadata \/ AgentDrops \/ Reconnect \/ AgentRestarts,
           Quiet(b)
    PROVE  Quiet(b)'
<1>1. LessToAgent(b)
    BY ReadToAgent DEF ListAttemptMetadata, AgentDrops, Reconnect, AgentRestarts
<1>2. Unknown(b)'
  <2>1. fenced' = fenced /\ (phase' = phase \/ phase'[b] = "none")
        /\ (meta' = meta \/ meta'[b] = Parked(b))
      BY DEF ListAttemptMetadata, AgentDrops, Reconnect, AgentRestarts, files, registry
  <2> QED
      BY <2>1 DEF Quiet, Untouched, Unknown, Parked, Registered
<1>3. ~In(toController', Asked(b))
  <2>1. CASE Reconnect
    <3>1. Len(toController') = 1 /\ toController'[1].type = "capabilities"
        BY <2>1 DEF Reconnect, Frame
    <3> QED
        BY <3>1, TokenFields DEF In
  <2>2. CASE ~Reconnect
      BY <2>2, ReadToController DEF ListAttemptMetadata, AgentDrops, AgentRestarts, LessToController, Quiet,
         Untouched
  <2> QED
      BY <2>1, <2>2
<1>4. \A k \in {"bundle", "fallback", "severed"} : <<k, b>> \notin work'
  <2>1. CASE Reconnect
    <3>1. \A w \in work : w = <<w[1], w[2]>>
        BY DEF TypeOK
    <3> QED
        BY <2>1, <3>1 DEF Reconnect, Quiet, Untouched
  <2>2. CASE ~Reconnect
      BY <2>2 DEF ListAttemptMetadata, AgentDrops, AgentRestarts, controller, Quiet, Untouched
  <2> QED
      BY <2>1, <2>2
<1> QED
    BY <1>1, <1>2, <1>3, <1>4 DEF Quiet, Untouched, Unknown, LessToAgent

(* An active attempt is the latest of its job, which is neither queued, completed
   nor being dispatched. *)
LEMMA ActiveIsCurrent ==
    ASSUME TypeOK, JobInv, NEW a \in Attempts, Active(a)
    PROVE  /\ JobOf[a] \in Jobs /\ current[JobOf[a]] = a /\ a # NoAttempt
           /\ job[JobOf[a]] \notin {"queued", "completed"} /\ ~Dispatching(JobOf[a])
<1>1. JobOf[a] \in Jobs /\ a # NoAttempt
    BY AttemptConstants
<1>2. current[JobOf[a]] = a /\ state[a] # "completed"
    BY DEF JobInv, JobFollowsAttempt, Active
<1>3. job[JobOf[a]] \notin {"queued", "completed"}
    BY <1>1, <1>2 DEF JobInv, JobFollowsAttempt
<1> QED
    BY <1>1, <1>2, <1>3 DEF JobInv, OneDispatch

(* No dispatch was started. *)
NoNewDispatch == \A b \in Attempts : <<"dispatch", b>> \in work' => <<"dispatch", b>> \in work

(* The rows of jobs and attempts stay as they are. *)
LEMMA SameJobs ==
    ASSUME TypeOK, JobInv, NoNewDispatch, UNCHANGED <<state, outcome, job, jobOutcome, current>>,
           \A b \in Attempts : Active(b) \/ (Quiet(b) => Quiet(b)')
    PROVE  JobInv'
<1>1. JobFollowsAttempt'
    BY DEF JobInv, JobFollowsAttempt, Active
<1>2. \A j : Dispatching(j)' => Dispatching(j)
    BY DEF Dispatching, NoNewDispatch
<1>3. OneDispatch'
    BY <1>2 DEF JobInv, OneDispatch, NoNewDispatch
<1>4. PastIsQuiet'
    BY <1>2, ActiveIsCurrent DEF JobInv, PastIsQuiet
<1> QED
    BY <1>1, <1>3, <1>4 DEF JobInv

(* The latest attempts of some jobs are completed with their jobs. *)
LEMMA CompleteJobs ==
    ASSUME TypeOK, CurrentIsOfJob, JobInv, NoNewDispatch, NEW S \in SUBSET Attempts, NEW o, CompleteAll(S, o),
           \A b \in S : current[JobOf[b]] = b,
           \A b \in Attempts : Quiet(b) => Quiet(b)'
    PROVE  JobInv'
<1>1. /\ \A b \in Attempts : state'[b] = IF b \in S THEN "completed" ELSE state[b]
      /\ \A b \in Attempts : outcome'[b] = IF b \in S THEN o ELSE outcome[b]
      /\ \A j \in Jobs : job'[j] = IF \E a \in S : JobOf[a] = j THEN "completed" ELSE job[j]
      /\ \A j \in Jobs : jobOutcome'[j] = IF \E a \in S : JobOf[a] = j THEN o ELSE jobOutcome[j]
      /\ current' = current
    BY DEF CompleteAll
<1>2. \A j \in Jobs : (\E a \in S : JobOf[a] = j) <=> current[j] # NoAttempt /\ current[j] \in S
    BY AttemptConstants DEF CurrentIsOfJob
<1>3. \A j \in Jobs : current[j] \in Attempts \cup {NoAttempt}
    BY DEF TypeOK
<1>4. JobFollowsAttempt'
  <2>1. \A a \in Attempts : Active(a)' => current'[JobOf[a]] = a
      BY <1>1 DEF JobInv, JobFollowsAttempt, Active
  <2>2. ASSUME NEW j \in Jobs
        PROVE  /\ job'[j] \in {"queued", "completed"}
                     <=> (current'[j] = NoAttempt \/ state'[current'[j]] = "completed")
               /\ job'[j] = "completed" /\ current'[j] # NoAttempt => jobOutcome'[j] = outcome'[current'[j]]
    <3>1. CASE current[j] = NoAttempt \/ current[j] \notin S
        BY <1>1, <1>2, <1>3, <3>1 DEF JobInv, JobFollowsAttempt
    <3>2. CASE current[j] # NoAttempt /\ current[j] \in S
        BY <1>1, <1>2, <1>3, <3>2
    <3> QED
        BY <3>1, <3>2
  <2> QED
      BY <2>1, <2>2 DEF JobFollowsAttempt
<1>5. \A j : Dispatching(j)' => Dispatching(j)
    BY DEF Dispatching, NoNewDispatch
<1>6. \A j \in Jobs : job'[j] \in {job[j], "completed"}
    BY <1>1
<1>7. OneDispatch'
  <2>1. FailFast \subseteq Jobs
      BY AttemptConstants
  <2> QED
      BY <1>1, <1>5, <1>6, <2>1 DEF JobInv, OneDispatch, NoNewDispatch
<1>8. PastIsQuiet'
  <2>1. \A a \in Attempts : JobOf[a] \in Jobs
      BY AttemptConstants
  <2> QED
      BY <1>1, <1>5, <1>6, <2>1 DEF JobInv, PastIsQuiet
<1> QED
    BY <1>4, <1>7, <1>8 DEF JobInv

(* An active attempt advances, with its job or without. *)
LEMMA AdvanceJobs ==
    ASSUME TypeOK, CurrentIsOfJob, JobInv, NoNewDispatch, NEW a \in Attempts, Active(a),
           NEW s \in {"preparing_source", "running", "collecting_artifacts", "orphaned"},
           state' = [state EXCEPT ![a] = s],
           job' = job \/ (s # "orphaned" /\ job' = [job EXCEPT ![JobOf[a]] = s]),
           \A b \in Attempts \ {a} : outcome'[b] = outcome[b],
           UNCHANGED <<jobOutcome, current>>,
           \A b \in Attempts \ {a} : Quiet(b) => Quiet(b)'
    PROVE  JobInv'
<1>1. /\ JobOf[a] \in Jobs /\ current[JobOf[a]] = a /\ a # NoAttempt
      /\ job[JobOf[a]] \notin {"queued", "completed"} /\ ~Dispatching(JobOf[a])
    BY ActiveIsCurrent
<1>2. state'[a] = s /\ \A b \in Attempts \ {a} : state'[b] = state[b]
    BY AdvanceState
<1>3. /\ job'[JobOf[a]] \notin {"queued", "completed"}
      /\ \A j \in Jobs \ {JobOf[a]} : job'[j] = job[j]
    BY <1>1 DEF TypeOK
<1>4. \A j \in Jobs : current[j] \in Attempts \cup {NoAttempt}
    BY DEF TypeOK
<1>5. JobFollowsAttempt'
  <2>1. \A b \in Attempts : Active(b)' => current'[JobOf[b]] = b
      BY <1>1, <1>2 DEF JobInv, JobFollowsAttempt, Active
  <2>2. ASSUME NEW j \in Jobs
        PROVE  /\ job'[j] \in {"queued", "completed"}
                     <=> (current'[j] = NoAttempt \/ state'[current'[j]] = "completed")
               /\ job'[j] = "completed" /\ current'[j] # NoAttempt => jobOutcome'[j] = outcome'[current'[j]]
    <3>1. CASE j = JobOf[a]
        BY <1>1, <1>2, <1>3, <3>1
    <3>2. CASE j # JobOf[a]
      <4>1. current[j] = NoAttempt \/ current[j] \in Attempts \ {a}
          BY <1>4, <3>2 DEF CurrentIsOfJob
      <4> QED
          BY <1>2, <1>3, <3>2, <4>1 DEF JobInv, JobFollowsAttempt
    <3> QED
        BY <3>1, <3>2
  <2> QED
      BY <2>1, <2>2 DEF JobFollowsAttempt
<1>6. \A j : Dispatching(j)' => Dispatching(j)
    BY DEF Dispatching, NoNewDispatch
<1>7. \A j \in Jobs : job'[j] = job[j] \/ (j = JobOf[a] /\ job'[j] # "queued")
    BY <1>3
<1>8. OneDispatch'
  <2>1. FailFast \subseteq Jobs
      BY AttemptConstants
  <2> QED
      BY <1>1, <1>6, <1>7, <2>1 DEF JobInv, OneDispatch, NoNewDispatch
<1>9. PastIsQuiet'
  <2>1. \A b \in Attempts : JobOf[b] \in Jobs
      BY AttemptConstants
  <2> QED
      BY <1>1, <1>6, <1>7, <2>1 DEF JobInv, PastIsQuiet
<1> QED
    BY <1>5, <1>8, <1>9 DEF JobInv

(* A job without an attempt that counts is finished. *)
LEMMA FinishJobs ==
    ASSUME TypeOK, JobInv, NoNewDispatch, NEW j \in Jobs, NEW o, FinishJob(j, o), current[j] = NoAttempt,
           \A b \in Attempts : Quiet(b) => Quiet(b)'
    PROVE  JobInv'
<1>1. /\ job'[j] = "completed" /\ jobOutcome'[j] = o
      /\ \A i \in Jobs \ {j} : job'[i] = job[i] /\ jobOutcome'[i] = jobOutcome[i]
      /\ state' = state /\ outcome' = outcome /\ current' = current
    BY DEF FinishJob, TypeOK
<1>2. JobFollowsAttempt'
    BY <1>1 DEF JobInv, JobFollowsAttempt, Active
<1>3. \A i : Dispatching(i)' => Dispatching(i)
    BY DEF Dispatching, NoNewDispatch
<1>4. OneDispatch'
  <2>1. FailFast \subseteq Jobs
      BY AttemptConstants
  <2> QED
      BY <1>1, <1>3, <2>1 DEF JobInv, OneDispatch, NoNewDispatch
<1>5. PastIsQuiet'
  <2>1. \A b \in Attempts : JobOf[b] \in Jobs
      BY AttemptConstants
  <2> QED
      BY <1>1, <1>3, <2>1 DEF JobInv, PastIsQuiet
<1> QED
    BY <1>2, <1>4, <1>5 DEF JobInv

(* The frames that the Controller handles do not wake up other attempts. *)
LEMMA QuietController ==
    ASSUME TypeOK, UNCHANGED agent, NEW b \in Attempts, LessToController(b), LessWork(b),
           In(toAgent', Offer(b)) => In(toAgent, Offer(b))
    PROVE  Quiet(b) => Quiet(b)'
<1>1. phase' = phase /\ meta' = meta /\ fenced' = fenced
    BY DEF agent, registry, files
<1> QED
    BY <1>1 DEF Quiet, Untouched, LessToController, LessWork

(* A command other than an offer is sent, or none. *)
LEMMA NoOffer ==
    ASSUME TypeOK, NEW b \in Attempts,
           \/ UNCHANGED toAgent \/ toAgent' = <<>>
           \/ \E m \in Commands : m.type # "lease_offer" /\ ToAgent(m)
    PROVE  In(toAgent', Offer(b)) => In(toAgent, Offer(b))
<1>1. CASE UNCHANGED toAgent \/ toAgent' = <<>>
    BY <1>1, QueueEmpty
<1>2. ASSUME NEW m \in Commands, m.type # "lease_offer", ToAgent(m)
      PROVE  In(toAgent', Offer(b)) => In(toAgent, Offer(b))
  <2>1. m \notin Offer(b)
      BY <1>2, TokenFields
  <2> QED
      BY <1>2, <2>1, QueueAppend DEF ToAgent, TypeOK
<1> QED
    BY <1>1, <1>2

(* Frames from the Agent. *)
LEMMA HandlesJobs ==
    ASSUME TypeOK, AttemptInv, CurrentIsOfJob, JobInv, NEW a \in Attempts, ControllerHandles(a)
    PROVE  JobInv'
<1> USE DEF HandleLeaseAccept, HandleLeaseReject, HandleSourceNeed, HandleSourceReady,
       HandleJobStarted, HandleJobExit, HandleArtifactManifest, HandleCleanupComplete, HandleRecoveryReport
<1>1. /\ UNCHANGED agent /\ toController # <<>> /\ toController' = Tail(toController)
    BY ReceivedHead DEF ControllerHandles, Accepted
<1>2. \A b \in Attempts : LessToController(b)
    BY <1>1, ReadToController
<1>3. \A b \in Attempts : In(toAgent', Offer(b)) => In(toAgent, Offer(b))
  <2>1. \/ UNCHANGED toAgent
        \/ \E x \in {"full", "overlay"} : ToAgent(Frame("prepare_source", a, x))
        \/ ToAgent(Frame("run_job", a, "none"))
        \/ \E x \in {"adopt", "terminate"} : ToAgent(Frame("reconcile_decision", a, x))
      BY DEF ControllerHandles, Defer, Adopt, TerminateStale
  <2>2. /\ \A x \in {"full", "overlay"} : Frame("prepare_source", a, x) \in Commands
        /\ Frame("run_job", a, "none") \in Commands
        /\ \A x \in {"adopt", "terminate"} : Frame("reconcile_decision", a, x) \in Commands
      BY FrameTypes
  <2>3. \A t, x : Frame(t, a, x).type = t
      BY DEF Frame
  <2>4. UNCHANGED toAgent \/ \E m \in Commands : m.type # "lease_offer" /\ ToAgent(m)
    <3>1. CASE UNCHANGED toAgent
        BY <3>1
    <3>2. CASE \E x \in {"full", "overlay"} : ToAgent(Frame("prepare_source", a, x))
        BY <2>2, <2>3, <3>2
    <3>3. CASE ToAgent(Frame("run_job", a, "none"))
        BY <2>2, <2>3, <3>3
    <3>4. CASE \E x \in {"adopt", "terminate"} : ToAgent(Frame("reconcile_decision", a, x))
        BY <2>2, <2>3, <3>4
    <3> QED
        BY <2>1, <3>1, <3>2, <3>3, <3>4
  <2> QED
      BY <2>4, NoOffer
<1>4. NoNewDispatch /\ \A b \in Attempts \ {a} : LessWork(b)
  <2>1. CASE ~HandleSourceNeed(a)
      BY <2>1 DEF ControllerHandles, NoNewDispatch, LessWork
  <2>2. CASE HandleSourceNeed(a)
    <3>1. Head(toController).x \in {"bundle", "fallback"}
        BY <2>2, ReceivedHead, NoticeFields DEF Accepted
    <3>2. work' = work \/ work' = work \cup {<<Head(toController).x, a>>}
        BY <2>2
    <3> QED
        BY <3>1, <3>2 DEF NoNewDispatch, LessWork
  <2> QED
      BY <2>1, <2>2
<1>5. \A b \in Attempts \ {a} : Quiet(b) => Quiet(b)'
    BY <1>1, <1>2, <1>3, <1>4, QuietController
<1>6. ASSUME ~HandleSourceNeed(a) PROVE \A b \in Attempts : Quiet(b) => Quiet(b)'
  <2>1. LessWork(a)
      BY <1>6 DEF ControllerHandles, LessWork
  <2> QED
      BY <1>1, <1>2, <1>3, <1>5, <2>1, QuietController
<1>7. ASSUME NEW o, CompleteAll({a}, o), Active(a), UNCHANGED work
      PROVE  JobInv'
  <2>1. \A b \in {a} : current[JobOf[b]] = b
      BY <1>7, ActiveIsCurrent
  <2>2. LessWork(a)
      BY <1>7 DEF LessWork
  <2>3. \A b \in Attempts : Quiet(b) => Quiet(b)'
      BY <1>1, <1>2, <1>3, <1>5, <2>2, QuietController
  <2> QED
      BY <1>4, <1>7, <2>1, <2>3, CompleteJobs
<1>8. ASSUME NEW s \in {"preparing_source", "running", "collecting_artifacts"}, Active(a),
             state' = [state EXCEPT ![a] = s], job' = job \/ job' = [job EXCEPT ![JobOf[a]] = s],
             \A b \in Attempts \ {a} : outcome'[b] = outcome[b],
             UNCHANGED <<jobOutcome, current>>
      PROVE  JobInv'
    BY <1>4, <1>5, <1>8, AdvanceJobs
<1>9. CASE HandleLeaseAccept(a)
  <2>1. Active(a) /\ UNCHANGED work
      BY <1>9 DEF Accepted, Expected, Active
  <2>2. CASE CompleteAll({a}, "failed")
      BY <1>7, <2>1, <2>2
  <2>3. CASE Advance(a, "preparing_source") /\ UNCHANGED <<outcome, identity, jobOutcome, current>>
      BY <1>8, <2>1, <2>3 DEF Advance
  <2> QED
      BY <1>9, <2>2, <2>3
<1>10. CASE HandleSourceReady(a)
  <2>1. Active(a) /\ Advance(a, "running") /\ UNCHANGED <<outcome, jobOutcome, current>>
      BY <1>10 DEF Accepted, Expected, Active
  <2> QED
      BY <1>8, <2>1 DEF Advance
<1>11. CASE HandleJobExit(a)
  <2>1. /\ Active(a) /\ Advance(a, "collecting_artifacts") /\ UNCHANGED <<jobOutcome, current>>
        /\ \A b \in Attempts \ {a} : outcome'[b] = outcome[b]
      BY <1>11 DEF Accepted, Expected, Active, TypeOK
  <2> QED
      BY <1>8, <2>1 DEF Advance
<1>12. CASE HandleSourceNeed(a)
  <2>1. Active(a)
      BY <1>12 DEF Accepted, Expected, Active
  <2>2. CASE CompleteAll({a}, "failed") /\ UNCHANGED work
      BY <1>7, <2>1, <2>2
  <2>3. CASE UNCHANGED rows
      BY <1>4, <1>5, <2>1, <2>3, SameJobs DEF rows
  <2> QED
      BY <1>12, <2>2, <2>3
<1>13. CASE HandleJobStarted(a) \/ HandleArtifactManifest(a) \/ HandleCleanupComplete(a)
  <2>1. UNCHANGED <<state, outcome, job, jobOutcome, current>>
      BY <1>13 DEF rows
  <2>2. LessWork(a)
      BY <1>13 DEF LessWork
  <2>3. \A b \in Attempts : Quiet(b) => Quiet(b)'
      BY <1>1, <1>2, <1>3, <1>5, <2>2, QuietController
  <2> QED
      BY <1>4, <2>1, <2>3, SameJobs
<1>14. CASE HandleRecoveryReport(a)
  <2>1. UNCHANGED work /\ (Defer(a) \/ Adopt(a) \/ TerminateStale(a))
      BY <1>14
  <2>2. \A b \in Attempts : Quiet(b) => Quiet(b)'
    <3>1. LessWork(a)
        BY <2>1 DEF LessWork
    <3> QED
        BY <1>1, <1>2, <1>3, <1>5, <3>1, QuietController
  <2>3. CASE UNCHANGED rows
      BY <1>4, <2>2, <2>3, SameJobs DEF rows
  <2>4. CASE Adopt(a)
    <3>1. /\ Active(a) /\ UNCHANGED <<outcome, job, jobOutcome, current>>
          /\ \E s \in {"running", "collecting_artifacts"} : state' = [state EXCEPT ![a] = s]
        BY <2>4 DEF Adopt
    <3> QED
        BY <1>8, <3>1
  <2>5. CASE Active(a) /\ CompleteAll({a}, "failed")
      BY <1>7, <2>1, <2>5
  <2> QED
      BY <2>1, <2>3, <2>4, <2>5 DEF Defer, TerminateStale
<1>15. CASE HandleLeaseReject(a)
  <2>1. /\ Active(a) /\ UNCHANGED work
        /\ Received("lease_reject", a)
      BY <1>15 DEF Accepted, Expected, Active
  <2>2. /\ JobOf[a] \in Jobs /\ current[JobOf[a]] = a /\ a # NoAttempt
        /\ job[JobOf[a]] \notin {"queued", "completed"} /\ ~Dispatching(JobOf[a])
      BY <2>1, ActiveIsCurrent
  <2>3. CASE CompleteAll({a}, "failed")
      BY <1>7, <2>1, <2>3
  <2>4. CASE /\ JobOf[a] \notin FailFast
             /\ state' = [state EXCEPT ![a] = "completed"]
             /\ outcome' = [outcome EXCEPT ![a] = "failed"]
             /\ job' = [job EXCEPT ![JobOf[a]] = "queued"]
             /\ jobOutcome' = [jobOutcome EXCEPT ![JobOf[a]] = "none"]
             /\ UNCHANGED <<identity, current>>
    <3>1. /\ state'[a] = "completed" /\ \A b \in Attempts \ {a} : state'[b] = state[b]
          /\ job'[JobOf[a]] = "queued"
          /\ \A j \in Jobs \ {JobOf[a]} : job'[j] = job[j] /\ jobOutcome'[j] = jobOutcome[j]
          /\ \A b \in Attempts \ {a} : outcome'[b] = outcome[b]
          /\ current' = current
      <4>1. state'[a] = "completed" /\ \A b \in Attempts \ {a} : state'[b] = state[b]
          BY <2>4, AdvanceState
      <4>2. job'[JobOf[a]] = "queued" /\ \A j \in Jobs \ {JobOf[a]} : job'[j] = job[j]
          BY <2>2, <2>4 DEF TypeOK
      <4>3. \A j \in Jobs \ {JobOf[a]} : jobOutcome'[j] = jobOutcome[j]
          BY <2>4 DEF TypeOK
      <4>4. \A b \in Attempts \ {a} : outcome'[b] = outcome[b]
          BY <2>4 DEF TypeOK
      <4> QED
          BY <2>4, <4>1, <4>2, <4>3, <4>4
    <3>2. JobFollowsAttempt'
      <4>1. \A b \in Attempts : Active(b)' => current'[JobOf[b]] = b
          BY <3>1 DEF JobInv, JobFollowsAttempt, Active
      <4>2. ASSUME NEW j \in Jobs
            PROVE  /\ job'[j] \in {"queued", "completed"}
                         <=> (current'[j] = NoAttempt \/ state'[current'[j]] = "completed")
                   /\ job'[j] = "completed" /\ current'[j] # NoAttempt
                         => jobOutcome'[j] = outcome'[current'[j]]
        <5>1. CASE j = JobOf[a]
            BY <2>2, <3>1, <5>1
        <5>2. CASE j # JobOf[a]
          <6>1. current[j] = NoAttempt \/ current[j] \in Attempts \ {a}
              BY <5>2 DEF CurrentIsOfJob, TypeOK
          <6> QED
              BY <3>1, <5>2, <6>1 DEF JobInv, JobFollowsAttempt
        <5> QED
            BY <5>1, <5>2
      <4> QED
          BY <4>1, <4>2 DEF JobFollowsAttempt
    <3>3. \A j : Dispatching(j)' => Dispatching(j)
        BY <1>4 DEF Dispatching, NoNewDispatch
    <3>4. OneDispatch'
      <4>1. FailFast \subseteq Jobs
          BY AttemptConstants
      <4>2. \A j \in Jobs : job'[j] = job[j] \/ job'[j] = "queued"
          BY <3>1
      <4>3. \A j \in FailFast : job'[j] = job[j]
          BY <2>4, <3>1, <4>1
      <4> QED
          BY <1>4, <3>1, <3>3, <4>1, <4>2, <4>3 DEF JobInv, OneDispatch, NoNewDispatch
    <3>5. Quiet(a)
      <4>1. Head(toController) \in Reject(a)
        <5>1. /\ Head(toController) \in Notices
              /\ Head(toController).type = "lease_reject" /\ Head(toController).a = a
            BY <2>1, ReceivedHead
        <5> QED
            BY <5>1, NoticeFields DEF Reject
      <4>2. In(toController, Reject(a))
          BY <1>1, <4>1, QueueTail DEF TypeOK
      <4>3. Untouched(a) /\ ~In(toAgent, Begin(a))
          BY <4>2 DEF AttemptInv, PerAttempt, OfferedOnce
      <4> QED
          BY <4>3 DEF Quiet, In, Begin
    <3>6. \A b \in Attempts : Quiet(b) => Quiet(b)'
      <4>1. LessWork(a)
          BY <2>1 DEF LessWork
      <4> QED
          BY <1>1, <1>2, <1>3, <1>5, <4>1, QuietController
    <3>7. PastIsQuiet'
      <4>1. \A b \in Attempts : JobOf[b] \in Jobs
          BY AttemptConstants
      <4>2. \A b \in Attempts : JobOf[b] = JobOf[a] => Quiet(b)
          BY <2>2, <3>5 DEF JobInv, PastIsQuiet
      <4> QED
          BY <3>1, <3>3, <3>6, <4>1, <4>2 DEF JobInv, PastIsQuiet
    <3> QED
        BY <3>2, <3>4, <3>7 DEF JobInv
  <2> QED
      BY <1>15, <2>3, <2>4
<1> QED
    BY <1>9, <1>10, <1>11, <1>12, <1>13, <1>14, <1>15 DEF ControllerHandles

(* The lease offer makes the attempt the latest of its job; the dispatch was the
   only one. *)
LEMMA InitiateJobs ==
    ASSUME TypeOK, AttemptInv, CurrentIsOfJob, JobInv, NEW a \in Attempts, InitiateRemoteAttempt(a)
    PROVE  JobInv'
<1> DEFINE j == JobOf[a]
<1>1. /\ <<"dispatch", a>> \in work /\ work' = work \ {<<"dispatch", a>>}
      /\ ToAgent(Frame("lease_offer", a, "none"))
      /\ state' = [state EXCEPT ![a] = "leasing"] /\ job' = [job EXCEPT ![j] = "leasing"]
      /\ current' = [current EXCEPT ![j] = a]
      /\ UNCHANGED <<outcome, jobOutcome, toController>> /\ UNCHANGED agent
    BY DEF InitiateRemoteAttempt, Advance
<1>2. /\ j \in Jobs /\ a # NoAttempt /\ (\A b \in Attempts : JobOf[b] \in Jobs) /\ FailFast \subseteq Jobs
    BY AttemptConstants
<1>3. Dispatching(j) /\ job[j] \in {"queued", "completed"}
  <2>1. Dispatching(j)
      BY <1>1 DEF Dispatching
  <2> QED
      BY <1>2, <2>1 DEF JobInv, OneDispatch
<1>4. /\ state'[a] = "leasing" /\ \A b \in Attempts \ {a} : state'[b] = state[b]
    BY <1>1, AdvanceState
<1>5. /\ job'[j] = "leasing" /\ \A i \in Jobs \ {j} : job'[i] = job[i]
    BY <1>1, <1>2 DEF TypeOK
<1>6. /\ current'[j] = a /\ \A i \in Jobs \ {j} : current'[i] = current[i]
    BY <1>1, <1>2 DEF TypeOK
<1>7. \A b \in Attempts : JobOf[b] = j => ~Active(b)
  <2>1. current[j] = NoAttempt \/ state[current[j]] = "completed"
      BY <1>2, <1>3 DEF JobInv, JobFollowsAttempt
  <2> QED
      BY <2>1, AttemptConstants DEF JobInv, JobFollowsAttempt, Active
<1>8. NoNewDispatch /\ ~Dispatching(j)' /\ \A i : Dispatching(i)' => Dispatching(i)
    BY <1>1 DEF NoNewDispatch, Dispatching, JobInv, OneDispatch
<1>9. JobFollowsAttempt'
  <2>1. ASSUME NEW b \in Attempts, Active(b)' PROVE current'[JobOf[b]] = b
    <3>1. CASE b = a
        BY <1>6, <3>1
    <3>2. CASE b # a
      <4>1. Active(b)
          BY <1>4, <2>1, <3>2 DEF Active
      <4>2. JobOf[b] # j
          BY <1>7, <4>1
      <4> QED
          BY <1>2, <1>6, <4>1, <4>2 DEF JobInv, JobFollowsAttempt
    <3> QED
        BY <3>1, <3>2
  <2>2. ASSUME NEW i \in Jobs
        PROVE  /\ job'[i] \in {"queued", "completed"}
                     <=> (current'[i] = NoAttempt \/ state'[current'[i]] = "completed")
               /\ job'[i] = "completed" /\ current'[i] # NoAttempt => jobOutcome'[i] = outcome'[current'[i]]
    <3>1. CASE i = j
        BY <1>2, <1>4, <1>5, <1>6, <3>1
    <3>2. CASE i # j
      <4>1. current[i] = NoAttempt \/ current[i] \in Attempts \ {a}
          BY <3>2 DEF CurrentIsOfJob, TypeOK
      <4> QED
          BY <1>1, <1>4, <1>5, <1>6, <3>2, <4>1 DEF JobInv, JobFollowsAttempt
    <3> QED
        BY <3>1, <3>2
  <2> QED
      BY <2>1, <2>2 DEF JobFollowsAttempt
<1>10. OneDispatch'
  <2>1. \A b, c \in Attempts :
           <<"dispatch", b>> \in work' /\ <<"dispatch", c>> \in work' /\ JobOf[b] = JobOf[c] => b = c
      BY <1>8 DEF JobInv, OneDispatch, NoNewDispatch
  <2>2. ASSUME NEW i \in Jobs, Dispatching(i)' PROVE job'[i] \in {"queued", "completed"}
      BY <1>5, <1>8, <2>2 DEF JobInv, OneDispatch
  <2>3. ASSUME NEW i \in FailFast, job'[i] = "queued" \/ Dispatching(i)' PROVE current'[i] = NoAttempt
    <3>1. i \in Jobs \ {j}
        BY <1>2, <1>5, <1>8, <2>3
    <3> QED
        BY <1>5, <1>6, <1>8, <2>3, <3>1 DEF JobInv, OneDispatch
  <2> QED
      BY <2>1, <2>2, <2>3 DEF OneDispatch
<1>11. \A b \in Attempts \ {a} : Quiet(b) => Quiet(b)'
  <2>1. \A b \in Attempts : LessToController(b) /\ LessWork(b)
      BY <1>1, ReadToController DEF LessWork
  <2>2. Frame("lease_offer", a, "none") \in Commands /\ Frame("lease_offer", a, "none").a = a
      BY FrameTypes DEF Frame
  <2>3. \A b \in Attempts \ {a} : In(toAgent', Offer(b)) => In(toAgent, Offer(b))
      BY <1>1, <2>2, SendOne DEF LessToAgent
  <2> QED
      BY <1>1, <2>1, <2>3, QuietController
<1>12. PastIsQuiet'
  <2> SUFFICES ASSUME NEW b \in Attempts,
                      b # current'[JobOf[b]] \/ job'[JobOf[b]] = "queued" \/ Dispatching(JobOf[b])'
               PROVE  Quiet(b)'
      BY DEF PastIsQuiet
  <2>1. b # a
      BY <1>5, <1>6, <1>8
  <2>2. Quiet(b)
    <3>1. CASE JobOf[b] = j
        BY <1>3, <3>1 DEF JobInv, PastIsQuiet
    <3>2. CASE JobOf[b] # j
        BY <1>2, <1>5, <1>6, <1>8, <3>2 DEF JobInv, PastIsQuiet
    <3> QED
        BY <3>1, <3>2
  <2> QED
      BY <1>11, <2>1, <2>2
<1> QED
    BY <1>9, <1>10, <1>12 DEF JobInv

(* With one dispatch of a job at a time, a new one is the only one. *)
LEMMA DispatchJobs ==
    ASSUME TypeOK, JobInv, MaxDispatches <= 1, NEW a \in Attempts, DispatchJob(a)
    PROVE  JobInv'
<1> DEFINE D == {b \in Attempts : JobOf[b] = JobOf[a] /\ <<"dispatch", b>> \in work}
<1>1. D = {}
  <2>1. IsFiniteSet(D)
      BY AttemptConstants, FS_Subset
  <2>2. Cardinality(D) < MaxDispatches /\ MaxDispatches \in Nat /\ Cardinality(D) \in Nat
      BY <2>1, FS_CardinalityType, AttemptConstants DEF DispatchJob
  <2>3. Cardinality(D) = 0
      BY <2>2
  <2> QED
      BY <2>1, <2>3, FS_EmptySet
<1>2. /\ work' = work \cup {<<"dispatch", a>>} /\ job[JobOf[a]] = "queued"
      /\ UNCHANGED <<state, outcome, job, jobOutcome, current, toAgent, toController>> /\ UNCHANGED agent
    BY DEF DispatchJob, rows
<1>3. JobOf[a] \in Jobs
    BY AttemptConstants
<1>4. \A b \in Attempts : <<"dispatch", b>> \in work' <=> <<"dispatch", b>> \in work \/ b = a
    BY <1>2
<1>5. \A i : Dispatching(i)' => Dispatching(i) \/ i = JobOf[a]
    BY <1>4 DEF Dispatching
<1>6. JobFollowsAttempt'
    BY <1>2 DEF JobInv, JobFollowsAttempt, Active
<1>7. OneDispatch'
    BY <1>1, <1>2, <1>3, <1>4, <1>5 DEF JobInv, OneDispatch
<1>8. \A b \in Attempts : Quiet(b) => Quiet(b)'
  <2>1. \A b \in Attempts, k \in {"bundle", "fallback", "severed"} : <<k, b>> \in work' => <<k, b>> \in work
      BY <1>2
  <2>2. phase' = phase /\ meta' = meta /\ fenced' = fenced
      BY <1>2 DEF agent, registry, files
  <2> QED
      BY <1>2, <2>1, <2>2 DEF Quiet, Untouched
<1>9. PastIsQuiet'
    BY <1>2, <1>5, <1>8 DEF JobInv, PastIsQuiet
<1> QED
    BY <1>6, <1>7, <1>9 DEF JobInv

(* What was awaited. *)
LEMMA SettlesJobs ==
    ASSUME TypeOK, AttemptInv, CurrentIsOfJob, JobInv, NEW a \in Attempts, ControllerSettles(a)
    PROVE  JobInv'
<1>1. CASE InitiateRemoteAttempt(a)
    BY <1>1, InitiateJobs
<1>2. CASE ~InitiateRemoteAttempt(a)
  <2> USE <1>2 DEF ControllerSettles, NoAgentSelected, SourceProvided, SourceFails, GrantUpload, CompleteCleanup
  <2>1. UNCHANGED agent /\ toController' = toController /\ NoNewDispatch
      BY DEF NoNewDispatch
  <2>2. \A b \in Attempts : LessToController(b) /\ LessWork(b)
      BY <2>1, ReadToController DEF LessWork
  <2>3. \A b \in Attempts : In(toAgent', Offer(b)) => In(toAgent, Offer(b))
    <3>1. \/ UNCHANGED toAgent
          \/ ToAgent(Frame("bundle_download", a, "none"))
          \/ ToAgent(Frame("prepare_source", a, "full"))
          \/ ToAgent(Frame("artifact_upload_grant", a, "none"))
        OBVIOUS
    <3>2. /\ Frame("bundle_download", a, "none") \in Commands
          /\ Frame("prepare_source", a, "full") \in Commands
          /\ Frame("artifact_upload_grant", a, "none") \in Commands
        BY FrameTypes
    <3>3. \A t, x : Frame(t, a, x).type = t
        BY DEF Frame
    <3>4. UNCHANGED toAgent \/ \E m \in Commands : m.type # "lease_offer" /\ ToAgent(m)
        BY <3>1, <3>2, <3>3
    <3> QED
        BY <3>4, NoOffer
  <2>4. \A b \in Attempts : Quiet(b) => Quiet(b)'
      BY <2>1, <2>2, <2>3, QuietController
  <2>5. ASSUME NEW o, CompleteAll({a}, o), current[JobOf[a]] = a PROVE JobInv'
    <3>1. \A b \in {a} : current[JobOf[b]] = b
        BY <2>5
    <3> QED
        BY <2>1, <2>4, <2>5, <3>1, CompleteJobs
  <2>6. CASE UNCHANGED rows
      BY <2>1, <2>4, <2>6, SameJobs DEF rows
  <2>7. CASE NoAgentSelected(a) /\ ~UNCHANGED rows
    <3>1. /\ JobOf[a] \in FailFast /\ JobOf[a] \in Jobs /\ FinishJob(JobOf[a], "failed")
          /\ <<"dispatch", a>> \in work
        BY <2>7, AttemptConstants
    <3>2. current[JobOf[a]] = NoAttempt
        BY <3>1 DEF JobInv, OneDispatch, Dispatching
    <3> QED
        BY <2>1, <2>4, <3>1, <3>2, FinishJobs
  <2>8. CASE SourceFails(a)
    <3>1. ~Quiet(a)
        BY <2>8 DEF Quiet, Untouched
    <3>2. current[JobOf[a]] = a
        BY <3>1 DEF JobInv, PastIsQuiet
    <3> QED
        BY <2>5, <2>8, <3>2
  <2>9. CASE CompleteCleanup(a) /\ ~UNCHANGED rows
    <3>1. Active(a) /\ \E o : CompleteAll({a}, o)
        BY <2>9 DEF Expected, Active
    <3> QED
        BY <2>5, <3>1, ActiveIsCurrent
  <2> QED
      BY <2>6, <2>7, <2>8, <2>9
<1> QED
    BY <1>1, <1>2

(* Timers, the lease sweep, cancellation, and the end of a session. *)
LEMMA TimersJobs ==
    ASSUME TypeOK, CurrentIsOfJob, JobInv,
           \/ \E a \in Attempts : TimerFires(a) \/ ExpireStaleLease(a)
           \/ \E j \in Jobs : CancelJob(j)
           \/ IgnoreStale \/ HandleCapabilities \/ ControllerDrops \/ ControllerRestarts
    PROVE  JobInv'
<1> USE DEF TimerFires, OnGraceElapsed, OnOrphanTimeout, OnReconcileDeadline, ExpireStaleLease,
        CancelJob, IgnoreStale, HandleCapabilities, ControllerDrops, ControllerRestarts
<1>1. /\ UNCHANGED agent /\ (work' = work \/ work' = {})
      /\ \/ toController' = toController \/ toController' = <<>>
         \/ (toController # <<>> /\ toController' = Tail(toController))
    BY DEF Received, controller
<1>2. NoNewDispatch /\ \A b \in Attempts : LessToController(b) /\ LessWork(b)
    BY <1>1, ReadToController DEF LessWork, NoNewDispatch
<1>3. \A b \in Attempts : In(toAgent', Offer(b)) => In(toAgent, Offer(b))
  <2>1. CASE UNCHANGED toAgent \/ toAgent' = <<>>
      BY <2>1, NoOffer
  <2>2. ASSUME NEW j \in Jobs, RequestRemoteJobCancel(j), current[j] # NoAttempt, NEW b \in Attempts
        PROVE  In(toAgent', Offer(b)) => In(toAgent, Offer(b))
    <3>1. current[j] \in Attempts
        BY <2>2 DEF TypeOK
    <3>2. Frame("cancel_job", current[j], "none") \in Commands
          /\ Frame("cancel_job", current[j], "none").type # "lease_offer"
        BY <3>1, FrameTypes DEF Frame
    <3> QED
        BY <2>2, <3>2, NoOffer DEF RequestRemoteJobCancel
  <2> QED
      BY <2>1, <2>2
<1>4. \A b \in Attempts : Quiet(b) => Quiet(b)'
    BY <1>1, <1>2, <1>3, QuietController
<1>5. ASSUME NEW S \in SUBSET Attempts, NEW o, CompleteAll(S, o), \A b \in S : Active(b) PROVE JobInv'
  <2>1. \A b \in S : current[JobOf[b]] = b
      BY <1>5, ActiveIsCurrent
  <2> QED
      BY <1>2, <1>4, <1>5, <2>1, CompleteJobs
<1>6. CASE UNCHANGED rows
    BY <1>2, <1>4, <1>6, SameJobs DEF rows
<1>7. ASSUME NEW a \in Attempts, TimerFires(a) \/ ExpireStaleLease(a), ~UNCHANGED rows PROVE JobInv'
  <2>1. \/ Active(a) /\ state' = [state EXCEPT ![a] = "orphaned"]
              /\ UNCHANGED <<outcome, job, jobOutcome, current>>
        \/ Active(a) /\ \E o : CompleteAll({a}, o)
      BY <1>7 DEF Active, rows
  <2>2. CASE Active(a) /\ state' = [state EXCEPT ![a] = "orphaned"]
              /\ UNCHANGED <<outcome, job, jobOutcome, current>>
      BY <1>2, <1>4, <2>2, AdvanceJobs
  <2>3. CASE Active(a) /\ \E o : CompleteAll({a}, o)
    <3>1. {a} \in SUBSET Attempts /\ \A b \in {a} : Active(b)
        BY <2>3
    <3> QED
        BY <1>5, <2>3, <3>1
  <2> QED
      BY <2>1, <2>2, <2>3
<1>8. ASSUME NEW j \in Jobs, CancelJob(j), ~UNCHANGED rows PROVE JobInv'
  <2>1. CASE current[j] = NoAttempt
      BY <1>2, <1>4, <1>8, <2>1, FinishJobs
  <2>2. CASE current[j] # NoAttempt
    <3>1. CompleteAll({current[j]}, "cancelled") /\ current[j] \in Attempts
        BY <1>8, <2>2 DEF RequestRemoteJobCancel, TypeOK
    <3>2. {current[j]} \in SUBSET Attempts /\ \A b \in {current[j]} : current[JobOf[b]] = b
        BY <2>2, <3>1 DEF CurrentIsOfJob
    <3> QED
        BY <1>2, <1>4, <3>1, <3>2, CompleteJobs
  <2> QED
      BY <2>1, <2>2
<1>9. CASE HandleCapabilities
  <2>1. PICK S \in {{}, {a \in Attempts : Active(a)}} : CompleteAll(S, "lost")
      BY <1>9
  <2>2. S \in SUBSET Attempts /\ \A b \in S : Active(b)
      OBVIOUS
  <2> QED
      BY <1>5, <2>1, <2>2
<1>10. CASE ControllerDrops
  <2> DEFINE S == {a \in Attempts : PreStart(a)}
  <2>1. CompleteAll(S, "failed") /\ S \in SUBSET Attempts /\ \A b \in S : Active(b)
      BY <1>10 DEF OnAgentDisconnect, PreStart, Active
  <2> QED
      BY <1>5, <2>1
<1>11. CASE IgnoreStale \/ ControllerRestarts
    BY <1>6, <1>11 DEF controller
<1> QED
    BY <1>6, <1>7, <1>8, <1>9, <1>10, <1>11

(* Rows of jobs and attempts agree after every step. *)
LEMMA JobNext ==
    ASSUME MaxDispatches <= 1, TypeOK, AttemptInv, CurrentIsOfJob, JobInv, [Next]_vars
    PROVE  JobInv'
<1>1. ASSUME NEW a \in Attempts, DispatchJob(a) \/ ControllerHandles(a) \/ ControllerSettles(a) PROVE JobInv'
    BY <1>1, DispatchJobs, HandlesJobs, SettlesJobs
<1>2. CASE \/ \E a \in Attempts : TimerFires(a) \/ ExpireStaleLease(a)
           \/ \E j \in Jobs : CancelJob(j)
           \/ IgnoreStale \/ HandleCapabilities \/ ControllerDrops \/ ControllerRestarts
    BY <1>2, TimersJobs
<1>3. ASSUME NEW a \in Attempts, AgentStep(a) PROVE JobInv'
  <2>1. UNCHANGED controller
      BY <1>3, AgentFrame
  <2>2. UNCHANGED <<state, outcome, job, jobOutcome, current>> /\ NoNewDispatch
      BY <2>1 DEF controller, rows, NoNewDispatch
  <2>3. \A b \in Attempts : Quiet(b) => Quiet(b)'
      BY <1>3, QuietAgent
  <2> QED
      BY <2>2, <2>3, SameJobs
<1>4. CASE ListAttemptMetadata \/ AgentDrops \/ Reconnect \/ AgentRestarts
  <2>1. UNCHANGED <<state, outcome, job, jobOutcome, current>>
      BY <1>4, RowsAlone DEF controller, rows
  <2>2. NoNewDispatch
    <3>1. CASE Reconnect
      <4>1. \A w \in work : w = <<w[1], w[2]>>
          BY DEF TypeOK
      <4> QED
          BY <3>1, <4>1 DEF Reconnect, NoNewDispatch
    <3>2. CASE ~Reconnect
        BY <1>4, <3>2, RowsAlone DEF controller, NoNewDispatch
    <3> QED
        BY <3>1, <3>2
  <2>3. \A b \in Attempts : Quiet(b) => Quiet(b)'
      BY <1>4, QuietLink
  <2> QED
      BY <2>1, <2>2, <2>3, SameJobs
<1>5. CASE UNCHANGED vars
  <2>1. UNCHANGED <<state, outcome, job, jobOutcome, current, work, toAgent, toController, phase, meta,
                    fenced>>
      BY <1>5 DEF vars, controller, rows, agent, registry, files
  <2>2. NoNewDispatch /\ \A b \in Attempts : Quiet(b) => Quiet(b)'
      BY <2>1 DEF NoNewDispatch, Quiet, Untouched
  <2> QED
      BY <2>1, <2>2, SameJobs
<1> QED
    BY <1>1, <1>2, <1>3, <1>4, <1>5 DEF Next, AgentStep

(* A job that failed fast or ran, and whose source never fails to be provided, stays
   as it was completed: nothing still in progress then concerns it. *)
LEMMA FinishedStays ==
    ASSUME TypeOK, CurrentIsOfJob, JobInv, [Next]_vars, NEW j \in FailFast,
           \A a \in Unpreparable : JobOf[a] # j,
           job[j] = "completed", current[j] # NoAttempt
    PROVE  job'[j] = "completed" /\ jobOutcome'[j] = jobOutcome[j]
<1>1. j \in Jobs /\ \A a \in Attempts : JobOf[a] \in Jobs
    BY AttemptConstants
<1>2. ~Dispatching(j)
    BY DEF JobInv, OneDispatch
<1>3. \A a \in Attempts : Active(a) => JobOf[a] # j
    BY ActiveIsCurrent
<1>4. ASSUME UNCHANGED <<job, jobOutcome>> PROVE job'[j] = "completed" /\ jobOutcome'[j] = jobOutcome[j]
    BY <1>4
<1>5. ASSUME NEW S, NEW o, CompleteAll(S, o), \A a \in S : JobOf[a] # j
      PROVE  job'[j] = "completed" /\ jobOutcome'[j] = jobOutcome[j]
    BY <1>1, <1>5 DEF CompleteAll
<1>6. ASSUME NEW a \in Attempts, Active(a), NEW s, job' = [job EXCEPT ![JobOf[a]] = s],
             jobOutcome' = jobOutcome \/ \E o : jobOutcome' = [jobOutcome EXCEPT ![JobOf[a]] = o]
      PROVE  job'[j] = "completed" /\ jobOutcome'[j] = jobOutcome[j]
  <2>1. JobOf[a] # j
      BY <1>3, <1>6
  <2>2. job'[j] = "completed"
      BY <1>1, <1>6, <2>1 DEF TypeOK
  <2>3. jobOutcome'[j] = jobOutcome[j]
      BY <1>1, <1>6, <2>1 DEF TypeOK
  <2> QED
      BY <2>2, <2>3
<1>7. ASSUME NEW a \in Attempts, InitiateRemoteAttempt(a) \/ NoAgentSelected(a)
      PROVE  job'[j] = "completed" /\ jobOutcome'[j] = jobOutcome[j]
  <2>1. JobOf[a] # j
      BY <1>2, <1>7 DEF Dispatching, InitiateRemoteAttempt, NoAgentSelected
  <2>2. /\ job' = job \/ \E s : job' = [job EXCEPT ![JobOf[a]] = s]
        /\ jobOutcome' = jobOutcome \/ \E o : jobOutcome' = [jobOutcome EXCEPT ![JobOf[a]] = o]
      BY <1>7 DEF InitiateRemoteAttempt, NoAgentSelected, Advance, FinishJob, rows
  <2>3. job'[j] = "completed"
      BY <1>1, <2>1, <2>2 DEF TypeOK
  <2>4. jobOutcome'[j] = jobOutcome[j]
      BY <1>1, <2>1, <2>2 DEF TypeOK
  <2> QED
      BY <2>3, <2>4
<1>8. ASSUME NEW a \in Attempts, SourceFails(a) \/ CompleteCleanup(a)
      PROVE  job'[j] = "completed" /\ jobOutcome'[j] = jobOutcome[j]
  <2>1. UNCHANGED rows \/ (JobOf[a] # j /\ \E o : CompleteAll({a}, o))
      BY <1>3, <1>8 DEF SourceFails, CompleteCleanup, Expected, Active
  <2> QED
      BY <1>4, <1>5, <2>1 DEF rows
<1>9. ASSUME NEW a \in Attempts, HandleLeaseAccept(a) \/ HandleLeaseReject(a) \/ HandleSourceNeed(a)
                              \/ HandleSourceReady(a) \/ HandleJobStarted(a) \/ HandleJobExit(a)
      PROVE  job'[j] = "completed" /\ jobOutcome'[j] = jobOutcome[j]
  <2>1. \/ UNCHANGED <<job, jobOutcome>>
        \/ Active(a) /\ \E o : CompleteAll({a}, o)
        \/ /\ Active(a) /\ \E s : job' = [job EXCEPT ![JobOf[a]] = s]
           /\ jobOutcome' = jobOutcome \/ \E o : jobOutcome' = [jobOutcome EXCEPT ![JobOf[a]] = o]
      BY <1>9 DEF HandleLeaseAccept, HandleLeaseReject, HandleSourceNeed, HandleSourceReady, HandleJobStarted,
         HandleJobExit, Accepted, Expected, Active, Advance, rows
  <2>2. Active(a) => \A b \in {a} : JobOf[b] # j
      BY <1>3
  <2> QED
      BY <1>4, <1>5, <1>6, <2>1, <2>2
<1>10. ASSUME NEW a \in Attempts, HandleRecoveryReport(a) \/ TimerFires(a) \/ ExpireStaleLease(a)
      PROVE  job'[j] = "completed" /\ jobOutcome'[j] = jobOutcome[j]
  <2>1. UNCHANGED <<job, jobOutcome>> \/ (Active(a) /\ \E o : CompleteAll({a}, o))
      BY <1>10 DEF HandleRecoveryReport, Defer, Adopt, TerminateStale, TimerFires, OnGraceElapsed,
         OnOrphanTimeout, OnReconcileDeadline, ExpireStaleLease, Active, rows
  <2>2. Active(a) => \A b \in {a} : JobOf[b] # j
      BY <1>3
  <2> QED
      BY <1>4, <1>5, <2>1, <2>2
<1>11. ASSUME NEW i \in Jobs, CancelJob(i) PROVE job'[j] = "completed" /\ jobOutcome'[j] = jobOutcome[j]
  <2>1. i # j
      BY <1>11 DEF CancelJob
  <2>2. CASE current[i] = NoAttempt
      BY <1>1, <1>11, <2>1, <2>2 DEF CancelJob, FinishJob, TypeOK
  <2>3. CASE current[i] # NoAttempt
    <3>1. \A b \in {current[i]} : JobOf[b] # j
        BY <2>1, <2>3 DEF CurrentIsOfJob
    <3> QED
        BY <1>4, <1>5, <1>11, <2>3, <3>1 DEF CancelJob, RequestRemoteJobCancel, rows
  <2> QED
      BY <2>2, <2>3
<1>12. CASE HandleCapabilities \/ ControllerDrops
  <2>1. \E S \in SUBSET Attempts : (\A a \in S : Active(a)) /\ \E o : CompleteAll(S, o)
    <3>1. CASE HandleCapabilities
        BY <3>1 DEF HandleCapabilities
    <3>2. CASE ControllerDrops
      <4> DEFINE S == {a \in Attempts : PreStart(a)}
      <4>1. S \in SUBSET Attempts /\ CompleteAll(S, "failed") /\ \A a \in S : Active(a)
          BY <3>2 DEF ControllerDrops, OnAgentDisconnect, PreStart, Active
      <4> QED
          BY <4>1
    <3> QED
        BY <1>12, <3>1, <3>2
  <2> QED
      BY <1>3, <1>5, <2>1
<1> QED
    BY <1>4, <1>7, <1>8, <1>9, <1>10, <1>11, <1>12, RowSteps DEF RowStep, rows

-----------------------------------------------------------------------------
(* The first state. *)
LEMMA AttemptInit ==
    Init => TypeOK /\ AttemptInv /\ CurrentIsOfJob /\ OrphanWatched /\ IdentityKnown /\ JobInv
<1> SUFFICES ASSUME Init
             PROVE  TypeOK /\ AttemptInv /\ CurrentIsOfJob /\ OrphanWatched /\ IdentityKnown /\ JobInv
    OBVIOUS
<1> USE DEF Init
<1>1. TypeOK
  <2>1. toAgent \in Seq(Commands) /\ toController \in Seq(Notices)
      OBVIOUS
  <2> QED
      BY <2>1 DEF TypeOK, States, JobStates, Outcomes, Results, Phases, Metas
<1>2. \A S : ~In(toAgent, S) /\ Once(toAgent, S) /\ ~In(toController, S) /\ Once(toController, S)
    BY QueueEmpty
<1>3. ASSUME NEW a \in Attempts
      PROVE  /\ state[a] = "absent" /\ identity[a] = "none" /\ phase[a] = "none" /\ meta[a] = "none"
             /\ a \notin fenced /\ reporting[a] = "none" /\ \A k : <<k, a>> \notin work
    OBVIOUS
<1>4. \A a \in Attempts : Quiet(a)
    BY <1>2, <1>3 DEF Quiet, Untouched
<1>5. AttemptInv
  <2> SUFFICES ASSUME NEW a \in Attempts PROVE PerAttempt(a)
      BY DEF AttemptInv
  <2>1. OneHandshake(a) /\ HandshakeFirst(a) /\ OfferedOnce(a)
      BY <1>2, <1>3, <1>4 DEF OneHandshake, HandshakeFirst, Underway, OfferedOnce, Quiet
  <2>2. ToldToRun(a) /\ Reportable(a)
      BY <1>2, <1>3 DEF ToldToRun, Launched, Reportable
  <2> QED
      BY <2>1, <2>2 DEF PerAttempt
<1>6. CurrentIsOfJob /\ OrphanWatched /\ IdentityKnown
    BY <1>3 DEF CurrentIsOfJob, OrphanWatched, IdentityKnown
<1>7. JobInv
  <2>1. JobFollowsAttempt
      BY <1>3 DEF JobFollowsAttempt, Active
  <2>2. OneDispatch
      BY <1>3, AttemptConstants DEF OneDispatch, Dispatching
  <2>3. PastIsQuiet
      BY <1>4 DEF PastIsQuiet
  <2> QED
      BY <2>1, <2>2, <2>3 DEF JobInv
<1> QED
    BY <1>1, <1>5, <1>6, <1>7

RecoveryInv == TypeOK /\ AttemptInv /\ CurrentIsOfJob /\ OrphanWatched

(* The inductive invariant of the recovery: whatever is lost, restarted or
   cancelled, and however many dispatches of a job overlap. *)
THEOREM RecoveryInvariant == Spec => []RecoveryInv
<1>1. Init => RecoveryInv
    BY AttemptInit DEF RecoveryInv
<1>2. RecoveryInv /\ [Next]_vars => RecoveryInv'
    BY TypeNext, AttemptNext, CurrentNext, OrphanNext DEF RecoveryInv
<1> QED
    BY <1>1, <1>2, PTL DEF Spec

(* Rows, timers, frames and the Agent's registry keep their types. *)
THEOREM AttemptTypeCorrect == Spec => []TypeOK
<1>1. RecoveryInv => TypeOK
    BY DEF RecoveryInv
<1> QED
    BY <1>1, RecoveryInvariant, PTL

(* An orphaned attempt is watched by a timer. *)
THEOREM OrphansAreWatched == Spec => []OrphanWatched
<1>1. RecoveryInv => OrphanWatched
    BY DEF RecoveryInv
<1> QED
    BY <1>1, RecoveryInvariant, PTL

(* A live process whose identity is on disk can be reported after a reconnect. *)
THEOREM ProcessesAreReportable == Spec => []ProcessIsReportable
<1>1. RecoveryInv => ProcessIsReportable
    BY DEF RecoveryInv, AttemptInv, PerAttempt, Reportable, ProcessIsReportable, ReadMeta
<1> QED
    BY <1>1, RecoveryInvariant, PTL

(* When the Agent runs on the Controller's host, the report of a run it still has
   never ends the attempt.  Elsewhere it may: the pid is looked up on the wrong
   host. *)
THEOREM ReportsAreAdopted == ASSUME SameHost PROVE Spec => ReportNeverFails
<1>1. Init => IdentityKnown
    BY AttemptInit
<1>2. RecoveryInv /\ IdentityKnown /\ [Next]_vars => IdentityKnown'
    BY IdentityNext DEF RecoveryInv
<1>3. RecoveryInv /\ IdentityKnown /\ [Next]_vars => ReportStep
    BY ReportedSurvives DEF RecoveryInv
<1> QED
    BY <1>1, <1>2, <1>3, RecoveryInvariant, PTL DEF Spec, ReportNeverFails

(* With one dispatch of a job at a time, the rows of jobs and attempts agree, and
   an attempt that is not the latest of its job, or whose job is queued, is
   unknown to the Agent. *)
THEOREM JobInvariant == ASSUME MaxDispatches <= 1 PROVE Spec => []JobInv
<1>1. Init => JobInv
    BY AttemptInit
<1>2. RecoveryInv /\ JobInv /\ [Next]_vars => JobInv'
    BY JobNext DEF RecoveryInv
<1> QED
    BY <1>1, <1>2, RecoveryInvariant, PTL DEF Spec

(* Only the latest attempt of a job is ever active, and the job says what it came
   to, as long as the dispatches of one job do not overlap. *)
THEOREM RowsAgree == ASSUME MaxDispatches <= 1 PROVE Spec => []JobFollowsAttempt
<1>1. JobInv => JobFollowsAttempt
    BY DEF JobInv
<1> QED
    BY <1>1, JobInvariant, PTL

(* A job has one process at most, as long as its dispatches do not overlap: when
   it is queued again, the Agent knows none of its attempts. *)
THEOREM OneProcess == ASSUME MaxDispatches <= 1 PROVE Spec => []OneProcessPerJob
<1>1. JobInv => OneProcessPerJob
  <2>1. \A a \in Attempts : HasProcess(a) => ~Quiet(a)
      BY DEF HasProcess, Quiet, Untouched
  <2> QED
      BY <2>1 DEF JobInv, PastIsQuiet, OneProcessPerJob
<1> QED
    BY <1>1, JobInvariant, PTL

(* For jobs that are not queued again, whose dispatches do not overlap and whose
   sources can be provided: the outcome of a job that was attempted is final. *)
THEOREM AttemptedOutcomeStays ==
    ASSUME MaxDispatches <= 1, FailFast = Jobs, Unpreparable = {}
    PROVE  Spec => AttemptedOutcomeIsFinal
<1>1. RecoveryInv /\ JobInv /\ [Next]_vars => AttemptedOutcomeStep
    BY FinishedStays DEF RecoveryInv, AttemptedOutcomeStep
<1> QED
    BY <1>1, RecoveryInvariant, JobInvariant, PTL DEF Spec, AttemptedOutcomeIsFinal

-----------------------------------------------------------------------------
(* While the connection holds. *)

Ending(a) == {Frame("cleanup_complete", a, "none")}
Exits(a) == {Frame("job_exit", a, x) : x \in Results}
FailedExit(a) == {Frame("job_exit", a, "failed")}
Manifest(a) == {Frame("artifact_manifest", a, "none")}
Grant(a) == {Frame("artifact_upload_grant", a, "none")}

(* Frames that only a reconnect brings about, and an exit without an outcome. *)
OddNotices == {m \in Notices : \/ m.type \in {"recovery_report", "capabilities"}
                               \/ m.type = "job_exit" /\ m.x = "none"}
Decisions == {m \in Commands : m.type = "reconcile_decision"}
OddPhases == {"expired", "zombiePrepare", "zombieRun", "resuming", "resumed"}

(* Neither side has lost anything: no timer runs and nothing is reported again. *)
Calm ==
    /\ session = "live" /\ link = "up"
    /\ grace = {} /\ orphan = {} /\ reconcile = {}
    /\ \A a \in Attempts : reporting[a] = "none" /\ phase[a] \notin OddPhases /\ state[a] # "orphaned"
    /\ ~In(toController, OddNotices) /\ ~In(toAgent, Decisions)

Collected == {"collecting_artifacts", "completed"}

(* The attempt has run or never will, and was offered; the Agent is done with it. *)
After(a) ==
    phase[a] \in {"none", "exited", "granting", "cleaning"} /\ state[a] # "absent" /\ ~In(toAgent, Offer(a))
Gone(a) == phase[a] = "none" /\ state[a] # "absent" /\ ~In(toAgent, Offer(a))

(* In the queue, a frame of S comes behind one of T. *)
Led(q, S, T) == \A i \in 1..Len(q) : q[i] \in S => \E k \in 1..(i - 1) : q[k] \in T

(* Why a success is kept: a failure, recorded or on its way, is of a run that did not
   succeed; the manifest, which follows the exit, finds the attempt collecting and is
   answered before the Agent stops waiting; nothing completes the attempt before the
   Agent is done with it; and the exit has given it an outcome by then. *)
FailureIsTrue(a) ==
    outcome[a] = "failed" \/ In(toController, FailedExit(a)) \/ In(toController, Reject(a))
    => result[a] # "succeeded"
EndsAfterRun(a) ==
    outcome[a] = "failed" \/ result[a] = "succeeded" \/ In(toController, Exits(a)) => After(a)
CompletedLast(a) ==
    \/ state[a] = "completed" \/ In(toController, Reject(a)) \/ In(toController, Ending(a))
    \/ <<"drain", a>> \in work
    => Gone(a)
ExitDecides(a) == state[a] = "collecting_artifacts" => outcome[a] # "none"
GrantComes(a) ==
    phase[a] = "granting" => \/ <<"grant", a>> \in work \/ In(toAgent, Grant(a))
                             \/ In(toController, Manifest(a))
ExitFirst(a) ==
    /\ state[a] \in Collected \/ Led(toController, Manifest(a), Exits(a))
    /\ phase[a] = "exited" => state[a] \in Collected \/ In(toController, Exits(a))

KeepsSuccess(a) ==
    /\ FailureIsTrue(a) /\ EndsAfterRun(a) /\ CompletedLast(a) /\ ExitDecides(a) /\ GrantComes(a)
    /\ ExitFirst(a)

CalmInv == Calm /\ \A a \in Attempts : KeepsSuccess(a)

(* A frame that stays in its queue. *)
LEMMA QueueHolds ==
    ASSUME NEW F, NEW q \in Seq(F), NEW S
    PROVE  /\ q # <<>> /\ In(q, S) /\ Head(q) \notin S => In(Tail(q), S)
           /\ \A r \in Seq(F) : In(q \o r, S) <=> In(q, S) \/ In(r, S)
<1>1. ASSUME q # <<>>, In(q, S), Head(q) \notin S PROVE In(Tail(q), S)
  <2>1. PICK i \in 1..Len(q) : q[i] \in S
      BY <1>1 DEF In
  <2>2. /\ Len(Tail(q)) = Len(q) - 1 /\ Len(q) \in Nat /\ Head(q) = q[1]
        /\ \A k \in 1..(Len(q) - 1) : Tail(q)[k] = q[k + 1]
      BY <1>1
  <2>3. i # 1 /\ i - 1 \in 1..(Len(q) - 1) /\ (i - 1) + 1 = i
      BY <1>1, <2>1, <2>2
  <2>4. Tail(q)[i - 1] = q[i]
      BY <2>2, <2>3
  <2> QED
      BY <2>1, <2>2, <2>3, <2>4 DEF In
<1>2. ASSUME NEW r \in Seq(F) PROVE In(q \o r, S) <=> In(q, S) \/ In(r, S)
  <2>1. /\ Len(q \o r) = Len(q) + Len(r) /\ Len(q) \in Nat /\ Len(r) \in Nat
        /\ \A i \in 1..Len(q) : (q \o r)[i] = q[i]
        /\ \A i \in 1..Len(r) : (q \o r)[Len(q) + i] = r[i]
      OBVIOUS
  <2>2. \A i \in 1..Len(q \o r) : i \in 1..Len(q) \/ (i - Len(q) \in 1..Len(r) /\ Len(q) + (i - Len(q)) = i)
      BY <2>1
  <2>3. /\ \A i \in 1..Len(q) : i \in 1..Len(q \o r)
        /\ \A i \in 1..Len(r) : Len(q) + i \in 1..Len(q \o r)
      BY <2>1
  <2>4. ASSUME In(q \o r, S) PROVE In(q, S) \/ In(r, S)
    <3>1. PICK i \in 1..Len(q \o r) : (q \o r)[i] \in S
        BY <2>4 DEF In
    <3>2. CASE i \in 1..Len(q)
        BY <3>1, <3>2, <2>1 DEF In
    <3>3. CASE i - Len(q) \in 1..Len(r) /\ Len(q) + (i - Len(q)) = i
      <4>1. (q \o r)[i] = r[i - Len(q)]
          BY <2>1, <3>3
      <4> QED
          BY <3>1, <3>3, <4>1 DEF In
    <3> QED
        BY <2>2, <3>2, <3>3
  <2>5. In(q, S) => In(q \o r, S)
      BY <2>1, <2>3 DEF In
  <2>6. In(r, S) => In(q \o r, S)
      BY <2>1, <2>3 DEF In
  <2> QED
      BY <2>4, <2>5, <2>6
<1> QED
    BY <1>1, <1>2

(* The order of two kinds of frames is kept when the first frame is read and when
   others are sent. *)
LEMMA LedKept ==
    ASSUME NEW F, NEW q \in Seq(F), NEW S, NEW T, Led(q, S, T)
    PROVE  /\ q # <<>> => Head(q) \notin S
           /\ q # <<>> /\ Head(q) \notin T => Led(Tail(q), S, T)
           /\ \A r \in Seq(F) : (In(r, S) => In(q, T)) => Led(q \o r, S, T)
<1>1. ASSUME q # <<>> PROVE Head(q) \notin S
  <2>1. Head(q) = q[1] /\ Len(q) \in Nat \ {0}
      BY <1>1
  <2>2. 1 \in 1..Len(q) /\ ~\E k \in 1..(1 - 1) : TRUE
      BY <2>1
  <2> QED
      BY <2>1, <2>2 DEF Led
<1>2. ASSUME q # <<>>, Head(q) \notin T PROVE Led(Tail(q), S, T)
  <2>1. /\ Len(Tail(q)) = Len(q) - 1 /\ Len(q) \in Nat /\ Head(q) = q[1]
        /\ \A k \in 1..(Len(q) - 1) : Tail(q)[k] = q[k + 1]
      BY <1>2
  <2> SUFFICES ASSUME NEW i \in 1..(Len(q) - 1), Tail(q)[i] \in S
               PROVE  \E k \in 1..(i - 1) : Tail(q)[k] \in T
      BY <2>1 DEF Led
  <2>2. i + 1 \in 1..Len(q) /\ q[i + 1] \in S /\ (i + 1) - 1 = i
      BY <2>1
  <2>3. PICK k \in 1..i : q[k] \in T
      BY <2>2 DEF Led
  <2>4. k # 1 /\ k - 1 \in 1..(i - 1) /\ k - 1 \in 1..(Len(q) - 1) /\ (k - 1) + 1 = k
      BY <1>2, <2>1, <2>3
  <2>5. Tail(q)[k - 1] = q[k]
      BY <2>1, <2>4
  <2> QED
      BY <2>3, <2>4, <2>5
<1>3. ASSUME NEW r \in Seq(F), In(r, S) => In(q, T) PROVE Led(q \o r, S, T)
  <2>1. /\ Len(q \o r) = Len(q) + Len(r) /\ Len(q) \in Nat /\ Len(r) \in Nat
        /\ \A i \in 1..Len(q) : (q \o r)[i] = q[i]
        /\ \A i \in 1..Len(r) : (q \o r)[Len(q) + i] = r[i]
      OBVIOUS
  <2> SUFFICES ASSUME NEW i \in 1..Len(q \o r), (q \o r)[i] \in S
               PROVE  \E k \in 1..(i - 1) : (q \o r)[k] \in T
      BY DEF Led
  <2>2. CASE i \in 1..Len(q)
    <3>1. PICK k \in 1..(i - 1) : q[k] \in T
        BY <2>1, <2>2 DEF Led
    <3>2. k \in 1..Len(q)
        BY <2>1, <2>2
    <3> QED
        BY <2>1, <3>1, <3>2
  <2>3. CASE i \notin 1..Len(q)
    <3>1. i - Len(q) \in 1..Len(r) /\ Len(q) + (i - Len(q)) = i
        BY <2>1, <2>3
    <3>2. r[i - Len(q)] \in S
        BY <2>1, <3>1
    <3>3. PICK k \in 1..Len(q) : q[k] \in T
        BY <1>3, <3>1, <3>2 DEF In
    <3>4. k \in 1..(i - 1)
        BY <2>1, <2>3
    <3> QED
        BY <2>1, <3>3, <3>4
  <2> QED
      BY <2>2, <2>3
<1> QED
    BY <1>1, <1>2, <1>3

(* The frames of these sets are told apart by their attempt and type. *)
LEMMA ExitFields ==
    ASSUME NEW b, NEW m
    PROVE  /\ m \in Ending(b) => m.a = b /\ m.type = "cleanup_complete"
           /\ m \in Exits(b) => m.a = b /\ m.type = "job_exit"
           /\ m \in FailedExit(b) => m.a = b /\ m.type = "job_exit" /\ m \in Exits(b)
           /\ m \in Manifest(b) => m.a = b /\ m.type = "artifact_manifest"
           /\ m \in Grant(b) => m.a = b /\ m.type = "artifact_upload_grant"
BY DEF Ending, Exits, FailedExit, Manifest, Grant, Frame, Results

(* What a step of the Controller may do to the row of an attempt, *)
RowKept(b) ==
    /\ state'[b] = "absent" => state[b] = "absent"
    /\ state[b] \in Collected => state'[b] \in Collected
    /\ state'[b] = "completed" => \/ state[b] = "completed" \/ <<"drain", b>> \in work
                                  \/ In(toController, Reject(b)) \/ In(toController, Ending(b))
    /\ outcome'[b] = "failed" => \/ outcome[b] = "failed" \/ In(toController, FailedExit(b))
                                 \/ In(toController, Reject(b))
    /\ state'[b] = "collecting_artifacts" => outcome'[b] # "none"

(* and to what is awaited and in flight for it. *)
WireKept(b) ==
    /\ In(toAgent', Offer(b)) => In(toAgent, Offer(b))
    /\ In(toAgent, Grant(b)) => In(toAgent', Grant(b))
    /\ <<"grant", b>> \in work => <<"grant", b>> \in work' \/ In(toAgent', Grant(b))
    /\ <<"drain", b>> \in work' => <<"drain", b>> \in work \/ In(toController, Ending(b))
    /\ \/ toController' = toController
       \/ /\ toController # <<>> /\ toController' = Tail(toController)
          /\ Head(toController) \in Exits(b) => state'[b] \in Collected
          /\ Head(toController) \in Manifest(b) => <<"grant", b>> \in work' \/ phase[b] # "granting"

(* Then the Controller keeps the attempt's success. *)
LEMMA ControllerKept ==
    ASSUME TypeOK, NEW b \in Attempts, KeepsSuccess(b), RowKept(b), WireKept(b),
           phase'[b] = phase[b], result'[b] = result[b]
    PROVE  KeepsSuccess(b)'
<1>q. toController \in Seq(Notices)
    BY DEF TypeOK
<1>1. \A S : In(toController', S) => In(toController, S)
    BY <1>q, QueueTail DEF WireKept
<1>2. /\ After(b) => After(b)'
      /\ Gone(b) => Gone(b)'
    BY DEF After, Gone, RowKept, WireKept
<1>3. Gone(b) => After(b)
    BY DEF Gone, After
<1>4. FailureIsTrue(b)'
    BY <1>1 DEF KeepsSuccess, FailureIsTrue, RowKept
<1>5. EndsAfterRun(b)'
  <2>1. In(toController, FailedExit(b)) => In(toController, Exits(b))
      BY ExitFields DEF In
  <2>2. outcome'[b] = "failed" \/ result'[b] = "succeeded" \/ In(toController', Exits(b)) => After(b)
      BY <1>1, <1>3, <2>1 DEF KeepsSuccess, EndsAfterRun, CompletedLast, RowKept
  <2> QED
      BY <1>2, <2>2 DEF EndsAfterRun
<1>6. CompletedLast(b)'
  <2>1. \/ state'[b] = "completed" \/ In(toController', Reject(b)) \/ In(toController', Ending(b))
        \/ <<"drain", b>> \in work'
        => Gone(b)
      BY <1>1 DEF KeepsSuccess, CompletedLast, RowKept, WireKept
  <2> QED
      BY <1>2, <2>1 DEF CompletedLast
<1>7. ExitDecides(b)'
    BY DEF ExitDecides, RowKept
<1>8. GrantComes(b)'
  <2> SUFFICES ASSUME phase[b] = "granting"
               PROVE  \/ <<"grant", b>> \in work' \/ In(toAgent', Grant(b))
                      \/ In(toController', Manifest(b))
      BY DEF GrantComes
  <2>1. <<"grant", b>> \in work \/ In(toAgent, Grant(b)) \/ In(toController, Manifest(b))
      BY DEF KeepsSuccess, GrantComes
  <2>2. CASE In(toController, Manifest(b))
    <3>1. \/ toController' = toController \/ <<"grant", b>> \in work'
          \/ /\ toController # <<>> /\ toController' = Tail(toController)
             /\ Head(toController) \notin Manifest(b)
        BY DEF WireKept
    <3>2. toController # <<>> /\ Head(toController) \notin Manifest(b) => In(Tail(toController), Manifest(b))
        BY <1>q, <2>2, QueueHolds
    <3> QED
        BY <2>2, <3>1, <3>2
  <2> QED
      BY <2>1, <2>2 DEF WireKept
<1>9. ExitFirst(b)'
  <2>1. ASSUME state'[b] \notin Collected, toController' # toController
        PROVE  Head(toController) \notin Exits(b) /\ toController # <<>> /\ toController' = Tail(toController)
      BY <2>1 DEF WireKept
  <2>2. state'[b] \in Collected \/ Led(toController', Manifest(b), Exits(b))
      BY <1>q, <2>1, LedKept DEF KeepsSuccess, ExitFirst, RowKept
  <2>3. phase[b] = "exited" => state'[b] \in Collected \/ In(toController', Exits(b))
      BY <1>q, <2>1, QueueHolds DEF KeepsSuccess, ExitFirst, RowKept
  <2> QED
      BY <2>2, <2>3 DEF ExitFirst
<1> QED
    BY <1>4, <1>5, <1>6, <1>7, <1>8, <1>9 DEF KeepsSuccess

(* What a step of the Agent that sends these frames may do to an attempt. *)
AgentKeeps(b, ms) ==
    /\ In(toAgent', Offer(b)) => In(toAgent, Offer(b))
    /\ In(toAgent, Grant(b)) => In(toAgent', Grant(b)) \/ phase'[b] # "granting"
    /\ After(b) => phase'[b] \in {"none", "exited", "granting", "cleaning"}
    /\ Gone(b) => phase'[b] = "none"
    /\ result'[b] = "succeeded" =>
          /\ result[b] = "succeeded" \/ (phase[b] = "running" /\ phase'[b] = "exited")
          /\ ~In(ms, FailedExit(b)) /\ ~In(ms, Reject(b))
    /\ In(ms, Exits(b)) => phase[b] # "none" /\ phase'[b] \in {"none", "exited"}
    /\ In(ms, Ending(b)) => phase[b] # "none" /\ phase'[b] = "none"
    /\ In(ms, Reject(b)) => phase'[b] = "none" /\ state[b] # "absent" /\ ~In(toAgent', Offer(b))
    /\ phase'[b] = "granting" => phase[b] = "granting" \/ In(ms, Manifest(b))
    /\ In(ms, Manifest(b)) => phase[b] = "exited"
    /\ phase'[b] = "exited" => phase[b] = "exited" \/ In(ms, Exits(b))

(* Then the Agent keeps the attempt's success. *)
LEMMA AgentKept ==
    ASSUME TypeOK, NEW b \in Attempts, PerAttempt(b), KeepsSuccess(b), NEW ms \in Seq(Notices),
           toController' = toController \o ms, AgentKeeps(b, ms), UNCHANGED <<state, outcome, work>>
    PROVE  KeepsSuccess(b)'
<1>q. toController \in Seq(Notices)
    BY DEF TypeOK
<1>1. \A S : In(toController', S) <=> In(toController, S) \/ In(ms, S)
    BY <1>q, QueueHolds
<1>2. /\ After(b) => After(b)'
      /\ Gone(b) => Gone(b)'
    BY DEF After, Gone, AgentKeeps
<1>3. /\ phase[b] # "none" => state[b] # "absent" /\ ~In(toAgent, Offer(b))
      /\ phase[b] = "running" => ~After(b) /\ ~Gone(b)
    BY DEF PerAttempt, OfferedOnce, Untouched, After, Gone
<1>4. FailureIsTrue(b)'
  <2>1. In(toController, FailedExit(b)) => In(toController, Exits(b))
      BY ExitFields DEF In
  <2>2. phase[b] = "running" =>
            ~(outcome[b] = "failed" \/ In(toController, FailedExit(b)) \/ In(toController, Reject(b)))
      BY <1>3, <2>1 DEF KeepsSuccess, EndsAfterRun, CompletedLast
  <2> QED
      BY <1>1, <2>2 DEF FailureIsTrue, KeepsSuccess, AgentKeeps
<1>5. EndsAfterRun(b)'
  <2>1. ASSUME In(ms, Exits(b)) \/ (phase[b] = "running" /\ phase'[b] = "exited") PROVE After(b)'
      BY <1>3, <2>1 DEF After, AgentKeeps
  <2>2. outcome[b] = "failed" \/ result[b] = "succeeded" \/ In(toController, Exits(b)) => After(b)'
      BY <1>2 DEF KeepsSuccess, EndsAfterRun
  <2>3. result'[b] = "succeeded" => result[b] = "succeeded" \/ (phase[b] = "running" /\ phase'[b] = "exited")
      BY DEF AgentKeeps
  <2> QED
      BY <1>1, <2>1, <2>2, <2>3 DEF EndsAfterRun
<1>6. CompletedLast(b)'
  <2>1. ASSUME In(ms, Ending(b)) \/ In(ms, Reject(b)) PROVE Gone(b)'
      BY <1>3, <2>1 DEF Gone, AgentKeeps
  <2>2. \/ state[b] = "completed" \/ In(toController, Reject(b)) \/ In(toController, Ending(b))
        \/ <<"drain", b>> \in work
        => Gone(b)'
      BY <1>2 DEF KeepsSuccess, CompletedLast
  <2> QED
      BY <1>1, <2>1, <2>2 DEF CompletedLast
<1>7. ExitDecides(b)'
    BY DEF KeepsSuccess, ExitDecides
<1>8. GrantComes(b)'
    BY <1>1 DEF KeepsSuccess, GrantComes, AgentKeeps
<1>9. ExitFirst(b)'
  <2>1. state[b] \in Collected \/ Led(toController', Manifest(b), Exits(b))
    <3>1. CASE state[b] \notin Collected
      <4>1. Led(toController, Manifest(b), Exits(b)) /\ (In(ms, Manifest(b)) => In(toController, Exits(b)))
          BY <3>1 DEF KeepsSuccess, ExitFirst, AgentKeeps
      <4> QED
          BY <1>q, <4>1, LedKept
    <3> QED
        BY <3>1
  <2>2. phase'[b] = "exited" => state[b] \in Collected \/ In(toController', Exits(b))
      BY <1>1 DEF KeepsSuccess, ExitFirst, AgentKeeps
  <2> QED
      BY <2>1, <2>2 DEF ExitFirst
<1> QED
    BY <1>4, <1>5, <1>6, <1>7, <1>8, <1>9 DEF KeepsSuccess

(* A command is sent. *)
LEMMA CommandSent ==
    ASSUME TypeOK, session = "live", NEW m \in Commands, ToAgent(m)
    PROVE  \A S : In(toAgent', S) <=> In(toAgent, S) \/ m \in S
<1>1. toAgent \in Seq(Commands) /\ toAgent' = Append(toAgent, m)
    BY DEF TypeOK, ToAgent
<1> QED
    BY <1>1, QueueAppend

(* The rows that no step touches are kept. *)
LEMMA SameRow ==
    ASSUME Calm, NEW b \in Attempts, KeepsSuccess(b), state'[b] = state[b], outcome'[b] = outcome[b]
    PROVE  RowKept(b) /\ state'[b] # "orphaned"
BY DEF RowKept, KeepsSuccess, ExitDecides, Calm

(* What the Controller's handlers of frames and settled promises do to every attempt. *)
ControllerMoves(b) == RowKept(b) /\ WireKept(b) /\ state'[b] # "orphaned" /\ ~In(toAgent', Decisions)

(* The handlers, when no report is in flight and every source can be provided. *)
LEMMA HandlesMove ==
    ASSUME TypeOK, AttemptInv, CalmInv, Unpreparable = {}, NEW a \in Attempts, ControllerHandles(a)
    PROVE  /\ ~HandleRecoveryReport(a)
           /\ \A b \in Attempts : ControllerMoves(b)
<1>c. Calm /\ \A b \in Attempts : KeepsSuccess(b)
    BY DEF CalmInv
<1>q. toController \in Seq(Notices) /\ toAgent \in Seq(Commands) /\ state \in [Attempts -> States]
      /\ outcome \in [Attempts -> Outcomes]
    BY DEF TypeOK
<1> DEFINE h == Head(toController)
<1>h. ASSUME NEW t, Received(t, a)
      PROVE  /\ toController # <<>> /\ toController' = Tail(toController) /\ h \in Notices
             /\ h.type = t /\ h.a = a /\ h = Frame(t, a, h.x)
             /\ \A S : h \in S => In(toController, S)
    BY <1>h, <1>q, ReceivedHead, NoticeFields, QueueTail
<1>o. h \in OddNotices => ~(toController # <<>>)
    BY <1>c, <1>q, QueueTail DEF Calm
<1> HIDE DEF h
<1>d. \A m \in Commands : m.type # "reconcile_decision" => m \notin Decisions
    BY DEF Decisions
<1>g. ASSUME NEW m \in Commands, ToAgent(m), m.type \notin {"lease_offer", "reconcile_decision"}
      PROVE  /\ \A b \in Attempts : /\ In(toAgent', Offer(b)) => In(toAgent, Offer(b))
                                    /\ In(toAgent, Grant(b)) => In(toAgent', Grant(b))
             /\ ~In(toAgent', Decisions)
    BY <1>c, <1>d, <1>g, CommandSent, TokenFields DEF Calm
<1>n. ASSUME toAgent' = toAgent
      PROVE  /\ \A b \in Attempts : /\ In(toAgent', Offer(b)) => In(toAgent, Offer(b))
                                    /\ In(toAgent, Grant(b)) => In(toAgent', Grant(b))
             /\ ~In(toAgent', Decisions)
    BY <1>c, <1>n DEF Calm
<1>x. ~HandleRecoveryReport(a)
  <2> SUFFICES ASSUME HandleRecoveryReport(a) PROVE FALSE
      OBVIOUS
  <2>1. h \in OddNotices /\ toController # <<>>
      BY <1>h DEF HandleRecoveryReport, OddNotices
  <2> QED
      BY <2>1, <1>o
<1>w. ASSUME NEW t, Received(t, a), t # "job_exit", t # "artifact_manifest", NEW b \in Attempts,
             In(toAgent', Offer(b)) => In(toAgent, Offer(b)),
             In(toAgent, Grant(b)) => In(toAgent', Grant(b)),
             <<"grant", b>> \in work => <<"grant", b>> \in work',
             <<"drain", b>> \in work' => <<"drain", b>> \in work \/ In(toController, Ending(b))
      PROVE  WireKept(b)
    BY <1>w, <1>h, ExitFields DEF WireKept, h
<1>1. CASE HandleLeaseAccept(a)
  <2>1. PICK m \in Commands : ToAgent(m) /\ m.type = "prepare_source"
      BY <1>1, FrameTypes DEF HandleLeaseAccept, Frame
  <2>2. Received("lease_accept", a) /\ work' = work /\ state[a] = "leasing" /\ outcome' = outcome
        /\ state' = [state EXCEPT ![a] = "preparing_source"]
      BY <1>1 DEF HandleLeaseAccept, Accepted, Expected, Advance
  <2>3. \A b \in Attempts : WireKept(b) /\ ~In(toAgent', Decisions)
      BY <2>1, <2>2, <1>g, <1>w
  <2>4. ASSUME NEW b \in Attempts PROVE RowKept(b) /\ state'[b] # "orphaned"
    <3>1. CASE b # a
      <4>1. state'[b] = state[b] /\ outcome'[b] = outcome[b]
          BY <2>2, <3>1, <1>q
      <4> QED
          BY <4>1, <1>c, SameRow
    <3>2. CASE b = a
      <4>1. state'[b] = "preparing_source" /\ state[b] = "leasing"
          BY <2>2, <3>2, <1>q
      <4> QED
          BY <4>1, <2>2 DEF RowKept, Collected
    <3> QED
        BY <3>1, <3>2
  <2> QED
      BY <2>3, <2>4, <1>x DEF ControllerMoves
<1>2. CASE HandleSourceReady(a)
  <2>1. PICK m \in Commands : ToAgent(m) /\ m.type = "run_job"
      BY <1>2, FrameTypes DEF HandleSourceReady, Frame
  <2>2. Received("source_ready", a) /\ work' = work /\ state[a] = "preparing_source" /\ outcome' = outcome
        /\ state' = [state EXCEPT ![a] = "running"]
      BY <1>2 DEF HandleSourceReady, Accepted, Expected, Advance
  <2>3. \A b \in Attempts : WireKept(b) /\ ~In(toAgent', Decisions)
      BY <2>1, <2>2, <1>g, <1>w
  <2>4. ASSUME NEW b \in Attempts PROVE RowKept(b) /\ state'[b] # "orphaned"
    <3>1. CASE b # a
      <4>1. state'[b] = state[b] /\ outcome'[b] = outcome[b]
          BY <2>2, <3>1, <1>q
      <4> QED
          BY <4>1, <1>c, SameRow
    <3>2. CASE b = a
      <4>1. state'[b] = "running" /\ state[b] = "preparing_source"
          BY <2>2, <3>2, <1>q
      <4> QED
          BY <4>1, <2>2 DEF RowKept, Collected
    <3> QED
        BY <3>1, <3>2
  <2> QED
      BY <2>3, <2>4, <1>x DEF ControllerMoves
<1>3. CASE HandleLeaseReject(a)
  <2>1. Received("lease_reject", a) /\ work' = work /\ state[a] = "leasing" /\ toAgent' = toAgent
      BY <1>3 DEF HandleLeaseReject, Accepted, Expected
  <2>2. \A b \in Attempts : WireKept(b) /\ ~In(toAgent', Decisions)
      BY <2>1, <1>n, <1>w
  <2>3. In(toController, Reject(a))
    <3>1. h \in Notices /\ h.type = "lease_reject" /\ h.a = a /\ h = Frame("lease_reject", a, h.x)
          /\ \A S : h \in S => In(toController, S)
        BY <2>1, <1>h
    <3>2. h.x = "none"
        BY <3>1, NoticeFields
    <3> QED
        BY <3>1, <3>2 DEF Reject
  <2>4. \A b \in Attempts : IF b = a THEN state'[b] = "completed" /\ outcome'[b] = "failed"
                            ELSE state'[b] = state[b] /\ outcome'[b] = outcome[b]
      BY <1>3, <1>q DEF HandleLeaseReject, CompleteAll
  <2>5. ASSUME NEW b \in Attempts PROVE RowKept(b) /\ state'[b] # "orphaned"
    <3>1. CASE b # a
        BY <2>4, <3>1, <1>c, SameRow
    <3>2. CASE b = a
        BY <2>3, <2>4, <3>2 DEF RowKept, Collected
    <3> QED
        BY <3>1, <3>2
  <2> QED
      BY <2>2, <2>5, <1>x DEF ControllerMoves
<1>4. CASE HandleSourceNeed(a) \/ HandleJobStarted(a) \/ HandleCleanupComplete(a)
  <2>1. UNCHANGED <<state, outcome, toAgent>>
      BY <1>4 DEF HandleSourceNeed, HandleJobStarted, HandleCleanupComplete, rows
  <2>2. \E t \in {"source_need", "job_started", "cleanup_complete"} : Received(t, a)
      BY <1>4 DEF HandleSourceNeed, HandleJobStarted, HandleCleanupComplete, Accepted
  <2>3. work \subseteq work' /\ (HandleCleanupComplete(a) => work' = work \cup {<<"drain", a>>})
      BY <1>4 DEF HandleSourceNeed, HandleJobStarted, HandleCleanupComplete
  <2>4. HandleCleanupComplete(a) => In(toController, Ending(a))
    <3> SUFFICES ASSUME Received("cleanup_complete", a) PROVE In(toController, Ending(a))
        BY DEF HandleCleanupComplete, Accepted
    <3>1. h \in Notices /\ h.type = "cleanup_complete" /\ h = Frame("cleanup_complete", a, h.x)
          /\ \A S : h \in S => In(toController, S)
        BY <1>h
    <3>2. h.x = "none"
        BY <3>1, NoticeFields
    <3> QED
        BY <3>1, <3>2 DEF Ending
  <2>5. ASSUME NEW b \in Attempts
        PROVE  <<"drain", b>> \in work' => <<"drain", b>> \in work \/ In(toController, Ending(b))
    <3>1. CASE HandleCleanupComplete(a)
        BY <2>3, <2>4, <3>1
    <3>2. CASE HandleJobStarted(a)
        BY <3>2 DEF HandleJobStarted
    <3>3. CASE HandleSourceNeed(a)
      <4>1. Received("source_need", a) /\ work' = work \cup {<<h.x, a>>}
          BY <3>3 DEF HandleSourceNeed, Accepted, h
      <4>2. h.x # "drain"
          BY <4>1, <1>h, NoticeFields
      <4> QED
          BY <4>1, <4>2
    <3> QED
        BY <1>4, <3>1, <3>2, <3>3
  <2>6. \A b \in Attempts : WireKept(b) /\ ~In(toAgent', Decisions)
      BY <2>1, <2>2, <2>3, <2>5, <1>n, <1>w
  <2>7. \A b \in Attempts : RowKept(b) /\ state'[b] # "orphaned"
      BY <2>1, <1>c, SameRow
  <2> QED
      BY <2>6, <2>7, <1>x DEF ControllerMoves
<1>5. CASE HandleJobExit(a)
  <2>1. /\ Received("job_exit", a) /\ work' = work /\ toAgent' = toAgent
        /\ state' = [state EXCEPT ![a] = "collecting_artifacts"] /\ outcome' = [outcome EXCEPT ![a] = h.x]
        /\ state[a] # "absent"
      BY <1>5 DEF HandleJobExit, Accepted, Expected, Advance, h
  <2>2. /\ h \in Notices /\ h.type = "job_exit" /\ h.a = a /\ h = Frame("job_exit", a, h.x)
        /\ \A S : h \in S => In(toController, S)
        /\ toController # <<>> /\ toController' = Tail(toController)
      BY <2>1, <1>h
  <2>3. h.x # "none"
      BY <2>2, <1>o DEF OddNotices
  <2>4. h.x = "failed" => In(toController, FailedExit(a))
      BY <2>2 DEF FailedExit
  <2>5. \A b \in Attempts : IF b = a THEN state'[b] = "collecting_artifacts" /\ outcome'[b] = h.x
                            ELSE state'[b] = state[b] /\ outcome'[b] = outcome[b]
      BY <2>1, <1>q
  <2>6. ASSUME NEW b \in Attempts PROVE RowKept(b) /\ state'[b] # "orphaned"
    <3>1. CASE b # a
        BY <2>5, <3>1, <1>c, SameRow
    <3>2. CASE b = a
        BY <2>1, <2>3, <2>4, <2>5, <3>2 DEF RowKept, Collected
    <3> QED
        BY <3>1, <3>2
  <2>7. ASSUME NEW b \in Attempts PROVE WireKept(b) /\ ~In(toAgent', Decisions)
    <3>1. h \notin Manifest(b) /\ (h \in Exits(b) => b = a)
        BY <2>2, ExitFields
    <3>2. h \in Exits(b) => state'[b] \in Collected
        BY <2>5, <3>1 DEF Collected
    <3> QED
        BY <2>1, <2>2, <3>1, <3>2, <1>n DEF WireKept, h
  <2> QED
      BY <2>6, <2>7, <1>x DEF ControllerMoves
<1>6. CASE HandleArtifactManifest(a)
  <2>1. /\ Received("artifact_manifest", a) /\ work' = work \cup {<<"grant", a>>}
        /\ UNCHANGED <<state, outcome, toAgent>>
      BY <1>6 DEF HandleArtifactManifest, Accepted, rows
  <2>2. /\ h \in Notices /\ h.type = "artifact_manifest" /\ h.a = a
        /\ toController # <<>> /\ toController' = Tail(toController)
      BY <2>1, <1>h
  <2>3. ASSUME NEW b \in Attempts PROVE WireKept(b) /\ ~In(toAgent', Decisions)
    <3>1. h \notin Exits(b) /\ (h \in Manifest(b) => b = a)
        BY <2>2, ExitFields
    <3> QED
        BY <2>1, <2>2, <3>1, <1>n DEF WireKept, h
  <2>4. \A b \in Attempts : RowKept(b) /\ state'[b] # "orphaned"
      BY <2>1, <1>c, SameRow
  <2> QED
      BY <2>3, <2>4, <1>x DEF ControllerMoves
<1> QED
    BY <1>x, <1>1, <1>2, <1>3, <1>4, <1>5, <1>6 DEF ControllerHandles

(* The settled promises, dispatches, cancels and ignored frames. *)
LEMMA SettlesMove ==
    ASSUME TypeOK, AttemptInv, CalmInv, Unpreparable = {},
           \/ \E a \in Attempts : DispatchJob(a) \/ (ControllerSettles(a) /\ ~InitiateRemoteAttempt(a))
           \/ \E j \in Jobs : CancelJob(j)
           \/ IgnoreStale
    PROVE  \A b \in Attempts : ControllerMoves(b)
<1>c. Calm /\ \A b \in Attempts : KeepsSuccess(b)
    BY DEF CalmInv
<1>q. toController \in Seq(Notices) /\ toAgent \in Seq(Commands) /\ state \in [Attempts -> States]
      /\ outcome \in [Attempts -> Outcomes]
    BY DEF TypeOK
<1>d. \A m \in Commands : m.type # "reconcile_decision" => m \notin Decisions
    BY DEF Decisions
<1>g. ASSUME \/ toAgent' = toAgent
             \/ \E m \in Commands : ToAgent(m) /\ m.type \notin {"lease_offer", "reconcile_decision"}
      PROVE  /\ \A b \in Attempts : /\ In(toAgent', Offer(b)) => In(toAgent, Offer(b))
                                    /\ In(toAgent, Grant(b)) => In(toAgent', Grant(b))
             /\ ~In(toAgent', Decisions)
  <2>1. CASE toAgent' = toAgent
      BY <1>c, <2>1 DEF Calm
  <2>2. CASE \E m \in Commands : ToAgent(m) /\ m.type \notin {"lease_offer", "reconcile_decision"}
      BY <1>c, <1>d, <2>2, CommandSent, TokenFields DEF Calm
  <2> QED
      BY <1>g, <2>1, <2>2
<1>k. ASSUME UNCHANGED <<state, outcome>>, toController' = toController,
             \/ toAgent' = toAgent
             \/ \E m \in Commands : ToAgent(m) /\ m.type \notin {"lease_offer", "reconcile_decision"},
             \A b \in Attempts : /\ <<"grant", b>> \in work => <<"grant", b>> \in work'
                                 /\ <<"drain", b>> \in work' => <<"drain", b>> \in work
      PROVE  \A b \in Attempts : ControllerMoves(b)
  <2>1. \A b \in Attempts : RowKept(b) /\ state'[b] # "orphaned"
      BY <1>k, <1>c, SameRow
  <2>2. \A b \in Attempts : WireKept(b) /\ ~In(toAgent', Decisions)
      BY <1>k, <1>g DEF WireKept
  <2> QED
      BY <2>1, <2>2 DEF ControllerMoves
<1>1. ASSUME NEW a \in Attempts, DispatchJob(a) \/ NoAgentSelected(a) \/ SourceProvided(a)
      PROVE  \A b \in Attempts : ControllerMoves(b)
  <2>1. UNCHANGED <<state, outcome>> /\ toController' = toController
      BY <1>1 DEF DispatchJob, NoAgentSelected, SourceProvided, FinishJob, rows
  <2>2. \/ toAgent' = toAgent
        \/ \E m \in Commands : ToAgent(m) /\ m.type \notin {"lease_offer", "reconcile_decision"}
    <3>1. /\ Frame("bundle_download", a, "none") \in Commands
          /\ Frame("bundle_download", a, "none").type = "bundle_download"
          /\ Frame("prepare_source", a, "full") \in Commands
          /\ Frame("prepare_source", a, "full").type = "prepare_source"
        BY FrameTypes DEF Frame
    <3> QED
        BY <1>1, <3>1 DEF DispatchJob, NoAgentSelected, SourceProvided
  <2>3. \E k \in {"dispatch", "bundle", "fallback", "severed"} :
            work' = work \cup {<<k, a>>} \/ work' = work \ {<<k, a>>}
      BY <1>1 DEF DispatchJob, NoAgentSelected, SourceProvided
  <2>4. \A b \in Attempts : /\ <<"grant", b>> \in work => <<"grant", b>> \in work'
                            /\ <<"drain", b>> \in work' => <<"drain", b>> \in work
      BY <2>3
  <2> QED
      BY <2>1, <2>2, <2>4, <1>k
<1>2. ASSUME NEW a \in Attempts, SourceFails(a) PROVE FALSE
    BY <1>2 DEF SourceFails
<1>3. ASSUME NEW a \in Attempts, GrantUpload(a) PROVE \A b \in Attempts : ControllerMoves(b)
  <2> DEFINE m == Frame("artifact_upload_grant", a, "none")
  <2>1. /\ UNCHANGED <<state, outcome>> /\ toController' = toController /\ ToAgent(m)
        /\ work' = work \ {<<"grant", a>>}
      BY <1>3 DEF GrantUpload, rows
  <2>2. m \in Commands /\ m.type = "artifact_upload_grant" /\ m \in Grant(a)
      BY FrameTypes DEF Frame, Grant
  <2>3. In(toAgent', Grant(a))
      BY <1>c, <2>1, <2>2, CommandSent DEF Calm
  <2>4. \A b \in Attempts : RowKept(b) /\ state'[b] # "orphaned"
      BY <2>1, <1>c, SameRow
  <2>5. \A b \in Attempts : /\ <<"grant", b>> \in work => <<"grant", b>> \in work' \/ b = a
                            /\ <<"drain", b>> \in work' => <<"drain", b>> \in work
      BY <2>1
  <2>6. /\ \A b \in Attempts : /\ In(toAgent', Offer(b)) => In(toAgent, Offer(b))
                               /\ In(toAgent, Grant(b)) => In(toAgent', Grant(b))
        /\ ~In(toAgent', Decisions)
      BY <2>1, <2>2, <1>g
  <2> HIDE DEF m
  <2>7. \A b \in Attempts : WireKept(b)
      BY <2>1, <2>3, <2>5, <2>6 DEF WireKept
  <2> QED
      BY <2>4, <2>6, <2>7 DEF ControllerMoves
<1>4. ASSUME NEW a \in Attempts, CompleteCleanup(a) PROVE \A b \in Attempts : ControllerMoves(b)
  <2>1. /\ toController' = toController /\ toAgent' = toAgent
        /\ <<"drain", a>> \in work /\ work' = work \ {<<"drain", a>>}
      BY <1>4 DEF CompleteCleanup
  <2>2. \A b \in Attempts : WireKept(b) /\ ~In(toAgent', Decisions)
      BY <2>1, <1>g DEF WireKept
  <2>3. CASE UNCHANGED rows
    <3>1. UNCHANGED <<state, outcome>>
        BY <2>3 DEF rows
    <3> QED
        BY <2>2, <3>1, <1>c, SameRow DEF ControllerMoves
  <2>4. CASE ~UNCHANGED rows
    <3>1. state[a] = "collecting_artifacts"
        BY <1>4, <2>4 DEF CompleteCleanup, Expected
    <3>2. outcome[a] # "none"
        BY <3>1, <1>c DEF KeepsSuccess, ExitDecides
    <3>3. CompleteAll({a}, outcome[a])
        BY <1>4, <2>4, <3>2 DEF CompleteCleanup
    <3>4. \A b \in Attempts : IF b = a THEN state'[b] = "completed" /\ outcome'[b] = outcome[b]
                              ELSE state'[b] = state[b] /\ outcome'[b] = outcome[b]
        BY <3>3 DEF CompleteAll
    <3>5. ASSUME NEW b \in Attempts PROVE RowKept(b) /\ state'[b] # "orphaned"
      <4>1. CASE b # a
          BY <3>4, <4>1, <1>c, SameRow
      <4>2. CASE b = a
          BY <2>1, <3>4, <4>2 DEF RowKept, Collected
      <4> QED
          BY <4>1, <4>2
    <3> QED
        BY <2>2, <3>5 DEF ControllerMoves
  <2> QED
      BY <2>3, <2>4
<1>5. ASSUME NEW j \in Jobs, CancelJob(j) PROVE \A b \in Attempts : ControllerMoves(b)
  <2>1. toController' = toController /\ work' = work
      BY <1>5 DEF CancelJob
  <2>2. CASE FinishJob(j, "cancelled") /\ toAgent' = toAgent
    <3>1. UNCHANGED <<state, outcome>>
        BY <2>2 DEF FinishJob
    <3> QED
        BY <2>1, <2>2, <3>1, <1>k
  <2>3. CASE current[j] # NoAttempt /\ RequestRemoteJobCancel(j)
    <3>1. UNCHANGED <<state, outcome>> /\ ToAgent(Frame("cancel_job", current[j], "none"))
        BY <2>3 DEF RequestRemoteJobCancel, rows
    <3>2. /\ Frame("cancel_job", current[j], "none") \in Commands
          /\ Frame("cancel_job", current[j], "none").type = "cancel_job"
      <4>1. current[j] \in Attempts
          BY <2>3 DEF TypeOK
      <4> QED
          BY <4>1, FrameTypes DEF Frame
    <3> QED
        BY <2>1, <3>1, <3>2, <1>k
  <2>4. CASE /\ current[j] # NoAttempt /\ state[current[j]] = "completed"
             /\ CompleteAll({current[j]}, "cancelled") /\ toAgent' = toAgent
    <3>1. \A b \in Attempts : \/ state'[b] = state[b] /\ outcome'[b] = outcome[b]
                              \/ state[b] = "completed" /\ state'[b] = "completed" /\ outcome'[b] = "cancelled"
        BY <2>4 DEF CompleteAll
    <3>2. ASSUME NEW b \in Attempts PROVE RowKept(b) /\ state'[b] # "orphaned"
      <4>1. CASE state'[b] = state[b] /\ outcome'[b] = outcome[b]
          BY <4>1, <1>c, SameRow
      <4>2. CASE state[b] = "completed" /\ state'[b] = "completed" /\ outcome'[b] = "cancelled"
          BY <4>2 DEF RowKept, Collected
      <4> QED
          BY <3>1, <4>1, <4>2
    <3>3. \A b \in Attempts : WireKept(b) /\ ~In(toAgent', Decisions)
        BY <2>1, <2>4, <1>g DEF WireKept
    <3> QED
        BY <3>2, <3>3 DEF ControllerMoves
  <2> QED
      BY <1>5, <1>c, <2>2, <2>3, <2>4 DEF CancelJob, Calm
<1>6. CASE IgnoreStale
  <2> DEFINE h == Head(toController)
  <2>1. /\ toController # <<>> /\ toController' = Tail(toController)
        /\ h.type \in DOMAIN Expected /\ state[h.a] \notin Expected[h.type]
        /\ UNCHANGED <<state, outcome, work, toAgent>>
      BY <1>6 DEF IgnoreStale, controller, rows
  <2> HIDE DEF h
  <2>2. ASSUME NEW b \in Attempts PROVE WireKept(b)
    <3>1. ASSUME h \in Exits(b) PROVE state'[b] \in Collected
      <4>1. In(toController, Exits(b))
          BY <1>q, <2>1, <3>1, QueueTail DEF h
      <4>2. state[b] # "absent"
          BY <4>1, <1>c DEF KeepsSuccess, EndsAfterRun, After
      <4>3. state[b] \notin Expected["job_exit"]
          BY <2>1, <3>1, ExitFields
      <4>4. state[b] \in States
          BY <1>q
      <4> QED
          BY <2>1, <4>2, <4>3, <4>4 DEF Expected, States, Collected
    <3>2. ASSUME h \in Manifest(b) PROVE phase[b] # "granting"
      <4>1. state[b] # "collecting_artifacts"
          BY <2>1, <3>2, ExitFields DEF Expected
      <4>2. ~Led(toController, Manifest(b), Exits(b))
          BY <1>q, <2>1, <3>2, LedKept DEF h
      <4>3. state[b] = "completed"
          BY <4>1, <4>2, <1>c DEF KeepsSuccess, ExitFirst, Collected
      <4> QED
          BY <4>3, <1>c DEF KeepsSuccess, CompletedLast, Gone
    <3> QED
        BY <2>1, <3>1, <3>2 DEF WireKept, h
  <2>3. \A b \in Attempts : RowKept(b) /\ state'[b] # "orphaned"
      BY <2>1, <1>c, SameRow
  <2> QED
      BY <2>1, <2>2, <2>3, <1>g DEF ControllerMoves
<1> QED
    BY <1>1, <1>2, <1>3, <1>4, <1>5, <1>6 DEF ControllerSettles

(* The lease offer: the attempt is new. *)
LEMMA InitiateKept ==
    ASSUME TypeOK, AttemptInv, CalmInv, NEW a \in Attempts, InitiateRemoteAttempt(a)
    PROVE  /\ \A b \in Attempts : KeepsSuccess(b)' /\ state'[b] # "orphaned"
           /\ ~In(toAgent', Decisions)
<1>c. Calm /\ \A b \in Attempts : KeepsSuccess(b)
    BY DEF CalmInv
<1> DEFINE m == Frame("lease_offer", a, "none")
<1>1. /\ <<"dispatch", a>> \in work /\ work' = work \ {<<"dispatch", a>>} /\ ToAgent(m)
      /\ state' = [state EXCEPT ![a] = "leasing"] /\ outcome' = outcome
      /\ toController' = toController /\ UNCHANGED agent
    BY DEF InitiateRemoteAttempt, Advance
<1>2. phase' = phase /\ result' = result
    BY <1>1 DEF agent, registry, files
<1>3. state'[a] = "leasing" /\ \A b \in Attempts \ {a} : state'[b] = state[b]
    BY <1>1, AdvanceState
<1>4. m \in Commands /\ m.a = a /\ m.type = "lease_offer"
    BY FrameTypes DEF Frame
<1> HIDE DEF m
<1>5. \A S : In(toAgent', S) <=> In(toAgent, S) \/ m \in S
    BY <1>c, <1>1, <1>4, CommandSent DEF Calm
<1>6. ~In(toAgent', Decisions)
    BY <1>c, <1>4, <1>5 DEF Calm, Decisions
<1>7. ASSUME NEW b \in Attempts, b # a PROVE KeepsSuccess(b)' /\ state'[b] # "orphaned"
  <2>1. RowKept(b) /\ state'[b] # "orphaned"
      BY <1>1, <1>3, <1>7, <1>c, SameRow
  <2>2. m \notin Offer(b)
      BY <1>4, <1>7, TokenFields DEF Begin
  <2>3. WireKept(b)
      BY <1>1, <1>5, <2>2 DEF WireKept
  <2> QED
      BY <1>2, <1>c, <2>1, <2>3, ControllerKept
<1>8. KeepsSuccess(a)'
  <2>1. state[a] = "absent" /\ phase[a] = "none"
      BY <1>1 DEF AttemptInv, PerAttempt, OfferedOnce, Untouched
  <2>2. ~After(a) /\ ~Gone(a)
      BY <2>1 DEF After, Gone
  <2>3. /\ outcome[a] # "failed" /\ result[a] # "succeeded" /\ ~In(toController, Exits(a))
        /\ ~In(toController, Reject(a)) /\ ~In(toController, Ending(a)) /\ <<"drain", a>> \notin work
      BY <1>c, <2>2 DEF KeepsSuccess, EndsAfterRun, CompletedLast
  <2>4. Led(toController, Manifest(a), Exits(a))
      BY <1>c, <2>1 DEF KeepsSuccess, ExitFirst, Collected
  <2>5. FailureIsTrue(a)' /\ EndsAfterRun(a)' /\ ExitDecides(a)' /\ GrantComes(a)'
      BY <1>1, <1>2, <1>3, <2>1, <2>3 DEF FailureIsTrue, EndsAfterRun, ExitDecides, GrantComes
  <2>6. CompletedLast(a)'
      BY <1>1, <1>3, <2>3 DEF CompletedLast
  <2>7. ExitFirst(a)'
      BY <1>1, <1>2, <2>1, <2>4 DEF ExitFirst
  <2> QED
      BY <2>5, <2>6, <2>7 DEF KeepsSuccess
<1> QED
    BY <1>3, <1>6, <1>7, <1>8

(* What the frames an Agent sends are, and what they are not. *)
Sent(a, ms) ==
    /\ ms \in Seq(Notices) /\ toController' = toController \o ms
    /\ \A i \in 1..Len(ms) : ms[i].a = a
    /\ ~In(ms, OddNotices)

(* No frame. *)
LEMMA SendsNone ==
    ASSUME TypeOK, NEW a, toController' = toController
    PROVE  Sent(a, <<>>) /\ \A S : ~In(<<>>, S)
<1>1. <<>> \in Seq(Notices) /\ Len(<<>>) = 0
    OBVIOUS
<1>2. toController \o <<>> = toController
    BY DEF TypeOK
<1> QED
    BY <1>1, <1>2, QueueEmpty DEF Sent

(* One frame. *)
LEMMA SendsOne ==
    ASSUME TypeOK, Calm, NEW a, NEW t, NEW x, Frame(t, a, x) \in Notices,
           ToController(<<Frame(t, a, x)>>), t \notin {"recovery_report", "capabilities"},
           t = "job_exit" => x # "none"
    PROVE  /\ Sent(a, <<Frame(t, a, x)>>)
           /\ \A S : In(<<Frame(t, a, x)>>, S) <=> Frame(t, a, x) \in S
<1> DEFINE m == Frame(t, a, x)
<1>1. m \in Notices /\ m.type = t /\ m.a = a /\ m.x = x
    BY DEF Frame
<1>2. m \notin OddNotices
    BY <1>1 DEF OddNotices
<1>3. toController' = toController \o <<m>>
    BY DEF ToController, Calm
<1> HIDE DEF m
<1>4. <<m>> \in Seq(Notices) /\ Len(<<m>>) = 1 /\ <<m>>[1] = m
    BY <1>1
<1>5. \A S : In(<<m>>, S) <=> m \in S
    BY <1>4 DEF In
<1>6. Sent(a, <<m>>)
    BY <1>1, <1>2, <1>3, <1>4, <1>5 DEF Sent
<1> QED
    BY <1>5, <1>6 DEF m

(* The frames that end an attempt. *)
LEMMA SendsEnd ==
    ASSUME TypeOK, Calm, NEW a \in Attempts, NEW o \in Results, o # "none", ToController(ExitFrames(a, o))
    PROVE  /\ Sent(a, ExitFrames(a, o))
           /\ \A S : In(ExitFrames(a, o), S) <=>
                        Frame("job_exit", a, o) \in S \/ Frame("cleanup_complete", a, "none") \in S
<1> DEFINE m == Frame("job_exit", a, o)
           n == Frame("cleanup_complete", a, "none")
           ms == <<m, n>>
<1>1. /\ m.type = "job_exit" /\ m.a = a /\ m.x = o
      /\ n.type = "cleanup_complete" /\ n.a = a
    BY DEF Frame
<1>2. m \in Notices /\ n \in Notices
    BY FrameTypes
<1>3. m \notin OddNotices /\ n \notin OddNotices
    BY <1>1 DEF OddNotices
<1>4. toController' = toController \o ms /\ ExitFrames(a, o) = ms
    BY DEF ToController, Calm, ExitFrames
<1> HIDE DEF m, n
<1>5. ms \in Seq(Notices) /\ Len(ms) = 2 /\ ms[1] = m /\ ms[2] = n
    BY <1>2
<1>6. \A S : In(ms, S) <=> m \in S \/ n \in S
  <2>1. 1..2 = {1, 2}
      OBVIOUS
  <2> QED
      BY <1>5, <2>1 DEF In
<1>7. \A i \in 1..Len(ms) : ms[i].a = a
  <2>1. \A i \in 1..2 : i = 1 \/ i = 2
      OBVIOUS
  <2> QED
      BY <1>1, <1>5, <2>1
<1> HIDE DEF ms
<1>8. Sent(a, ms)
    BY <1>3, <1>4, <1>5, <1>6, <1>7 DEF Sent
<1> QED
    BY <1>4, <1>6, <1>8 DEF m, n

(* Which of the frames these are. *)
LEMMA FrameKinds ==
    ASSUME NEW a, NEW t, NEW x
    PROVE  /\ Frame(t, a, x) \in Ending(a) => t = "cleanup_complete"
           /\ Frame(t, a, x) \in Exits(a) => t = "job_exit"
           /\ Frame(t, a, x) \in FailedExit(a) => t = "job_exit" /\ x = "failed"
           /\ Frame(t, a, x) \in Manifest(a) => t = "artifact_manifest"
           /\ Frame(t, a, x) \in Reject(a) => t = "lease_reject"
           /\ t = "artifact_manifest" /\ x = "none" => Frame(t, a, x) \in Manifest(a)
           /\ t = "job_exit" /\ x \in Results => Frame(t, a, x) \in Exits(a)
BY FramesDiffer DEF Ending, Exits, FailedExit, Manifest, Reject

(* What the Agent reads leaves the other frames where they are. *)
LEMMA AgentReads ==
    ASSUME TypeOK, Calm, NEW a \in Attempts, AgentStep(a)
    PROVE  /\ \A b \in Attempts : In(toAgent', Offer(b)) => In(toAgent, Offer(b))
           /\ \A b \in Attempts : In(toAgent, Grant(b)) =>
                 In(toAgent', Grant(b)) \/ (HandleArtifactUploadGrant(a) /\ b = a)
           /\ ~In(toAgent', Decisions)
           /\ ~HandleReconcileDecision(a)
<1>q. toAgent \in Seq(Commands)
    BY DEF TypeOK
<1>1. \/ toAgent' = toAgent
      \/ toAgent # <<>> /\ toAgent' = Tail(toAgent) /\ Head(toAgent).a = a
    BY AgentQueues
<1>2. \A S : In(toAgent', S) => In(toAgent, S)
    BY <1>q, <1>1, QueueTail
<1>3. ASSUME HandleReconcileDecision(a) PROVE FALSE
  <2>1. toAgent # <<>> /\ Head(toAgent) \in Commands /\ Head(toAgent).type = "reconcile_decision"
      BY <1>3, CommandHead DEF HandleReconcileDecision
  <2>2. Head(toAgent) \in Decisions
      BY <2>1 DEF Decisions
  <2> QED
      BY <1>q, <2>1, <2>2, QueueTail DEF Calm
<1>4. ASSUME NEW b \in Attempts, In(toAgent, Grant(b)), ~In(toAgent', Grant(b))
      PROVE  HandleArtifactUploadGrant(a) /\ b = a
  <2>1. toAgent' # toAgent
      BY <1>4
  <2>2. Head(toAgent) \in Grant(b)
      BY <1>q, <1>1, <1>4, <2>1, QueueHolds
  <2>3. Head(toAgent).type = "artifact_upload_grant" /\ b = a
      BY <1>1, <2>1, <2>2, ExitFields
  <2>4. AgentHandles(a)
    <3>1. AgentWorks(a) => toAgent' = toAgent
        BY DEF AgentWorks, RequestBundle, BundleTimesOut, PrepareEnds, StartFails, SpawnJobScript,
               ProcessExits, CollectArtifacts, GrantTimesOut, CleanupEnds, SelfTerminated, ZombieEnds
    <3>2. SelfTerminate(a) \/ EmitRecoveryReport(a) => toAgent' = toAgent
        BY DEF SelfTerminate, EmitRecoveryReport
    <3> QED
        BY <2>1, <3>1, <3>2 DEF AgentStep
  <2>5. ~HandleLeaseOffer(a) /\ ~HandlePrepareSource(a) /\ ~HandleBundleDownload(a) /\ ~HandleRunJob(a)
        /\ ~HandleCancelJob(a)
      BY <2>3 DEF HandleLeaseOffer, HandlePrepareSource, HandleBundleDownload, HandleRunJob,
                  HandleCancelJob, Command
  <2> QED
      BY <1>3, <2>3, <2>4, <2>5 DEF AgentHandles
<1> QED
    BY <1>2, <1>3, <1>4 DEF Calm

(* What an Agent's step does to its attempt while the connection holds. *)
AgentEffect(a) ==
    /\ \E ms \in Seq(Notices) : Sent(a, ms) /\ AgentKeeps(a, ms)
    /\ phase'[a] \notin OddPhases

(* An attempt ends on the Agent. *)
LEMMA EndEffect ==
    ASSUME TypeOK, Calm, NEW a \in Attempts, AgentStep(a), NEW o \in Results, o # "none",
           EndAttempt(a, o), phase[a] # "none", result'[a] = "succeeded" => result[a] = "succeeded" /\ o # "failed"
    PROVE  AgentEffect(a)
<1> DEFINE ms == ExitFrames(a, o)
<1>1. ToController(ms) /\ phase' = [phase EXCEPT ![a] = "none"]
    BY DEF EndAttempt, SetPhase
<1>2. phase'[a] = "none"
    BY <1>1 DEF TypeOK
<1>3. Sent(a, ms) /\ \A S : In(ms, S) <=> Frame("job_exit", a, o) \in S \/ Frame("cleanup_complete", a, "none") \in S
    BY <1>1, SendsEnd
<1> HIDE DEF ms
<1>4. ~In(ms, Reject(a)) /\ ~In(ms, Manifest(a)) /\ (In(ms, FailedExit(a)) => o = "failed")
    BY <1>3, FrameKinds
<1>5. In(toAgent', Offer(a)) => In(toAgent, Offer(a))
    BY AgentReads
<1>6. AgentKeeps(a, ms)
    BY <1>2, <1>4, <1>5 DEF AgentKeeps
<1> QED
    BY <1>2, <1>3, <1>6 DEF AgentEffect, OddPhases, Sent

(* Nothing is sent. *)
LEMMA SilentEffect ==
    ASSUME TypeOK, Calm, NEW a \in Attempts, AgentStep(a), toController' = toController, result' = result,
           After(a) => phase'[a] \in {"none", "exited", "granting", "cleaning"},
           Gone(a) => phase'[a] = "none",
           phase'[a] \in {"granting", "exited"} => phase'[a] = phase[a] /\ ~HandleArtifactUploadGrant(a),
           phase'[a] \notin OddPhases
    PROVE  AgentEffect(a)
<1>1. Sent(a, <<>>) /\ \A S : ~In(<<>>, S)
    BY SendsNone
<1>2. /\ In(toAgent', Offer(a)) => In(toAgent, Offer(a))
      /\ In(toAgent, Grant(a)) => In(toAgent', Grant(a)) \/ HandleArtifactUploadGrant(a)
    BY AgentReads
<1>3. AgentKeeps(a, <<>>)
    BY <1>1, <1>2 DEF AgentKeeps
<1> QED
    BY <1>1, <1>3 DEF AgentEffect, Sent

(* One frame is sent that is neither an exit nor a manifest nor a refusal, by an
   attempt that has not run. *)
LEMMA NoticeEffect ==
    ASSUME TypeOK, Calm, NEW a \in Attempts, AgentStep(a), NEW t, NEW x, Frame(t, a, x) \in Notices,
           ToController(<<Frame(t, a, x)>>),
           t \in {"lease_accept", "source_need", "source_ready", "job_started"},
           result' = result, ~After(a),
           phase'[a] \in {"reserved", "awaiting", "escalated", "ready", "running"}
    PROVE  AgentEffect(a)
<1> DEFINE ms == <<Frame(t, a, x)>>
<1>1. Sent(a, ms) /\ \A S : In(ms, S) <=> Frame(t, a, x) \in S
    BY SendsOne
<1> HIDE DEF ms
<1>2. ~In(ms, Reject(a)) /\ ~In(ms, Manifest(a)) /\ ~In(ms, FailedExit(a)) /\ ~In(ms, Exits(a))
      /\ ~In(ms, Ending(a))
    BY <1>1, FrameKinds
<1>3. In(toAgent', Offer(a)) => In(toAgent, Offer(a))
    BY AgentReads
<1>4. ~Gone(a)
    BY DEF Gone, After
<1>5. AgentKeeps(a, ms)
    BY <1>2, <1>3, <1>4 DEF AgentKeeps
<1> QED
    BY <1>1, <1>5 DEF AgentEffect, Sent, OddPhases

(* Commands of the Controller. *)
LEMMA AgentHandlesEffect ==
    ASSUME TypeOK, CalmInv, NEW a \in Attempts, PerAttempt(a), AgentHandles(a)
    PROVE  AgentEffect(a)
<1>c. Calm /\ KeepsSuccess(a)
    BY DEF CalmInv
<1>s. AgentStep(a)
    BY DEF AgentStep
<1>q. toAgent \in Seq(Commands) /\ phase \in [Attempts -> Phases] /\ phase[a] \notin OddPhases
    BY <1>c DEF TypeOK, Calm
<1>p. \A p : phase' = [phase EXCEPT ![a] = p] => phase'[a] = p
    BY <1>q
<1>n. ASSUME toController' = toController, result' = result, phase' = phase, ~HandleArtifactUploadGrant(a)
      PROVE  AgentEffect(a)
    BY <1>n, <1>c, <1>s, <1>q, SilentEffect DEF After, Gone
<1>1. CASE HandleLeaseOffer(a)
  <2>1. Head(toAgent) \in Offer(a) /\ toAgent # <<>> /\ toAgent' = Tail(toAgent) /\ result' = result
    <3>1. Command("lease_offer", a) /\ result' = result
        BY <1>1 DEF HandleLeaseOffer, agent, files
    <3> QED
        BY <3>1, CommandHead, CommandFields DEF Offer
  <2>2. In(toAgent, Offer(a)) /\ ~In(toAgent', Offer(a))
    <3>1. Once(toAgent, Begin(a))
        BY DEF PerAttempt, OneHandshake
    <3>2. Head(toAgent) \in Begin(a)
        BY <2>1 DEF Begin
    <3>3. ~In(toAgent', Begin(a))
        BY <1>q, <2>1, <3>1, <3>2, QueueTail
    <3> QED
        BY <1>q, <2>1, <3>3, QueueTail DEF In, Begin
  <2>3. phase[a] = "none" /\ ~After(a) /\ ~Gone(a) /\ state[a] # "absent"
    <3>1. phase[a] = "none"
        BY <2>2 DEF PerAttempt, OfferedOnce, Untouched
    <3>2. state[a] # "absent"
        BY <1>q, <2>2 DEF PerAttempt, OfferedOnce, In, Begin
    <3> QED
        BY <2>2, <3>1, <3>2 DEF After, Gone
  <2>4. CASE UNCHANGED <<agent, toController>>
    <3>1. phase' = phase
        BY <2>4 DEF agent, registry
    <3>2. ~HandleArtifactUploadGrant(a)
        BY <2>1, TokenFields DEF HandleArtifactUploadGrant, Command
    <3> QED
        BY <2>1, <2>4, <3>1, <3>2, <1>n
  <2>5. CASE ToController(<<Frame("lease_reject", a, "none")>>) /\ UNCHANGED agent
    <3> DEFINE ms == <<Frame("lease_reject", a, "none")>>
    <3>1. phase'[a] = "none"
        BY <2>3, <2>5 DEF agent, registry
    <3>2. Sent(a, ms) /\ \A S : In(ms, S) <=> Frame("lease_reject", a, "none") \in S
        BY <1>c, <2>5, SendsOne, FrameTypes
    <3> HIDE DEF ms
    <3>3. ~In(ms, Manifest(a)) /\ ~In(ms, FailedExit(a)) /\ ~In(ms, Exits(a)) /\ ~In(ms, Ending(a))
        BY <3>2, FrameKinds
    <3>4. result'[a] # "succeeded"
        BY <1>c, <2>1, <2>3 DEF KeepsSuccess, EndsAfterRun
    <3>5. AgentKeeps(a, ms)
        BY <2>2, <2>3, <3>1, <3>3, <3>4 DEF AgentKeeps
    <3> QED
        BY <3>1, <3>2, <3>5 DEF AgentEffect, Sent, OddPhases
  <2>6. CASE SetPhase(a, "reserved") /\ ToController(<<Frame("lease_accept", a, "none")>>)
    <3>1. phase'[a] = "reserved"
        BY <2>6, <1>p DEF SetPhase
    <3>2. Frame("lease_accept", a, "none") \in Notices
        BY FrameTypes
    <3> QED
        BY <1>c, <1>s, <2>1, <2>3, <2>6, <3>1, <3>2, NoticeEffect
  <2> QED
      BY <1>1, <2>4, <2>5, <2>6 DEF HandleLeaseOffer
<1>2. CASE HandlePrepareSource(a)
  <2>1. /\ Command("prepare_source", a) /\ toController' = toController /\ result' = result
        /\ IF Offered(a) THEN phase' = [phase EXCEPT ![a] =
                                          IF Head(toAgent).x = "full" THEN "preparing" ELSE "overlaying"]
           ELSE phase' = phase
      BY <1>2 DEF HandlePrepareSource, files, SetPhase
  <2>2. toAgent # <<>> /\ Head(toAgent) \in Begin(a) /\ Head(toAgent).type = "prepare_source"
      BY <2>1, CommandHead, CommandFields DEF Begin, Prepare
  <2>3. phase[a] \in {"none", "reserved", "escalated"}
      BY <1>q, <2>2, QueueTail DEF PerAttempt, HandshakeFirst, Underway
  <2>4. ~HandleArtifactUploadGrant(a)
      BY <2>2 DEF HandleArtifactUploadGrant, Command
  <2>5. CASE ~Offered(a)
      BY <2>1, <2>4, <2>5, <1>n
  <2>6. CASE Offered(a)
    <3>1. phase'[a] \in {"preparing", "overlaying"}
        BY <2>1, <2>6, <1>p
    <3>2. phase[a] \in {"reserved", "escalated"}
        BY <2>3, <2>6 DEF Offered, Registered
    <3>3. ~After(a) /\ ~Gone(a)
        BY <3>2 DEF After, Gone
    <3> QED
        BY <1>c, <1>s, <2>1, <3>1, <3>3, SilentEffect DEF OddPhases
  <2> QED
      BY <2>5, <2>6
<1>3. CASE HandleBundleDownload(a)
  <2>1. result' = result /\ Command("bundle_download", a)
      BY <1>3 DEF HandleBundleDownload, files
  <2>2. ~HandleArtifactUploadGrant(a)
      BY <2>1 DEF HandleArtifactUploadGrant, Command
  <2>3. CASE phase[a] # "awaiting" /\ UNCHANGED <<phase, toController>>
      BY <2>1, <2>2, <2>3, <1>n
  <2>4. CASE phase[a] = "awaiting" /\ SetPhase(a, "preparing") /\ UNCHANGED toController
    <3>1. phase'[a] = "preparing" /\ ~After(a) /\ ~Gone(a)
        BY <2>4, <1>p DEF SetPhase, After, Gone
    <3> QED
        BY <1>c, <1>s, <2>1, <2>4, <3>1, SilentEffect DEF OddPhases
  <2>5. CASE phase[a] = "awaiting" /\ SetPhase(a, "escalated") /\ ToController(<<Frame("source_need", a, "fallback")>>)
    <3>1. phase'[a] = "escalated" /\ ~After(a)
        BY <2>5, <1>p DEF SetPhase, After
    <3>2. Frame("source_need", a, "fallback") \in Notices
        BY FrameTypes
    <3> QED
        BY <1>c, <1>s, <2>1, <2>5, <3>1, <3>2, NoticeEffect
  <2> QED
      BY <1>3, <2>3, <2>4, <2>5 DEF HandleBundleDownload
<1>4. CASE HandleRunJob(a)
  <2>1. /\ result' = result /\ toController' = toController /\ Command("run_job", a)
        /\ phase' = phase \/ (phase[a] = "ready" /\ phase' = [phase EXCEPT ![a] = "starting"])
      BY <1>4 DEF HandleRunJob, files, SetPhase
  <2>2. ~HandleArtifactUploadGrant(a)
      BY <2>1 DEF HandleArtifactUploadGrant, Command
  <2>3. CASE phase[a] = "ready" /\ phase' = [phase EXCEPT ![a] = "starting"]
    <3>1. phase'[a] = "starting" /\ ~After(a) /\ ~Gone(a)
        BY <2>3, <1>p DEF After, Gone
    <3> QED
        BY <1>c, <1>s, <2>1, <3>1, SilentEffect DEF OddPhases
  <2> QED
      BY <2>1, <2>2, <2>3, <1>n
<1>5. CASE HandleArtifactUploadGrant(a)
  <2>1. /\ result' = result /\ toController' = toController
        /\ phase'[a] = IF phase[a] = "granting" THEN "cleaning" ELSE phase[a]
      BY <1>5, <1>q DEF HandleArtifactUploadGrant, files, OddPhases
  <2>2. Sent(a, <<>>) /\ \A S : ~In(<<>>, S)
      BY <2>1, SendsNone
  <2>3. In(toAgent', Offer(a)) => In(toAgent, Offer(a))
      BY <1>c, <1>s, AgentReads
  <2>4. AgentKeeps(a, <<>>)
      BY <2>1, <2>2, <2>3 DEF AgentKeeps, After, Gone
  <2> QED
      BY <1>q, <2>1, <2>2, <2>4 DEF AgentEffect, Sent, OddPhases
<1>6. CASE HandleCancelJob(a)
  <2>1. result' = result /\ Command("cancel_job", a)
      BY <1>6 DEF HandleCancelJob
  <2>2. ~HandleArtifactUploadGrant(a)
      BY <2>1 DEF HandleArtifactUploadGrant, Command
  <2>3. CASE phase[a] \in {"reserved", "ready", "awaiting"} /\ EndAttempt(a, "cancelled")
      BY <1>c, <1>s, <2>1, <2>3, EndEffect DEF Results
  <2>4. CASE UNCHANGED <<phase, toController>>
      BY <2>1, <2>2, <2>4, <1>n
  <2> QED
      BY <1>6, <2>3, <2>4 DEF HandleCancelJob
<1> QED
    BY <1>1, <1>2, <1>3, <1>4, <1>5, <1>6, <1>c, <1>s, AgentReads DEF AgentHandles

(* The Agent's own work. *)
LEMMA AgentWorksEffect ==
    ASSUME TypeOK, CalmInv, NEW a \in Attempts, PerAttempt(a), AgentWorks(a)
    PROVE  AgentEffect(a)
<1>c. Calm /\ KeepsSuccess(a)
    BY DEF CalmInv
<1>s. AgentStep(a)
    BY DEF AgentStep
<1>q. /\ phase \in [Attempts -> Phases] /\ phase[a] \notin OddPhases /\ result \in [Attempts -> Results]
      /\ toAgent \in Seq(Commands) /\ toController \in Seq(Notices)
    BY <1>c DEF TypeOK, Calm
<1>p. \A p : phase' = [phase EXCEPT ![a] = p] => phase'[a] = p
    BY <1>q
<1>r. \A o : result' = [result EXCEPT ![a] = o] => result'[a] = o
    BY <1>q
<1>f. result[a] = "succeeded" => After(a)
    BY <1>c DEF KeepsSuccess, EndsAfterRun
<1>o. "cancelled" \in Results /\ "failed" \in Results /\ "succeeded" \in Results
    BY DEF Results
<1>e. ASSUME NEW o \in {"cancelled", "failed"}, EndAttempt(a, o), result' = result,
             phase[a] \in {"preparing", "overlaying", "starting"}
      PROVE  AgentEffect(a)
  <2>1. ~After(a)
      BY <1>e DEF After
  <2>2. result'[a] # "succeeded"
      BY <1>e, <1>f, <2>1
  <2> QED
      BY <1>c, <1>s, <1>o, <1>e, <2>2, EndEffect
<1>k. ASSUME NEW t \in {"source_need", "source_ready", "job_started"}, NEW x, Frame(t, a, x) \in Notices,
             ToController(<<Frame(t, a, x)>>), result' = result,
             phase[a] \in {"overlaying", "awaiting", "preparing", "starting"},
             NEW p \in {"awaiting", "escalated", "ready", "running"}, SetPhase(a, p)
      PROVE  AgentEffect(a)
  <2>1. ~After(a) /\ phase'[a] = p
      BY <1>k, <1>p DEF After, SetPhase
  <2> QED
      BY <1>c, <1>s, <1>k, <2>1, NoticeEffect
<1>1. CASE RequestBundle(a)
  <2>1. /\ phase[a] = "overlaying" /\ SetPhase(a, "awaiting") /\ result' = result
        /\ ToController(<<Frame("source_need", a, "bundle")>>)
      BY <1>1 DEF RequestBundle, files
  <2>2. Frame("source_need", a, "bundle") \in Notices
      BY FrameTypes
  <2> QED
      BY <2>1, <2>2, <1>k
<1>2. CASE BundleTimesOut(a)
  <2>1. /\ phase[a] = "awaiting" /\ SetPhase(a, "escalated") /\ result' = result
        /\ ToController(<<Frame("source_need", a, "fallback")>>)
      BY <1>2 DEF BundleTimesOut, files
  <2>2. Frame("source_need", a, "fallback") \in Notices
      BY FrameTypes
  <2> QED
      BY <2>1, <2>2, <1>k
<1>3. CASE PrepareEnds(a)
  <2>1. phase[a] \in {"preparing", "overlaying"} /\ result' = result
      BY <1>3 DEF PrepareEnds
  <2>2. CASE SetPhase(a, "ready") /\ ToController(<<Frame("source_ready", a, "none")>>)
    <3>1. Frame("source_ready", a, "none") \in Notices
        BY FrameTypes
    <3> QED
        BY <2>1, <2>2, <3>1, <1>k
  <2>3. CASE EndAttempt(a, "cancelled") \/ EndAttempt(a, "failed")
      BY <2>1, <2>3, <1>e
  <2> QED
      BY <1>3, <2>2, <2>3 DEF PrepareEnds
<1>4. CASE StartFails(a)
    BY <1>4, <1>e DEF StartFails
<1>5. CASE SpawnJobScript(a)
  <2>1. /\ phase[a] = "starting" /\ SetPhase(a, "running") /\ result' = result
        /\ ToController(<<Frame("job_started", a, "none")>>)
      BY <1>5 DEF SpawnJobScript
  <2>2. Frame("job_started", a, "none") \in Notices
      BY FrameTypes
  <2> QED
      BY <2>1, <2>2, <1>k
<1>6. CASE ProcessExits(a)
  <2>1. PICK o \in {"cancelled", "succeeded", "failed"} :
            result' = [result EXCEPT ![a] = o] /\ ToController(<<Frame("job_exit", a, o)>>)
      BY <1>6 DEF ProcessExits
  <2>2. phase[a] = "running" /\ phase'[a] = "exited" /\ result'[a] = o
      BY <1>6, <2>1, <1>p, <1>r DEF ProcessExits, SetPhase
  <2> DEFINE ms == <<Frame("job_exit", a, o)>>
  <2>3. Frame("job_exit", a, o) \in Notices /\ o # "none" /\ o \in Results
      BY FrameTypes, <1>o
  <2>4. Sent(a, ms) /\ \A S : In(ms, S) <=> Frame("job_exit", a, o) \in S
      BY <1>c, <2>1, <2>3, SendsOne
  <2> HIDE DEF ms
  <2>5. /\ ~In(ms, Reject(a)) /\ ~In(ms, Manifest(a)) /\ ~In(ms, Ending(a)) /\ In(ms, Exits(a))
        /\ In(ms, FailedExit(a)) => o = "failed"
      BY <2>3, <2>4, FrameKinds
  <2>6. /\ In(toAgent', Offer(a)) => In(toAgent, Offer(a))
        /\ ~After(a) /\ ~Gone(a)
      BY <1>c, <1>s, <2>2, AgentReads DEF After, Gone
  <2>7. AgentKeeps(a, ms)
      BY <2>2, <2>5, <2>6 DEF AgentKeeps
  <2> QED
      BY <2>2, <2>4, <2>7 DEF AgentEffect, Sent, OddPhases
<1>7. CASE CollectArtifacts(a)
  <2>1. phase[a] = "exited" /\ toAgent' = toAgent
      BY <1>7 DEF CollectArtifacts
  <2>2. CASE /\ SetPhase(a, "granting") /\ ToController(<<Frame("artifact_manifest", a, "none")>>)
             /\ result' = result
    <3> DEFINE ms == <<Frame("artifact_manifest", a, "none")>>
    <3>1. phase'[a] = "granting" /\ ~Gone(a)
        BY <2>1, <2>2, <1>p DEF SetPhase, Gone
    <3>2. Sent(a, ms) /\ \A S : In(ms, S) <=> Frame("artifact_manifest", a, "none") \in S
        BY <1>c, <2>2, SendsOne, FrameTypes
    <3> HIDE DEF ms
    <3>3. ~In(ms, Reject(a)) /\ In(ms, Manifest(a)) /\ ~In(ms, FailedExit(a)) /\ ~In(ms, Exits(a))
          /\ ~In(ms, Ending(a))
        BY <3>2, FrameKinds
    <3>4. AgentKeeps(a, ms)
        BY <2>1, <2>2, <3>1, <3>3 DEF AgentKeeps
    <3> QED
        BY <3>1, <3>2, <3>4 DEF AgentEffect, Sent, OddPhases
  <2>3. CASE EndAttempt(a, "failed") /\ result' = [result EXCEPT ![a] = "failed"]
    <3>1. result'[a] = "failed"
        BY <2>3, <1>r
    <3> QED
        BY <1>c, <1>s, <1>o, <2>1, <2>3, <3>1, EndEffect
  <2> QED
      BY <1>7, <2>2, <2>3 DEF CollectArtifacts
<1>8. ~GrantTimesOut(a)
  <2> SUFFICES ASSUME GrantTimesOut(a) PROVE FALSE
      OBVIOUS
  <2>1. phase[a] = "granting" /\ ~AwaitsGrant(a)
      BY <1>q DEF GrantTimesOut, OddPhases
  <2>2. <<"grant", a>> \in work \/ In(toAgent, Grant(a)) \/ In(toController, Manifest(a))
      BY <1>c, <2>1 DEF KeepsSuccess, GrantComes
  <2>3. DOMAIN toAgent = 1..Len(toAgent) /\ DOMAIN toController = 1..Len(toController)
      BY <1>q
  <2> QED
      BY <1>c, <2>1, <2>2, <2>3 DEF AwaitsGrant, In, Grant, Manifest, Calm
<1>9. CASE CleanupEnds(a)
  <2> DEFINE ms == <<Frame("cleanup_complete", a, "none")>>
  <2>1. /\ phase[a] = "cleaning" /\ phase' = [phase EXCEPT ![a] = "none"] /\ result' = result
        /\ ToController(ms)
      BY <1>9 DEF CleanupEnds, files, SetPhase
  <2>2. phase'[a] = "none"
      BY <2>1, <1>p
  <2>3. Sent(a, ms) /\ \A S : In(ms, S) <=> Frame("cleanup_complete", a, "none") \in S
      BY <1>c, <2>1, SendsOne, FrameTypes
  <2> HIDE DEF ms
  <2>4. ~In(ms, Reject(a)) /\ ~In(ms, Manifest(a)) /\ ~In(ms, FailedExit(a)) /\ ~In(ms, Exits(a))
      BY <2>3, FrameKinds
  <2>5. In(toAgent', Offer(a)) => In(toAgent, Offer(a))
      BY <1>c, <1>s, AgentReads
  <2>6. AgentKeeps(a, ms)
      BY <2>1, <2>2, <2>4, <2>5 DEF AgentKeeps
  <2> QED
      BY <2>2, <2>3, <2>6 DEF AgentEffect, Sent, OddPhases
<1>10. ~SelfTerminated(a) /\ ~ZombieEnds(a)
    BY <1>q DEF SelfTerminated, ZombieEnds, OddPhases
<1> QED
    BY <1>1, <1>2, <1>3, <1>4, <1>5, <1>6, <1>7, <1>8, <1>9, <1>10 DEF AgentWorks

(* The Agent keeps every attempt's success while the connection holds. *)
LEMMA AgentCalm ==
    ASSUME TypeOK, AttemptInv, CalmInv, NEW a \in Attempts, AgentStep(a)
    PROVE  CalmInv'
<1>c. Calm /\ \A b \in Attempts : KeepsSuccess(b) /\ PerAttempt(b)
    BY DEF CalmInv, AttemptInv
<1>q. /\ phase \in [Attempts -> Phases] /\ result \in [Attempts -> Results] /\ reporting[a] = "none"
      /\ toController \in Seq(Notices)
    BY <1>c DEF TypeOK, Calm
<1>1. AgentEffect(a)
  <2>1. ~SelfTerminate(a) /\ ~EmitRecoveryReport(a)
      BY <1>c, <1>q DEF SelfTerminate, EmitRecoveryReport, Calm
  <2> QED
      BY <2>1, <1>c, AgentHandlesEffect, AgentWorksEffect DEF AgentStep
<1>2. PICK ms \in Seq(Notices) : Sent(a, ms) /\ AgentKeeps(a, ms)
    BY <1>1 DEF AgentEffect
<1>3. toController' = toController \o ms
    BY <1>2 DEF Sent
<1>4. /\ UNCHANGED <<state, outcome, work, grace, orphan, reconcile, session, link>>
      /\ \A b \in Attempts \ {a} : phase'[b] = phase[b] /\ result'[b] = result[b]
      /\ \A b \in Attempts : reporting'[b] = "none"
  <2>1. UNCHANGED controller /\ UNCHANGED wire
      BY AgentFrame
  <2>2. phase' = phase \/ \E p \in Phases : phase' = [phase EXCEPT ![a] = p]
      BY AgentFrame
  <2>3. result' = result \/ \E o \in Results : result' = [result EXCEPT ![a] = o]
      BY AgentFrame
  <2>4. reporting' = reporting \/ reporting' = [reporting EXCEPT ![a] = "none"]
      BY AgentFrame
  <2>5. \A b \in Attempts \ {a} : phase'[b] = phase[b]
      BY <2>2, <1>q
  <2>6. \A b \in Attempts \ {a} : result'[b] = result[b]
      BY <2>3, <1>q
  <2>7. \A b \in Attempts : reporting'[b] = "none"
      BY <2>4, <1>c DEF Calm, TypeOK
  <2> QED
      BY <2>1, <2>5, <2>6, <2>7 DEF controller, rows, timers, wire
<1>5. ASSUME NEW b \in Attempts PROVE KeepsSuccess(b)'
  <2>1. CASE b = a
      BY <1>2, <1>3, <1>4, <1>c, <2>1, AgentKept
  <2>2. CASE b # a
    <3>1. phase'[b] = phase[b] /\ result'[b] = result[b]
        BY <1>4, <2>2
    <3>2. /\ ~In(ms, Exits(b)) /\ ~In(ms, FailedExit(b)) /\ ~In(ms, Ending(b)) /\ ~In(ms, Manifest(b))
          /\ ~In(ms, Reject(b))
      <4>1. \A i \in 1..Len(ms) : ms[i].a # b
          BY <1>2, <2>2 DEF Sent
      <4>2. \A m : m \in Exits(b) \/ m \in FailedExit(b) \/ m \in Ending(b) \/ m \in Manifest(b)
                      \/ m \in Reject(b) => m.a = b
          BY ExitFields, TokenFields
      <4> QED
          BY <4>1, <4>2 DEF In
    <3>3. /\ In(toAgent', Offer(b)) => In(toAgent, Offer(b))
          /\ In(toAgent, Grant(b)) => In(toAgent', Grant(b))
        BY <1>c, <2>2, AgentReads
    <3>4. AgentKeeps(b, ms)
        BY <3>1, <3>2, <3>3 DEF AgentKeeps, After, Gone
    <3> QED
        BY <1>2, <1>3, <1>4, <1>c, <3>4, AgentKept
  <2> QED
      BY <2>1, <2>2
<1>6. Calm'
  <2>1. ~In(toController', OddNotices)
      BY <1>2, <1>3, <1>c, <1>q, QueueHolds DEF Calm, Sent
  <2>2. ~In(toAgent', Decisions)
      BY <1>c, AgentReads
  <2>3. \A b \in Attempts : phase'[b] \notin OddPhases
      BY <1>1, <1>4, <1>c DEF AgentEffect, Calm
  <2> QED
      BY <2>1, <2>2, <2>3, <1>4, <1>c DEF Calm
<1> QED
    BY <1>5, <1>6 DEF CalmInv

(* So does the Controller. *)
LEMMA ControllerCalm ==
    ASSUME TypeOK, AttemptInv, CalmInv, Unpreparable = {},
           \/ \E a \in Attempts : DispatchJob(a) \/ ControllerHandles(a) \/ ControllerSettles(a)
           \/ \E j \in Jobs : CancelJob(j)
           \/ IgnoreStale
    PROVE  CalmInv'
<1>c. Calm /\ \A b \in Attempts : KeepsSuccess(b)
    BY DEF CalmInv
<1>q. toController \in Seq(Notices)
    BY DEF TypeOK
<1>1. CASE \E a \in Attempts : InitiateRemoteAttempt(a)
  <2>1. PICK a \in Attempts : InitiateRemoteAttempt(a)
      BY <1>1
  <2>2. /\ \A b \in Attempts : KeepsSuccess(b)' /\ state'[b] # "orphaned"
        /\ ~In(toAgent', Decisions)
      BY <2>1, InitiateKept
  <2>3. UNCHANGED <<timers, wire, toController, agent>>
      BY <2>1 DEF InitiateRemoteAttempt
  <2> QED
      BY <2>2, <2>3, <1>c DEF CalmInv, Calm, timers, wire, agent, registry
<1>2. CASE ~\E a \in Attempts : InitiateRemoteAttempt(a)
  <2>1. /\ \A b \in Attempts : ControllerMoves(b)
        /\ \A a \in Attempts : ControllerHandles(a) => ~HandleRecoveryReport(a)
    <3>1. CASE \E a \in Attempts : ControllerHandles(a)
        BY <3>1, HandlesMove
    <3>2. CASE ~\E a \in Attempts : ControllerHandles(a)
        BY <1>2, <3>2, SettlesMove
    <3> QED
        BY <3>1, <3>2
  <2>2. UNCHANGED <<timers, wire, agent>>
    <3>1. ASSUME NEW a \in Attempts, ControllerHandles(a) PROVE UNCHANGED <<timers, wire, agent>>
        BY <2>1, <3>1 DEF ControllerHandles, HandleLeaseAccept, HandleLeaseReject, HandleSourceNeed,
                          HandleSourceReady, HandleJobStarted, HandleJobExit, HandleArtifactManifest,
                          HandleCleanupComplete
    <3>2. ASSUME NEW a \in Attempts, DispatchJob(a) \/ ControllerSettles(a)
          PROVE  UNCHANGED <<timers, wire, agent>>
        BY <3>2 DEF DispatchJob, ControllerSettles, InitiateRemoteAttempt, NoAgentSelected, SourceProvided,
                    SourceFails, GrantUpload, CompleteCleanup
    <3>3. ASSUME NEW j \in Jobs, CancelJob(j) PROVE UNCHANGED <<timers, wire, agent>>
        BY <3>3 DEF CancelJob
    <3>4. CASE IgnoreStale
        BY <3>4 DEF IgnoreStale, controller
    <3> QED
        BY <3>1, <3>2, <3>3, <3>4
  <2>3. phase' = phase /\ result' = result /\ reporting' = reporting
      BY <2>2 DEF agent, registry, files
  <2>4. \A b \in Attempts : KeepsSuccess(b)'
      BY <1>c, <2>1, <2>3, ControllerKept DEF ControllerMoves
  <2>5. Calm'
    <3>1. /\ UNCHANGED <<session, link, grace, orphan, reconcile>>
        BY <2>2 DEF timers, wire
    <3>2. /\ \A b \in Attempts : state'[b] # "orphaned" /\ phase'[b] \notin OddPhases /\ reporting'[b] = "none"
        BY <2>1, <2>3, <1>c DEF ControllerMoves, Calm
    <3>3. ~In(toAgent', Decisions) /\ ~In(toController', OddNotices)
      <4>1. CASE \E b : b \in Attempts
        <5>1. ~In(toAgent', Decisions)
            BY <2>1, <4>1 DEF ControllerMoves
        <5>2. toController' = toController \/ (toController # <<>> /\ toController' = Tail(toController))
            BY <2>1, <4>1 DEF ControllerMoves, WireKept
        <5> QED
            BY <1>c, <1>q, <5>1, <5>2, QueueTail DEF Calm
      <4>2. CASE ~\E b : b \in Attempts
        <5>1. ASSUME NEW j \in Jobs, CancelJob(j) PROVE UNCHANGED <<toAgent, toController>>
          <6>1. current[j] = NoAttempt
              BY <4>2 DEF TypeOK
          <6> QED
              BY <5>1, <6>1 DEF CancelJob
        <5>2. IgnoreStale => /\ toAgent' = toAgent
                             /\ toController # <<>> /\ toController' = Tail(toController)
            BY DEF IgnoreStale
        <5> QED
            BY <4>2, <5>1, <5>2, <1>c, <1>q, QueueTail DEF Calm
      <4> QED
          BY <4>1, <4>2
    <3> QED
        BY <1>c, <3>1, <3>2, <3>3 DEF Calm
  <2> QED
      BY <2>4, <2>5 DEF CalmInv
<1> QED
    BY <1>1, <1>2

(* Nothing but a lost connection or a restart ends the calm. *)
LEMMA CalmNext ==
    ASSUME TypeOK, AttemptInv, Unpreparable = {}, Undisturbed => CalmInv, [Next]_vars, Undisturbed'
    PROVE  CalmInv'
<1>t. /\ cuts \in Nat /\ restarts \in Nat /\ reboots \in Nat
    BY DEF TypeOK
<1>1. CASE UNCHANGED vars
  <2>1. Undisturbed /\ CalmInv
      BY <1>1 DEF vars, faults, Undisturbed
  <2>2. UNCHANGED <<state, outcome, work, grace, orphan, reconcile, session, link, toAgent, toController,
                    phase, reporting, result>>
      BY <1>1 DEF vars, controller, rows, timers, wire, agent, registry, files
  <2> QED
      BY <2>1, <2>2 DEF CalmInv, Calm, KeepsSuccess, FailureIsTrue, EndsAfterRun, CompletedLast, ExitDecides,
                        GrantComes, ExitFirst, After, Gone
<1>2. CASE /\ UNCHANGED <<cuts, restarts, reboots>>
           /\ Next
  <2>1. CalmInv /\ Calm
      BY <1>2 DEF Undisturbed, CalmInv
  <2>2. ASSUME NEW a \in Attempts PROVE ~TimerFires(a) /\ ~ExpireStaleLease(a)
      BY <2>1 DEF TimerFires, OnGraceElapsed, OnOrphanTimeout, OnReconcileDeadline, ExpireStaleLease, Calm
  <2>3. ~HandleCapabilities
    <3> SUFFICES ASSUME HandleCapabilities PROVE FALSE
        OBVIOUS
    <3>1. toController \in Seq(Notices) /\ toController # <<>> /\ Head(toController) \in Notices
          /\ Head(toController).type = "capabilities"
        BY HeadTypes DEF HandleCapabilities, Received, TypeOK
    <3>2. Head(toController) \in OddNotices
        BY <3>1 DEF OddNotices
    <3> QED
        BY <2>1, <3>1, <3>2, QueueTail DEF Calm
  <2>4. ~ListAttemptMetadata /\ ~Reconnect
      BY <2>1 DEF ListAttemptMetadata, Reconnect, Calm
  <2>5. ~ControllerDrops /\ ~AgentDrops /\ ~ControllerRestarts /\ ~AgentRestarts
      BY <1>2, <1>t, <2>1 DEF ControllerDrops, AgentDrops, ControllerRestarts, AgentRestarts, Calm
  <2>6. \/ \E a \in Attempts : DispatchJob(a) \/ ControllerHandles(a) \/ ControllerSettles(a) \/ AgentStep(a)
        \/ \E j \in Jobs : CancelJob(j)
        \/ IgnoreStale
      BY <1>2, <2>2, <2>3, <2>4, <2>5 DEF Next, AgentStep
  <2> QED
      BY <2>1, <2>6, AgentCalm, ControllerCalm
<1>3. CASE ~UNCHANGED <<cuts, restarts, reboots>> /\ Next
  <2>1. ControllerDrops \/ AgentDrops \/ ControllerRestarts \/ AgentRestarts
    <3>1. ASSUME NEW a \in Attempts, AgentStep(a) PROVE FALSE
        BY <1>3, <3>1, AgentFrame DEF faults
    <3>2. ASSUME NEW a \in Attempts, DispatchJob(a) \/ ControllerSettles(a) PROVE FALSE
        BY <1>3, <3>2 DEF DispatchJob, ControllerSettles, InitiateRemoteAttempt, NoAgentSelected,
                          SourceProvided, SourceFails, GrantUpload, CompleteCleanup, faults
    <3>3. ASSUME NEW a \in Attempts, ControllerHandles(a) PROVE FALSE
        BY <1>3, <3>3 DEF ControllerHandles, HandleLeaseAccept, HandleLeaseReject, HandleSourceNeed,
                          HandleSourceReady, HandleJobStarted, HandleJobExit, HandleArtifactManifest,
                          HandleCleanupComplete, HandleRecoveryReport, faults
    <3>4. ASSUME NEW a \in Attempts, TimerFires(a) \/ ExpireStaleLease(a) PROVE FALSE
        BY <1>3, <3>4 DEF TimerFires, OnGraceElapsed, OnOrphanTimeout, OnReconcileDeadline, ExpireStaleLease,
                          faults
    <3>5. ASSUME NEW j \in Jobs, CancelJob(j) PROVE FALSE
        BY <1>3, <3>5 DEF CancelJob
    <3>6. ASSUME IgnoreStale \/ HandleCapabilities \/ ListAttemptMetadata \/ Reconnect PROVE FALSE
        BY <1>3, <3>6 DEF IgnoreStale, HandleCapabilities, ListAttemptMetadata, Reconnect, faults
    <3> QED
        BY <1>3, <3>1, <3>2, <3>3, <3>4, <3>5, <3>6 DEF Next, AgentStep
  <2>2. (restarts' = restarts + 1 \/ reboots' = reboots + 1) \/ cuts' = cuts + 1
      BY <1>3, <2>1 DEF ControllerDrops, AgentDrops, ControllerRestarts, AgentRestarts
  <2> QED
      BY <1>t, <2>2 DEF Undisturbed
<1> QED
    BY <1>1, <1>2, <1>3

(* The invariant while the connection holds. *)
LEMMA CalmInit == Init => CalmInv
<1> SUFFICES ASSUME Init PROVE CalmInv
    OBVIOUS
<1>1. \A S, T : ~In(<<>>, S) /\ Led(<<>>, S, T)
  <2>1. Len(<<>>) = 0 /\ 1..0 = {}
      OBVIOUS
  <2> QED
      BY <2>1 DEF In, Led
<1>2. toController = <<>> /\ toAgent = <<>>
    BY DEF Init
<1>3. Calm
    BY <1>1, <1>2 DEF Init, Calm, OddPhases
<1>4. ASSUME NEW a \in Attempts PROVE KeepsSuccess(a)
  <2>1. /\ state[a] = "absent" /\ outcome[a] = "none" /\ phase[a] = "none" /\ result[a] = "none" /\ work = {}
      BY DEF Init
  <2> QED
      BY <1>1, <1>2, <2>1 DEF KeepsSuccess, FailureIsTrue, EndsAfterRun, CompletedLast, ExitDecides, GrantComes,
                              ExitFirst
<1> QED
    BY <1>3, <1>4 DEF CalmInv

(* While the connection holds and every source can be provided, a run that succeeded
   is never recorded as failed, whatever is cancelled, uploaded or cleaned up. *)
THEOREM SuccessStays == ASSUME Unpreparable = {} PROVE Spec => []SuccessKeptWhileConnected
<1> DEFINE Inv == Undisturbed => CalmInv
<1>1. Init => Inv
    BY CalmInit
<1>2. RecoveryInv /\ Inv /\ [Next]_vars => Inv'
    BY CalmNext DEF RecoveryInv
<1>3. Inv => SuccessKeptWhileConnected
    BY DEF CalmInv, KeepsSuccess, FailureIsTrue, SuccessKeptWhileConnected, SuccessIsKept
<1> HIDE DEF Inv
<1> QED
    BY <1>1, <1>2, <1>3, RecoveryInvariant, PTL DEF Spec
=============================================================================
