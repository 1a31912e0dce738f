----------------------------- MODULE LogDelivery -----------------------------
(***************************************************************************)
(* The output of one remote attempt on its way from the Agent's spool to   *)
(* the Controller's log files: the spool numbers the chunks, SpoolSender   *)
(* sends them from a bounded queue and reads them again from disk for a    *)
(* replay, the Controller stores them in order and acknowledges, and an    *)
(* adopted attempt resumes after the last acknowledged chunk.              *)
(*                                                                         *)
(* A chunk is its sequence number.  The attempt is registered on the Agent *)
(* and active on the Controller until its output is complete; its other    *)
(* frames are those of RemoteAttempt.                                      *)
(***************************************************************************)
EXTENDS Integers, Sequences, FiniteSets

CONSTANTS
    NChunks,      \* bound: chunks the process writes
    MaxQueue,     \* log_send_queue_max
    MaxCuts,      \* bound: connections lost
    MaxRestarts   \* bound: Controller restarts

ASSUME LogConstants ==
    /\ NChunks \in Nat
    /\ MaxQueue \in Nat \ {0}
    /\ MaxCuts \in Nat
    /\ MaxRestarts \in Nat

VARIABLES
    \* Agent: chunks on disk, and how many of them were given to the sender
    spooled, offered,
    \* SpoolSender: queue, ack cursor, the replay it owes, the ranges that
    \* running replays have yet to read
    queue, lastAcked, needsReplay, replays,
    \* acknowledgements received and being written to ack.json; cleanup sent
    acking, ended,
    \* whether reportAll has yet to report the attempt
    reporting,
    \* the connection ("half": broken, the Agent's socket still open), frames
    net, toController, toAgent,
    \* Controller: chunks queued for the attempt, progress with the first
    chain, stage,
    \* Controller disk and database: stream file, chunk index, acked sequence
    bytes, index, logAcked,
    \* the attempt: orphaned, its cleanup_complete being handled, completed
    orphaned, draining, completed,
    cuts, restarts

sender == <<queue, lastAcked, needsReplay, replays>>
spool == <<spooled, offered, acking, ended>>
ingest == <<chain, stage, bytes, index, logAcked>>
attempt == <<orphaned, draining, completed>>
faults == <<cuts, restarts>>
vars == <<spool, sender, reporting, net, toController, toAgent, ingest, attempt,
          faults>>

-----------------------------------------------------------------------------
Sequences0 == 0..NChunks
Chunks == 1..NChunks

Frame(t, n) == [type |-> t, n |-> n]

(* The frames of a set of chunks in ascending order. *)
ChunkFrames(S) ==
    [i \in 1..Cardinality(S) |->
        Frame("log_chunk", CHOOSE k \in S : Cardinality({j \in S : j < k}) = i - 1)]

(* A frame written to an open socket of a broken connection is lost. *)
ToController(ms) ==
    toController' = IF net = "live" THEN toController \o ms ELSE toController
ToAgent(m) ==
    toAgent' = IF net = "live" THEN Append(toAgent, m) ELSE toAgent

-----------------------------------------------------------------------------
(* SpoolSender.  pump: everything in the queue is sent while the socket is
   open; what was acknowledged is dropped. *)
Pump(q, acked) ==
    LET unsent == {k \in q : k > acked} IN
    IF net = "down"
    THEN queue' = unsent /\ UNCHANGED toController
    ELSE queue' = {} /\ ToController(ChunkFrames(unsent))

(* Mutant of Enqueue: the chunk waits for the next acknowledgement. *)
MutantEnqueueQuietly(k) ==
    /\ queue' = IF k > lastAcked /\ Cardinality(queue) < MaxQueue THEN queue \cup {k} ELSE queue
    /\ UNCHANGED <<needsReplay, toController>>

(* enqueue: a chunk that is acknowledged or already queued is ignored, one that
   finds the queue full is left to a replay. *)
Enqueue(k) ==
    IF k <= lastAcked \/ k \in queue
    THEN UNCHANGED <<queue, needsReplay, toController>>
    ELSE IF Cardinality(queue) >= MaxQueue
    THEN needsReplay' = TRUE /\ UNCHANGED <<queue, toController>>
    ELSE Pump(queue \cup {k}, lastAcked) /\ UNCHANGED needsReplay

(* startReplay reads from disk what is there now after the cursor.  Replays with
   the same range left go on alike and count as one. *)
Backlog(from) == IF from <= spooled THEN {<<from, spooled>>} ELSE {}

(* appendChunk; the writes of an attempt are chained. *)
Spool ==
    /\ spooled = offered /\ spooled < NChunks
    /\ spooled' = spooled + 1
    /\ UNCHANGED <<offered, acking, ended, sender, reporting, net, toController,
                   toAgent, ingest, attempt, faults>>

OfferLive ==
    /\ offered < spooled
    /\ offered' = offered + 1
    /\ Enqueue(offered + 1)
    /\ UNCHANGED <<spooled, acking, ended, lastAcked, replays, reporting, net, toAgent,
                   ingest, attempt, faults>>

ReplayNext ==
    /\ \E r \in replays :
          /\ Enqueue(r[1])
          /\ replays' = (replays \ {r}) \cup
                        (IF r[1] < r[2] THEN {<<r[1] + 1, r[2]>>} ELSE {})
    /\ UNCHANGED <<spool, lastAcked, reporting, net, toAgent, ingest, attempt, faults>>

(* handleLogAck: writeAck is awaited, so acknowledgements may overtake one
   another; they are ignored once the attempt is cleared. *)
HandleLogAck ==
    /\ toAgent # <<>> /\ Head(toAgent).type = "log_ack"
    /\ toAgent' = Tail(toAgent)
    /\ acking' = IF ended THEN acking ELSE acking \cup {Head(toAgent).n}
    /\ UNCHANGED <<spooled, offered, ended, sender, reporting, net, toController, ingest,
                   attempt, faults>>

OnAck(n) ==
    LET acked == IF n > lastAcked THEN n ELSE lastAcked IN
    /\ lastAcked' = acked
    /\ Pump(queue, acked)
    /\ needsReplay' = (needsReplay /\ Cardinality(queue') >= MaxQueue)
    /\ replays' = IF needsReplay /\ ~needsReplay' THEN replays \cup Backlog(acked + 1) ELSE replays

AckWritten(n) ==
    /\ n \in acking
    /\ acking' = acking \ {n}
    /\ OnAck(n)
    /\ UNCHANGED <<spooled, offered, ended, reporting, net, toAgent, ingest, attempt,
                   faults>>

(* The run is over: cleanup_complete is sent and the attempt cleared. *)
Finish ==
    /\ offered = NChunks /\ ~ended
    /\ ended' = TRUE
    /\ ToController(<<Frame("cleanup_complete", 0)>>)
    /\ UNCHANGED <<spooled, offered, acking, sender, reporting, net, toAgent, ingest,
                   attempt, faults>>

-----------------------------------------------------------------------------
(* The connection. *)
Cut ==
    /\ net = "live" /\ cuts < MaxCuts
    /\ cuts' = cuts + 1
    /\ net' \in {"half", "down"}
    /\ toController' = <<>> /\ toAgent' = <<>>
    /\ UNCHANGED <<spool, sender, reporting, ingest, attempt, restarts>>

AgentNotices ==
    /\ net = "half"
    /\ net' = "down"
    /\ UNCHANGED <<spool, sender, reporting, toController, toAgent, ingest, attempt,
                   faults>>

Reconnect ==
    /\ net = "down"
    /\ net' = "live"
    /\ reporting' = TRUE
    /\ UNCHANGED <<spool, sender, toController, toAgent, ingest, attempt, faults>>

EmitRecoveryReport ==
    /\ reporting /\ net # "down"
    /\ reporting' = FALSE
    /\ ToController(<<Frame("recovery_report", 0)>>)
    /\ UNCHANGED <<spool, sender, net, toAgent, ingest, attempt, faults>>

(* A disconnect outlasts the grace period. *)
GraceElapses ==
    /\ net # "live" /\ ~orphaned /\ ~completed
    /\ orphaned' = TRUE
    /\ UNCHANGED <<spool, sender, reporting, net, toController, toAgent, ingest, draining,
                   completed, faults>>

(* decide: an active attempt is adopted and resumes after the acknowledged
   sequence of its row. *)
HandleRecoveryReport ==
    /\ toController # <<>> /\ Head(toController).type = "recovery_report"
    /\ toController' = Tail(toController)
    /\ IF completed THEN UNCHANGED <<toAgent, orphaned>>
       ELSE ToAgent(Frame("adopt", logAcked)) /\ orphaned' = FALSE
    /\ UNCHANGED <<spool, sender, reporting, net, ingest, draining, completed, faults>>

(* The live sender is set to the cursor and replays; for a cleared attempt a new
   one is made (replayFromDisk). *)
Adopted ==
    /\ toAgent # <<>> /\ Head(toAgent).type = "adopt"
    /\ toAgent' = Tail(toAgent)
    /\ lastAcked' = Head(toAgent).n
    /\ replays' = replays \cup Backlog(Head(toAgent).n + 1)
    /\ queue' = IF ended THEN {} ELSE queue
    /\ needsReplay' = (needsReplay /\ ~ended)
    /\ acking' = IF ended THEN {} ELSE acking
    /\ UNCHANGED <<spooled, offered, ended, reporting, net, toController, ingest, attempt, faults>>

-----------------------------------------------------------------------------
(* Controller: enqueueRemoteLogChunk. *)
ReceiveChunk ==
    /\ toController # <<>> /\ Head(toController).type = "log_chunk"
    /\ toController' = Tail(toController)
    /\ chain' = Append(chain, Head(toController).n)
    /\ UNCHANGED <<spool, sender, reporting, net, toAgent, stage, bytes, index, logAcked,
                   attempt, faults>>

LastIndexed == IF index = <<>> THEN 0 ELSE index[Len(index)]

(* handleRemoteLogChunk.  A chunk is refused while the attempt is orphaned,
   after a gap, or when the index already has it (appendIndexedLogChunk throws);
   an old one is acknowledged again. *)
RefuseChunk ==
    /\ chain # <<>> /\ stage = "idle"
    /\ \/ /\ orphaned \/ Head(chain) > logAcked + 1
          /\ UNCHANGED toAgent
       \/ /\ ~orphaned /\ Head(chain) <= logAcked
          /\ ToAgent(Frame("log_ack", Head(chain)))
       \/ /\ ~orphaned /\ Head(chain) = logAcked + 1 /\ Head(chain) <= LastIndexed
          /\ UNCHANGED toAgent
    /\ chain' = Tail(chain)
    /\ UNCHANGED <<spool, sender, reporting, net, toController, stage, bytes, index,
                   logAcked, attempt, faults>>

(* Mutant of Acceptable: the index is not looked at. *)
MutantAcceptReindexed(k) == ~orphaned /\ k = logAcked + 1

(* Mutant of Acceptable: a chunk sent again is stored again. *)
MutantAcceptRepeated(k) == ~orphaned /\ k <= logAcked + 1

Acceptable(k) == ~orphaned /\ k = logAcked + 1 /\ k > LastIndexed

(* Mutant of AppendBytes: the chunk is acknowledged before it is stored. *)
MutantAckFirst ==
    /\ chain # <<>> /\ stage = "idle"
    /\ Acceptable(Head(chain))
    /\ bytes' = Append(bytes, Head(chain))
    /\ stage' = "appended"
    /\ logAcked' = Head(chain)
    /\ ToAgent(Frame("log_ack", Head(chain)))
    /\ UNCHANGED <<spool, sender, reporting, net, toController, chain, index, attempt,
                   faults>>

(* The next chunk is appended to its stream file, then to the index, published,
   and at last recorded and acknowledged. *)
AppendBytes ==
    /\ chain # <<>> /\ stage = "idle"
    /\ Acceptable(Head(chain))
    /\ bytes' = Append(bytes, Head(chain))
    /\ stage' = "appended"
    /\ UNCHANGED <<spool, sender, reporting, net, toController, toAgent, chain, index,
                   logAcked, attempt, faults>>

AppendIndex ==
    /\ stage = "appended"
    /\ index' = Append(index, Head(chain))
    /\ stage' = "indexed"
    /\ UNCHANGED <<spool, sender, reporting, net, toController, toAgent, chain, bytes,
                   logAcked, attempt, faults>>

RecordAck ==
    /\ stage = "indexed"
    /\ logAcked' = Head(chain)
    /\ ToAgent(Frame("log_ack", Head(chain)))
    /\ chain' = Tail(chain)
    /\ stage' = "idle"
    /\ UNCHANGED <<spool, sender, reporting, net, toController, bytes, index, attempt,
                   faults>>

(* handleRemoteCleanupComplete: the queued chunks are drained first. *)
HandleCleanupComplete ==
    /\ toController # <<>> /\ Head(toController).type = "cleanup_complete"
    /\ toController' = Tail(toController)
    /\ draining' = TRUE
    /\ UNCHANGED <<spool, sender, reporting, net, toAgent, ingest, orphaned, completed,
                   faults>>

(* Mutant of Drained: cleanup_complete does not wait. *)
MutantDrainedAtOnce == draining

Drained == draining /\ chain = <<>>

Complete ==
    /\ Drained
    /\ draining' = FALSE
    /\ completed' = (completed \/ ~orphaned)
    /\ UNCHANGED <<spool, sender, reporting, net, toController, toAgent, ingest, orphaned,
                   faults>>

ControllerRestarts ==
    /\ restarts < MaxRestarts
    /\ restarts' = restarts + 1
    /\ chain' = <<>> /\ stage' = "idle" /\ draining' = FALSE
    /\ toController' = <<>> /\ toAgent' = <<>>
    /\ net' = IF net = "live" THEN "half" ELSE net
    /\ UNCHANGED <<spool, sender, reporting, bytes, index, logAcked, orphaned, completed,
                   cuts>>

-----------------------------------------------------------------------------
Init ==
    /\ spooled = 0 /\ offered = 0 /\ acking = {} /\ ended = FALSE
    /\ queue = {} /\ lastAcked = 0 /\ needsReplay = FALSE /\ replays = {}
    /\ reporting = FALSE
    /\ net = "live" /\ toController = <<>> /\ toAgent = <<>>
    /\ chain = <<>> /\ stage = "idle" /\ bytes = <<>> /\ index = <<>> /\ logAcked = 0
    /\ orphaned = FALSE /\ draining = FALSE /\ completed = FALSE
    /\ cuts = 0 /\ restarts = 0

AgentStep ==
    \/ Spool \/ OfferLive \/ ReplayNext \/ HandleLogAck \/ Adopted
    \/ \E n \in Chunks : AckWritten(n)

ControllerStep ==
    \/ ReceiveChunk \/ RefuseChunk \/ AppendBytes \/ AppendIndex \/ RecordAck
    \/ HandleCleanupComplete \/ Complete \/ HandleRecoveryReport

Next ==
    \/ AgentStep \/ Finish \/ ControllerStep
    \/ Cut \/ AgentNotices \/ Reconnect \/ EmitRecoveryReport \/ GraceElapses
    \/ ControllerRestarts

Spec == Init /\ [][Next]_vars

(* The process goes on writing; promises settle and frames of a live connection
   arrive; the Agent notices a dead socket, reconnects and reports. *)
Fairness ==
    /\ WF_vars(Spool) /\ WF_vars(OfferLive) /\ WF_vars(ReplayNext)
    /\ WF_vars(HandleLogAck \/ Adopted)
    /\ \A n \in Chunks : WF_vars(AckWritten(n))
    /\ WF_vars(Finish)
    /\ WF_vars(ReceiveChunk \/ HandleCleanupComplete \/ HandleRecoveryReport)
    /\ WF_vars(RefuseChunk \/ AppendBytes \/ AppendIndex \/ RecordAck)
    /\ WF_vars(Complete)
    /\ WF_vars(AgentNotices) /\ WF_vars(Reconnect) /\ WF_vars(EmitRecoveryReport)

FairSpec == Spec /\ Fairness

-----------------------------------------------------------------------------
Uplink == [type : {"log_chunk"}, n : Chunks]
          \cup [type : {"recovery_report", "cleanup_complete"}, n : {0}]
Downlink == [type : {"log_ack"}, n : Chunks] \cup [type : {"adopt"}, n : Sequences0]

(* Cursors, frames, queue and files stay in their types. *)
TypeOK ==
    /\ spooled \in Sequences0 /\ offered \in Sequences0
    /\ acking \subseteq Chunks /\ ended \in BOOLEAN
    /\ queue \subseteq Chunks /\ lastAcked \in Sequences0 /\ needsReplay \in BOOLEAN
    /\ replays \subseteq Chunks \X Chunks
    /\ reporting \in BOOLEAN
    /\ net \in {"live", "half", "down"}
    /\ toController \in Seq(Uplink) /\ toAgent \in Seq(Downlink)
    /\ chain \in Seq(Chunks) /\ stage \in {"idle", "appended", "indexed"}
    /\ bytes \in Seq(Chunks) /\ index \in Seq(Chunks) /\ logAcked \in Sequences0
    /\ orphaned \in BOOLEAN /\ draining \in BOOLEAN /\ completed \in BOOLEAN
    /\ cuts \in Nat /\ restarts \in Nat

(* The Controller's chunk index is the Agent's output from its first chunk on,
   in order, without gaps or repetitions, whatever was lost, resent, replayed
   out of turn or interrupted by a restart. *)
IndexIsPrefix == \A i \in 1..Len(index) : index[i] = i

(* Nothing is acknowledged that a Controller restart could lose: no cursor or
   acknowledgement on the Agent or under way is beyond the recorded one, and
   that is never beyond the index. *)
AckedIsDurable ==
    /\ logAcked <= Len(index)
    /\ lastAcked <= logAcked
    /\ \A n \in acking : n <= logAcked
    /\ \A i \in 1..Len(toAgent) : toAgent[i].n <= logAcked

(* The sender's ack cursor never goes back: neither acknowledgements that
   overtake one another nor the cursor of an adopt decision set it back, so a
   chunk the Controller has is not replayed again and again. *)
CursorStep == lastAcked' >= lastAcked
CursorAdvances == [][CursorStep]_vars

(* Without a restart every chunk is in the stream file once: a reconnect with
   several replays, live chunks and resent ones at the same time does not
   repeat output. *)
OutputOnce ==
    restarts = 0 => \A i, j \in 1..Len(bytes) : bytes[i] = bytes[j] => i = j

(* When cleanup_complete has completed an attempt whose connection held, its log
   is whole: draining comes before the attempt is completed. *)
CompletedIsWhole ==
    completed /\ cuts = 0 /\ restarts = 0 => Len(index) = NChunks

(* While the connection holds all output reaches the index. *)
LogsArriveWhileConnected ==
    \A k \in Chunks : spooled >= k ~> Len(index) >= k \/ cuts > 0 \/ restarts > 0

(* All output reaches the index, also after a lost connection. *)
LogsArrive == \A k \in Chunks : spooled >= k ~> Len(index) >= k
=============================================================================
