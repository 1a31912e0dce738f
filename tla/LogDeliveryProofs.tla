-------------------------- MODULE LogDeliveryProofs --------------------------
(***************************************************************************)
(* What the Controller stores of an attempt's output is right for any      *)
(* number of chunks, any queue length, and any number of lost connections  *)
(* and Controller restarts; and so are the artifacts that follow it, for   *)
(* any number of upload passes (the last section, about ArtifactUpload).   *)
(***************************************************************************)
EXTENDS LogDelivery, ArtifactUpload, FiniteSetTheorems, SequenceTheorems, TLAPS

(* The chunk being stored: while it is in its stream file only, it is the one
   after the index; once it is in the index, it is the last one there. *)
StoringNext ==
    /\ stage # "idle" => chain # <<>>
    /\ stage = "appended" => Head(chain) = Len(index) + 1 /\ logAcked = Len(index)
    /\ stage = "indexed" => Head(chain) = Len(index)

(* The cursor of an adopt decision under way is not behind the sender's, nor
   behind an acknowledgement that was sent before it. *)
AdoptsAhead ==
    \A i \in 1..Len(toAgent) : toAgent[i].type = "adopt" =>
        /\ lastAcked <= toAgent[i].n
        /\ \A n \in acking : n <= toAgent[i].n
        /\ \A j \in 1..i : toAgent[j].n <= toAgent[i].n

(* Until the Controller restarts, the stream file is the index and the chunk
   that is about to be in it. *)
BytesFollowIndex ==
    restarts = 0 =>
        /\ Len(bytes) = Len(index) + (IF stage = "appended" THEN 1 ELSE 0)
        /\ Len(index) = logAcked + (IF stage = "indexed" THEN 1 ELSE 0)
        /\ \A i \in 1..Len(bytes) : bytes[i] = i

(* As long as nothing broke: every chunk given to the sender was sent at once,
   chunks and frames under way continue the acknowledged ones without a gap, and
   cleanup_complete comes behind them all. *)
UnderWay == logAcked + Len(chain) + Len(toController)
Unbroken ==
    cuts = 0 /\ restarts = 0 =>
        /\ net = "live" /\ reporting = FALSE /\ orphaned = FALSE
        /\ queue = {} /\ needsReplay = FALSE /\ replays = {}
        /\ \A i \in 1..Len(toAgent) : toAgent[i].type = "log_ack"
        /\ \A i \in 1..Len(chain) : chain[i] = logAcked + i
        /\ \A i \in 1..Len(toController) :
              \/ /\ toController[i].type = "log_chunk"
                 /\ toController[i].n = logAcked + Len(chain) + i
              \/ toController[i].type = "cleanup_complete" /\ i = Len(toController) /\ ended
        /\ ~ended => ~draining /\ ~completed /\ UnderWay = offered
        /\ ended => offered = NChunks
        /\ ended /\ toController # <<>> =>
              /\ ~draining /\ ~completed /\ UnderWay = NChunks + 1
              /\ toController[Len(toController)].type = "cleanup_complete"
        /\ ended /\ toController = <<>> => UnderWay = NChunks
        /\ completed => chain = <<>>

-----------------------------------------------------------------------------
(* The frames pump sends for a set of queued chunks. *)

(* Among finitely many chunks there is one of every rank. *)
LEMMA EveryRank ==
    ASSUME NEW S \in SUBSET Nat, IsFiniteSet(S), NEW i \in 1..Cardinality(S)
    PROVE  \E k \in S : Cardinality({j \in S : j < k}) = i - 1
<1> DEFINE below(k) == {j \in S : j < k}
           n == Cardinality(S)
           rank == [k \in S |-> Cardinality(below(k))]
<1>1. n \in Nat
    BY FS_CardinalityType
<1>2. \A k \in S : IsFiniteSet(below(k)) /\ Cardinality(below(k)) \in Nat
  <2> TAKE k \in S
  <2>1. IsFiniteSet(below(k))
      BY FS_Subset
  <2> QED
      BY <2>1, FS_CardinalityType
<1>3. \A k \in S : Cardinality(below(k)) < n
  <2> TAKE k \in S
  <2>1. below(k) \in SUBSET S /\ below(k) # S
      OBVIOUS
  <2>2. Cardinality(below(k)) <= n /\ (n = Cardinality(below(k)) => S = below(k))
      BY <2>1, FS_Subset
  <2> QED
      BY <1>1, <1>2, <2>1, <2>2
<1>4. \A k, l \in S : k < l => Cardinality(below(k)) < Cardinality(below(l))
  <2> SUFFICES ASSUME NEW k \in S, NEW l \in S, k < l
               PROVE  Cardinality(below(k)) < Cardinality(below(l))
      OBVIOUS
  <2>0. k \in Nat /\ l \in Nat /\ \A j \in S : j \in Nat
      OBVIOUS
  <2>1. below(k) \in SUBSET below(l) /\ k \in below(l) /\ k \notin below(k)
    <3>1. ASSUME NEW j \in S, j < k PROVE j < l
        BY <2>0, <3>1
    <3>2. ~(k < k)
        BY <2>0
    <3> QED
        BY <3>1, <3>2
  <2>2. /\ Cardinality(below(k)) <= Cardinality(below(l))
        /\ Cardinality(below(l)) = Cardinality(below(k)) => below(l) = below(k)
      BY <1>2, <2>1, FS_Subset
  <2> QED
      BY <1>2, <2>1, <2>2
<1>5. rank \in Injection(S, 0..(n - 1))
  <2>1. rank \in [S -> 0..(n - 1)]
      BY <1>1, <1>2, <1>3
  <2>2. \A k, l \in S : rank[k] = rank[l] => k = l
    <3> SUFFICES ASSUME NEW k \in S, NEW l \in S, k # l
                 PROVE  Cardinality(below(k)) # Cardinality(below(l))
        OBVIOUS
    <3>1. k < l \/ l < k
        OBVIOUS
    <3> QED
        BY <1>2, <1>4, <3>1
  <2> QED
      BY <2>1, <2>2 DEF Injection, IsInjective
<1>6. IsFiniteSet(0..(n - 1)) /\ Cardinality(0..(n - 1)) = n
  <2> HIDE DEF n
  <2>1. 0 \in Int /\ n - 1 \in Int
      BY <1>1
  <2>2. /\ IsFiniteSet(0..(n - 1))
        /\ Cardinality(0..(n - 1)) = IF 0 > n - 1 THEN 0 ELSE (n - 1) - 0 + 1
      BY <2>1, FS_Interval
  <2> QED
      BY <1>1, <2>2
<1>7. rank \in Surjection(S, 0..(n - 1))
    BY <1>5, <1>6, FS_Injection
<1>8. i - 1 \in 0..(n - 1)
    BY <1>1
<1>9. \E k \in S : rank[k] = i - 1
    BY <1>7, <1>8 DEF Surjection
<1> QED
    BY <1>9

(* A function on 1..n is a sequence. *)
LEMMA FunctionIsSeq ==
    ASSUME NEW T, NEW n \in Nat, NEW f \in [1..n -> T]
    PROVE  f \in Seq(T)
    BY SeqDef

(* Only chunks of the set are sent. *)
LEMMA ChunkFramesType ==
    ASSUME NEW S \in SUBSET Chunks
    PROVE  ChunkFrames(S) \in Seq([type : {"log_chunk"}, n : S])
<1>1. IsFiniteSet(S) /\ S \in SUBSET Nat
  <2>1. 1 \in Int /\ NChunks \in Int
      BY LogConstants
  <2>2. IsFiniteSet(1..NChunks)
      BY <2>1, FS_Interval
  <2>3. S \in SUBSET (1..NChunks)
      BY DEF Chunks
  <2>4. IsFiniteSet(S)
      BY <2>2, <2>3, FS_Subset
  <2>5. S \in SUBSET Nat
      BY <2>1, <2>3
  <2> QED
      BY <2>4, <2>5
<1>2. Cardinality(S) \in Nat
    BY <1>1, FS_CardinalityType
<1>3. ASSUME NEW i \in 1..Cardinality(S)
      PROVE  (CHOOSE k \in S : Cardinality({j \in S : j < k}) = i - 1) \in S
    BY <1>1, <1>3, EveryRank
<1> DEFINE pick(i) == CHOOSE k \in S : Cardinality({j \in S : j < k}) = i - 1
<1>4. ChunkFrames(S) = [i \in 1..Cardinality(S) |-> [type |-> "log_chunk", n |-> pick(i)]]
    BY DEF ChunkFrames, Frame
<1>5. \A i \in 1..Cardinality(S) : pick(i) \in S
    BY <1>3
<1> HIDE DEF pick
<1>6. [i \in 1..Cardinality(S) |-> [type |-> "log_chunk", n |-> pick(i)]]
         \in [1..Cardinality(S) -> [type : {"log_chunk"}, n : S]]
    BY <1>5
<1> QED
    BY <1>2, <1>4, <1>6, FunctionIsSeq

(* A queue of one chunk is sent as one frame, an empty one as none. *)
LEMMA ChunkFramesOne ==
    ASSUME NEW k \in Chunks
    PROVE  ChunkFrames({k}) = <<Frame("log_chunk", k)>>
<1>1. Cardinality({k}) = 1
    BY FS_Singleton
<1>2. {j \in {k} : j < k} = {}
    BY LogConstants DEF Chunks
<1>3. Cardinality({j \in {k} : j < k}) = 1 - 1
    BY <1>2, FS_EmptySet
<1> DEFINE pick(i) == CHOOSE l \in {k} : Cardinality({j \in {k} : j < l}) = i - 1
<1>4. pick(1) = k
    BY <1>3
<1>5. ChunkFrames({k}) = [i \in 1..1 |-> Frame("log_chunk", pick(i))]
    BY <1>1 DEF ChunkFrames
<1> HIDE DEF pick
<1>6. [i \in 1..1 |-> Frame("log_chunk", pick(i))] = <<Frame("log_chunk", k)>>
    BY <1>4
<1> QED
    BY <1>5, <1>6

(* An empty queue is sent as no frame. *)
LEMMA ChunkFramesNone == ChunkFrames({}) = <<>>
    BY FS_EmptySet DEF ChunkFrames

-----------------------------------------------------------------------------
(* Types. *)

(* What pump leaves queued and what it sends has its type. *)
LEMMA PumpType ==
    ASSUME TypeOK, NEW q \in SUBSET Chunks, NEW acked, Pump(q, acked)
    PROVE  queue' \subseteq Chunks /\ toController' \in Seq(Uplink)
<1> DEFINE unsent == {k \in q : k > acked}
<1>1. unsent \in SUBSET Chunks
    OBVIOUS
<1>2. ChunkFrames(unsent) \in Seq([type : {"log_chunk"}, n : unsent])
    BY <1>1, ChunkFramesType
<1>3. [type : {"log_chunk"}, n : unsent] \subseteq Uplink
    BY <1>1 DEF Uplink
<1> HIDE DEF unsent
<1>4. ChunkFrames(unsent) \in Seq(Uplink)
    BY <1>2, <1>3, SeqMonotonic
<1>5. CASE net = "down"
    BY <1>1, <1>5 DEF Pump, TypeOK, unsent
<1>6. CASE net # "down"
  <2>1. queue' = {} /\ ToController(ChunkFrames(unsent))
      BY <1>6 DEF Pump, unsent
  <2> QED
      BY <1>4, <2>1 DEF ToController, TypeOK
<1> QED
    BY <1>5, <1>6

(* enqueueForSend keeps the types of queue, replay flag and frames. *)
LEMMA EnqueueType ==
    ASSUME TypeOK, NEW k \in Chunks, Enqueue(k)
    PROVE  /\ queue' \subseteq Chunks
           /\ needsReplay' \in BOOLEAN
           /\ toController' \in Seq(Uplink)
<1>1. CASE k <= lastAcked \/ k \in queue
    BY <1>1 DEF Enqueue, TypeOK
<1>2. CASE ~(k <= lastAcked \/ k \in queue) /\ Cardinality(queue) >= MaxQueue
    BY <1>2 DEF Enqueue, TypeOK
<1>3. CASE ~(k <= lastAcked \/ k \in queue) /\ ~(Cardinality(queue) >= MaxQueue)
  <2>1. Pump(queue \cup {k}, lastAcked) /\ UNCHANGED needsReplay
      BY <1>3 DEF Enqueue
  <2>2. queue \cup {k} \in SUBSET Chunks
      BY DEF TypeOK
  <2> QED
      BY <2>1, <2>2, PumpType DEF TypeOK
<1> QED
    BY <1>1, <1>2, <1>3

(* A backlog is a set of ranges of chunks. *)
LEMMA BacklogType ==
    ASSUME TypeOK, NEW acked \in Sequences0
    PROVE  Backlog(acked + 1) \subseteq Chunks \X Chunks
    BY LogConstants DEF TypeOK, Backlog, Sequences0, Chunks

(* onAck keeps the types of what it changes. *)
LEMMA OnAckType ==
    ASSUME TypeOK, NEW n \in Chunks, OnAck(n)
    PROVE  /\ queue' \subseteq Chunks /\ lastAcked' \in Sequences0
           /\ needsReplay' \in BOOLEAN /\ replays' \subseteq Chunks \X Chunks
           /\ toController' \in Seq(Uplink)
<1> DEFINE acked == IF n > lastAcked THEN n ELSE lastAcked
<1>1. acked \in Sequences0
    BY LogConstants DEF TypeOK, Sequences0, Chunks
<1>2. Backlog(acked + 1) \subseteq Chunks \X Chunks
    BY <1>1, BacklogType
<1>3. /\ lastAcked' = acked /\ Pump(queue, acked)
      /\ needsReplay' = (needsReplay /\ Cardinality(queue') >= MaxQueue)
      /\ replays' = IF needsReplay /\ ~needsReplay' THEN replays \cup Backlog(acked + 1)
                    ELSE replays
    BY DEF OnAck
<1> HIDE DEF acked
<1>4. queue \in SUBSET Chunks
    BY DEF TypeOK
<1>5. queue' \subseteq Chunks /\ toController' \in Seq(Uplink)
    BY <1>3, <1>4, PumpType
<1>6. replays' \subseteq Chunks \X Chunks
    BY <1>2, <1>3 DEF TypeOK
<1> QED
    BY <1>1, <1>3, <1>5, <1>6

(* Frames to either side. *)
(* A frame sent to the Agent keeps the type of the connection. *)
LEMMA ToAgentType ==
    ASSUME TypeOK, NEW m \in Downlink, ToAgent(m)
    PROVE  toAgent' \in Seq(Downlink)
    BY DEF ToAgent, TypeOK

(* A frame sent to the Controller keeps the type of the connection. *)
LEMMA ToControllerType ==
    ASSUME TypeOK, NEW m \in Uplink, ToController(<<m>>)
    PROVE  toController' \in Seq(Uplink)
    BY DEF ToController, TypeOK

(* Every step keeps the types. *)
LEMMA TypeStep == TypeOK /\ StoringNext /\ [Next]_vars => TypeOK'
<1> SUFFICES ASSUME TypeOK, StoringNext, [Next]_vars PROVE TypeOK'
    OBVIOUS
<1> USE LogConstants
<1>1. CASE Spool
    BY <1>1 DEF Spool, TypeOK, Sequences0, sender, ingest, attempt, faults
<1>2. CASE OfferLive
  <2>1. offered + 1 \in Chunks /\ Enqueue(offered + 1)
      BY <1>2 DEF OfferLive, TypeOK, Sequences0, Chunks
  <2>2. /\ queue' \subseteq Chunks /\ needsReplay' \in BOOLEAN
        /\ toController' \in Seq(Uplink)
      BY <2>1, EnqueueType
  <2> QED
      BY <1>2, <2>1, <2>2 DEF OfferLive, TypeOK, Sequences0, Chunks, ingest, attempt, faults
<1>3. CASE ReplayNext
  <2>1. PICK r \in replays :
             /\ Enqueue(r[1])
             /\ replays' = (replays \ {r}) \cup
                           (IF r[1] < r[2] THEN {<<r[1] + 1, r[2]>>} ELSE {})
      BY <1>3 DEF ReplayNext
  <2>2. r[1] \in Chunks /\ r[2] \in Chunks
      BY DEF TypeOK
  <2>3. /\ queue' \subseteq Chunks /\ needsReplay' \in BOOLEAN
        /\ toController' \in Seq(Uplink)
      BY <2>1, <2>2, EnqueueType
  <2>4. r[1] < r[2] => <<r[1] + 1, r[2]>> \in Chunks \X Chunks
      BY <2>2 DEF Chunks
  <2>5. replays' \subseteq Chunks \X Chunks
      BY <2>1, <2>4 DEF TypeOK
  <2> QED
      BY <1>3, <2>3, <2>5 DEF ReplayNext, TypeOK, spool, ingest, attempt, faults
<1>4. CASE HandleLogAck
  <2>1. Head(toAgent) \in Downlink /\ Tail(toAgent) \in Seq(Downlink)
      BY <1>4 DEF HandleLogAck, TypeOK
  <2>2. Head(toAgent).n \in Chunks
      BY <1>4, <2>1 DEF HandleLogAck, Downlink
  <2> QED
      BY <1>4, <2>1, <2>2 DEF HandleLogAck, TypeOK, sender, ingest, attempt, faults
<1>5. ASSUME NEW n \in Chunks, AckWritten(n) PROVE TypeOK'
    BY <1>5, OnAckType DEF AckWritten, TypeOK, ingest, attempt, faults
<1>6. CASE Finish
  <2>1. Frame("cleanup_complete", 0) \in Uplink
      BY DEF Frame, Uplink
  <2>2. toController' \in Seq(Uplink)
      BY <1>6, <2>1, ToControllerType DEF Finish
  <2> QED
      BY <1>6, <2>2 DEF Finish, TypeOK, sender, ingest, attempt, faults
<1>7. CASE Cut
    BY <1>7 DEF Cut, TypeOK, spool, sender, ingest, attempt
<1>8. CASE AgentNotices
    BY <1>8 DEF AgentNotices, TypeOK, spool, sender, ingest, attempt, faults
<1>9. CASE Reconnect
    BY <1>9 DEF Reconnect, TypeOK, spool, sender, ingest, attempt, faults
<1>10. CASE EmitRecoveryReport
  <2>1. Frame("recovery_report", 0) \in Uplink
      BY DEF Frame, Uplink
  <2>2. toController' \in Seq(Uplink)
      BY <1>10, <2>1, ToControllerType DEF EmitRecoveryReport
  <2> QED
      BY <1>10, <2>2 DEF EmitRecoveryReport, TypeOK, spool, sender, ingest, attempt, faults
<1>11. CASE GraceElapses
    BY <1>11 DEF GraceElapses, TypeOK, spool, sender, ingest, faults
<1>12. CASE HandleRecoveryReport
  <2>1. Frame("adopt", logAcked) \in Downlink
      BY DEF Frame, Downlink, TypeOK
  <2>2. toAgent' \in Seq(Downlink) /\ orphaned' \in BOOLEAN
      BY <1>12, <2>1, ToAgentType DEF HandleRecoveryReport, TypeOK
  <2>3. toController' \in Seq(Uplink)
      BY <1>12 DEF HandleRecoveryReport, TypeOK
  <2> QED
      BY <1>12, <2>2, <2>3 DEF HandleRecoveryReport, TypeOK, spool, sender, ingest, faults
<1>13. CASE Adopted
  <2>1. Head(toAgent) \in Downlink /\ Tail(toAgent) \in Seq(Downlink)
      BY <1>13 DEF Adopted, TypeOK
  <2>2. Head(toAgent).n \in Sequences0
      BY <2>1 DEF Downlink, Sequences0, Chunks
  <2>3. Backlog(Head(toAgent).n + 1) \subseteq Chunks \X Chunks
      BY <2>2, BacklogType
  <2> QED
      BY <1>13, <2>1, <2>2, <2>3 DEF Adopted, TypeOK, ingest, attempt, faults
<1>14. CASE ReceiveChunk
  <2>1. Head(toController) \in Uplink /\ Tail(toController) \in Seq(Uplink)
      BY <1>14 DEF ReceiveChunk, TypeOK
  <2>2. Head(toController).n \in Chunks
      BY <1>14, <2>1 DEF ReceiveChunk, Uplink
  <2> QED
      BY <1>14, <2>1, <2>2 DEF ReceiveChunk, TypeOK, spool, sender, attempt, faults
<1>15. CASE RefuseChunk
  <2>1. Head(chain) \in Chunks /\ Tail(chain) \in Seq(Chunks)
      BY <1>15 DEF RefuseChunk, TypeOK
  <2>2. Frame("log_ack", Head(chain)) \in Downlink
      BY <2>1 DEF Frame, Downlink
  <2>3. toAgent' \in Seq(Downlink)
      BY <1>15, <2>2, ToAgentType DEF RefuseChunk, TypeOK
  <2> QED
      BY <1>15, <2>1, <2>3 DEF RefuseChunk, TypeOK, spool, sender, attempt, faults
<1>16. CASE AppendBytes
    BY <1>16 DEF AppendBytes, TypeOK, spool, sender, attempt, faults
<1>17. CASE AppendIndex
    BY <1>17 DEF AppendIndex, StoringNext, TypeOK, spool, sender, attempt, faults
<1>18. CASE RecordAck
  <2>1. Head(chain) \in Chunks /\ Tail(chain) \in Seq(Chunks)
      BY <1>18 DEF TypeOK, RecordAck, StoringNext
  <2>2. Frame("log_ack", Head(chain)) \in Downlink
      BY <2>1 DEF Frame, Downlink
  <2>3. toAgent' \in Seq(Downlink)
      BY <1>18, <2>2, ToAgentType DEF RecordAck
  <2> QED
      BY <1>18, <2>1, <2>3 DEF RecordAck, TypeOK, Sequences0, Chunks, spool, sender,
         attempt, faults
<1>19. CASE HandleCleanupComplete
    BY <1>19 DEF HandleCleanupComplete, TypeOK, spool, sender, ingest, faults
<1>20. CASE Complete
    BY <1>20 DEF Complete, TypeOK, spool, sender, ingest, faults
<1>21. CASE ControllerRestarts
  <2>1. net' \in {"live", "half", "down"}
      BY <1>21 DEF ControllerRestarts, TypeOK
  <2>2. /\ chain' \in Seq(Chunks) /\ toController' \in Seq(Uplink)
        /\ toAgent' \in Seq(Downlink) /\ stage' = "idle" /\ draining' = FALSE
        /\ restarts' \in Nat
      BY <1>21 DEF ControllerRestarts, TypeOK
  <2> QED
      BY <1>21, <2>1, <2>2 DEF ControllerRestarts, TypeOK, spool, sender
<1>22. CASE UNCHANGED vars
    BY <1>22 DEF TypeOK, vars, spool, sender, ingest, attempt, faults
<1> QED
    BY <1>1, <1>2, <1>3, <1>4, <1>5, <1>6, <1>7, <1>8, <1>9, <1>10, <1>11, <1>12,
       <1>13, <1>14, <1>15, <1>16, <1>17, <1>18, <1>19, <1>20, <1>21, <1>22
    DEF Next, AgentStep, ControllerStep

-----------------------------------------------------------------------------
(* The Controller's files. *)

(* What the six steps that touch the ingest state are. *)
LEMMA IngestSteps ==
    [Next]_vars => \/ UNCHANGED ingest
                   \/ ReceiveChunk \/ RefuseChunk \/ AppendBytes \/ AppendIndex
                   \/ RecordAck \/ ControllerRestarts
    BY DEF Next, AgentStep, ControllerStep, vars, Spool, OfferLive, ReplayNext,
       HandleLogAck, AckWritten, Finish, Cut, AgentNotices, Reconnect,
       EmitRecoveryReport, GraceElapses, HandleRecoveryReport, Adopted,
       HandleCleanupComplete, Complete

(* The last sequence in an index in order is its length. *)
LEMMA LastIsLength ==
    ASSUME TypeOK, IndexIsPrefix
    PROVE  LastIndexed = Len(index)
    BY DEF LastIndexed, IndexIsPrefix, TypeOK

(* Index, acknowledged sequence and the chunk in progress. *)
LEMMA IndexStep ==
    ASSUME TypeOK, IndexIsPrefix, StoringNext, logAcked <= Len(index), [Next]_vars
    PROVE  IndexIsPrefix' /\ StoringNext' /\ logAcked' <= Len(index)' /\ logAcked <= logAcked'
<1> USE LogConstants DEF TypeOK, Sequences0, Chunks
<1>1. CASE UNCHANGED ingest
    BY <1>1 DEF ingest, IndexIsPrefix, StoringNext
<1>2. CASE ReceiveChunk
  <2>0. Head(toController) \in Uplink
      BY <1>2 DEF ReceiveChunk
  <2>1. Head(toController).n \in Chunks
      BY <1>2, <2>0 DEF ReceiveChunk, Uplink
  <2>2. chain' # <<>> /\ (chain # <<>> => chain'[1] = chain[1])
      BY <1>2, <2>1 DEF ReceiveChunk
  <2>3. StoringNext'
      BY <1>2, <2>2 DEF ReceiveChunk, StoringNext
  <2> QED
      BY <1>2, <2>3 DEF ReceiveChunk, IndexIsPrefix
<1>3. CASE RefuseChunk
    BY <1>3 DEF RefuseChunk, IndexIsPrefix, StoringNext
<1>4. CASE AppendBytes
    BY <1>4, LastIsLength DEF AppendBytes, Acceptable, IndexIsPrefix, StoringNext
<1>5. CASE AppendIndex
    BY <1>5 DEF AppendIndex, IndexIsPrefix, StoringNext
<1>6. CASE RecordAck
    BY <1>6 DEF RecordAck, IndexIsPrefix, StoringNext
<1>7. CASE ControllerRestarts
    BY <1>7 DEF ControllerRestarts, IndexIsPrefix, StoringNext
<1> QED
    BY <1>1, <1>2, <1>3, <1>4, <1>5, <1>6, <1>7, IngestSteps

(* The stream file, as long as the Controller has not restarted. *)
LEMMA BytesStep ==
    ASSUME TypeOK, IndexIsPrefix, StoringNext, BytesFollowIndex, logAcked <= Len(index),
           [Next]_vars
    PROVE  BytesFollowIndex'
<1> USE LogConstants DEF TypeOK, Sequences0, Chunks
<1>0. restarts' = 0 => restarts = 0
    BY DEF Next, AgentStep, ControllerStep, vars, Spool, OfferLive, ReplayNext,
       HandleLogAck, AckWritten, Finish, Cut, AgentNotices, Reconnect,
       EmitRecoveryReport, GraceElapses, HandleRecoveryReport, Adopted,
       HandleCleanupComplete, Complete, ReceiveChunk, RefuseChunk, AppendBytes,
       AppendIndex, RecordAck, ControllerRestarts, faults
<1>1. CASE UNCHANGED ingest
    BY <1>0, <1>1 DEF ingest, BytesFollowIndex
<1>2. CASE ReceiveChunk
    BY <1>0, <1>2 DEF ReceiveChunk, BytesFollowIndex
<1>3. CASE RefuseChunk
    BY <1>0, <1>3 DEF RefuseChunk, BytesFollowIndex
<1>4. CASE AppendBytes
    BY <1>0, <1>4 DEF AppendBytes, Acceptable, BytesFollowIndex
<1>5. CASE AppendIndex
    BY <1>0, <1>5 DEF AppendIndex, StoringNext, BytesFollowIndex
<1>6. CASE RecordAck
    BY <1>0, <1>6 DEF RecordAck, StoringNext, BytesFollowIndex
<1>7. CASE ControllerRestarts
    BY <1>7 DEF ControllerRestarts, BytesFollowIndex
<1> QED
    BY <1>1, <1>2, <1>3, <1>4, <1>5, <1>6, <1>7, IngestSteps

-----------------------------------------------------------------------------
(* Acknowledgements. *)

(* What a step does to acknowledgements. *)
LEMMA AckSteps ==
    [Next]_vars => \/ UNCHANGED <<lastAcked, acking, toAgent>>
                   \/ HandleLogAck \/ (\E n \in Chunks : AckWritten(n)) \/ Cut
                   \/ HandleRecoveryReport \/ Adopted \/ RefuseChunk \/ RecordAck
                   \/ ControllerRestarts
    BY DEF Next, AgentStep, ControllerStep, vars, spool, sender, Spool, OfferLive,
       ReplayNext, Finish, AgentNotices, Reconnect, EmitRecoveryReport, GraceElapses,
       HandleCleanupComplete, Complete, ReceiveChunk, AppendBytes, AppendIndex

(* The numbers in frames to the Agent are numbers. *)
LEMMA DownlinkNat ==
    ASSUME TypeOK
    PROVE  Len(toAgent) \in Nat /\ \A i \in 1..Len(toAgent) : toAgent[i].n \in Nat
<1>1. \A i \in 1..Len(toAgent) : toAgent[i] \in Downlink
    BY DEF TypeOK
<1>2. \A m \in Downlink : m.n \in Nat
    BY LogConstants DEF Downlink, Sequences0, Chunks
<1> QED
    BY <1>1, <1>2 DEF TypeOK

(* A frame is added behind the others or lost. *)
LEMMA FrameSent ==
    ASSUME TypeOK, NEW m, ToAgent(m), UNCHANGED <<lastAcked, acking>>, toAgent' # toAgent
    PROVE  /\ Len(toAgent') = Len(toAgent) + 1
           /\ \A i \in 1..Len(toAgent) : toAgent'[i] = toAgent[i]
           /\ toAgent'[Len(toAgent) + 1] = m
    BY DEF ToAgent, TypeOK

(* The added frame is an acknowledgement, or an adopt decision with the recorded
   sequence. *)
LEMMA SentAck ==
    ASSUME TypeOK, AckedIsDurable, AdoptsAhead,
           NEW k \in Chunks, NEW top \in Nat, k <= top, logAcked <= top,
           ToAgent(Frame("log_ack", k)), UNCHANGED <<lastAcked, acking>>
    PROVE  AdoptsAhead' /\ \A i \in 1..Len(toAgent') : toAgent'[i].n <= top
<1>1. Len(toAgent) \in Nat /\ logAcked \in Nat /\ \A i \in 1..Len(toAgent) : toAgent[i].n \in Nat
    BY DownlinkNat, LogConstants DEF TypeOK, Sequences0
<1>2. \A i \in 1..Len(toAgent) : toAgent[i].n <= top
    BY <1>1 DEF AckedIsDurable
<1>3. CASE toAgent' = toAgent
    BY <1>2, <1>3 DEF AdoptsAhead
<1>4. CASE toAgent' # toAgent
  <2>1. /\ Len(toAgent') = Len(toAgent) + 1
        /\ \A i \in 1..Len(toAgent) : toAgent'[i] = toAgent[i]
        /\ toAgent'[Len(toAgent) + 1].type = "log_ack"
        /\ toAgent'[Len(toAgent) + 1].n = k
      BY <1>4, FrameSent DEF Frame
  <2>2. AdoptsAhead'
      BY <1>1, <2>1 DEF AdoptsAhead
  <2> QED
      BY <1>1, <1>2, <2>1, <2>2
<1> QED
    BY <1>3, <1>4

(* An adopt decision carries the cursor, which nothing sent before exceeds. *)
LEMMA SentAdopt ==
    ASSUME TypeOK, AckedIsDurable, AdoptsAhead,
           ToAgent(Frame("adopt", logAcked)), UNCHANGED <<lastAcked, acking>>
    PROVE  AdoptsAhead' /\ \A i \in 1..Len(toAgent') : toAgent'[i].n <= logAcked
<1>1. Len(toAgent) \in Nat /\ logAcked \in Nat /\ \A i \in 1..Len(toAgent) : toAgent[i].n \in Nat
    BY DownlinkNat, LogConstants DEF TypeOK, Sequences0
<1>2. \A i \in 1..Len(toAgent) : toAgent[i].n <= logAcked
    BY DEF AckedIsDurable
<1>3. CASE toAgent' = toAgent
    BY <1>2, <1>3 DEF AdoptsAhead
<1>4. CASE toAgent' # toAgent
  <2>1. /\ Len(toAgent') = Len(toAgent) + 1
        /\ \A i \in 1..Len(toAgent) : toAgent'[i] = toAgent[i]
        /\ toAgent'[Len(toAgent) + 1].n = logAcked
      BY <1>4, FrameSent DEF Frame
  <2>2. \A i \in 1..Len(toAgent') : toAgent'[i].n <= logAcked
      BY <1>1, <1>2, <2>1
  <2>3. AdoptsAhead'
      BY <1>1, <2>1, <2>2 DEF AdoptsAhead, AckedIsDurable
  <2> QED
      BY <2>2, <2>3
<1> QED
    BY <1>3, <1>4

(* The first frame is taken. *)
LEMMA FrameTaken ==
    ASSUME TypeOK, toAgent # <<>>, toAgent' = Tail(toAgent)
    PROVE  /\ Len(toAgent') = Len(toAgent) - 1
           /\ \A i \in 1..Len(toAgent') : toAgent'[i] = toAgent[i + 1]
           /\ Head(toAgent) = toAgent[1] /\ 1 \in 1..Len(toAgent)
    BY DEF TypeOK

(* Every step keeps acknowledgements behind the index and the cursors from
   going back. *)
LEMMA AckStep ==
    ASSUME TypeOK, IndexIsPrefix, StoringNext, AckedIsDurable, AdoptsAhead, [Next]_vars
    PROVE  AckedIsDurable' /\ AdoptsAhead' /\ CursorStep
<1> USE LogConstants DEF Sequences0, Chunks, CursorStep
<1>1. logAcked' <= Len(index)' /\ logAcked <= logAcked'
    BY IndexStep DEF AckedIsDurable
<1>t. TypeOK'
    BY TypeStep
<1>n. /\ \A i \in 1..Len(toAgent) : toAgent[i].n \in Nat
      /\ \A n \in acking : n \in Nat
      /\ lastAcked \in Nat /\ logAcked \in Nat /\ logAcked' \in Nat /\ Len(toAgent) \in Nat
  <2>1. Len(toAgent) \in Nat /\ \A i \in 1..Len(toAgent) : toAgent[i].n \in Nat
      BY DownlinkNat
  <2>2. /\ \A n \in acking : n \in Nat
        /\ lastAcked \in Nat /\ logAcked \in Nat /\ logAcked' \in Nat
      BY <1>t DEF TypeOK
  <2> QED
      BY <2>1, <2>2
<1>2. CASE UNCHANGED <<lastAcked, acking, toAgent>>
    BY <1>1, <1>2, <1>n DEF AckedIsDurable, AdoptsAhead
<1>3. CASE HandleLogAck
  <2>1. /\ toAgent # <<>> /\ toAgent' = Tail(toAgent)
        /\ UNCHANGED <<lastAcked, logAcked>>
        /\ acking' \subseteq acking \cup {toAgent[1].n}
      BY <1>3 DEF HandleLogAck, sender, ingest, TypeOK
  <2>2. AckedIsDurable'
      BY <1>1, <1>n, <2>1, FrameTaken DEF AckedIsDurable
  <2>3. AdoptsAhead'
    <3> SUFFICES ASSUME NEW i \in 1..Len(toAgent'), toAgent'[i].type = "adopt"
                 PROVE  /\ lastAcked <= toAgent'[i].n
                        /\ \A n \in acking' : n <= toAgent'[i].n
                        /\ \A j \in 1..i : toAgent'[j].n <= toAgent'[i].n
        BY <2>1 DEF AdoptsAhead
    <3>1. i + 1 \in 1..Len(toAgent) /\ toAgent'[i] = toAgent[i + 1]
        BY <1>n, <2>1, FrameTaken
    <3>2. toAgent[1].n <= toAgent[i + 1].n
        BY <1>n, <3>1 DEF AdoptsAhead
    <3>3. \A j \in 1..i : j + 1 \in 1..(i + 1) /\ toAgent'[j] = toAgent[j + 1]
        BY <1>n, <2>1, <3>1, FrameTaken
    <3> QED
        BY <1>n, <2>1, <3>1, <3>2, <3>3 DEF AdoptsAhead
  <2> QED
      BY <2>1, <2>2, <2>3, <1>n
<1>4. ASSUME NEW n \in Chunks, AckWritten(n)
      PROVE  AckedIsDurable' /\ AdoptsAhead' /\ CursorStep
  <2>1. /\ n \in acking /\ acking' \subseteq acking /\ UNCHANGED <<toAgent, logAcked>>
        /\ lastAcked' = IF n > lastAcked THEN n ELSE lastAcked
      BY <1>4 DEF AckWritten, OnAck, ingest
  <2> QED
      BY <1>1, <1>n, <2>1 DEF AckedIsDurable, AdoptsAhead
<1>5. CASE Cut
    BY <1>1, <1>5, <1>n DEF Cut, spool, sender, AckedIsDurable, AdoptsAhead
<1>6. CASE HandleRecoveryReport
  <2>1. UNCHANGED <<lastAcked, acking, logAcked>>
      BY <1>6 DEF HandleRecoveryReport, spool, sender, ingest
  <2>2. CASE completed
      BY <1>2, <1>6, <2>1, <2>2 DEF HandleRecoveryReport
  <2>3. CASE ~completed
    <3>1. ToAgent(Frame("adopt", logAcked))
        BY <1>6, <2>3 DEF HandleRecoveryReport
    <3>2. AdoptsAhead' /\ \A i \in 1..Len(toAgent') : toAgent'[i].n <= logAcked
        BY <2>1, <3>1, SentAdopt
    <3> QED
        BY <1>1, <1>n, <2>1, <3>2 DEF AckedIsDurable
  <2> QED
      BY <2>2, <2>3 DEF TypeOK
<1>7. CASE Adopted
  <2>1. /\ toAgent # <<>> /\ toAgent' = Tail(toAgent) /\ toAgent[1].type = "adopt"
        /\ lastAcked' = toAgent[1].n /\ acking' \subseteq acking /\ UNCHANGED logAcked
      BY <1>7 DEF Adopted, ingest, TypeOK
  <2>2. 1 \in 1..Len(toAgent)
      BY <2>1, FrameTaken
  <2>3. lastAcked <= lastAcked' /\ lastAcked' <= logAcked
      BY <2>1, <2>2 DEF AdoptsAhead, AckedIsDurable
  <2>4. AckedIsDurable'
      BY <1>1, <1>n, <2>1, <2>3, FrameTaken DEF AckedIsDurable
  <2>5. AdoptsAhead'
    <3> SUFFICES ASSUME NEW i \in 1..Len(toAgent'), toAgent'[i].type = "adopt"
                 PROVE  /\ lastAcked' <= toAgent'[i].n
                        /\ \A n \in acking' : n <= toAgent'[i].n
                        /\ \A j \in 1..i : toAgent'[j].n <= toAgent'[i].n
        BY DEF AdoptsAhead
    <3>1. i + 1 \in 1..Len(toAgent) /\ toAgent'[i] = toAgent[i + 1]
        BY <1>n, <2>1, FrameTaken
    <3>2. toAgent[1].n <= toAgent[i + 1].n
        BY <1>n, <3>1 DEF AdoptsAhead
    <3>3. \A j \in 1..i : j + 1 \in 1..(i + 1) /\ toAgent'[j] = toAgent[j + 1]
        BY <1>n, <2>1, <3>1, FrameTaken
    <3> QED
        BY <1>n, <2>1, <3>1, <3>2, <3>3 DEF AdoptsAhead
  <2> QED
      BY <2>3, <2>4, <2>5
<1>8. CASE RefuseChunk
  <2>1. UNCHANGED <<lastAcked, acking, logAcked>>
      BY <1>8 DEF RefuseChunk, spool, sender
  <2>2. CASE UNCHANGED toAgent
      BY <1>2, <2>1, <2>2
  <2>3. CASE Head(chain) <= logAcked /\ ToAgent(Frame("log_ack", Head(chain)))
    <3>1. Head(chain) \in Chunks
        BY <1>8 DEF RefuseChunk, TypeOK
    <3>2. AdoptsAhead' /\ \A i \in 1..Len(toAgent') : toAgent'[i].n <= logAcked
        BY <1>n, <2>1, <2>3, <3>1, SentAck
    <3> QED
        BY <1>1, <1>n, <2>1, <3>2 DEF AckedIsDurable
  <2> QED
      BY <1>8, <2>2, <2>3 DEF RefuseChunk
<1>9. CASE RecordAck
  <2>1. UNCHANGED <<lastAcked, acking>> /\ logAcked' = Head(chain)
      BY <1>9 DEF RecordAck, spool, sender
  <2>2. Head(chain) \in Chunks
      BY <1>9 DEF RecordAck, StoringNext, TypeOK
  <2>3. AdoptsAhead' /\ \A i \in 1..Len(toAgent') : toAgent'[i].n <= logAcked'
      BY <1>1, <1>9, <1>n, <2>1, <2>2, SentAck DEF RecordAck
  <2> QED
      BY <1>1, <1>n, <2>1, <2>3 DEF AckedIsDurable
<1>10. CASE ControllerRestarts
    BY <1>1, <1>10, <1>n DEF ControllerRestarts, spool, sender, AckedIsDurable, AdoptsAhead
<1> QED
    BY <1>2, <1>3, <1>4, <1>5, <1>6, <1>7, <1>8, <1>9, <1>10, AckSteps

-----------------------------------------------------------------------------
(* An unbroken connection. *)

(* A step after which nothing has gone wrong breaks nothing. *)
LEMMA FaultsCount ==
    ASSUME TypeOK, [Next]_vars, cuts' = 0, restarts' = 0
    PROVE  cuts = 0 /\ restarts = 0
    BY DEF TypeOK, Next, AgentStep, ControllerStep, vars, Spool, OfferLive, ReplayNext,
       HandleLogAck, AckWritten, Finish, Cut, AgentNotices, Reconnect,
       EmitRecoveryReport, GraceElapses, HandleRecoveryReport, Adopted,
       HandleCleanupComplete, Complete, ReceiveChunk, RefuseChunk, AppendBytes,
       AppendIndex, RecordAck, ControllerRestarts, faults

(* A live chunk goes out at once, behind all others. *)
LEMMA EnqueueSends ==
    ASSUME TypeOK, net = "live", queue = {}, NEW k \in Chunks, k > lastAcked, Enqueue(k)
    PROVE  /\ queue' = {} /\ UNCHANGED needsReplay
           /\ toController' = Append(toController, Frame("log_chunk", k))
<1>1. ~(k <= lastAcked \/ k \in queue)
    BY LogConstants DEF TypeOK, Sequences0, Chunks
<1>2. ~(Cardinality(queue) >= MaxQueue)
    BY FS_EmptySet, LogConstants
<1>3. Pump(queue \cup {k}, lastAcked) /\ UNCHANGED needsReplay
    BY <1>1, <1>2 DEF Enqueue
<1>4. {j \in queue \cup {k} : j > lastAcked} = {k}
    OBVIOUS
<1>5. queue' = {} /\ ToController(ChunkFrames({k}))
    BY <1>3, <1>4 DEF Pump
<1>6. toController' = toController \o <<Frame("log_chunk", k)>>
    BY <1>5, ChunkFramesOne DEF ToController
<1> QED
    BY <1>3, <1>5, <1>6 DEF TypeOK

(* An acknowledgement finds nothing to send. *)
LEMMA OnAckIdle ==
    ASSUME TypeOK, net = "live", queue = {}, needsReplay = FALSE, NEW n, OnAck(n)
    PROVE  queue' = {} /\ needsReplay' = FALSE /\ UNCHANGED <<replays, toController>>
<1> DEFINE acked == IF n > lastAcked THEN n ELSE lastAcked
<1>1. /\ Pump(queue, acked)
      /\ needsReplay' = (needsReplay /\ Cardinality(queue') >= MaxQueue)
      /\ replays' = IF needsReplay /\ ~needsReplay' THEN replays \cup Backlog(acked + 1)
                    ELSE replays
    BY DEF OnAck
<1> HIDE DEF acked
<1>2. {k \in queue : k > acked} = {}
    OBVIOUS
<1>3. queue' = {} /\ ToController(ChunkFrames({}))
    BY <1>1, <1>2 DEF Pump
<1>4. toController' = toController \o <<>>
    BY <1>3, ChunkFramesNone DEF ToController
<1> QED
    BY <1>1, <1>3, <1>4 DEF TypeOK

(* While nothing breaks, every step keeps the chunks on their way without a gap. *)
LEMMA UnbrokenStep ==
    ASSUME TypeOK, IndexIsPrefix, StoringNext, AckedIsDurable, BytesFollowIndex, Unbroken,
           [Next]_vars
    PROVE  Unbroken'
<1> SUFFICES ASSUME cuts' = 0, restarts' = 0 PROVE Unbroken'
    BY DEF Unbroken
<1>c. cuts = 0 /\ restarts = 0
    BY FaultsCount
<1>t. TypeOK'
    BY TypeStep
<1>n. /\ logAcked \in Nat /\ lastAcked \in Nat /\ offered \in Nat /\ spooled \in Nat
      /\ NChunks \in Nat /\ spooled <= NChunks /\ offered <= NChunks
      /\ Len(chain) \in Nat /\ Len(toController) \in Nat /\ Len(toAgent) \in Nat
    BY LogConstants DEF TypeOK, Sequences0
<1> DEFINE calm ==
        /\ net = "live" /\ reporting = FALSE /\ orphaned = FALSE
        /\ queue = {} /\ needsReplay = FALSE /\ replays = {}
        /\ \A i \in 1..Len(toAgent) : toAgent[i].type = "log_ack"
<1> DEFINE contiguous ==
        /\ \A i \in 1..Len(chain) : chain[i] = logAcked + i
        /\ \A i \in 1..Len(toController) :
              \/ /\ toController[i].type = "log_chunk"
                 /\ toController[i].n = logAcked + Len(chain) + i
              \/ toController[i].type = "cleanup_complete" /\ i = Len(toController) /\ ended
<1> DEFINE counted ==
        /\ ~ended => ~draining /\ ~completed /\ UnderWay = offered
        /\ ended => offered = NChunks
        /\ ended /\ toController # <<>> =>
              /\ ~draining /\ ~completed /\ UnderWay = NChunks + 1
              /\ toController[Len(toController)].type = "cleanup_complete"
        /\ ended /\ toController = <<>> => UnderWay = NChunks
        /\ completed => chain = <<>>
<1>h. calm /\ contiguous /\ counted
    BY <1>c DEF Unbroken
<1>g. SUFFICES calm' /\ contiguous' /\ counted'
    BY DEF Unbroken, UnderWay
<1>u. logAcked + Len(chain) <= NChunks
    BY <1>h, <1>n DEF UnderWay
<1>1. CASE Spool
    BY <1>1, <1>h DEF Spool, sender, ingest, attempt, UnderWay
<1>2. CASE OfferLive
  <2>1. ~ended /\ UnderWay = offered /\ offered < NChunks
      BY <1>2, <1>h, <1>n DEF OfferLive
  <2>2. offered + 1 \in Chunks /\ offered + 1 > lastAcked
      BY <1>n, <2>1 DEF Chunks, AckedIsDurable, UnderWay
  <2>3. /\ queue' = {} /\ UNCHANGED needsReplay
        /\ toController' = Append(toController, Frame("log_chunk", offered + 1))
      BY <1>2, <1>h, <2>2, EnqueueSends DEF OfferLive
  <2>4. /\ UNCHANGED <<net, reporting, orphaned, replays, toAgent, chain, logAcked, ended,
                       draining, completed>>
        /\ offered' = offered + 1
      BY <1>2 DEF OfferLive, ingest, attempt
  <2>5. calm'
      BY <1>h, <2>3, <2>4
  <2>6. /\ Len(toController') = Len(toController) + 1
        /\ \A i \in 1..Len(toController) : toController'[i] = toController[i]
        /\ toController'[Len(toController) + 1].type = "log_chunk"
        /\ toController'[Len(toController) + 1].n = offered + 1
      BY <2>3 DEF TypeOK, Frame
  <2>7. contiguous'
      BY <1>h, <1>n, <2>1, <2>4, <2>6 DEF UnderWay
  <2>8. counted'
      BY <1>h, <1>n, <2>1, <2>4, <2>6 DEF UnderWay
  <2> QED
      BY <2>5, <2>7, <2>8
<1>3. CASE HandleLogAck
  <2>1. toAgent # <<>> /\ toAgent' = Tail(toAgent)
      BY <1>3 DEF HandleLogAck
  <2>2. /\ UNCHANGED <<net, reporting, orphaned, queue, needsReplay, replays, toController,
                       chain, logAcked, ended, draining, completed, offered>>
      BY <1>3 DEF HandleLogAck, sender, ingest, attempt
  <2>3. calm'
      BY <1>h, <1>n, <2>1, <2>2, FrameTaken
  <2> QED
      BY <1>h, <2>2, <2>3 DEF UnderWay
<1>4. ASSUME NEW n \in Chunks, AckWritten(n) PROVE calm' /\ contiguous' /\ counted'
  <2>1. queue' = {} /\ needsReplay' = FALSE /\ UNCHANGED <<replays, toController>>
      BY <1>4, <1>h, OnAckIdle DEF AckWritten
  <2>2. UNCHANGED <<net, reporting, orphaned, toAgent, chain, logAcked, ended, draining,
                    completed, offered>>
      BY <1>4 DEF AckWritten, ingest, attempt
  <2> QED
      BY <1>h, <2>1, <2>2 DEF UnderWay
<1>5. CASE Finish
  <2>1. /\ offered = NChunks /\ ~ended /\ ended'
        /\ ToController(<<Frame("cleanup_complete", 0)>>)
        /\ UNCHANGED <<net, reporting, orphaned, queue, needsReplay, replays, toAgent, chain,
                       logAcked, draining, completed, offered>>
      BY <1>5 DEF Finish, sender, ingest, attempt
  <2>2. toController' = Append(toController, Frame("cleanup_complete", 0))
      BY <1>h, <2>1 DEF ToController, TypeOK
  <2>3. /\ Len(toController') = Len(toController) + 1
        /\ \A i \in 1..Len(toController) : toController'[i] = toController[i]
        /\ toController'[Len(toController) + 1].type = "cleanup_complete"
      BY <2>2 DEF TypeOK, Frame
  <2>4. contiguous'
    <3>1. ASSUME NEW i \in 1..Len(toController')
          PROVE  \/ /\ toController'[i].type = "log_chunk"
                    /\ toController'[i].n = logAcked' + Len(chain') + i
                 \/ /\ toController'[i].type = "cleanup_complete"
                    /\ i = Len(toController') /\ ended'
      <4>1. CASE i = Len(toController) + 1
          BY <2>1, <2>3, <4>1
      <4>2. CASE i # Len(toController) + 1
        <5>1. i \in 1..Len(toController)
            BY <1>n, <2>3, <4>2
        <5>2. toController[i].type = "log_chunk" /\ toController[i].n = logAcked + Len(chain) + i
            BY <1>h, <2>1, <5>1
        <5> QED
            BY <2>1, <2>3, <5>1, <5>2
      <4> QED
          BY <4>1, <4>2
    <3>2. \A i \in 1..Len(chain') : chain'[i] = logAcked' + i
        BY <1>h, <2>1
    <3> QED
        BY <3>1, <3>2
  <2>5. counted'
      BY <1>h, <1>n, <2>1, <2>3 DEF UnderWay
  <2> QED
      BY <1>h, <2>1, <2>4, <2>5
<1>6. CASE ReceiveChunk
  <2>1. /\ toController # <<>> /\ Head(toController).type = "log_chunk"
        /\ toController' = Tail(toController)
        /\ chain' = Append(chain, Head(toController).n)
        /\ UNCHANGED <<net, reporting, orphaned, queue, needsReplay, replays, toAgent,
                       logAcked, ended, draining, completed, offered>>
      BY <1>6 DEF ReceiveChunk, spool, sender, attempt
  <2>2. /\ Head(toController) = toController[1] /\ Len(toController) >= 1
        /\ Len(toController') = Len(toController) - 1
        /\ \A i \in 1..Len(toController') : toController'[i] = toController[i + 1]
      BY <2>1 DEF TypeOK
  <2>3. 1 \in 1..Len(toController)
      BY <1>n, <2>2
  <2>4. Head(toController).n = logAcked + Len(chain) + 1
      BY <1>h, <2>1, <2>2, <2>3
  <2>5. /\ Len(chain') = Len(chain) + 1
        /\ \A i \in 1..Len(chain) : chain'[i] = chain[i]
        /\ chain'[Len(chain) + 1] = logAcked + Len(chain) + 1
      BY <2>1, <2>4 DEF TypeOK
  <2>6. ended => Len(toController) > 1
    <3>1. ended => toController[Len(toController)].type = "cleanup_complete"
        BY <1>h, <2>1
    <3>2. toController[1].type = "log_chunk"
        BY <2>1, <2>2
    <3>3. ended => Len(toController) # 1
        BY <3>1, <3>2
    <3> QED
        BY <1>n, <2>2, <3>3
  <2>7. contiguous'
    <3>1. ASSUME NEW i \in 1..Len(chain') PROVE chain'[i] = logAcked' + i
      <4>1. CASE i = Len(chain) + 1
          BY <1>n, <2>1, <2>5, <4>1
      <4>2. CASE i \in 1..Len(chain)
          BY <1>h, <2>1, <2>5, <4>2
      <4> QED
          BY <1>n, <2>5, <3>1, <4>1, <4>2
    <3>2. ASSUME NEW i \in 1..Len(toController')
          PROVE  \/ /\ toController'[i].type = "log_chunk"
                    /\ toController'[i].n = logAcked' + Len(chain') + i
                 \/ /\ toController'[i].type = "cleanup_complete"
                    /\ i = Len(toController') /\ ended'
      <4>1. i + 1 \in 1..Len(toController) /\ toController'[i] = toController[i + 1]
          BY <1>n, <2>2
      <4>2. \/ /\ toController[i + 1].type = "log_chunk"
               /\ toController[i + 1].n = logAcked + Len(chain) + (i + 1)
            \/ /\ toController[i + 1].type = "cleanup_complete"
               /\ i + 1 = Len(toController) /\ ended
          BY <1>h, <4>1
      <4>3. logAcked' + Len(chain') + i = logAcked + Len(chain) + (i + 1)
          BY <1>n, <2>1, <2>2, <2>5
      <4>4. i + 1 = Len(toController) => i = Len(toController')
          BY <1>n, <2>2
      <4> QED
          BY <2>1, <4>1, <4>2, <4>3, <4>4
    <3> QED
        BY <3>1, <3>2
  <2>8. counted'
    <3>0. ~completed
        BY <1>h, <2>1
    <3>1. UnderWay' = UnderWay
        BY <1>n, <2>1, <2>2, <2>5 DEF UnderWay
    <3>2. ended => toController'[Len(toController')] = toController[Len(toController)]
        BY <1>n, <2>2, <2>6
    <3>3. ended => toController' # <<>>
        BY <1>n, <1>t, <2>2, <2>6 DEF TypeOK
    <3> QED
        BY <1>h, <2>1, <3>0, <3>1, <3>2, <3>3
  <2> QED
      BY <1>h, <2>1, <2>7, <2>8
<1>7. CASE AppendBytes \/ AppendIndex
    BY <1>7, <1>h DEF AppendBytes, AppendIndex, spool, sender, attempt, UnderWay
<1>8. CASE RecordAck
  <2>1. /\ chain # <<>> /\ logAcked' = Head(chain) /\ chain' = Tail(chain)
        /\ ToAgent(Frame("log_ack", Head(chain)))
        /\ UNCHANGED <<net, reporting, orphaned, queue, needsReplay, replays, toController,
                       lastAcked, acking, ended, draining, completed, offered>>
      BY <1>8 DEF RecordAck, StoringNext, spool, sender, attempt
  <2>2. /\ Head(chain) = chain[1] /\ Len(chain) >= 1 /\ Len(chain') = Len(chain) - 1
        /\ \A i \in 1..Len(chain') : chain'[i] = chain[i + 1]
      BY <2>1 DEF TypeOK
  <2>3. logAcked' = logAcked + 1
      BY <1>h, <1>n, <2>1, <2>2
  <2>4. calm'
    <3>1. CASE toAgent' = toAgent
        BY <1>h, <2>1, <3>1
    <3>2. CASE toAgent' # toAgent
      <4>1. /\ Len(toAgent') = Len(toAgent) + 1
            /\ \A i \in 1..Len(toAgent) : toAgent'[i] = toAgent[i]
            /\ toAgent'[Len(toAgent) + 1] = Frame("log_ack", Head(chain))
          BY <2>1, <3>2, FrameSent
      <4>2. toAgent'[Len(toAgent) + 1].type = "log_ack"
          BY <4>1 DEF Frame
      <4>3. ASSUME NEW i \in 1..Len(toAgent') PROVE toAgent'[i].type = "log_ack"
        <5>1. CASE i = Len(toAgent) + 1
            BY <4>2, <5>1
        <5>2. CASE i # Len(toAgent) + 1
          <6>1. i \in 1..Len(toAgent)
              BY <1>n, <4>1, <5>2
          <6>2. toAgent[i].type = "log_ack"
              BY <1>h, <6>1
          <6> QED
              BY <4>1, <6>1, <6>2
        <5> QED
            BY <5>1, <5>2
      <4> QED
          BY <1>h, <2>1, <4>3
    <3> QED
        BY <3>1, <3>2
  <2>5. contiguous'
    <3>1. ASSUME NEW i \in 1..Len(chain') PROVE chain'[i] = logAcked' + i
      <4>1. i + 1 \in 1..Len(chain) /\ chain'[i] = chain[i + 1]
          BY <1>n, <2>2
      <4>2. chain[i + 1] = logAcked + (i + 1)
          BY <1>h, <4>1
      <4> QED
          BY <1>n, <2>3, <4>1, <4>2
    <3>2. logAcked' + Len(chain') = logAcked + Len(chain)
        BY <1>n, <2>2, <2>3
    <3> QED
        BY <1>h, <2>1, <3>1, <3>2
  <2>6. counted'
    <3>1. UnderWay' = UnderWay
        BY <1>n, <2>1, <2>2, <2>3 DEF UnderWay
    <3>2. ~completed
        BY <1>h, <2>1
    <3> QED
        BY <1>h, <2>1, <3>1, <3>2
  <2> QED
      BY <2>4, <2>5, <2>6
<1>9. CASE HandleCleanupComplete
  <2>1. /\ toController # <<>> /\ Head(toController).type = "cleanup_complete"
        /\ toController' = Tail(toController)
        /\ UNCHANGED <<net, reporting, orphaned, queue, needsReplay, replays, toAgent, chain,
                       logAcked, ended, completed, offered>>
      BY <1>9 DEF HandleCleanupComplete, spool, sender, ingest
  <2>2. Head(toController) = toController[1] /\ Len(toController) >= 1
      BY <2>1 DEF TypeOK
  <2>3. 1 \in 1..Len(toController)
      BY <1>n, <2>2
  <2>4. Len(toController) = 1 /\ ended
      BY <1>h, <2>1, <2>2, <2>3
  <2>5. toController' = <<>>
      BY <2>1, <2>4 DEF TypeOK
  <2>6. UnderWay = NChunks + 1 /\ ~completed
      BY <1>h, <2>1, <2>4
  <2>7. UnderWay' = NChunks
    <3>1. Len(toController') = 0
        BY <2>5
    <3>2. logAcked + Len(chain) + 1 = NChunks + 1
        BY <2>4, <2>6 DEF UnderWay
    <3>3. logAcked' = logAcked /\ Len(chain') = Len(chain)
        BY <2>1
    <3>4. UnderWay' = logAcked + Len(chain) + 0
        BY <3>1, <3>3 DEF UnderWay
    <3> QED
        BY <1>n, <3>2, <3>4
  <2>8. contiguous'
      BY <1>h, <2>1, <2>5
  <2>9. counted'
      BY <1>h, <2>1, <2>4, <2>5, <2>6, <2>7
  <2> QED
      BY <1>h, <2>1, <2>8, <2>9
<1>10. CASE Complete
  <2>1. /\ draining /\ chain = <<>>
        /\ UNCHANGED <<net, reporting, orphaned, queue, needsReplay, replays, toAgent,
                       toController, chain, logAcked, ended, offered>>
      BY <1>10 DEF Complete, Drained, spool, sender, ingest
  <2>2. ended /\ toController = <<>>
      BY <1>h, <2>1
  <2> QED
      BY <1>h, <2>1, <2>2 DEF UnderWay
<1>11. CASE UNCHANGED vars
    BY <1>11, <1>h DEF vars, spool, sender, ingest, attempt, UnderWay
<1>12. ~ReplayNext
    BY <1>h DEF ReplayNext
<1>13. ~Cut /\ ~ControllerRestarts
    BY <1>c DEF Cut, ControllerRestarts
<1>14. ~AgentNotices /\ ~Reconnect /\ ~EmitRecoveryReport /\ ~GraceElapses
    BY <1>h DEF AgentNotices, Reconnect, EmitRecoveryReport, GraceElapses
<1>15. ~HandleRecoveryReport
  <2> SUFFICES ASSUME HandleRecoveryReport PROVE FALSE
      OBVIOUS
  <2>1. Head(toController) = toController[1] /\ 1 \in 1..Len(toController)
      BY DEF HandleRecoveryReport, TypeOK
  <2> QED
      BY <1>h, <2>1 DEF HandleRecoveryReport, Frame
<1>16. ~Adopted
  <2> SUFFICES ASSUME Adopted PROVE FALSE
      OBVIOUS
  <2>1. Head(toAgent) = toAgent[1] /\ 1 \in 1..Len(toAgent)
      BY DEF Adopted, TypeOK
  <2> QED
      BY <1>h, <2>1 DEF Adopted
<1>17. ~RefuseChunk
  <2> SUFFICES ASSUME RefuseChunk PROVE FALSE
      OBVIOUS
  <2>1. Head(chain) = chain[1] /\ 1 \in 1..Len(chain)
      BY DEF RefuseChunk, TypeOK
  <2>2. Head(chain) = logAcked + 1
      BY <1>h, <2>1
  <2>3. LastIndexed = logAcked
      BY <1>c, <1>n, LastIsLength DEF BytesFollowIndex, RefuseChunk, TypeOK
  <2> QED
      BY <1>h, <1>n, <2>2, <2>3 DEF RefuseChunk
<1> QED
    BY <1>1, <1>2, <1>3, <1>4, <1>5, <1>6, <1>7, <1>8, <1>9, <1>10, <1>11, <1>12, <1>13,
       <1>14, <1>15, <1>16, <1>17 DEF Next, AgentStep, ControllerStep

-----------------------------------------------------------------------------
(* The inductive invariant. *)
LogInv ==
    /\ TypeOK
    /\ IndexIsPrefix
    /\ StoringNext
    /\ AckedIsDurable
    /\ AdoptsAhead
    /\ BytesFollowIndex
    /\ Unbroken

(* Initially nothing is written and nothing is on its way. *)
LEMMA LogInit == Init => LogInv
<1> SUFFICES ASSUME Init PROVE LogInv
    OBVIOUS
<1> USE LogConstants DEF Init
<1>1. TypeOK
  <2>1. spooled \in Sequences0 /\ offered \in Sequences0 /\ lastAcked \in Sequences0
        /\ logAcked \in Sequences0 /\ cuts \in Nat /\ restarts \in Nat
      BY DEF Sequences0
  <2>2. /\ toController \in Seq(Uplink) /\ toAgent \in Seq(Downlink)
        /\ chain \in Seq(Chunks) /\ bytes \in Seq(Chunks) /\ index \in Seq(Chunks)
      OBVIOUS
  <2> QED
      BY <2>1, <2>2 DEF TypeOK
<1>2. IndexIsPrefix /\ StoringNext /\ AckedIsDurable /\ AdoptsAhead /\ BytesFollowIndex
    BY DEF IndexIsPrefix, StoringNext, AckedIsDurable, AdoptsAhead, BytesFollowIndex
<1>3. Unbroken
    BY DEF Unbroken, UnderWay
<1> QED
    BY <1>1, <1>2, <1>3 DEF LogInv

(* Every step keeps the invariant. *)
LEMMA LogStep == LogInv /\ [Next]_vars => LogInv'
<1> SUFFICES ASSUME LogInv, [Next]_vars PROVE LogInv'
    OBVIOUS
<1> USE DEF LogInv
<1>1. logAcked <= Len(index)
    BY DEF AckedIsDurable
<1>2. TypeOK'
    BY TypeStep
<1>3. IndexIsPrefix' /\ StoringNext'
    BY <1>1, IndexStep
<1>4. AckedIsDurable' /\ AdoptsAhead'
    BY AckStep
<1>5. BytesFollowIndex'
    BY <1>1, BytesStep
<1>6. Unbroken'
    BY UnbrokenStep
<1> QED
    BY <1>2, <1>3, <1>4, <1>5, <1>6

(* The invariant holds for any number of chunks, any queue length, and any number
   of cuts and restarts. *)
THEOREM LogInvariant == Spec => []LogInv
    BY LogInit, LogStep, PTL DEF Spec

(* Spool, sender, frames and the Controller's files keep their types. *)
THEOREM LogTypeCorrect == Spec => []TypeOK
<1>1. LogInv => TypeOK
    BY DEF LogInv
<1> QED
    BY <1>1, LogInvariant, PTL

(* The index that appendIndexedLogChunk writes is the output in order, without a
   gap or a repetition. *)
THEOREM IndexIsInOrder == Spec => []IndexIsPrefix
<1>1. LogInv => IndexIsPrefix
    BY DEF LogInv
<1> QED
    BY <1>1, LogInvariant, PTL

(* handleRemoteLogChunk acknowledges, and an adopt decision skips, only what the
   index has. *)
THEOREM AcknowledgedIsStored == Spec => []AckedIsDurable
<1>1. LogInv => AckedIsDurable
    BY DEF LogInv
<1> QED
    BY <1>1, LogInvariant, PTL

(* Until the Controller restarts, no chunk is appended twice to a stream file. *)
THEOREM StreamWrittenOnce == Spec => []OutputOnce
<1>1. LogInv => OutputOnce
    BY DEF LogInv, BytesFollowIndex, OutputOnce
<1> QED
    BY <1>1, LogInvariant, PTL

(* If nothing broke, an attempt is completed only with its whole log stored:
   drainRemoteLogChunks waits long enough. *)
THEOREM CompletedLogIsWhole == Spec => []CompletedIsWhole
<1>1. LogInv => CompletedIsWhole
  <2> SUFFICES ASSUME LogInv, completed, cuts = 0, restarts = 0
               PROVE  Len(index) = NChunks
      BY DEF CompletedIsWhole
  <2>1. logAcked \in Nat /\ Len(index) \in Nat /\ NChunks \in Nat
      BY LogConstants DEF LogInv, TypeOK, Sequences0
  <2>2. chain = <<>> /\ toController = <<>> /\ UnderWay = NChunks
      BY DEF LogInv, Unbroken
  <2>3. Len(chain) = 0 /\ Len(toController) = 0
      BY <2>2
  <2>4. logAcked = NChunks
      BY <2>1, <2>2, <2>3 DEF UnderWay
  <2>5. NChunks <= Len(index)
      BY <2>1, <2>4 DEF LogInv, AckedIsDurable
  <2>6. Len(index) <= NChunks
    <3>1. CASE Len(index) = 0
        BY <2>1, <3>1
    <3>2. CASE Len(index) # 0
      <4>1. Len(index) \in 1..Len(index)
          BY <2>1, <3>2
      <4>2. index[Len(index)] = Len(index) /\ index[Len(index)] \in Chunks
          BY <4>1 DEF LogInv, IndexIsPrefix, TypeOK
      <4> QED
          BY <2>1, <4>2 DEF Chunks
    <3> QED
        BY <3>1, <3>2
  <2> QED
      BY <2>1, <2>5, <2>6
<1> QED
    BY <1>1, LogInvariant, PTL

(* SpoolSender's cursor never goes back, although onAck may run out of order and
   setAcked takes whatever the decision says. *)
THEOREM CursorNeverBack == Spec => CursorAdvances
<1>1. LogInv /\ [Next]_vars => [CursorStep]_vars
    BY AckStep DEF LogInv
<1> QED
    BY <1>1, LogInvariant, PTL DEF Spec, CursorAdvances

-----------------------------------------------------------------------------
(* The artifacts that follow the output of the same attempt (ArtifactUpload). *)

(* A PUT has a name, and past its acceptance a file; one that is past the size
   check has written both halves.  A pass outside a PUT has none, and no pass has
   begun before the job has ended. *)
Quiet == {"idle", "asking", "filtering", "loop", "cleaned", "over"}
ShapeOf(p) ==
    /\ passPc[p] \in {"sent", "streaming", "renaming", "removing"} => put[p].name \in Names
    /\ passPc[p] \in {"streaming", "renaming", "removing"} => put[p].file \in Inodes
    /\ passPc[p] \in {"renaming", "removing"} => put[p].wrote = 2
    /\ passPc[p] = "sent" => put[p].file = None /\ put[p].wrote = 0
    /\ passPc[p] \in Quiet => put[p] = NoPut
    /\ attemptState = "running" => passPc[p] = "idle"

PutShape == \A p \in Passes : ShapeOf(p)

(* The file p has open holds what p has written: nobody has truncated it since
   p opened it. *)
Intact(p) == \A h \in Halves : h <= put[p].wrote => h \in data[put[p].file]

(* Every file under a name is whole or will be: its last opener is still
   writing, and nothing it has written is missing. *)
Repaired(i) ==
    i # None => Whole(i) \/ \E p \in Passes : put[p].file = i /\ Intact(p)

FilesRepaired == breaks = 0 => \A n \in Names : Repaired(part[n]) /\ Repaired(dest[n])

RowsStored == \A n \in rows : dest[n] # None

UploadInv == UploadTypeOK /\ PutShape /\ RowsStored /\ FilesRepaired

(* The initial state: no pass, no file. *)
LEMMA UploadInitInv == UploadInit => UploadInv
  <1> SUFFICES ASSUME UploadInit PROVE UploadInv
    OBVIOUS
  <1>1. UploadTypeOK
    BY UploadAssumption DEF UploadInit, UploadTypeOK, NoPut, Halves
  <1>2. PutShape
    BY DEF UploadInit, PutShape, ShapeOf, Quiet, NoPut
  <1>3. RowsStored /\ FilesRepaired
    BY DEF UploadInit, RowsStored, FilesRepaired, Repaired
  <1> QED BY <1>1, <1>2, <1>3 DEF UploadInv

(* Types are kept: files are created by an upload handler for a known name only. *)
LEMMA UploadTypeStep ==
    ASSUME UploadTypeOK, PutShape, UploadNext
    PROVE  UploadTypeOK'
  <1> USE UploadAssumption
  <1> DEFINE Places == {"idle", "asking", "filtering", "loop", "sent", "streaming",
                        "renaming", "removing", "cleaned", "over"}
             Puts == [name : Names \cup {None}, file : Inodes \cup {None}, wrote : 0 .. 2]
  <1>n. NoPut \in Puts
    BY DEF NoPut
  <1>g. ASSUME NEW p \in Passes, NEW place \in Places, Goto(p, place)
        PROVE  passPc' \in [Passes -> Places]
    BY <1>g DEF Goto, UploadTypeOK
  <1>a. ASSUME NEW p \in Passes, NextArtifact(p)
        PROVE  passPc' \in [Passes -> Places] /\ put' \in [Passes -> Puts]
    BY <1>a, <1>n, <1>g DEF NextArtifact, UploadTypeOK
  <1>r. RunJob \in Passes
    BY DEF Passes
  <1>1. CASE ExitJob
    BY <1>1, <1>r, <1>g DEF ExitJob, UploadTypeOK, diskVars
  <1>2. CASE CompleteCleanup
    BY <1>2, <1>r, <1>g DEF CompleteCleanup, UploadTypeOK, diskVars
  <1>3. CASE RestartController
    <2>1. put' \in [Passes -> Puts]
      BY <1>3, <1>n DEF RestartController
    <2>2. passPc' \in [Passes -> Places]
      BY <1>3 DEF RestartController, UploadTypeOK
    <2>3. breaks' \in 0 .. MaxFaults /\ expectations' \subseteq Names
      BY <1>3 DEF RestartController, UploadTypeOK
    <2> QED BY <1>3, <2>1, <2>2, <2>3 DEF RestartController, UploadTypeOK, diskVars
  <1>4. ASSUME NEW p \in Passes,
               ResumeUpload(p) \/ PassStep(p)
        PROVE  UploadTypeOK'
    <2>1. CASE ResumeUpload(p)
      BY <2>1, <1>g DEF ResumeUpload, UploadTypeOK, diskVars
    <2>2. CASE HandleManifest(p)
      BY <2>2, <1>g DEF HandleManifest, UploadTypeOK, diskVars
    <2>3. CASE FilterMissing(p)
      <3>1. todo' \in [Passes -> SUBSET Names]
        BY <2>3 DEF FilterMissing, UploadTypeOK
      <3> QED BY <2>3, <3>1, <1>g DEF FilterMissing, UploadTypeOK, diskVars
    <2>4. CASE NoGrant(p)
      BY <2>4, <1>g DEF NoGrant, UploadTypeOK, diskVars
    <2>5. CASE EndPass(p)
      <3>1. passPc' \in [Passes -> Places]
        BY <2>5, <1>g DEF EndPass
      <3> QED BY <2>5, <3>1 DEF EndPass, UploadTypeOK, diskVars
    <2>6. ASSUME NEW n \in Names, StartPut(p, n) PROVE UploadTypeOK'
      <3>1. [NoPut EXCEPT !.name = n] \in Puts
        BY DEF NoPut
      <3>2. put' \in [Passes -> Puts]
        BY <2>6, <3>1 DEF StartPut, UploadTypeOK
      <3>3. todo' \in [Passes -> SUBSET Names]
        BY <2>6 DEF StartPut, UploadTypeOK
      <3> QED BY <2>6, <3>2, <3>3, <1>g DEF StartPut, UploadTypeOK, diskVars
    <2> QED BY <1>4, <2>1, <2>2, <2>3, <2>4, <2>5, <2>6 DEF PassStep
  <1>5. ASSUME NEW p \in Passes, PutStep(p) \/ BreakPut(p)
        PROVE  UploadTypeOK'
    <2>1. CASE Refuse(p)
      BY <2>1, <1>a DEF Refuse, UploadTypeOK, diskVars
    <2>2. CASE Accept(p)
      <3>1. put[p].name \in Names
        BY <2>2 DEF Accept, At, PutShape, ShapeOf
      <3>2. PICK i \in Inodes :
               /\ part' = [part EXCEPT ![put[p].name] = i]
               /\ data' = [data EXCEPT ![i] = {}]
               /\ put' = [put EXCEPT ![p].file = i]
        <4>1. <<p, put[p].name>> \in Inodes
          BY <3>1 DEF Inodes
        <4>2. (IF part[put[p].name] = None THEN <<p, put[p].name>> ELSE part[put[p].name])
                 \in Inodes
          BY <3>1, <4>1 DEF UploadTypeOK
        <4> QED BY <2>2, <4>2 DEF Accept
      <3>3. put' \in [Passes -> Puts]
        BY <3>2 DEF UploadTypeOK
      <3>4. part' \in [Names -> Inodes \cup {None}]
        BY <3>2 DEF UploadTypeOK
      <3>5. data' \in [Inodes -> SUBSET Halves]
        BY <3>2 DEF UploadTypeOK
      <3> QED BY <2>2, <3>3, <3>4, <3>5, <1>g DEF Accept, UploadTypeOK
    <2>3. CASE WriteChunk(p)
      <3>1. put[p] \in Puts /\ put[p].wrote < 2
        BY <2>3 DEF WriteChunk, UploadTypeOK
      <3>2. put[p].wrote + 1 \in 0 .. 2 /\ put[p].wrote + 1 \in Halves
        BY <3>1 DEF Halves
      <3>3. put' \in [Passes -> Puts]
        BY <2>3, <3>1, <3>2 DEF WriteChunk, UploadTypeOK
      <3>4. data' \in [Inodes -> SUBSET Halves]
        BY <2>3, <3>2 DEF WriteChunk, UploadTypeOK
      <3> QED BY <2>3, <3>3, <3>4 DEF WriteChunk, UploadTypeOK
    <2>4. CASE Verify(p)
      BY <2>4, <1>g DEF Verify, DropExpectation, UploadTypeOK, diskVars
    <2>5. CASE Store(p)
      <3>1. put[p].name \in Names
        BY <2>5 DEF Store, At, PutShape, ShapeOf
      <3>2. dest' \in [Names -> Inodes \cup {None}]
        BY <2>5, <3>1 DEF Store, UploadTypeOK
      <3>3. part' \in [Names -> Inodes \cup {None}]
        BY <2>5, <3>1 DEF Store, UploadTypeOK
      <3> QED BY <2>5, <3>1, <3>2, <3>3, <1>a DEF Store, UploadTypeOK
    <2>6. CASE StoreFails(p)
      BY <2>6, <1>g DEF StoreFails, UploadTypeOK, diskVars
    <2>7. CASE RemovePart(p)
      BY <2>7, <1>a DEF RemovePart, UploadTypeOK
    <2>8. CASE BreakPut(p)
      <3>1. breaks' \in 0 .. MaxFaults
        BY <2>8 DEF BreakPut, UploadTypeOK
      <3> QED BY <2>8, <3>1, <1>a DEF BreakPut, UploadTypeOK, diskVars
    <2> QED BY <1>5, <2>1, <2>2, <2>3, <2>4, <2>5, <2>6, <2>7, <2>8 DEF PutStep
  <1> QED BY <1>1, <1>2, <1>3, <1>4, <1>5 DEF UploadNext

(* What a PUT has open, and how far it is, over every step. *)
LEMMA UploadShapeStep ==
    ASSUME UploadTypeOK, PutShape, UploadNext
    PROVE  PutShape'
  <1> SUFFICES ASSUME NEW q \in Passes PROVE ShapeOf(q)'
    BY DEF PutShape
  <1>t. /\ passPc \in [Passes -> {"idle", "asking", "filtering", "loop", "sent", "streaming",
                        "renaming", "removing", "cleaned", "over"}]
        /\ put \in [Passes -> [name : Names \cup {None},
                                      file : Inodes \cup {None}, wrote : 0 .. 2]]
        /\ part \in [Names -> Inodes \cup {None}]
        /\ todo \in [Passes -> SUBSET Names]
    BY DEF UploadTypeOK
  <1>n. NoPut = [name |-> None, file |-> None, wrote |-> 0]
    BY DEF NoPut
  <1>s. ShapeOf(q)
    BY DEF PutShape
  <1>r. RunJob \in Passes
    BY DEF Passes
  <1>u. (attemptState' = attemptState /\ passPc'[q] = passPc[q] /\ put'[q] = put[q]) => ShapeOf(q)'
    BY <1>s DEF ShapeOf
  <1>x. (attemptState' # "running" /\ passPc'[q] = "loop" /\ put'[q] = NoPut) => ShapeOf(q)'
    BY DEF ShapeOf, Quiet
  <1>q. (put'[q] = put[q] /\ passPc[q] \in Quiet /\ passPc'[q] \in Quiet
         /\ (attemptState' = "running" => passPc'[q] = "idle")) => ShapeOf(q)'
    BY <1>s DEF ShapeOf, Quiet
  <1>1. CASE ExitJob \/ CompleteCleanup
    <2>1. /\ put' = put /\ attemptState' # "running"
          /\ \E place \in {"asking", "over"} : passPc' = [passPc EXCEPT ![RunJob] = place]
      BY <1>1 DEF ExitJob, CompleteCleanup, Goto
    <2>2. CASE q # RunJob
      <3>1. attemptState # "running" \/ passPc[q] = "idle"
        BY <1>s DEF ShapeOf
      <3> QED BY <2>1, <2>2, <1>t, <3>1, <1>s DEF ShapeOf
    <2>3. CASE q = RunJob
      <3>1. passPc[q] \in Quiet
        BY <1>1, <2>3, <1>s DEF ExitJob, CompleteCleanup, At, ShapeOf, Quiet
      <3> QED BY <2>1, <2>3, <3>1, <1>t, <1>q DEF Quiet
    <2> QED BY <2>2, <2>3
  <1>2. CASE RestartController
    <2>1. put'[q] = NoPut /\ attemptState' = attemptState
      BY <1>2 DEF RestartController
    <2>2. passPc'[q] \in Quiet /\ (attemptState = "running" => passPc'[q] = "idle")
      <3>1. passPc[q] \notin Quiet => put[q] # NoPut
        BY <1>s, <1>t, <1>n, UploadAssumption DEF ShapeOf, Quiet
      <3>2. passPc'[q] = IF put[q] # NoPut THEN "loop"
                         ELSE IF passPc[q] = "filtering" THEN "over" ELSE passPc[q]
        BY <1>2 DEF RestartController
      <3>3. attemptState = "running" => passPc[q] = "idle" /\ put[q] = NoPut
        BY <1>s DEF ShapeOf, Quiet
      <3> QED BY <3>1, <3>2, <3>3 DEF Quiet
    <2> QED BY <2>1, <2>2 DEF ShapeOf, Quiet
  <1>3. ASSUME NEW p \in Passes,
               ResumeUpload(p) \/ PassStep(p) \/ PutStep(p) \/ BreakPut(p)
        PROVE  ShapeOf(q)'
    <2>1. CASE p # q
      <3>1. attemptState' = attemptState /\ passPc'[q] = passPc[q] /\ put'[q] = put[q]
        BY <1>3, <2>1, <1>t
           DEF ResumeUpload, PassStep, PutStep, BreakPut,
               HandleManifest, FilterMissing, NoGrant, EndPass,
               StartPut, Refuse, Accept, WriteChunk, Verify,
               Store, StoreFails, RemovePart, NextArtifact,
               Goto
      <3> QED BY <3>1, <1>u
    <2>2. CASE p = q
      <3>1. attemptState' = attemptState /\ (attemptState = "running" => passPc[q] = "idle")
        BY <1>3, <1>s DEF ShapeOf, ResumeUpload, PassStep, PutStep,
               BreakPut, HandleManifest, FilterMissing, NoGrant,
               EndPass, StartPut, Refuse, Accept, WriteChunk,
               Verify, Store, StoreFails, RemovePart
      <3>n. attemptState' # "running"
        BY <1>3, <2>2, <3>1 DEF At, ResumeUpload, PassStep, PutStep,
               BreakPut, HandleManifest, FilterMissing, NoGrant,
               EndPass, StartPut, Refuse, Accept, WriteChunk,
               Verify, Store, StoreFails, RemovePart
      <3>2. CASE ResumeUpload(q) \/ HandleManifest(q) \/ FilterMissing(q)
                 \/ NoGrant(q) \/ EndPass(q)
        <4>1. put' = put /\ passPc[q] \in Quiet
          BY <3>2 DEF ResumeUpload, HandleManifest, FilterMissing,
                 NoGrant, EndPass, At, Quiet
        <4>2. \E place \in Quiet : passPc' = [passPc EXCEPT ![q] = place]
          BY <3>2 DEF ResumeUpload, HandleManifest, FilterMissing,
                 NoGrant, EndPass, Goto, Quiet
        <4>3. passPc'[q] \in Quiet
          BY <4>2, <1>t
        <4> QED BY <4>1, <4>3, <3>n, <1>q
      <3>3. ASSUME NEW n \in Names, StartPut(q, n) PROVE ShapeOf(q)'
        <4>1. passPc'[q] = "sent" /\ put'[q] = [NoPut EXCEPT !.name = n]
          BY <3>3, <1>t DEF StartPut, Goto
        <4>2. put'[q].name = n /\ put'[q].file = None /\ put'[q].wrote = 0
          BY <4>1, <1>n
        <4> QED BY <4>1, <4>2, <3>n DEF ShapeOf, Quiet
      <3>4. CASE Refuse(q) \/ Store(q) \/ RemovePart(q) \/ BreakPut(q)
        <4>1. NextArtifact(q)
          BY <3>4 DEF Refuse, Store, RemovePart, BreakPut
        <4>2. passPc'[q] = "loop" /\ put'[q] = NoPut
          BY <4>1, <1>t DEF NextArtifact, Goto
        <4> QED BY <4>2, <3>n, <1>x
      <3>5. CASE Accept(q)
        <4>1. put[q].name \in Names /\ <<q, put[q].name>> \in Inodes
          BY <3>5, <1>s DEF Accept, At, ShapeOf, Inodes
        <4>2. PICK i \in Inodes : put' = [put EXCEPT ![q].file = i]
          BY <3>5, <4>1, <1>t DEF Accept
        <4>3. put'[q].name = put[q].name /\ put'[q].file = i
          BY <4>2, <1>t
        <4>4. passPc'[q] = "streaming"
          BY <3>5, <1>t DEF Accept, Goto
        <4> QED BY <4>1, <4>3, <4>4, <3>n DEF ShapeOf, Quiet
      <3>6. CASE WriteChunk(q)
        <4>1. passPc'[q] = "streaming" /\ passPc[q] = "streaming"
          BY <3>6 DEF WriteChunk, At
        <4>2. put'[q].name = put[q].name /\ put'[q].file = put[q].file
          BY <3>6, <1>t DEF WriteChunk
        <4> QED BY <4>1, <4>2, <3>n, <1>s DEF ShapeOf, Quiet
      <3>7. CASE Verify(q) \/ StoreFails(q)
        <4>1. put' = put /\ passPc'[q] \in {"renaming", "removing"}
          BY <3>7, <1>t DEF Verify, StoreFails, Goto
        <4>2. passPc[q] \in {"streaming", "renaming"} /\ put[q].wrote = 2
          BY <3>7, <1>s DEF Verify, Verified, StoreFails, At, ShapeOf
        <4> QED BY <4>1, <4>2, <3>n, <1>s DEF ShapeOf, Quiet
      <3> QED BY <1>3, <2>2, <3>2, <3>3, <3>4, <3>5, <3>6, <3>7 DEF PassStep, PutStep
    <2> QED BY <2>1, <2>2
  <1> QED BY <1>1, <1>2, <1>3 DEF UploadNext

(* A recorded artifact has its file: the row follows the rename. *)
LEMMA UploadRowsStep ==
    ASSUME UploadTypeOK, PutShape, RowsStored, UploadNext
    PROVE  RowsStored'
  <1>1. CASE rows' = rows /\ dest' = dest
    BY <1>1 DEF RowsStored
  <1>2. ASSUME NEW p \in Passes, Store(p) PROVE RowsStored'
    <2>1. put[p].name \in Names /\ rows \subseteq Names /\ dest \in [Names -> Inodes \cup {None}]
      BY <1>2 DEF PutShape, ShapeOf, Store, At, UploadTypeOK
    <2> QED BY <1>2, <2>1 DEF RowsStored, Store
  <1> QED
    BY <1>1, <1>2
       DEF UploadNext, ExitJob, CompleteCleanup, RestartController,
           ResumeUpload, PassStep, PutStep, BreakPut,
           HandleManifest, FilterMissing, NoGrant, EndPass,
           StartPut, Refuse, Accept, WriteChunk, Verify,
           StoreFails, RemovePart, diskVars

(* A file that is whole, or has an intact writer, stays so as long as no
   connection breaks: the PUT that truncates it is intact itself, a chunk adds to
   it, and a PUT lets go of it only after it has written all of it. *)
LEMMA StaysRepaired ==
    ASSUME UploadTypeOK, PutShape, UploadNext, breaks' = 0,
           NEW i \in Inodes, Repaired(i)
    PROVE  Repaired(i)'
  <1>t. /\ put \in [Passes -> [name : Names \cup {None},
                                      file : Inodes \cup {None}, wrote : 0 .. 2]]
        /\ part \in [Names -> Inodes \cup {None}]
        /\ data \in [Inodes -> SUBSET Halves]
        /\ breaks \in Nat
    BY DEF UploadTypeOK
  <1>m. i # None
    BY UploadAssumption
  <1>u. CASE put' = put /\ data' = data
    BY <1>u DEF Repaired, Intact, Whole
  <1>1. ASSUME NEW p \in Passes, NEW n \in Names, StartPut(p, n) PROVE Repaired(i)'
    <2>1. data' = data /\ put[p].file # i
      BY <1>1, <1>m DEF StartPut, diskVars, At, PutShape, ShapeOf, Quiet, NoPut
    <2>2. \A q \in Passes : put[q].file = i => put'[q] = put[q]
      BY <1>1, <2>1, <1>t DEF StartPut
    <2> QED BY <1>m, <2>1, <2>2 DEF Repaired, Intact, Whole
  <1>2. ASSUME NEW p \in Passes,
               Refuse(p) \/ Store(p) \/ RemovePart(p)
        PROVE  Repaired(i)'
    <2>1. data' = data /\ put' = [put EXCEPT ![p] = NoPut]
      BY <1>2 DEF Refuse, Store, RemovePart, NextArtifact, diskVars
    <2>2. put[p].file = i => put[p].wrote = 2
      BY <1>2, <1>m DEF Refuse, Store, RemovePart, At, PutShape, ShapeOf
    <2>3. put[p].file = i /\ Intact(p) => data[i] = Halves
      BY <2>2, <1>t DEF Intact, Halves
    <2>4. CASE Whole(i) \/ (put[p].file = i /\ Intact(p))
      BY <2>1, <2>3, <2>4, <1>m DEF Repaired, Whole
    <2>5. ASSUME NEW q \in Passes, q # p, put[q].file = i, Intact(q) PROVE Repaired(i)'
      <3>1. put'[q] = put[q]
        BY <2>1, <2>5, <1>t
      <3> QED BY <2>1, <2>5, <3>1 DEF Repaired, Intact
    <2> QED BY <2>4, <2>5, <1>m DEF Repaired
  <1>3. ASSUME NEW p \in Passes, Accept(p) PROVE Repaired(i)'
    <2>1. put[p].name \in Names /\ <<p, put[p].name>> \in Inodes
          /\ put[p].file = None /\ put[p].wrote = 0
      BY <1>3 DEF Accept, At, PutShape, ShapeOf, Inodes
    <2>2. PICK k \in Inodes : /\ data' = [data EXCEPT ![k] = {}]
                                     /\ put' = [put EXCEPT ![p].file = k]
      BY <1>3, <2>1, <1>t DEF Accept
    <2>3. put'[p].file = k /\ put'[p].wrote = 0
      BY <2>1, <2>2, <1>t
    <2>4. CASE i = k
      <3>1. Intact(p)'
        BY <2>3 DEF Intact, Halves
      <3> QED BY <2>3, <2>4, <3>1 DEF Repaired
    <2>5. CASE i # k
      <3>1. data'[i] = data[i]
        BY <2>2, <2>5, <1>t
      <3>2. \A q \in Passes : put[q].file = i => put'[q] = put[q]
        BY <2>1, <2>2, <1>m, <1>t
      <3> QED BY <3>1, <3>2, <1>m DEF Repaired, Intact, Whole
    <2> QED BY <2>4, <2>5
  <1>4. ASSUME NEW p \in Passes, WriteChunk(p) PROVE Repaired(i)'
    <2>1. put[p].file \in Inodes /\ put[p].wrote \in {0, 1}
      BY <1>4, <1>t DEF WriteChunk, At, PutShape, ShapeOf
    <2>2. /\ data' = [data EXCEPT ![put[p].file] = @ \cup {put[p].wrote + 1}]
          /\ put' = [put EXCEPT ![p].wrote = @ + 1]
      BY <1>4 DEF WriteChunk
    <2>3. data[i] \subseteq data'[i] /\ (put[p].file = i => data'[i] = data[i] \cup {put[p].wrote + 1})
      BY <2>1, <2>2, <1>t
    <2>4. \A q \in Passes : put'[q].file = put[q].file /\ (q # p => put'[q] = put[q])
      BY <2>2, <1>t
    <2>5. put'[p].wrote = put[p].wrote + 1
      BY <2>2, <1>t
    <2>6. CASE Whole(i)
      <3>1. data'[i] = Halves
        <4>1. data'[i] \subseteq Halves
          BY <2>1, <2>2, <1>t DEF Halves
        <4> QED BY <4>1, <2>3, <2>6 DEF Whole
      <3> QED BY <3>1, <1>m DEF Repaired, Whole
    <2>7. ASSUME NEW q \in Passes, put[q].file = i, Intact(q) PROVE Repaired(i)'
      <3>1. CASE q # p
        BY <2>3, <2>4, <2>7, <3>1 DEF Repaired, Intact
      <3>2. CASE q = p
        <4>1. \A h \in Halves : h <= put[p].wrote + 1 => h \in data[i] \cup {put[p].wrote + 1}
          BY <2>1, <2>7, <3>2 DEF Intact, Halves
        <4>2. Intact(p)'
          BY <4>1, <2>3, <2>4, <2>5, <2>7, <3>2 DEF Intact
        <4> QED BY <4>2, <2>4, <2>7, <3>2 DEF Repaired
      <3> QED BY <3>1, <3>2
    <2> QED BY <2>6, <2>7, <1>m DEF Repaired
  <1>5. ~RestartController /\ \A p \in Passes : ~BreakPut(p)
    BY <1>t DEF RestartController, BreakPut
  <1> QED
    BY <1>u, <1>1, <1>2, <1>3, <1>4, <1>5
       DEF UploadNext, ExitJob, CompleteCleanup,
           ResumeUpload, PassStep, PutStep,
           HandleManifest, FilterMissing, NoGrant, EndPass,
           Verify, StoreFails, diskVars

(* The directory entries only ever name repaired files. *)
LEMMA UploadFilesStep ==
    ASSUME UploadTypeOK, PutShape, FilesRepaired, UploadNext
    PROVE  FilesRepaired'
  <1> SUFFICES ASSUME breaks' = 0, NEW n \in Names
               PROVE  Repaired(part[n])' /\ Repaired(dest[n])'
    BY DEF FilesRepaired
  <1>t. /\ part \in [Names -> Inodes \cup {None}]
        /\ dest \in [Names -> Inodes \cup {None}]
        /\ put \in [Passes -> [name : Names \cup {None},
                                      file : Inodes \cup {None}, wrote : 0 .. 2]]
        /\ breaks \in Nat
    BY DEF UploadTypeOK
  <1>z. ~RestartController /\ \A p \in Passes : ~BreakPut(p)
    BY <1>t DEF RestartController, BreakPut
  <1>f. breaks = 0
    BY <1>z DEF UploadNext, ExitJob, CompleteCleanup,
           ResumeUpload, PassStep, PutStep,
           HandleManifest, FilterMissing, NoGrant, EndPass,
           StartPut, Refuse, Accept, WriteChunk, Verify,
           Store, StoreFails, RemovePart
  <1>r. \A m \in Names : Repaired(part[m]) /\ Repaired(dest[m])
    BY <1>f DEF FilesRepaired
  <1>p. PICK Good \in SUBSET (Inodes \cup {None}) :
           \A i \in Inodes \cup {None} : i \in Good <=>
               \/ i = None
               \/ data'[i] = Halves
               \/ \E p \in Passes :
                     /\ put'[p].file = i
                     /\ \A h \in Halves : h <= put'[p].wrote => h \in data'[i]
    <2> DEFINE G == {i \in Inodes \cup {None} :
               \/ i = None
               \/ data'[i] = Halves
               \/ \E p \in Passes :
                     /\ put'[p].file = i
                     /\ \A h \in Halves : h <= put'[p].wrote => h \in data'[i]}
    <2>1. G \in SUBSET (Inodes \cup {None})
      OBVIOUS
    <2> QED BY <2>1
  <1>o. None \in Good /\ \A m \in Names : part[m] \in Good /\ dest[m] \in Good
    <2>1. ASSUME NEW i \in Inodes \cup {None}, Repaired(i) PROVE i \in Good
      BY <2>1, <1>p, StaysRepaired DEF Repaired, Intact, Whole
    <2> QED BY <2>1, <1>p, <1>r, <1>t
  <1>g. ASSUME part'[n] \in Good, dest'[n] \in Good PROVE Repaired(part[n])' /\ Repaired(dest[n])'
    BY <1>g, <1>p DEF Repaired, Intact, Whole
  <1>1. CASE part' = part /\ dest' = dest
    BY <1>1, <1>o, <1>g
  <1>2. ASSUME NEW p \in Passes, Store(p) \/ RemovePart(p)
        PROVE  part'[n] \in Good /\ dest'[n] \in Good
    <2>1. put[p].name \in Names
      BY <1>2 DEF Store, RemovePart, At, PutShape, ShapeOf
    <2>2. part'[n] = part[n] \/ part'[n] = None
      BY <1>2, <2>1, <1>t DEF Store, RemovePart
    <2>3. dest'[n] = dest[n] \/ dest'[n] = part[n]
      BY <1>2, <2>1, <1>t DEF Store, RemovePart
    <2> QED BY <2>2, <2>3, <1>o
  <1>3. ASSUME NEW p \in Passes, Accept(p)
        PROVE  part'[n] \in Good /\ dest'[n] \in Good
    <2>1. put[p].name \in Names /\ put[p].wrote = 0
      BY <1>3 DEF Accept, At, PutShape, ShapeOf
    <2>a. <<p, put[p].name>> \in Inodes
      BY <2>1 DEF Inodes
    <2>2. PICK k \in Inodes :
             /\ part' = [part EXCEPT ![put[p].name] = k]
             /\ put' = [put EXCEPT ![p].file = k]
      BY <1>3, <2>1, <2>a, <1>t DEF Accept
    <2>3. put'[p].file = k /\ put'[p].wrote = 0
      BY <2>1, <2>2, <1>t
    <2>4. k \in Good
      <3>1. \A h \in Halves : ~(h <= put'[p].wrote)
        BY <2>3 DEF Halves
      <3> QED BY <3>1, <2>3, <1>p
    <2>5. part'[n] = part[n] \/ part'[n] = k
      BY <2>1, <2>2, <1>t
    <2>6. dest' = dest
      BY <1>3 DEF Accept
    <2> QED BY <2>4, <2>5, <2>6, <1>o
  <1>5. CASE \E p \in Passes : Store(p) \/ RemovePart(p) \/ Accept(p)
    BY <1>2, <1>3, <1>5, <1>g
  <1> QED
    BY <1>1, <1>z, <1>5
       DEF UploadNext, ExitJob, CompleteCleanup,
           ResumeUpload, PassStep, PutStep,
           HandleManifest, FilterMissing, NoGrant, EndPass,
           StartPut, Refuse, WriteChunk,
           Verify, StoreFails, diskVars

(* The invariant that carries the artifacts' theorems. *)
LEMMA UploadInvariance == UploadSpec => []UploadInv
  <1>1. UploadInit => UploadInv
    BY UploadInitInv
  <1>2. UploadInv /\ [UploadNext]_uploadVars => UploadInv'
    <2> SUFFICES ASSUME UploadInv, [UploadNext]_uploadVars PROVE UploadInv'
      OBVIOUS
    <2>1. CASE UploadNext
      BY <2>1, UploadTypeStep, UploadShapeStep, UploadRowsStep, UploadFilesStep DEF UploadInv
    <2>2. CASE UNCHANGED uploadVars
      <3>1. UploadTypeOK'
        BY <2>2 DEF UploadInv, UploadTypeOK, uploadVars, agentVars, diskVars
      <3>2. PutShape' /\ RowsStored'
        BY <2>2 DEF UploadInv, PutShape, ShapeOf, RowsStored, uploadVars, agentVars,
               diskVars
      <3>3. FilesRepaired'
        BY <2>2 DEF UploadInv, FilesRepaired, Repaired, Intact, Whole, uploadVars,
               agentVars, diskVars
      <3> QED BY <3>1, <3>2, <3>3 DEF UploadInv
    <2> QED BY <2>1, <2>2
  <1> QED BY <1>1, <1>2, PTL DEF UploadSpec

(* The types of the uploads, for any number of passes and artifacts. *)
THEOREM UploadTypeCorrect == UploadSpec => []UploadTypeOK
  <1>1. UploadInv => UploadTypeOK
    BY DEF UploadInv
  <1> QED BY <1>1, UploadInvariance, PTL

(* Any number of passes may PUT any number of artifacts at once, through one
   part file each: as long as no connection breaks and the Controller stays up,
   every artifact with a row is whole, or a PUT that will make it whole is still
   writing it (handleDataPlaneRequest, the PUT route). *)
THEOREM ArtifactsStoredWhole == UploadSpec => []StoredIsWhole
  <1>1. UploadInv => StoredIsWhole
    <2> SUFFICES ASSUME UploadInv, breaks = 0, NEW n \in rows
                 PROVE  Whole(dest[n]) \/ BeingWritten(dest[n])
      BY DEF StoredIsWhole
    <2>1. n \in Names /\ dest[n] # None
      BY DEF UploadInv, UploadTypeOK, RowsStored
    <2> QED BY <2>1 DEF UploadInv, FilesRepaired, Repaired, BeingWritten
  <1> QED BY <1>1, UploadInvariance, PTL
==============================================================================
