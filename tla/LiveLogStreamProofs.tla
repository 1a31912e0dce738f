------------------------- MODULE LiveLogStreamProofs -------------------------
(***************************************************************************)
(* A viewer sees the log without gap or repetition and is told "done" only *)
(* after all of it, for any number of chunks, any buffer and any number of *)
(* requests.                                                               *)
(***************************************************************************)
EXTENDS LiveLogStream, TLAPS

Finishing == {"round", "flushing", "draining"}
Following == {"live", "waiting", "round", "draining"}
Serving == Following \cup {"subscribed", "replaying", "flushing"}

(* What is sent is what the client has. *)
SentIsReceived == lastSent = Len(received)

WriterOrder ==
    /\ published <= indexed
    /\ terminal => stored <= indexed
    /\ ~terminal => stored = 0

(* Events follow one another. *)
Consecutive(s) == \A i \in 1..Len(s) : s[i] = s[1] + i - 1

(* An open subscription has every event published since it was made: its buffer
   ends with the latest.  Before the first one its cursor may be ahead, with
   chunks the client had from the index. *)
BufferFollows ==
    pc \in Serving /\ sub = "open" =>
        /\ \A i \in 1..Len(buffer) : buffer[i] = published - Len(buffer) + i
        /\ buffer # <<>> => afterSequence = published
        /\ afterSequence > published => afterSequence <= lastSent

(* The first event that is not in the buffer of an open subscription has been
   sent, is about to be replayed, or is among those a drain has taken. *)
NothingMissed ==
    sub = "open" =>
        /\ pc \in Following => published - Len(buffer) <= lastSent
        /\ pc = "replaying" => published - Len(buffer) <= lastSent
                               \/ published - Len(buffer) <= upto
        /\ pc = "flushing" =>
              \/ published - Len(buffer) <= lastSent
              \/ drained # <<>> /\ published - Len(buffer) <= drained[Len(drained)]

(* What a drain has taken continues what was sent. *)
DrainedFollows ==
    pc = "flushing" /\ drained # <<>> => Consecutive(drained) /\ drained[1] <= lastSent + 1

(* The final drain belongs to a terminal job and ends behind its log. *)
FinishOfTerminal ==
    /\ sawTerminal => terminal
    /\ pc \in Finishing => terminal /\ quiet \in 0..1
    /\ pc = "draining" => stored <= upto
    /\ pc = "done" => terminal /\ stored <= lastSent

(* Only a request that is being served has an open subscription, until its
   response ends. *)
SubscriptionOwned == pc \in {"idle", "opening", "overflow", "gone"} => sub # "open"

(* The inductive invariant. *)
StreamInv ==
    /\ TypeOK
    /\ ViewerSeesPrefix
    /\ SentIsReceived
    /\ WriterOrder
    /\ BufferFollows
    /\ NothingMissed
    /\ DrainedFollows
    /\ FinishOfTerminal
    /\ SubscriptionOwned

-----------------------------------------------------------------------------
(* The parts, for the steps that leave the sequences alone. *)

(* The writer's steps and the request's that only move on from one place to the
   next leave what the client has and what is buffered as it is. *)
Moves ==
    \/ Store \/ Terminate \/ Request \/ CatchUp \/ ReplayEnds \/ ReadJob \/ Overflow
    \/ WaitTimesOut \/ DrainIndex \/ RoundEnds \/ ClientLeaves \/ ResponseEnds

(* Initially nothing was written and nobody asked. *)
LEMMA StreamInit == Init => StreamInv
<1> SUFFICES ASSUME Init PROVE StreamInv
    OBVIOUS
<1>1. TypeOK
  <2>1. <<>> \in Seq(1..NChunks) /\ Len(<<>>) = 0
      OBVIOUS
  <2>2. 0 \in 0..NChunks /\ 0 \in 0..MaxRequests /\ 0 <= MaxBuffered
      BY StreamConstants
  <2>3. terminal \in BOOLEAN /\ sawTerminal \in BOOLEAN /\ progressed \in BOOLEAN
      BY DEF Init
  <2>4. /\ indexed = 0 /\ published = 0 /\ stored = 0 /\ sub = "none" /\ afterSequence = 0
        /\ buffer = <<>> /\ pc = "idle" /\ lastSent = 0 /\ upto = 0 /\ quiet = 0
        /\ drained = <<>> /\ received = <<>> /\ requests = 0
      BY DEF Init
  <2> QED
      BY <2>1, <2>2, <2>3, <2>4 DEF TypeOK, Ended
<1>2. ViewerSeesPrefix /\ SentIsReceived /\ WriterOrder
    BY DEF Init, ViewerSeesPrefix, SentIsReceived, WriterOrder
<1>3. BufferFollows /\ NothingMissed /\ DrainedFollows /\ FinishOfTerminal /\ SubscriptionOwned
    BY DEF Init, BufferFollows, NothingMissed, DrainedFollows, FinishOfTerminal,
           SubscriptionOwned, Finishing
<1> QED
    BY <1>1, <1>2, <1>3 DEF StreamInv

(* A step that only moves on keeps the types. *)
LEMMA MovesType ==
    ASSUME StreamInv, Moves PROVE TypeOK'
<1> USE DEF StreamInv, TypeOK, Ended
<1>1. CASE Store
    BY <1>1, StreamConstants DEF Store, hub, request, client
<1>2. CASE Terminate
    BY <1>2 DEF Terminate, hub, request, client
<1>3. CASE Request
    BY <1>3, StreamConstants DEF Request, writer, hub, SentIsReceived
<1>4. CASE CatchUp \/ DrainIndex
    BY <1>4 DEF CatchUp, DrainIndex, ReadIndex, writer, hub, client
<1>5. CASE ReplayEnds \/ Overflow
    BY <1>5 DEF ReplayEnds, Overflow, writer, hub, client
<1>9. CASE ReadJob
    BY <1>9 DEF ReadJob, writer, hub, client
<1>6. CASE WaitTimesOut
  <2>1. pc' \in {"round", "live"} /\ quiet' \in {0, quiet}
      BY <1>6 DEF WaitTimesOut
  <2>3. progressed' \in BOOLEAN
      BY <1>6 DEF WaitTimesOut
  <2>2. UNCHANGED <<writer, hub, lastSent, upto, sawTerminal, drained, client>>
      BY <1>6 DEF WaitTimesOut
  <2> QED
      BY <2>1, <2>2, <2>3 DEF writer, hub, client
<1>7. CASE RoundEnds
  <2>1. quiet' \in {0, quiet + 1} /\ pc' \in {"done", "round"}
      BY <1>7 DEF RoundEnds
  <2>2. quiet \in 0..1
      BY <1>7 DEF RoundEnds, FinishOfTerminal, Finishing
  <2>3. progressed' \in BOOLEAN
      BY <1>7 DEF RoundEnds
  <2>4. UNCHANGED <<writer, hub, lastSent, upto, sawTerminal, drained, client>>
      BY <1>7 DEF RoundEnds
  <2> QED
      BY <2>1, <2>2, <2>3, <2>4 DEF writer, hub, client
<1>8. CASE ClientLeaves \/ ResponseEnds
    BY <1>8 DEF ClientLeaves, ResponseEnds, writer, request, client
<1> QED
    BY <1>1, <1>2, <1>3, <1>4, <1>5, <1>6, <1>7, <1>8, <1>9 DEF Moves

(* A step that only moves on keeps what the client has, and its events in order. *)
LEMMA MovesView ==
    ASSUME StreamInv, Moves
    PROVE  ViewerSeesPrefix' /\ SentIsReceived' /\ DrainedFollows'
<1>1. UNCHANGED <<received, drained>>
    BY DEF Moves, Store, Terminate, Request, CatchUp, DrainIndex, ReadIndex, ReplayEnds,
           ReadJob, Overflow, WaitTimesOut, RoundEnds, ClientLeaves, ResponseEnds,
           client, request
<1>2. lastSent' = Len(received)
    BY DEF Moves, Store, Terminate, Request, CatchUp, DrainIndex, ReadIndex, ReplayEnds,
           ReadJob, Overflow, WaitTimesOut, RoundEnds, ClientLeaves, ResponseEnds,
           request, StreamInv, SentIsReceived
<1>3. lastSent = Len(received)
    BY DEF StreamInv, SentIsReceived
<1>4. pc' = "flushing" => pc = "flushing"
    BY DEF Moves, Store, Terminate, Request, CatchUp, DrainIndex, ReadIndex, ReplayEnds,
           ReadJob, Overflow, WaitTimesOut, RoundEnds, ClientLeaves, ResponseEnds, request
<1>5. ViewerSeesPrefix'
    BY <1>1 DEF StreamInv, ViewerSeesPrefix
<1>6. DrainedFollows'
    BY <1>1, <1>2, <1>3, <1>4 DEF StreamInv, DrainedFollows, Consecutive
<1> QED
    BY <1>1, <1>2, <1>5, <1>6 DEF SentIsReceived

(* A step that only moves on keeps the order of the writer's counts and what is
   known of a terminal job. *)
LEMMA MovesFinish ==
    ASSUME StreamInv, Moves
    PROVE  WriterOrder' /\ FinishOfTerminal' /\ SubscriptionOwned'
<1> USE DEF StreamInv, TypeOK, WriterOrder, FinishOfTerminal, SubscriptionOwned, Finishing, Ended
<1>1. CASE Store
    BY <1>1 DEF Store, hub, request
<1>2. CASE Terminate
    BY <1>2 DEF Terminate, hub, request
<1>3. CASE Request
    BY <1>3 DEF Request, writer, hub, SentIsReceived
<1>4. CASE CatchUp \/ DrainIndex
    BY <1>4 DEF CatchUp, DrainIndex, ReadIndex, writer, hub
<1>5. CASE ReplayEnds \/ Overflow
    BY <1>5 DEF ReplayEnds, Overflow, writer, hub
<1>9. CASE ReadJob
    BY <1>9 DEF ReadJob, writer, hub
<1>6. CASE WaitTimesOut
    BY <1>6 DEF WaitTimesOut, writer, hub
<1>7. CASE RoundEnds
    BY <1>7 DEF RoundEnds, writer, hub
<1>8. CASE ClientLeaves \/ ResponseEnds
    BY <1>8 DEF ClientLeaves, ResponseEnds, writer, request
<1> QED
    BY <1>1, <1>2, <1>3, <1>4, <1>5, <1>6, <1>7, <1>8, <1>9 DEF Moves

(* A step that only moves on leaves the buffer as it is. *)
LEMMA MovesBuffer ==
    ASSUME StreamInv, Moves
    PROVE  BufferFollows' /\ NothingMissed'
<1> USE DEF StreamInv, TypeOK, WriterOrder, BufferFollows, NothingMissed,
            SubscriptionOwned, Following, Serving, Ended
<1>1. CASE Store \/ Terminate
    BY <1>1 DEF Store, Terminate, hub, request
<1>3. CASE Request
    BY <1>3 DEF Request, writer, hub
<1>2. CASE CatchUp
    BY <1>2 DEF CatchUp, ReadIndex, writer, hub
<1>4. CASE DrainIndex
  <2>1. /\ pc = "flushing" /\ drained = <<>> /\ pc' = "draining"
        /\ UNCHANGED <<published, sub, afterSequence, buffer, lastSent>>
      BY <1>4 DEF DrainIndex, ReadIndex, writer, hub
  <2>2. sub = "open" => published - Len(buffer) <= lastSent
      BY <2>1
  <2> QED
      BY <2>1, <2>2
<1>5. CASE ReplayEnds \/ Overflow
    BY <1>5 DEF ReplayEnds, Overflow, writer, hub
<1>9. CASE ReadJob
    BY <1>9 DEF ReadJob, writer, hub
<1>6. CASE WaitTimesOut
    BY <1>6 DEF WaitTimesOut, writer, hub
<1>7. CASE RoundEnds
    BY <1>7 DEF RoundEnds, writer, hub
<1>8. CASE ClientLeaves \/ ResponseEnds
    BY <1>8 DEF ClientLeaves, ResponseEnds, writer, request
<1> QED
    BY <1>1, <1>2, <1>3, <1>4, <1>5, <1>6, <1>7, <1>8, <1>9 DEF Moves

-----------------------------------------------------------------------------
(* A published chunk follows the buffered ones, unless the client has it from the
   index already; a full buffer costs the viewer its subscription. *)
LEMMA PublishStep ==
    ASSUME StreamInv, Publish PROVE StreamInv'
<1> DEFINE k == published + 1
<1>1. /\ published' = k /\ published < indexed
      /\ UNCHANGED <<indexed, terminal, stored, request, client>>
    BY DEF Publish
<1>2. /\ UNCHANGED <<indexed, terminal, stored>> /\ UNCHANGED <<received, requests>>
      /\ UNCHANGED <<pc, lastSent, upto, sawTerminal, quiet, progressed, drained>>
    BY <1>1 DEF request, client
<1>3. /\ published \in Int /\ k \in 1..NChunks /\ afterSequence \in Int /\ lastSent \in Int
      /\ buffer \in Seq(1..NChunks) /\ Len(buffer) \in Nat
    BY <1>1, StreamConstants DEF StreamInv, TypeOK
<1>4. ViewerSeesPrefix' /\ SentIsReceived' /\ WriterOrder' /\ DrainedFollows' /\ FinishOfTerminal'
  <2>1. WriterOrder'
      BY <1>1, <1>2, <1>3 DEF StreamInv, WriterOrder, TypeOK
  <2> QED
      BY <1>2, <2>1 DEF StreamInv, ViewerSeesPrefix, SentIsReceived, DrainedFollows,
                        Consecutive, FinishOfTerminal
<1>5. ASSUME UNCHANGED hub, sub # "open"
      PROVE  StreamInv'
  <2>1. TypeOK' /\ BufferFollows' /\ NothingMissed' /\ SubscriptionOwned'
      BY <1>1, <1>2, <1>3, <1>5 DEF StreamInv, TypeOK, BufferFollows, NothingMissed,
         SubscriptionOwned, hub
  <2> QED
      BY <1>4, <2>1 DEF StreamInv
<1>6. CASE sub = "open" /\ k <= afterSequence /\ UNCHANGED hub
  <2>1. TypeOK' /\ SubscriptionOwned'
      BY <1>1, <1>2, <1>3, <1>6 DEF StreamInv, TypeOK, SubscriptionOwned, hub
  <2>2. pc \in Serving => buffer = <<>> /\ afterSequence <= lastSent
      BY <1>3, <1>6 DEF StreamInv, BufferFollows
  <2>3. Following \subseteq Serving /\ "replaying" \in Serving /\ "flushing" \in Serving
      BY DEF Serving
  <2>4. BufferFollows'
    <3> SUFFICES ASSUME pc \in Serving PROVE BufferFollows'
        BY <1>2 DEF BufferFollows
    <3> QED
        BY <1>2, <1>6, <2>2 DEF BufferFollows, hub
  <2>5. NothingMissed'
    <3> SUFFICES ASSUME pc \in Serving PROVE NothingMissed'
        BY <1>2, <2>3 DEF NothingMissed
    <3>1. buffer' = <<>> /\ Len(buffer') = 0
        BY <1>6, <2>2 DEF hub
    <3>2. published' - Len(buffer') <= lastSent'
        BY <1>1, <1>2, <1>3, <1>6, <2>2, <3>1
    <3> QED
        BY <3>2 DEF NothingMissed
  <2> QED
      BY <1>4, <2>1, <2>4, <2>5 DEF StreamInv
<1>7. CASE sub = "open" /\ k > afterSequence /\ afterSequence' = k /\ sub' = "dropped"
           /\ UNCHANGED buffer
  <2>1. TypeOK'
      BY <1>1, <1>2, <1>3, <1>7 DEF StreamInv, TypeOK
  <2>2. BufferFollows' /\ NothingMissed' /\ SubscriptionOwned'
      BY <1>7 DEF BufferFollows, NothingMissed, SubscriptionOwned
  <2> QED
      BY <1>4, <2>1, <2>2 DEF StreamInv
<1>8. CASE sub = "open" /\ k > afterSequence /\ afterSequence' = k
           /\ Len(buffer) < MaxBuffered
           /\ buffer' = Append(buffer, k) /\ UNCHANGED sub
  <2>0. /\ buffer' \in Seq(1..NChunks) /\ Len(buffer') = Len(buffer) + 1
        /\ \A i \in 1..Len(buffer) : buffer'[i] = buffer[i]
        /\ buffer'[Len(buffer) + 1] = k
      BY <1>3, <1>8
  <2>1. TypeOK'
    <3>1. Len(buffer') <= MaxBuffered
        BY <1>3, <1>8, <2>0, StreamConstants
    <3> QED
        BY <1>1, <1>2, <1>3, <1>8, <2>0, <3>1 DEF StreamInv, TypeOK
  <2>2. BufferFollows'
    <3> SUFFICES ASSUME pc \in Serving PROVE BufferFollows'
        BY <1>2 DEF BufferFollows
    <3>1. \A i \in 1..Len(buffer) : buffer[i] = published - Len(buffer) + i
        BY <1>8 DEF StreamInv, BufferFollows
    <3>2. ASSUME NEW i \in 1..Len(buffer')
          PROVE  buffer'[i] = published' - Len(buffer') + i
        BY <1>1, <1>3, <2>0, <3>1
    <3> QED
        BY <1>1, <1>3, <1>8, <3>2 DEF BufferFollows
  <2>3. published' - Len(buffer') = published - Len(buffer)
      BY <1>1, <1>3, <2>0
  <2>4. NothingMissed' /\ SubscriptionOwned'
      BY <1>2, <1>8, <2>3 DEF StreamInv, NothingMissed, SubscriptionOwned
  <2> QED
      BY <1>4, <2>1, <2>2, <2>4 DEF StreamInv
<1>9. CASE sub # "open"
    BY <1>5, <1>9 DEF Publish
<1>10. CASE sub = "open"
  <2>1. Deliver(k)
      BY <1>10 DEF Publish
  <2>2. Len(buffer) >= MaxBuffered \/ Len(buffer) < MaxBuffered
      BY <1>3, StreamConstants
  <2> HIDE DEF k
  <2> QED
      BY <1>6, <1>7, <1>8, <1>10, <2>1, <2>2 DEF Deliver
<1> QED
    BY <1>9, <1>10

(* A new subscription has missed nothing: the replay comes after it. *)
LEMMA SubscribeStep ==
    ASSUME StreamInv, Subscribe PROVE StreamInv'
<1>1. /\ sub' = "open" /\ afterSequence' = lastSent /\ buffer' = <<>> /\ pc' = "subscribed"
      /\ UNCHANGED <<writer, lastSent, upto, sawTerminal, quiet, progressed, drained, client>>
    BY DEF Subscribe
<1>2. /\ UNCHANGED <<indexed, published, terminal, stored>> /\ UNCHANGED <<received, requests>>
    BY <1>1 DEF writer, client
<1>3. Len(buffer') = 0 /\ buffer' \in Seq(1..NChunks)
    BY <1>1
<1>4. TypeOK'
    BY <1>1, <1>2, <1>3, StreamConstants DEF StreamInv, TypeOK
<1>5. ViewerSeesPrefix' /\ SentIsReceived' /\ WriterOrder' /\ FinishOfTerminal'
    BY <1>1, <1>2 DEF StreamInv, ViewerSeesPrefix, SentIsReceived, WriterOrder,
                      FinishOfTerminal, Finishing
<1>6. BufferFollows'
    BY <1>1, <1>3, <1>4 DEF BufferFollows, TypeOK
<1>7. NothingMissed' /\ DrainedFollows' /\ SubscriptionOwned'
    BY <1>1 DEF NothingMissed, DrainedFollows, SubscriptionOwned, Following
<1> QED
    BY <1>4, <1>5, <1>6, <1>7 DEF StreamInv

-----------------------------------------------------------------------------
(* Sending the chunk after the last one sent keeps the client's prefix. *)
LEMMA AppendsNext ==
    ASSUME StreamInv, lastSent + 1 \in 1..NChunks,
           lastSent' = lastSent + 1, received' = Append(received, lastSent + 1)
    PROVE  received' \in Seq(1..NChunks) /\ ViewerSeesPrefix' /\ SentIsReceived'
<1>1. received \in Seq(1..NChunks) /\ Len(received) \in Nat /\ lastSent = Len(received)
    BY DEF StreamInv, TypeOK, SentIsReceived
<1>2. /\ received' \in Seq(1..NChunks) /\ Len(received') = Len(received) + 1
      /\ \A i \in 1..Len(received) : received'[i] = received[i]
      /\ received'[Len(received) + 1] = lastSent + 1
    BY <1>1
<1>3. ASSUME NEW i \in 1..Len(received') PROVE received'[i] = i
    BY <1>1, <1>2 DEF StreamInv, ViewerSeesPrefix
<1> QED
    BY <1>1, <1>2, <1>3 DEF ViewerSeesPrefix, SentIsReceived

(* An event that is at most one ahead is the next one or was sent already. *)
LEMMA SendItemNext ==
    ASSUME StreamInv, NEW k \in 1..NChunks, k <= lastSent + 1, SendItem(k)
    PROVE  /\ lastSent' \in 0..NChunks /\ lastSent <= lastSent' /\ k <= lastSent'
           /\ received' \in Seq(1..NChunks) /\ progressed' \in BOOLEAN
           /\ ViewerSeesPrefix' /\ SentIsReceived'
<1>1. lastSent \in 0..NChunks /\ k \in Int
    BY DEF StreamInv, TypeOK
<1>2. CASE k > lastSent
  <2>1. k = lastSent + 1
      BY <1>1, <1>2
  <2>2. lastSent' = lastSent + 1 /\ received' = Append(received, lastSent + 1) /\ progressed' = TRUE
      BY <1>2, <2>1 DEF SendItem
  <2>3. received' \in Seq(1..NChunks) /\ ViewerSeesPrefix' /\ SentIsReceived'
      BY <2>1, <2>2, AppendsNext
  <2>4. lastSent' \in 0..NChunks /\ lastSent <= lastSent' /\ k <= lastSent'
      BY <1>1, <2>1, <2>2, StreamConstants
  <2> QED
      BY <2>2, <2>3, <2>4
<1>3. CASE ~(k > lastSent)
  <2>1. UNCHANGED <<lastSent, received, progressed>>
      BY <1>3 DEF SendItem
  <2>2. lastSent <= lastSent' /\ k <= lastSent'
      BY <1>1, <1>3, <2>1
  <2> QED
      BY <2>1, <2>2 DEF StreamInv, TypeOK, ViewerSeesPrefix, SentIsReceived
<1> QED
    BY <1>2, <1>3

(* A chunk read from the index is the next one. *)
LEMMA SendStoredStep ==
    ASSUME StreamInv, SendStored PROVE StreamInv'
<1>1. /\ pc \in {"replaying", "draining"} /\ lastSent < upto
      /\ received' = Append(received, lastSent + 1) /\ lastSent' = lastSent + 1
      /\ UNCHANGED <<writer, hub, pc, upto, sawTerminal, quiet, drained, requests>>
    BY DEF SendStored
<1>2. progressed' \in BOOLEAN
    BY DEF SendStored
<1>3. /\ UNCHANGED <<indexed, published, terminal, stored>>
      /\ UNCHANGED <<sub, afterSequence, buffer>>
      /\ UNCHANGED <<pc, upto, sawTerminal, quiet, drained, requests>>
    BY <1>1 DEF writer, hub
<1>4. /\ lastSent \in 0..NChunks /\ lastSent + 1 \in 1..NChunks /\ lastSent + 1 \in 0..NChunks
      /\ published \in Int /\ afterSequence \in Int /\ Len(buffer) \in Nat /\ upto \in Int
    BY <1>1, StreamConstants DEF StreamInv, TypeOK
<1>5. received' \in Seq(1..NChunks) /\ ViewerSeesPrefix' /\ SentIsReceived'
    BY <1>1, <1>4, AppendsNext
<1>6. TypeOK'
    BY <1>1, <1>2, <1>3, <1>4, <1>5 DEF StreamInv, TypeOK
<1>7. WriterOrder' /\ SubscriptionOwned' /\ DrainedFollows'
    BY <1>1, <1>3 DEF StreamInv, WriterOrder, SubscriptionOwned, DrainedFollows
<1>8. FinishOfTerminal'
    BY <1>1, <1>3 DEF StreamInv, FinishOfTerminal
<1>9. BufferFollows'
    BY <1>1, <1>3, <1>4 DEF StreamInv, BufferFollows
<1>10. NothingMissed'
    BY <1>1, <1>3, <1>4 DEF StreamInv, NothingMissed
<1> QED
    BY <1>5, <1>6, <1>7, <1>8, <1>9, <1>10 DEF StreamInv

(* What Head and Tail are, in elements. *)
LEMMA HeadAndTail ==
    ASSUME NEW T, NEW s \in Seq(T), s # <<>>
    PROVE  /\ Len(s) \in Nat \ {0} /\ Head(s) = s[1] /\ Head(s) \in T
           /\ Tail(s) \in Seq(T) /\ Len(Tail(s)) = Len(s) - 1
           /\ \A i \in 1..(Len(s) - 1) : Tail(s)[i] = s[i + 1]
<1>1. Len(s) \in Nat \ {0} /\ Head(s) = s[1]
    OBVIOUS
<1>2. Head(s) \in T /\ Tail(s) \in Seq(T) /\ Len(Tail(s)) = Len(s) - 1
    BY <1>1
<1>3. \A i \in 1..(Len(s) - 1) : Tail(s)[i] = s[i + 1]
    BY <1>1, <1>2
<1> QED
    BY <1>1, <1>2, <1>3

(* The first event of the buffer is at most one ahead of what was sent. *)
LEMMA NextItemStep ==
    ASSUME StreamInv, NextItem PROVE StreamInv'
<1> DEFINE k == Head(buffer)
<1>1. /\ pc = "waiting" /\ sub = "open" /\ buffer # <<>> /\ SendItem(k)
      /\ buffer' = Tail(buffer) /\ pc' = "live"
      /\ UNCHANGED <<writer, sub, afterSequence, upto, sawTerminal, quiet, drained, requests>>
    BY DEF NextItem
<1>2. /\ UNCHANGED <<indexed, published, terminal, stored>>
      /\ UNCHANGED <<sub, afterSequence>>
      /\ UNCHANGED <<upto, sawTerminal, quiet, drained, requests>>
    BY <1>1 DEF writer
<1>3. buffer \in Seq(1..NChunks) /\ published \in Int /\ lastSent \in Int
    BY DEF StreamInv, TypeOK
<1>4. /\ Len(buffer) \in Nat \ {0} /\ k = buffer[1] /\ k \in 1..NChunks
      /\ Tail(buffer) \in Seq(1..NChunks) /\ Len(Tail(buffer)) = Len(buffer) - 1
      /\ \A i \in 1..(Len(buffer) - 1) : Tail(buffer)[i] = buffer[i + 1]
    BY <1>1, <1>3, HeadAndTail
<1>5. /\ \A i \in 1..Len(buffer) : buffer[i] = published - Len(buffer) + i
      /\ afterSequence = published /\ published - Len(buffer) <= lastSent
    BY <1>1 DEF StreamInv, BufferFollows, NothingMissed, Serving, Following
<1>6. k = published - Len(buffer) + 1 /\ k <= lastSent + 1
  <2>1. 1 \in 1..Len(buffer)
      BY <1>4
  <2> QED
      BY <1>3, <1>4, <1>5, <2>1
<1>7. /\ lastSent' \in 0..NChunks /\ lastSent <= lastSent' /\ k <= lastSent'
      /\ received' \in Seq(1..NChunks) /\ progressed' \in BOOLEAN
      /\ ViewerSeesPrefix' /\ SentIsReceived'
    BY <1>1, <1>4, <1>6, SendItemNext
<1> HIDE DEF k
<1>8. TypeOK'
  <2>1. Len(buffer') <= MaxBuffered
      BY <1>1, <1>4, StreamConstants DEF StreamInv, TypeOK
  <2> QED
      BY <1>1, <1>2, <1>4, <1>7, <2>1 DEF StreamInv, TypeOK
<1>9. WriterOrder' /\ SubscriptionOwned' /\ DrainedFollows' /\ FinishOfTerminal'
    BY <1>1, <1>2 DEF StreamInv, WriterOrder, SubscriptionOwned, DrainedFollows,
                      FinishOfTerminal, Finishing
<1>10. BufferFollows'
  <2>1. ASSUME NEW i \in 1..Len(buffer') PROVE buffer'[i] = published' - Len(buffer') + i
    <3>1. i \in 1..(Len(buffer) - 1) /\ i + 1 \in 1..Len(buffer) /\ i \in Int
        BY <1>1, <1>4
    <3>2. buffer'[i] = published - Len(buffer) + (i + 1)
        BY <1>1, <1>4, <1>5, <3>1
    <3> QED
        BY <1>1, <1>2, <1>3, <1>4, <3>1, <3>2
  <2> QED
      BY <1>2, <1>3, <1>5, <2>1 DEF BufferFollows
<1>11. NothingMissed'
  <2>1. published' - Len(buffer') <= lastSent'
      BY <1>1, <1>2, <1>3, <1>4, <1>6, <1>7
  <2> QED
      BY <2>1 DEF NothingMissed
<1> QED
    BY <1>7, <1>8, <1>9, <1>10, <1>11 DEF StreamInv

(* A drain takes all that is buffered, and what it takes continues what was sent. *)
LEMMA DrainQueuedStep ==
    ASSUME StreamInv, DrainQueued PROVE StreamInv'
<1>1. /\ pc = "round" /\ pc' = "flushing"
      /\ drained' = IF sub = "open" THEN buffer ELSE <<>>
      /\ buffer' = IF sub = "open" THEN <<>> ELSE buffer
      /\ UNCHANGED <<writer, sub, afterSequence, lastSent, upto, sawTerminal, quiet,
                     progressed, client>>
    BY DEF DrainQueued
<1>2. /\ UNCHANGED <<indexed, published, terminal, stored>>
      /\ UNCHANGED <<sub, afterSequence>>
      /\ UNCHANGED <<lastSent, upto, sawTerminal, quiet, progressed>>
      /\ UNCHANGED <<received, requests>>
    BY <1>1 DEF writer, client
<1>3. /\ buffer \in Seq(1..NChunks) /\ Len(buffer) \in Nat /\ <<>> \in Seq(1..NChunks)
      /\ Len(<<>>) = 0 /\ published \in Int /\ lastSent \in Int /\ afterSequence \in Int
    BY DEF StreamInv, TypeOK
<1>4. TypeOK'
  <2>1. drained' \in Seq(1..NChunks) /\ buffer' \in Seq(1..NChunks)
      BY <1>1, <1>3
  <2>2. Len(buffer') <= MaxBuffered
      BY <1>1, <1>3, StreamConstants DEF StreamInv, TypeOK
  <2> QED
      BY <1>1, <1>2, <2>1, <2>2 DEF StreamInv, TypeOK
<1>5. ViewerSeesPrefix' /\ SentIsReceived' /\ WriterOrder' /\ SubscriptionOwned'
    BY <1>1, <1>2 DEF StreamInv, ViewerSeesPrefix, SentIsReceived, WriterOrder, SubscriptionOwned
<1>6. FinishOfTerminal'
    BY <1>1, <1>2 DEF StreamInv, FinishOfTerminal, Finishing
<1>7. CASE sub # "open"
  <2>1. BufferFollows' /\ NothingMissed' /\ DrainedFollows'
      BY <1>1, <1>2, <1>7 DEF BufferFollows, NothingMissed, DrainedFollows
  <2> QED
      BY <1>4, <1>5, <1>6, <2>1 DEF StreamInv
<1>8. CASE sub = "open"
  <2>1. /\ \A i \in 1..Len(buffer) : buffer[i] = published - Len(buffer) + i
        /\ afterSequence > published => afterSequence <= lastSent
        /\ published - Len(buffer) <= lastSent
      BY <1>1, <1>8 DEF StreamInv, BufferFollows, NothingMissed, Serving, Following
  <2>2. drained' = buffer /\ buffer' = <<>> /\ Len(buffer') = 0
      BY <1>1, <1>3, <1>8
  <2>3. BufferFollows'
      BY <1>2, <2>1, <2>2 DEF BufferFollows
  <2>4. CASE buffer = <<>>
    <3>1. published' - Len(buffer') <= lastSent'
        BY <1>2, <1>3, <2>1, <2>2, <2>4
    <3>2. NothingMissed' /\ DrainedFollows'
        BY <2>2, <2>4, <3>1 DEF NothingMissed, DrainedFollows
    <3> QED
        BY <1>4, <1>5, <1>6, <2>3, <3>2 DEF StreamInv
  <2>5. CASE buffer # <<>>
    <3>1. Len(buffer) \in Nat \ {0} /\ 1 \in 1..Len(buffer) /\ Len(buffer) \in 1..Len(buffer)
        BY <1>3, <2>5, HeadAndTail
    <3>2. buffer[Len(buffer)] = published /\ buffer[1] = published - Len(buffer) + 1
        BY <1>3, <2>1, <3>1
    <3>3. Consecutive(buffer)
      <4> SUFFICES ASSUME NEW i \in 1..Len(buffer) PROVE buffer[i] = buffer[1] + i - 1
          BY DEF Consecutive
      <4> QED
          BY <1>3, <2>1, <3>1, <3>2
    <3>4. DrainedFollows'
        BY <1>2, <1>3, <2>1, <2>2, <3>1, <3>2, <3>3 DEF DrainedFollows, Consecutive
    <3>5. published' - Len(buffer') <= drained'[Len(drained')]
        BY <1>2, <1>3, <2>2, <3>2
    <3>6. NothingMissed'
        BY <1>1, <2>2, <2>5, <3>5 DEF NothingMissed, Following
    <3> QED
        BY <1>4, <1>5, <1>6, <2>3, <3>4, <3>6 DEF StreamInv
  <2> QED
      BY <2>4, <2>5
<1> QED
    BY <1>7, <1>8

(* The first of what a drain took is at most one ahead of what was sent. *)
LEMMA SendDrainedStep ==
    ASSUME StreamInv, SendDrained PROVE StreamInv'
<1> DEFINE k == Head(drained)
<1>1. /\ pc = "flushing" /\ drained # <<>> /\ SendItem(k) /\ drained' = Tail(drained)
      /\ UNCHANGED <<writer, hub, pc, upto, sawTerminal, quiet, requests>>
    BY DEF SendDrained
<1>2. /\ UNCHANGED <<indexed, published, terminal, stored>>
      /\ UNCHANGED <<sub, afterSequence, buffer>>
      /\ UNCHANGED <<pc, upto, sawTerminal, quiet, requests>>
    BY <1>1 DEF writer, hub
<1>3. /\ drained \in Seq(1..NChunks) /\ published \in Int /\ lastSent \in Int
      /\ afterSequence \in Int /\ Len(buffer) \in Nat
    BY DEF StreamInv, TypeOK
<1>4. /\ Len(drained) \in Nat \ {0} /\ k = drained[1] /\ k \in 1..NChunks
      /\ Tail(drained) \in Seq(1..NChunks) /\ Len(Tail(drained)) = Len(drained) - 1
      /\ \A i \in 1..(Len(drained) - 1) : Tail(drained)[i] = drained[i + 1]
    BY <1>1, <1>3, HeadAndTail
<1>5. /\ \A i \in 1..Len(drained) : drained[i] = drained[1] + i - 1
      /\ k <= lastSent + 1
    BY <1>1, <1>4 DEF StreamInv, DrainedFollows, Consecutive
<1>6. /\ lastSent' \in 0..NChunks /\ lastSent <= lastSent' /\ k <= lastSent'
      /\ received' \in Seq(1..NChunks) /\ progressed' \in BOOLEAN
      /\ ViewerSeesPrefix' /\ SentIsReceived'
    BY <1>1, <1>4, <1>5, SendItemNext
<1> HIDE DEF k
<1>7. TypeOK'
    BY <1>1, <1>2, <1>4, <1>6 DEF StreamInv, TypeOK
<1>8. WriterOrder' /\ SubscriptionOwned' /\ FinishOfTerminal'
    BY <1>1, <1>2 DEF StreamInv, WriterOrder, SubscriptionOwned, FinishOfTerminal
<1>9. BufferFollows'
    BY <1>2, <1>3, <1>6 DEF StreamInv, BufferFollows
<1>10. CASE Len(drained) = 1
  <2>1. drained' = <<>>
      BY <1>1, <1>4, <1>10
  <2>2. sub = "open" => published - Len(buffer) <= lastSent'
    <3>1. sub = "open" => published - Len(buffer) <= lastSent \/ published - Len(buffer) <= k
        BY <1>1, <1>4, <1>10 DEF StreamInv, NothingMissed
    <3> QED
        BY <1>3, <1>4, <1>6, <3>1
  <2>3. NothingMissed' /\ DrainedFollows'
      BY <1>1, <1>2, <2>1, <2>2 DEF NothingMissed, DrainedFollows, Following
  <2> QED
      BY <1>6, <1>7, <1>8, <1>9, <2>3 DEF StreamInv
<1>11. CASE Len(drained) # 1
  <2>1. /\ 1 \in 1..(Len(drained) - 1) /\ 2 \in 1..Len(drained)
        /\ Len(drained') = Len(drained) - 1 /\ Len(drained') \in 1..(Len(drained) - 1)
      BY <1>1, <1>4, <1>11
  <2>2. drained'[1] = k + 1 /\ drained'[Len(drained')] = drained[Len(drained)]
    <3>1. drained'[1] = drained[1 + 1]
        BY <1>1, <1>4, <2>1
    <3>2. drained[2] = drained[1] + 2 - 1
        BY <1>5, <2>1
    <3>3. drained'[Len(drained')] = drained[Len(drained') + 1]
        BY <1>1, <1>4, <2>1
    <3> QED
        BY <1>4, <2>1, <3>1, <3>2, <3>3
  <2>3. Consecutive(drained)'
    <3> SUFFICES ASSUME NEW i \in 1..Len(drained') PROVE drained'[i] = drained'[1] + i - 1
        BY DEF Consecutive
    <3>1. i \in 1..(Len(drained) - 1) /\ i + 1 \in 1..Len(drained) /\ i \in Int
        BY <1>4, <2>1
    <3>2. drained'[i] = drained[1] + (i + 1) - 1
        BY <1>1, <1>4, <1>5, <3>1
    <3> QED
        BY <1>4, <2>2, <3>1, <3>2
  <2>4. DrainedFollows'
    <3>1. drained'[1] <= lastSent' + 1
        BY <1>4, <1>6, <2>2
    <3> QED
        BY <2>3, <3>1 DEF DrainedFollows
  <2>5. drained' # <<>>
      BY <2>1
  <2>6. NothingMissed'
    <3>1. sub = "open" => \/ published - Len(buffer) <= lastSent
                          \/ published - Len(buffer) <= drained[Len(drained)]
        BY <1>1 DEF StreamInv, NothingMissed
    <3>2. sub = "open" => \/ published - Len(buffer) <= lastSent'
                          \/ published - Len(buffer) <= drained'[Len(drained')]
        BY <1>3, <1>6, <2>2, <3>1
    <3> QED
        BY <1>1, <1>2, <2>5, <3>2 DEF NothingMissed, Following
  <2> QED
      BY <1>6, <1>7, <1>8, <1>9, <2>4, <2>6 DEF StreamInv
<1> QED
    BY <1>10, <1>11

-----------------------------------------------------------------------------
(* Every step keeps the invariant. *)
LEMMA StreamStep ==
    ASSUME StreamInv, [Next]_vars PROVE StreamInv'
<1>1. CASE Moves
    BY <1>1, MovesType, MovesView, MovesFinish, MovesBuffer DEF StreamInv
<1>2. CASE Publish
    BY <1>2, PublishStep
<1>3. CASE Subscribe
    BY <1>3, SubscribeStep
<1>4. CASE SendStored
    BY <1>4, SendStoredStep
<1>5. CASE NextItem
    BY <1>5, NextItemStep
<1>6. CASE DrainQueued
    BY <1>6, DrainQueuedStep
<1>7. CASE SendDrained
    BY <1>7, SendDrainedStep
<1>8. CASE UNCHANGED vars
  <2>1. /\ UNCHANGED <<indexed, published, terminal, stored>>
        /\ UNCHANGED <<sub, afterSequence, buffer>>
        /\ UNCHANGED <<pc, lastSent, upto, sawTerminal, quiet, progressed, drained>>
        /\ UNCHANGED <<received, requests>>
      BY <1>8 DEF vars, writer, hub, request, client
  <2> QED
      BY <2>1 DEF StreamInv, TypeOK, ViewerSeesPrefix, SentIsReceived, WriterOrder,
                  BufferFollows, NothingMissed, DrainedFollows, Consecutive,
                  FinishOfTerminal, SubscriptionOwned
<1> QED
    BY <1>1, <1>2, <1>3, <1>4, <1>5, <1>6, <1>7, <1>8 DEF Next, Serve, Moves

(* The invariant holds for any number of chunks, any buffer of the hub and any
   number of requests. *)
THEOREM StreamInvariant == Spec => []StreamInv
<1>1. Init => StreamInv
    BY StreamInit
<1>2. StreamInv /\ [Next]_vars => StreamInv'
    BY StreamStep
<1> QED
    BY <1>1, <1>2, PTL DEF Spec

(* handleJobLogsStreamRequest and LiveLogHub keep their types; the buffer of a
   viewer never exceeds its limit. *)
THEOREM StreamTypeCorrect == Spec => []TypeOK
<1>1. StreamInv => TypeOK
    BY DEF StreamInv
<1> QED
    BY <1>1, StreamInvariant, PTL

(* handleJobLogsStreamRequest hands a viewer the log from its first chunk, in
   order and each chunk once, over all its connections. *)
THEOREM ViewerNeverSkips == Spec => []ViewerSeesPrefix
<1>1. StreamInv => ViewerSeesPrefix
    BY DEF StreamInv
<1> QED
    BY <1>1, StreamInvariant, PTL

(* finishTerminal ends a stream with "done" only after everything stored when the
   job became terminal. *)
THEOREM DoneAfterTheWholeLog == Spec => []DoneIsWhole
<1>1. StreamInv => DoneIsWhole
    BY DEF StreamInv, DoneIsWhole, FinishOfTerminal, SentIsReceived
<1> QED
    BY <1>1, StreamInvariant, PTL
=============================================================================
