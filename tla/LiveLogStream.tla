---------------------------- MODULE LiveLogStream ----------------------------
(***************************************************************************)
(* One viewer of one attempt's log: handleJobLogsStreamRequest subscribes  *)
(* to LiveLogHub, replays the chunk index from disk, follows the hub, and  *)
(* drains both when the job is terminal.  The writer stores a chunk in the *)
(* index and then publishes it; the hub drops a viewer whose buffer is     *)
(* full; a viewer that was dropped or lost its connection asks again from  *)
(* the last sequence it received.                                          *)
(***************************************************************************)
EXTENDS Integers, Sequences

CONSTANTS
    NChunks,      \* bound: chunks written
    MaxBuffered,  \* hub events buffered for a viewer
    MaxRequests   \* bound: requests the viewer makes

ASSUME StreamConstants ==
    /\ NChunks \in Nat
    /\ MaxBuffered \in Nat \ {0}
    /\ MaxRequests \in Nat \ {0}

VARIABLES
    \* chunk index on disk, chunks published, the job's state and how much
    \* was stored when it became terminal
    indexed, published, terminal, stored,
    \* the hub's subscription: none, open, dropped, closed
    sub, afterSequence, buffer,
    \* the request: where it is, what it sent, the end of its disk read, what
    \* it read of the job, the rounds of its final drain and what they took
    pc, lastSent, upto, sawTerminal, quiet, progressed, drained,
    \* what the client received, requests so far
    received, requests

writer == <<indexed, published, terminal, stored>>
hub == <<sub, afterSequence, buffer>>
request == <<pc, lastSent, upto, sawTerminal, quiet, progressed, drained>>
client == <<received, requests>>
vars == <<writer, hub, request, client>>

Ended == {"done", "overflow", "gone"}

-----------------------------------------------------------------------------
(* persistAndPublishLogChunk, its two halves. *)
Store ==
    /\ indexed = published /\ indexed < NChunks
    /\ indexed' = indexed + 1
    /\ UNCHANGED <<published, terminal, stored, hub, request, client>>

(* Mutant of Deliver: a viewer with a full buffer misses the event. *)
MutantDeliverSkips(k) ==
    /\ afterSequence' = IF k > afterSequence THEN k ELSE afterSequence
    /\ buffer' = IF k > afterSequence /\ Len(buffer) < MaxBuffered
                 THEN Append(buffer, k) ELSE buffer
    /\ UNCHANGED sub

(* publish to an open subscription: what it has had is skipped; one whose buffer
   is full is dropped. *)
Deliver(k) ==
    \/ /\ k <= afterSequence
       /\ UNCHANGED hub
    \/ /\ k > afterSequence
       /\ afterSequence' = k
       /\ IF Len(buffer) >= MaxBuffered
          THEN sub' = "dropped" /\ UNCHANGED buffer
          ELSE buffer' = Append(buffer, k) /\ UNCHANGED sub

Publish ==
    /\ published < indexed
    /\ published' = published + 1
    /\ IF sub = "open" THEN Deliver(published + 1) ELSE UNCHANGED hub
    /\ UNCHANGED <<indexed, terminal, stored, request, client>>

(* The job becomes terminal; chunks may still be stored later. *)
Terminate ==
    /\ ~terminal
    /\ terminal' = TRUE
    /\ stored' = indexed
    /\ UNCHANGED <<indexed, published, hub, request, client>>

-----------------------------------------------------------------------------
(* Last-Event-ID: the client asks again from what it received. *)
Request ==
    /\ pc \in {"idle", "overflow", "gone"} /\ requests < MaxRequests
    /\ requests' = requests + 1
    /\ lastSent' = Len(received)
    /\ pc' = "opening"
    /\ UNCHANGED <<writer, hub, upto, sawTerminal, quiet, progressed, drained, received>>

Subscribe ==
    /\ pc = "opening"
    /\ sub' = "open" /\ afterSequence' = lastSent /\ buffer' = <<>>
    /\ pc' = "subscribed"
    /\ UNCHANGED <<writer, lastSent, upto, sawTerminal, quiet, progressed, drained, client>>

(* iterIndexedChunksAfter reads the index as it is when the reading begins; each
   event is written before the next one is read.  The catch-up and the final
   drain both read so. *)
ReadIndex(from, to) ==
    /\ pc = from
    /\ upto' = indexed
    /\ pc' = to
    /\ UNCHANGED <<writer, hub, lastSent, sawTerminal, quiet, progressed, drained, client>>

SendStored ==
    /\ pc \in {"replaying", "draining"} /\ lastSent < upto
    /\ received' = Append(received, lastSent + 1)
    /\ lastSent' = lastSent + 1
    /\ progressed' = TRUE
    /\ UNCHANGED <<writer, hub, pc, upto, sawTerminal, quiet, drained, requests>>

ReplayEnds ==
    /\ pc = "replaying" /\ lastSent >= upto
    /\ pc' = "live"
    /\ UNCHANGED <<writer, hub, lastSent, upto, sawTerminal, quiet, progressed, drained, client>>

(* The loop reads the job's state before it waits. *)
ReadJob ==
    /\ pc = "live"
    /\ sawTerminal' = terminal
    /\ pc' = "waiting"
    /\ UNCHANGED <<writer, hub, lastSent, upto, quiet, progressed, drained, client>>

(* An event goes to the client unless it was already sent. *)
SendItem(k) ==
    IF k > lastSent
    THEN lastSent' = k /\ received' = Append(received, k) /\ progressed' = TRUE
    ELSE UNCHANGED <<lastSent, received, progressed>>

NextItem ==
    /\ pc = "waiting" /\ sub = "open" /\ buffer # <<>>
    /\ SendItem(Head(buffer))
    /\ buffer' = Tail(buffer)
    /\ pc' = "live"
    /\ UNCHANGED <<writer, sub, afterSequence, upto, sawTerminal, quiet, drained, requests>>

Overflow ==
    /\ pc = "waiting" /\ sub = "dropped"
    /\ pc' = "overflow"
    /\ UNCHANGED <<writer, hub, lastSent, upto, sawTerminal, quiet, progressed, drained, client>>

(* Mutant of WaitTimesOut: the job's state is not looked at. *)
MutantWaitForever ==
    /\ pc = "waiting" /\ sub = "open" /\ buffer = <<>>
    /\ pc' = "live"
    /\ UNCHANGED <<writer, hub, lastSent, upto, sawTerminal, quiet, progressed, drained, client>>

WaitTimesOut ==
    /\ pc = "waiting" /\ sub = "open" /\ buffer = <<>>
    /\ IF sawTerminal
       THEN pc' = "round" /\ quiet' = 0 /\ progressed' = FALSE
       ELSE pc' = "live" /\ UNCHANGED <<quiet, progressed>>
    /\ UNCHANGED <<writer, hub, lastSent, upto, sawTerminal, drained, client>>

(* finishTerminal: a round takes what the hub has buffered, sends it, then reads
   the index. *)
DrainQueued ==
    /\ pc = "round"
    /\ drained' = IF sub = "open" THEN buffer ELSE <<>>
    /\ buffer' = IF sub = "open" THEN <<>> ELSE buffer
    /\ pc' = "flushing"
    /\ UNCHANGED <<writer, sub, afterSequence, lastSent, upto, sawTerminal, quiet,
                   progressed, client>>

SendDrained ==
    /\ pc = "flushing" /\ drained # <<>>
    /\ SendItem(Head(drained))
    /\ drained' = Tail(drained)
    /\ UNCHANGED <<writer, hub, pc, upto, sawTerminal, quiet, requests>>

(* Mutant of DrainIndex: the round is over without a look at the index. *)
MutantDrainHubOnly ==
    /\ pc = "flushing" /\ drained = <<>>
    /\ upto' = lastSent
    /\ pc' = "draining"
    /\ UNCHANGED <<writer, hub, lastSent, sawTerminal, quiet, progressed, drained, client>>

DrainIndex ==
    /\ drained = <<>>
    /\ ReadIndex("flushing", "draining")

RoundEnds ==
    /\ pc = "draining" /\ lastSent >= upto
    /\ quiet' = IF progressed THEN 0 ELSE quiet + 1
    /\ pc' = IF ~progressed /\ quiet = 1 THEN "done" ELSE "round"
    /\ progressed' = FALSE
    /\ UNCHANGED <<writer, hub, lastSent, upto, sawTerminal, drained, client>>

(* The client's connection closes, or the response ends: onClose. *)
ClientLeaves ==
    /\ pc \notin Ended \cup {"idle"} /\ requests < MaxRequests
    /\ pc' = "gone"
    /\ sub' = IF sub = "open" THEN "closed" ELSE sub
    /\ UNCHANGED <<writer, afterSequence, buffer, lastSent, upto, sawTerminal, quiet,
                   progressed, drained, client>>

ResponseEnds ==
    /\ pc \in Ended /\ sub = "open"
    /\ sub' = "closed"
    /\ UNCHANGED <<writer, afterSequence, buffer, request, client>>

-----------------------------------------------------------------------------
Init ==
    /\ indexed = 0 /\ published = 0 /\ terminal = FALSE /\ stored = 0
    /\ sub = "none" /\ afterSequence = 0 /\ buffer = <<>>
    /\ pc = "idle" /\ lastSent = 0 /\ upto = 0 /\ sawTerminal = FALSE
    /\ quiet = 0 /\ progressed = FALSE /\ drained = <<>>
    /\ received = <<>> /\ requests = 0

CatchUp == ReadIndex("subscribed", "replaying")

Serve ==
    \/ Subscribe \/ CatchUp \/ SendStored \/ ReplayEnds \/ ReadJob \/ NextItem
    \/ Overflow \/ WaitTimesOut \/ DrainQueued \/ SendDrained \/ DrainIndex
    \/ RoundEnds \/ ResponseEnds

Next ==
    \/ Store \/ Publish \/ Terminate
    \/ Request \/ ClientLeaves \/ Serve

Spec == Init /\ [][Next]_vars

(* The handler's promises settle: its timers fire and the client reads. *)
FairSpec == Spec /\ WF_vars(Serve)

-----------------------------------------------------------------------------
(* The writer's counts, the subscription and the request stay in their types. *)
TypeOK ==
    /\ indexed \in 0..NChunks /\ published \in 0..NChunks /\ stored \in 0..NChunks
    /\ terminal \in BOOLEAN
    /\ sub \in {"none", "open", "dropped", "closed"}
    /\ afterSequence \in 0..NChunks
    /\ buffer \in Seq(1..NChunks) /\ Len(buffer) <= MaxBuffered
    /\ pc \in Ended \cup {"idle", "opening", "subscribed", "replaying", "live",
                          "waiting", "round", "flushing", "draining"}
    /\ lastSent \in 0..NChunks /\ upto \in 0..NChunks
    /\ sawTerminal \in BOOLEAN /\ quiet \in 0..2 /\ progressed \in BOOLEAN
    /\ drained \in Seq(1..NChunks)
    /\ received \in Seq(1..NChunks)
    /\ requests \in 0..MaxRequests

(* The viewer sees the log from its beginning without a gap or a repetition,
   also where the replay from disk meets the live events, after an overflow,
   and over several connections. *)
ViewerSeesPrefix == \A i \in 1..Len(received) : received[i] = i

(* "done" is sent only when everything stored before the job became terminal
   has been sent, also when the hub dropped the viewer in the last moment. *)
DoneIsWhole == pc = "done" => Len(received) >= stored

(* The stream of a terminal job ends. *)
StreamEnds == terminal /\ pc \notin Ended \cup {"idle"} ~> pc \in Ended
=============================================================================
