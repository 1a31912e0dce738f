------------------------------ MODULE AgentLink ------------------------------
(***************************************************************************)
(* The session between one Agent and its Controller: pairing of a device   *)
(* that an operator approves, the one-time claim of a credential, the      *)
(* handshake, reconnects, heartbeats and their timeout, revocation, and    *)
(* the restart of either side.  What is done over a session is the subject *)
(* of RemoteAttempt and Scheduling.                                        *)
(*                                                                         *)
(* A socket has an end on each side and a queue in each direction.  When   *)
(* it is cut, closed or terminated each end sees its close event in its    *)
(* own time and may first read what had arrived.                           *)
(***************************************************************************)
EXTENDS Naturals, Sequences, FiniteSets

CONSTANTS
    MaxSockets,     \* sockets that may exist at once, counting those being closed
    MaxRequests,    \* rows of pairing_requests; row r of agents is made for request r
    Hosts,          \* addresses the Controller's host may have
    MaxFaults       \* cuts, crashes, moves, refusals, expiries and revocations

ASSUME LinkAssumption ==
    /\ MaxSockets \in Nat \ {0} /\ MaxRequests \in Nat \ {0} /\ MaxFaults \in Nat
    /\ Hosts # {}

Sockets == 1..MaxSockets
Rows == 1..MaxRequests

\* A credential names a row of agents and the version it was issued with.
NoCredential == <<0, 0>>

VARIABLES
    pc,             \* runAgent's loop: "top", "connecting", "session", "pausing"
    sock,           \* the socket of its last connectOnce, 0 when closed
    serving,        \* the socket heartbeats and recovery are bound to, or 0
    stored,         \* the credential in agent-state.json
    state,          \* the credential of each connectOnce's copy of that file
    boot,           \* the Agent's boot id
    controllerUrl,  \* the address it dials
    connectedUrl,   \* the address of its last dial
    agentEnd, controllerEnd, link, toController, toAgent,
    auth,           \* `authenticated` of each connection: a row, or 0
    pendingCredential,
    connectedAgents,
    request,        \* pairing_requests.state
    stale,          \* requests past expires_at
    version, revoked, status, lastBoot,     \* the agents table
    advertised,     \* the addresses mDNS shows, at which the Controller can be reached
    faults

agentVars == <<pc, sock, serving, stored, state, boot>>
addressVars == <<controllerUrl, connectedUrl, advertised>>
socketVars == <<agentEnd, controllerEnd, link, toController, toAgent>>
sessionVars == <<auth, pendingCredential, connectedAgents>>
pairingVars == <<request, stale>>
rowVars == <<version, revoked, status, lastBoot>>
vars == <<agentVars, addressVars, socketVars, sessionVars, pairingVars, rowVars, faults>>

Init ==
    /\ pc = "top" /\ sock = 0 /\ serving = 0
    /\ stored = NoCredential /\ state = [s \in Sockets |-> NoCredential] /\ boot = 1
    /\ agentEnd = [s \in Sockets |-> "none"]
    /\ controllerEnd = [s \in Sockets |-> "none"]
    /\ link = [s \in Sockets |-> "down"]
    /\ toController = [s \in Sockets |-> <<>>]
    /\ toAgent = [s \in Sockets |-> <<>>]
    /\ auth = [s \in Sockets |-> 0]
    /\ pendingCredential = [s \in Sockets |-> NoCredential]
    /\ connectedAgents = [r \in Rows |-> 0]
    /\ request = [r \in Rows |-> "none"]
    /\ stale = {}
    /\ version = [r \in Rows |-> 0]
    /\ revoked = {}
    /\ status = [r \in Rows |-> "offline"]
    /\ lastBoot = [r \in Rows |-> 0]
    /\ advertised = Hosts
    /\ controllerUrl \in Hosts /\ connectedUrl = controllerUrl
    /\ faults = 0

Fault == faults < MaxFaults /\ faults' = faults + 1

-----------------------------------------------------------------------------
(* Frames.                                                                  *)

Frame(type) == [type |-> type, credential |-> NoCredential, boot |-> 0]
CredentialFrame(type, c) == [Frame(type) EXCEPT !.credential = c]

Sent(queue, s, m) == IF link[s] = "up" THEN Append(queue[s], m) ELSE queue[s]

\* A closing WebSocket still hands over what it reads.
FromController(s, type) ==
    /\ agentEnd[s] \in {"open", "closing"}
    /\ toAgent[s] # <<>> /\ Head(toAgent[s]).type = type

FromAgent(s, type) ==
    /\ controllerEnd[s] = "open"
    /\ toController[s] # <<>> /\ Head(toController[s]).type = type

AgentReads(s) == toAgent' = [toAgent EXCEPT ![s] = Tail(@)]
AgentAnswers(s, m) ==
    /\ AgentReads(s)
    /\ toController' = [toController EXCEPT ![s] = Sent(toController, s, m)]
    /\ UNCHANGED <<agentEnd, controllerEnd, link>>

ControllerReads(s) == toController' = [toController EXCEPT ![s] = Tail(@)]
ControllerAnswers(s, m) ==
    /\ ControllerReads(s)
    /\ toAgent' = [toAgent EXCEPT ![s] = Sent(toAgent, s, m)]
    /\ UNCHANGED <<agentEnd, controllerEnd, link>>

-----------------------------------------------------------------------------
(* The Agent's loop.                                                        *)

Free(s) == agentEnd[s] = "none" /\ controllerEnd[s] = "none"

\* connectOnce: the dial.
Dial ==
    /\ pc = "top"
    /\ \E s \in Sockets :
          /\ Free(s) /\ \A o \in 1..(s - 1) : ~Free(o)
          /\ agentEnd' = [agentEnd EXCEPT ![s] = "connecting"]
          /\ link' = [link EXCEPT ![s] = IF controllerUrl \in advertised THEN "up" ELSE "down"]
          /\ sock' = s
          /\ state' = [state EXCEPT ![s] = stored]
    /\ pc' = "connecting" /\ connectedUrl' = controllerUrl
    /\ UNCHANGED <<controllerUrl, advertised, serving, stored, boot, controllerEnd,
                   toController, toAgent, sessionVars, pairingVars, rowVars, faults>>

\* 'open' on the Agent and 'connection' on the Controller.
Open(s) ==
    /\ agentEnd[s] = "connecting" /\ link[s] = "up"
    /\ agentEnd' = [agentEnd EXCEPT ![s] = "open"]
    /\ controllerEnd' = [controllerEnd EXCEPT ![s] = "open"]
    /\ toController' = [toController EXCEPT ![s] = <<CredentialFrame("hello", state[s])>>]
    /\ UNCHANGED <<addressVars, agentVars, link, toAgent, sessionVars, pairingVars,
                   rowVars, faults>>

\* close(): heartbeats stop, recovery is detached and the socket is closed.
CloseSocket(s) ==
    /\ serving' = 0
    /\ agentEnd' = [agentEnd EXCEPT ![s] = "closing"]
    /\ link' = [link EXCEPT ![s] = "down"]

\* The pause after an unfinished connection is over; the finally block closes
\* whatever is left of it.  Nobody waits for the close event.
WakeUp ==
    /\ pc = "pausing"
    /\ IF sock # 0 /\ agentEnd[sock] = "open"
       THEN CloseSocket(sock)
       ELSE serving' = 0 /\ UNCHANGED <<agentEnd, link>>
    /\ pc' = "top" /\ sock' = 0
    /\ UNCHANGED <<addressVars, stored, state, boot, controllerEnd, toController,
                   toAgent, sessionVars, pairingVars, rowVars, faults>>

\* An address that is still advertised is kept, so that a multi-homed Controller
\* does not make its Agents flap.
RelocatedControllerUrls ==
    IF controllerUrl \in advertised THEN {controllerUrl} ELSE advertised

DropIfOpenToOtherUrl(url) ==
    IF sock # 0 /\ agentEnd[sock] \in {"connecting", "open"} /\ connectedUrl # url
    THEN CloseSocket(sock)
    ELSE UNCHANGED <<serving, agentEnd, link>>

\* The periodic mDNS refresh, which also runs after a failed connection.
RefreshControllerLocation ==
    \E url \in RelocatedControllerUrls :
        /\ url # controllerUrl
        /\ controllerUrl' = url
        /\ DropIfOpenToOtherUrl(url)
        /\ UNCHANGED <<pc, sock, stored, state, boot, connectedUrl, advertised,
                       controllerEnd, toController, toAgent, sessionVars, pairingVars,
                       rowVars, faults>>

\* 'close' of any socket of this Agent, also of one it gave up long ago: the
\* handler stops the heartbeats of the connection object, not of the socket.
AgentSeesClose(s) ==
    /\ agentEnd[s] # "none" /\ link[s] = "down"
    /\ agentEnd' = [agentEnd EXCEPT ![s] = "none"]
    /\ toAgent' = [toAgent EXCEPT ![s] = <<>>]
    /\ state' = [state EXCEPT ![s] = NoCredential]
    /\ serving' = 0
    /\ pc' = CASE s = sock /\ pc = "connecting" -> "pausing"
               [] s = sock /\ pc = "session" -> "top"
               [] OTHER -> pc
    /\ sock' = IF s = sock THEN 0 ELSE sock
    /\ UNCHANGED <<addressVars, stored, boot, controllerEnd, link, toController,
                   sessionVars, pairingVars, rowVars, faults>>

-----------------------------------------------------------------------------
(* The Agent's side of the handshake.                                       *)

AnswerChallenge(s) ==
    /\ FromController(s, "pairing_challenge")
    /\ AgentAnswers(s, Frame("challenge_response"))
    /\ UNCHANGED <<addressVars, agentVars, sessionVars, pairingVars, rowVars, faults>>

AckUnauthenticated(s) ==
    /\ FromController(s, "unauthenticated")
    /\ AgentAnswers(s, Frame("pairing_request"))
    /\ UNCHANGED <<addressVars, agentVars, sessionVars, pairingVars, rowVars, faults>>

AckPairingPending(s) ==
    /\ FromController(s, "pairing_pending")
    /\ AgentReads(s)
    /\ pc' = IF s = sock /\ pc = "connecting" THEN "pausing" ELSE pc
    /\ UNCHANGED <<addressVars, sock, serving, stored, state, boot, agentEnd,
                   controllerEnd, link, toController, sessionVars, pairingVars, rowVars,
                   faults>>

AckPairingApproved(s) ==
    /\ FromController(s, "pairing_approved")
    /\ stored' = Head(toAgent[s]).credential
    /\ state' = [state EXCEPT ![s] = stored']
    /\ AgentAnswers(s, CredentialFrame("hello", stored'))
    /\ UNCHANGED <<addressVars, pc, sock, serving, boot, sessionVars, pairingVars,
                   rowVars, faults>>

\* The file is written again from connectOnce's copy.  A socket that is being
\* closed for another address ends the session it has just begun:
\* waitUntilDisconnected returns at once.
AckAuthenticated(s) ==
    /\ FromController(s, "authenticated")
    /\ AgentAnswers(s, [Frame("capabilities") EXCEPT !.boot = boot])
    /\ IF agentEnd[s] = "open"
       THEN pc' = "session" /\ serving' = s /\ UNCHANGED sock
       ELSE pc' = "top" /\ serving' = 0 /\ sock' = 0
    /\ stored' = state[s]
    /\ UNCHANGED <<addressVars, state, boot, sessionVars, pairingVars, rowVars, faults>>

\* Mutant: the credential is kept for the next attempt.
AckRejectedKeeps(s) ==
    /\ FromController(s, "rejected")
    /\ AgentReads(s)
    /\ pc' = "pausing"
    /\ UNCHANGED <<addressVars, sock, serving, stored, state, boot, agentEnd,
                   controllerEnd, link, toController, sessionVars, pairingVars, rowVars,
                   faults>>

\* A rejected credential is dropped and the device asks to be paired again.
\* (The challenge is only sent to a device that named a credential.)
AckRejected(s) ==
    /\ FromController(s, "rejected")
    /\ state[s] # NoCredential
    /\ stored' = NoCredential
    /\ state' = [state EXCEPT ![s] = NoCredential]
    /\ AgentAnswers(s, Frame("pairing_request"))
    /\ UNCHANGED <<addressVars, pc, sock, serving, boot, sessionVars, pairingVars,
                   rowVars, faults>>

-----------------------------------------------------------------------------
(* The Controller's side of the handshake.                                  *)

HandleHello(s) ==
    LET c == Head(toController[s]).credential IN
    /\ FromAgent(s, "hello")
    /\ pendingCredential' = [pendingCredential EXCEPT ![s] = IF c = NoCredential THEN @ ELSE c]
    /\ ControllerAnswers(s, Frame(IF c = NoCredential THEN "unauthenticated"
                                                      ELSE "pairing_challenge"))
    /\ UNCHANGED <<addressVars, agentVars, auth, connectedAgents, pairingVars, rowVars,
                   faults>>

\* verifyAgentCredential; the signature is that of the device which paired.
VerifyAgentCredential(c) == c[1] \notin revoked /\ c[2] = version[c[1]]

Terminate(s) ==
    /\ controllerEnd' = [controllerEnd EXCEPT ![s] = "terminated"]
    /\ link' = [link EXCEPT ![s] = "down"]

MarkAgentSeen(r, to) == status' = [status EXCEPT ![r] = to]

\* The new session is installed before the old socket is terminated.
Authenticate(s) ==
    LET r == pendingCredential[s][1]
        previous == connectedAgents[r] IN
    /\ FromAgent(s, "challenge_response")
    /\ VerifyAgentCredential(pendingCredential[s])
    /\ connectedAgents' = [connectedAgents EXCEPT ![r] = s]
    /\ auth' = [auth EXCEPT ![s] = r]
    /\ pendingCredential' = [pendingCredential EXCEPT ![s] = NoCredential]
    /\ MarkAgentSeen(r, "idle")
    /\ ControllerReads(s)
    /\ toAgent' = [toAgent EXCEPT ![s] = Sent(toAgent, s, Frame("authenticated"))]
    /\ IF previous \notin {0, s} THEN Terminate(previous)
                                 ELSE UNCHANGED <<controllerEnd, link>>
    /\ UNCHANGED <<addressVars, agentVars, agentEnd, pairingVars, version, revoked,
                   lastBoot, faults>>

RefuseCredential(s) ==
    /\ FromAgent(s, "challenge_response")
    /\ ~VerifyAgentCredential(pendingCredential[s])
    /\ pendingCredential' = [pendingCredential EXCEPT ![s] = NoCredential]
    /\ ControllerAnswers(s, Frame("rejected"))
    /\ UNCHANGED <<addressVars, agentVars, auth, connectedAgents, pairingVars, rowVars,
                   faults>>

UpdateAgentCapabilities(r, id) == lastBoot' = [lastBoot EXCEPT ![r] = id]

\* recovery.onAgentConnect compares the boot id before it is stored.
HandleCapabilities(s) ==
    /\ FromAgent(s, "capabilities")
    /\ ControllerReads(s)
    /\ IF auth[s] = 0 THEN UNCHANGED lastBoot
                      ELSE UpdateAgentCapabilities(auth[s], Head(toController[s]).boot)
    /\ UNCHANGED <<addressVars, agentVars, agentEnd, controllerEnd, link, toAgent,
                   sessionVars, pairingVars, version, revoked, status, faults>>

-----------------------------------------------------------------------------
(* Pairing.  All requests are of this device.                               *)

Live(r) == request[r] \in {"pending", "approved"}

ExpireStalePairingRequests ==
    [r \in Rows |-> IF Live(r) /\ r \in stale THEN "expired" ELSE request[r]]

\* Issuing rotates: older credentials of the row no longer verify.
IssueAgentCredential(r) ==
    /\ r \notin revoked
    /\ version' = [version EXCEPT ![r] = @ + 1]

\* The handler claims what was approved, or else creates a request.
PairingRequested(s) == FromAgent(s, "pairing_request")

\* claimApprovedPairing: expires_at is not looked at here.
ClaimApprovedPairing(s) ==
    /\ PairingRequested(s)
    /\ \E r \in Rows :
          /\ request[r] = "approved"
          /\ IssueAgentCredential(r)
          /\ request' = [request EXCEPT ![r] = "claimed"]
          /\ ControllerAnswers(s, CredentialFrame("pairing_approved", <<r, version'[r]>>))
    /\ UNCHANGED <<addressVars, agentVars, sessionVars, stale, revoked, status, lastBoot,
                   faults>>

\* The row was revoked before the claim: issueAgentCredential throws, the error
\* is logged and nothing is sent.
ClaimThrows(s) ==
    /\ PairingRequested(s)
    /\ \E r \in revoked : request[r] = "approved"
    /\ ControllerReads(s)
    /\ UNCHANGED <<addressVars, agentVars, agentEnd, controllerEnd, link, toAgent,
                   sessionVars, pairingVars, rowVars, faults>>

\* One live request per device: an existing one is used again.
CreatePairingRequest(s) ==
    LET swept == ExpireStalePairingRequests
        kept == {r \in Rows : swept[r] = "pending"}
    IN
    /\ PairingRequested(s)
    /\ \A r \in Rows : request[r] # "approved"
    /\ \/ kept # {} /\ request' = swept
       \/ /\ kept = {}
          /\ \E r \in Rows :
                /\ request[r] = "none" /\ \A o \in 1..(r - 1) : request[o] # "none"
                /\ request' = [swept EXCEPT ![r] = "pending"]
    /\ ControllerAnswers(s, Frame("pairing_pending"))
    /\ UNCHANGED <<addressVars, agentVars, sessionVars, stale, rowVars, faults>>

ApprovePairingRequest(r) ==
    /\ request[r] = "pending"
    /\ request' = [request EXCEPT ![r] = IF r \in stale THEN "expired" ELSE "approved"]
    /\ UNCHANGED <<addressVars, agentVars, socketVars, sessionVars, stale, rowVars,
                   faults>>

\* The operator may reject a request in any state.
RejectPairingRequest(r) ==
    /\ Fault
    /\ request[r] \notin {"none", "rejected"}
    /\ request' = [request EXCEPT ![r] = "rejected"]
    /\ UNCHANGED <<addressVars, agentVars, socketVars, sessionVars, stale, rowVars>>

ListPairingRequests ==
    /\ request # ExpireStalePairingRequests
    /\ request' = ExpireStalePairingRequests
    /\ UNCHANGED <<addressVars, agentVars, socketVars, sessionVars, stale, rowVars,
                   faults>>

\* PAIRING_TTL_MS.
TtlPasses(r) ==
    /\ Fault
    /\ Live(r) /\ r \notin stale
    /\ stale' = stale \cup {r}
    /\ UNCHANGED <<addressVars, agentVars, socketVars, sessionVars, request, rowVars>>

\* The session, if there is one, is left alone.
RevokeAgent(r) ==
    /\ Fault
    /\ request[r] \in {"approved", "claimed"} /\ r \notin revoked
    /\ revoked' = revoked \cup {r}
    /\ status' = [status EXCEPT ![r] = "revoked"]
    /\ UNCHANGED <<addressVars, agentVars, socketVars, sessionVars, pairingVars, version,
                   lastBoot>>

-----------------------------------------------------------------------------
(* Sessions.                                                                *)

\* startHeartbeats(socket) is in force and its frames get through.
HeartbeatsArrive(s) == serving = s /\ link[s] = "up"

\* markAgentSeen does not look at the state it replaces.
Heartbeat(s) ==
    /\ HeartbeatsArrive(s)
    /\ controllerEnd[s] = "open" /\ auth[s] # 0 /\ toController[s] = <<>>
    /\ MarkAgentSeen(auth[s], "idle")
    /\ UNCHANGED <<addressVars, agentVars, socketVars, sessionVars, pairingVars, version,
                   revoked, lastBoot, faults>>

\* An Agent that serves its session heartbeats three times within the timeout.
Silent(s) == link[s] = "down" \/ (~HeartbeatsArrive(s) /\ toAgent[s] = <<>>)

CheckHeartbeats(r) ==
    LET s == connectedAgents[r] IN
    /\ s # 0 /\ controllerEnd[s] = "open"
    /\ Silent(s)
    /\ Terminate(s)
    /\ UNCHANGED <<addressVars, agentVars, agentEnd, toController, toAgent, sessionVars,
                   pairingVars, rowVars, faults>>

ForgetSession(s) ==
    /\ connectedAgents' = [connectedAgents EXCEPT ![auth[s]] = 0]
    /\ MarkAgentSeen(auth[s], "offline")

EndOfSocket(s) ==
    /\ controllerEnd[s] # "none" /\ link[s] = "down"
    /\ controllerEnd' = [controllerEnd EXCEPT ![s] = "none"]
    /\ toController' = [toController EXCEPT ![s] = <<>>]
    /\ auth' = [auth EXCEPT ![s] = 0]
    /\ pendingCredential' = [pendingCredential EXCEPT ![s] = NoCredential]
    /\ UNCHANGED <<addressVars, agentVars, agentEnd, link, toAgent, pairingVars, version,
                   revoked, lastBoot, faults>>

\* Mutant: the handler does not ask whose session it ends.
AnyCloseEndsTheSession(s) ==
    /\ EndOfSocket(s)
    /\ IF auth[s] # 0 THEN ForgetSession(s) ELSE UNCHANGED <<connectedAgents, status>>

\* 'close' on the Controller: only the registered socket ends the session.
ControllerSeesClose(s) ==
    /\ EndOfSocket(s)
    /\ IF auth[s] # 0 /\ connectedAgents[auth[s]] = s
       THEN ForgetSession(s)
       ELSE UNCHANGED <<connectedAgents, status>>

-----------------------------------------------------------------------------
(* Faults.                                                                  *)

\* The Controller's host gets other addresses; connections to the old ones are
\* lost.
MoveController ==
    /\ Fault
    /\ \E hosts \in (SUBSET Hosts) \ {{}, advertised} :
          /\ advertised' = hosts
          /\ link' = IF connectedUrl \in hosts THEN link ELSE [s \in Sockets |-> "down"]
    /\ UNCHANGED <<agentVars, controllerUrl, connectedUrl, agentEnd, controllerEnd,
                   toController, toAgent, sessionVars, pairingVars, rowVars>>

Cut(s) ==
    /\ Fault
    /\ link[s] = "up"
    /\ link' = [link EXCEPT ![s] = "down"]
    /\ UNCHANGED <<addressVars, agentVars, agentEnd, controllerEnd, toController,
                   toAgent, sessionVars, pairingVars, rowVars>>

RestartAgent ==
    /\ Fault
    /\ boot' = boot + 1
    /\ pc' = "top" /\ sock' = 0 /\ serving' = 0
    /\ agentEnd' = [s \in Sockets |-> "none"]
    /\ toAgent' = [s \in Sockets |-> <<>>]
    /\ link' = [s \in Sockets |-> "down"]
    /\ state' = [s \in Sockets |-> NoCredential]
    /\ UNCHANGED <<addressVars, stored, controllerEnd, toController, sessionVars,
                   pairingVars, rowVars>>

\* The credential and the request are written by two statements.
InsideClaim ==
    \E s \in Sockets, r \in Rows :
        /\ PairingRequested(s) /\ request[r] = "approved"
        /\ IssueAgentCredential(r)

\* The process ends and starts again: recovery.onControllerStartup.
RestartController ==
    /\ Fault
    /\ InsideClaim \/ UNCHANGED version
    /\ controllerEnd' = [s \in Sockets |-> "none"]
    /\ toController' = [s \in Sockets |-> <<>>]
    /\ link' = [s \in Sockets |-> IF controllerEnd[s] = "none" THEN link[s] ELSE "down"]
    /\ auth' = [s \in Sockets |-> 0]
    /\ pendingCredential' = [s \in Sockets |-> NoCredential]
    /\ connectedAgents' = [r \in Rows |-> 0]
    /\ status' = [r \in Rows |-> IF status[r] = "revoked" THEN "revoked" ELSE "offline"]
    /\ UNCHANGED <<addressVars, agentVars, agentEnd, toAgent, pairingVars, revoked,
                   lastBoot>>

-----------------------------------------------------------------------------
Loop == Dial \/ WakeUp \/ \E s \in Sockets : Open(s)

AgentReceives(s) ==
    \/ AnswerChallenge(s) \/ AckUnauthenticated(s) \/ AckPairingPending(s)
    \/ AckPairingApproved(s) \/ AckAuthenticated(s) \/ AckRejected(s)

ControllerReceives(s) ==
    \/ HandleHello(s) \/ Authenticate(s) \/ RefuseCredential(s) \/ HandleCapabilities(s)
    \/ ClaimApprovedPairing(s) \/ ClaimThrows(s) \/ CreatePairingRequest(s)

Next ==
    \/ Loop \/ RefreshControllerLocation \/ MoveController
    \/ RestartAgent \/ RestartController \/ ListPairingRequests
    \/ \E s \in Sockets :
          \/ AgentReceives(s) \/ ControllerReceives(s) \/ AgentSeesClose(s)
          \/ ControllerSeesClose(s) \/ Heartbeat(s) \/ Cut(s)
    \/ \E r \in Rows :
          \/ ApprovePairingRequest(r) \/ RejectPairingRequest(r) \/ TtlPasses(r)
          \/ RevokeAgent(r) \/ CheckHeartbeats(r)

Spec == Init /\ [][Next]_vars

\* Both event loops go on, TCP reports a lost connection in the end, the sweep
\* and refresh timers run, and an operator answers pairing requests.
FairSpec ==
    /\ Spec
    /\ WF_vars(Loop) /\ WF_vars(RefreshControllerLocation)
    /\ \A s \in Sockets :
          /\ WF_vars(AgentReceives(s)) /\ WF_vars(ControllerReceives(s))
          /\ WF_vars(AgentSeesClose(s)) /\ WF_vars(ControllerSeesClose(s))
    /\ \A r \in Rows : WF_vars(ApprovePairingRequest(r)) /\ WF_vars(CheckHeartbeats(r))

-----------------------------------------------------------------------------
Credentials == {NoCredential} \cup (Rows \X Nat)
Frames == [type : {"hello", "pairing_request", "challenge_response", "capabilities",
                   "unauthenticated", "pairing_challenge", "pairing_pending",
                   "pairing_approved", "authenticated", "rejected"},
           credential : Credentials, boot : Nat]

TypeOK ==
    /\ pc \in {"top", "connecting", "session", "pausing"}
    /\ sock \in 0..MaxSockets /\ serving \in 0..MaxSockets
    /\ stored \in Credentials /\ state \in [Sockets -> Credentials]
    /\ boot \in Nat
    /\ agentEnd \in [Sockets -> {"none", "connecting", "open", "closing"}]
    /\ controllerEnd \in [Sockets -> {"none", "open", "terminated"}]
    /\ link \in [Sockets -> {"up", "down"}]
    /\ toController \in [Sockets -> Seq(Frames)] /\ toAgent \in [Sockets -> Seq(Frames)]
    /\ auth \in [Sockets -> 0..MaxRequests]
    /\ pendingCredential \in [Sockets -> Credentials]
    /\ connectedAgents \in [Rows -> 0..MaxSockets]
    /\ request \in [Rows -> {"none", "pending", "approved", "claimed", "rejected", "expired"}]
    /\ stale \subseteq Rows /\ revoked \subseteq Rows
    /\ version \in [Rows -> Nat]
    /\ status \in [Rows -> {"offline", "idle", "revoked"}]
    /\ lastBoot \in [Rows -> Nat]
    /\ controllerUrl \in Hosts /\ connectedUrl \in Hosts /\ advertised \in (SUBSET Hosts) \ {{}}
    /\ faults \in Nat

(* The registered session of an Agent is the authenticated socket that is      *)
(* still open: neither a reconnect from another address nor the late close of  *)
(* the socket it replaced drops it, and the Agent's row says offline exactly   *)
(* while no session is registered.                                             *)
SessionIsCurrent ==
    /\ \A r \in Rows :
          LET s == connectedAgents[r] IN
          IF s # 0 THEN auth[s] = r /\ status[r] # "offline"
                   ELSE status[r] # "idle"
    /\ \A s \in Sockets :
          controllerEnd[s] = "open" /\ auth[s] # 0 => connectedAgents[auth[s]] = s

Established ==
    /\ pc = "session" /\ serving = sock /\ link[sock] = "up"
    /\ \E r \in Rows : connectedAgents[r] = sock /\ lastBoot[r] = boot

(* Whatever was cut, restarted, lost with a crash, rejected or revoked, the    *)
(* Agent gets a session that heartbeats, if need be by pairing again.          *)
AgentAlwaysComesBack == []<>Established

(* The same, unless the operator revoked the Agent between the approval and    *)
(* the claim of its credential: the claim then fails without an answer and     *)
(* connectOnce waits for one for ever.                                         *)
AgentComesBack == []<>(Established \/ \E r \in revoked : request[r] # "claimed")
=============================================================================
