--------------------------- MODULE AgentLinkProofs ---------------------------
(***************************************************************************)
(* The session that the Controller has registered for an Agent is the one  *)
(* that is open, for any number of sockets, pairing requests, addresses    *)
(* and faults; and the jobs that it leases to the Agents connected in this *)
(* way exceed no Agent's limit by more than the dispatches in flight       *)
(* allow.                                                                  *)
(***************************************************************************)
EXTENDS AgentLink, Scheduling, FiniteSetTheorems, TLAPS

Carries(queue, type) == queue # <<>> /\ Head(queue).type = type

(* What the two ends of a socket know of each other. *)
Ends(s) ==
    /\ agentEnd[s] = "none" => (link[s] = "down" /\ toAgent[s] = <<>>)
    /\ agentEnd[s] = "connecting" => (controllerEnd[s] = "none" /\ toAgent[s] = <<>>)
    /\ controllerEnd[s] = "none" =>
          /\ toController[s] = <<>> /\ auth[s] = 0
          /\ link[s] = "up" => agentEnd[s] = "connecting"
    /\ controllerEnd[s] = "terminated" => link[s] = "down"

Single(queue) == queue = <<>> \/ \E m \in Frames : queue = <<m>>

(* The handshake goes back and forth: one frame is on its way at a time. *)
HalfDuplex(s) ==
    /\ Single(toAgent[s]) /\ Single(toController[s])
    /\ toAgent[s] = <<>> \/ toController[s] = <<>>

(* A connection that is being challenged named a credential and is not yet
   authenticated. *)
Challenged(s) ==
    \/ Carries(toController[s], "challenge_response")
    \/ link[s] = "up" /\ Carries(toAgent[s], "pairing_challenge")

ChallengeIsFresh(s) ==
    Challenged(s) => auth[s] = 0 /\ pendingCredential[s] \in Rows \X Nat

(* An authenticated connection does not go through the handshake again. *)
AuthenticatedOnce(s) ==
    auth[s] # 0 =>
        /\ toAgent[s] # <<>> => Head(toAgent[s]).type = "authenticated"
        /\ toController[s] # <<>> => Head(toController[s]).type = "capabilities"

SocketInv(s) == Ends(s) /\ HalfDuplex(s) /\ ChallengeIsFresh(s) /\ AuthenticatedOnce(s)

(* The inductive invariant. *)
LinkInv == TypeOK /\ (\A s \in Sockets : SocketInv(s)) /\ SessionIsCurrent

-----------------------------------------------------------------------------
(* Frames, credentials and queues. *)

FrameTypes == {"hello", "pairing_request", "challenge_response", "capabilities",
               "unauthenticated", "pairing_challenge", "pairing_pending",
               "pairing_approved", "authenticated", "rejected"}

(* What Frame and CredentialFrame build. *)
LEMMA FramesBuilt ==
    ASSUME NEW t \in FrameTypes, NEW c \in Credentials, NEW b \in Nat
    PROVE  /\ Frame(t) \in Frames /\ Frame(t).type = t
           /\ CredentialFrame(t, c) \in Frames /\ CredentialFrame(t, c).type = t
           /\ [Frame(t) EXCEPT !.boot = b] \in Frames /\ [Frame(t) EXCEPT !.boot = b].type = t
<1>1. NoCredential \in Credentials
    BY DEF Credentials
<1> QED
    BY <1>1 DEF Frame, CredentialFrame, Frames, FrameTypes

(* A credential that is not the empty one names a row of agents. *)
LEMMA CredentialNamesRow ==
    ASSUME NEW c \in Credentials, c # NoCredential
    PROVE  c \in Rows \X Nat /\ c[1] \in Rows /\ c[2] \in Nat
BY DEF Credentials

(* The credential of a row is none of the empty one. *)
LEMMA RowCredential ==
    ASSUME NEW r \in Rows, NEW n \in Nat
    PROVE  <<r, n>> \in Credentials
BY DEF Credentials

(* Reading the one frame of a queue empties it. *)
LEMMA ReadOne ==
    ASSUME NEW q \in Seq(Frames), Single(q), q # <<>>
    PROVE  Tail(q) = <<>> /\ Head(q) \in Frames /\ q = <<Head(q)>>
BY DEF Single

(* Sending into an empty queue. *)
LEMMA SendOne ==
    ASSUME NEW m \in Frames
    PROVE  /\ Append(<<>>, m) = <<m>> /\ <<m>> # <<>> /\ Head(<<m>>) = m
           /\ <<m>> \in Seq(Frames) /\ <<>> \in Seq(Frames) /\ Single(<<m>>) /\ Single(<<>>)
<1>1. <<m>> \in Seq(Frames) /\ <<>> \in Seq(Frames)
    OBVIOUS
<1>2. Append(<<>>, m) = <<m>> /\ <<m>> # <<>> /\ Head(<<m>>) = m
    OBVIOUS
<1> QED
    BY <1>1, <1>2 DEF Single

(* The Agent reads a frame and answers it: the answer is what the socket then
   carries, unless it is down. *)
LEMMA AgentAnswered ==
    ASSUME TypeOK, NEW s \in Sockets, HalfDuplex(s), toAgent[s] # <<>>, NEW m \in Frames,
           AgentAnswers(s, m)
    PROVE  /\ toAgent' \in [Sockets -> Seq(Frames)] /\ toController' \in [Sockets -> Seq(Frames)]
           /\ toAgent'[s] = <<>>
           /\ toController'[s] = IF link[s] = "up" THEN <<m>> ELSE <<>>
           /\ \A o \in Sockets \ {s} : toAgent'[o] = toAgent[o] /\ toController'[o] = toController[o]
           /\ agentEnd' = agentEnd /\ controllerEnd' = controllerEnd /\ link' = link
<1>1. toAgent[s] \in Seq(Frames) /\ toController[s] = <<>> /\ Tail(toAgent[s]) = <<>>
    BY ReadOne DEF TypeOK, HalfDuplex
<1>2. toAgent' = [toAgent EXCEPT ![s] = <<>>]
    BY <1>1 DEF AgentAnswers, AgentReads, TypeOK
<1>3. toController' = [toController EXCEPT ![s] = IF link[s] = "up" THEN <<m>> ELSE <<>>]
    BY <1>1, SendOne DEF AgentAnswers, Sent, TypeOK
<1>4. <<m>> \in Seq(Frames) /\ <<>> \in Seq(Frames)
    BY SendOne
<1>5. toAgent' \in [Sockets -> Seq(Frames)]
    BY <1>2, <1>4 DEF TypeOK
<1>6. toController' \in [Sockets -> Seq(Frames)]
    BY <1>3, <1>4 DEF TypeOK
<1> QED
    BY <1>2, <1>3, <1>5, <1>6 DEF AgentAnswers, TypeOK

(* The same for the Controller. *)
LEMMA ControllerAnswered ==
    ASSUME TypeOK, NEW s \in Sockets, HalfDuplex(s), toController[s] # <<>>, NEW m \in Frames,
           ControllerReads(s), toAgent' = [toAgent EXCEPT ![s] = Sent(toAgent, s, m)]
    PROVE  /\ toAgent' \in [Sockets -> Seq(Frames)] /\ toController' \in [Sockets -> Seq(Frames)]
           /\ toController'[s] = <<>>
           /\ toAgent'[s] = IF link[s] = "up" THEN <<m>> ELSE <<>>
           /\ \A o \in Sockets \ {s} : toAgent'[o] = toAgent[o] /\ toController'[o] = toController[o]
<1>1. toController[s] \in Seq(Frames) /\ toAgent[s] = <<>> /\ Tail(toController[s]) = <<>>
    BY ReadOne DEF TypeOK, HalfDuplex
<1>2. toController' = [toController EXCEPT ![s] = <<>>]
    BY <1>1 DEF ControllerReads, TypeOK
<1>3. toAgent' = [toAgent EXCEPT ![s] = IF link[s] = "up" THEN <<m>> ELSE <<>>]
    BY <1>1, SendOne DEF Sent, TypeOK
<1>4. <<m>> \in Seq(Frames) /\ <<>> \in Seq(Frames)
    BY SendOne
<1>5. toController' \in [Sockets -> Seq(Frames)]
    BY <1>2, <1>4 DEF TypeOK
<1>6. toAgent' \in [Sockets -> Seq(Frames)]
    BY <1>3, <1>4 DEF TypeOK
<1> QED
    BY <1>2, <1>3, <1>5, <1>6 DEF TypeOK

-----------------------------------------------------------------------------
(* One socket. *)

(* A socket that a step leaves alone. *)
LEMMA SocketKept ==
    ASSUME NEW s \in Sockets, SocketInv(s),
           agentEnd'[s] = agentEnd[s], controllerEnd'[s] = controllerEnd[s], link'[s] = link[s],
           toAgent'[s] = toAgent[s], toController'[s] = toController[s], auth'[s] = auth[s],
           pendingCredential'[s] = pendingCredential[s]
    PROVE  SocketInv(s)'
BY DEF SocketInv, Ends, HalfDuplex, ChallengeIsFresh, Challenged, AuthenticatedOnce

(* A socket that is cut, closed by the Agent or terminated by the Controller. *)
LEMMA SocketDown ==
    ASSUME NEW s \in Sockets, SocketInv(s), link'[s] = "down",
           agentEnd'[s] \in {agentEnd[s], "closing"},
           \/ controllerEnd'[s] = controllerEnd[s]
           \/ controllerEnd[s] # "none" /\ controllerEnd'[s] = "terminated",
           toAgent'[s] = toAgent[s], toController'[s] = toController[s], auth'[s] = auth[s],
           pendingCredential'[s] = pendingCredential[s]
    PROVE  SocketInv(s)'
BY DEF SocketInv, Ends, HalfDuplex, ChallengeIsFresh, Challenged, AuthenticatedOnce

(* A socket whose queue to the Agent is emptied, and nothing answered. *)
LEMMA AgentRead ==
    ASSUME NEW s \in Sockets, SocketInv(s), toAgent'[s] = <<>>,
           agentEnd'[s] = agentEnd[s], controllerEnd'[s] = controllerEnd[s], link'[s] = link[s],
           toController'[s] = toController[s], auth'[s] = auth[s],
           pendingCredential'[s] = pendingCredential[s]
    PROVE  SocketInv(s)'
BY DEF SocketInv, Ends, HalfDuplex, Single, ChallengeIsFresh, Challenged, Carries, AuthenticatedOnce

(* What a step owes to the registered sessions when it registers none. *)
LEMMA SessionsKept ==
    ASSUME TypeOK, SessionIsCurrent, connectedAgents' = connectedAgents, auth' = auth,
           \A r \in Rows : \/ status'[r] = status[r]
                           \/ status'[r] = "revoked"
                           \/ status'[r] = "idle" /\ connectedAgents[r] # 0,
           \A s \in Sockets : controllerEnd'[s] = "open" => controllerEnd[s] = "open" \/ auth[s] = 0
    PROVE  SessionIsCurrent'
BY DEF SessionIsCurrent

-----------------------------------------------------------------------------
(* The Agent's loop. *)

(* A socket that nobody uses is dialled. *)
LEMMA DialKeeps ==
    ASSUME LinkInv, Dial
    PROVE  LinkInv'
<1>1. PICK s \in Sockets :
          /\ Free(s)
          /\ agentEnd' = [agentEnd EXCEPT ![s] = "connecting"]
          /\ link' = [link EXCEPT ![s] = IF controllerUrl \in advertised THEN "up" ELSE "down"]
          /\ sock' = s
          /\ state' = [state EXCEPT ![s] = stored]
    BY DEF Dial
<1>2. TypeOK'
  <2>1. sock' \in 0..MaxSockets
      BY <1>1, LinkAssumption DEF Sockets
  <2> QED
      BY <1>1, <2>1 DEF LinkInv, TypeOK, Dial, sessionVars, pairingVars, rowVars
<1>3. \A o \in Sockets : SocketInv(o)'
  <2> SUFFICES ASSUME NEW o \in Sockets PROVE SocketInv(o)'
      OBVIOUS
  <2>1. /\ UNCHANGED <<controllerEnd, toController, toAgent, auth, pendingCredential>>
        /\ SocketInv(o)
      BY DEF Dial, LinkInv, sessionVars
  <2>2. CASE o # s
      BY <1>1, <2>1, <2>2, SocketKept DEF LinkInv, TypeOK
  <2>3. CASE o = s
    <3>1. agentEnd'[o] = "connecting" /\ controllerEnd[o] = "none" /\ agentEnd[o] = "none"
        BY <1>1, <2>3 DEF LinkInv, TypeOK, Free
    <3> QED
        BY <2>1, <3>1 DEF SocketInv, Ends, HalfDuplex, Single, ChallengeIsFresh, Challenged,
                          Carries, AuthenticatedOnce
  <2> QED
      BY <2>2, <2>3
<1>4. SessionIsCurrent'
    BY SessionsKept DEF LinkInv, Dial, sessionVars, rowVars
<1> QED
    BY <1>2, <1>3, <1>4 DEF LinkInv

(* The two ends of a socket open together. *)
LEMMA OpenKeeps ==
    ASSUME LinkInv, NEW s \in Sockets, Open(s)
    PROVE  LinkInv'
<1> DEFINE hello == CredentialFrame("hello", state[s])
<1>1. hello \in Frames /\ hello.type = "hello"
  <2>1. state[s] \in Credentials /\ "hello" \in FrameTypes /\ 0 \in Nat
      BY DEF LinkInv, TypeOK, FrameTypes
  <2> QED
      BY <2>1, FramesBuilt
<1> HIDE DEF hello
<1>2. toController' = [toController EXCEPT ![s] = <<hello>>]
    BY DEF Open, hello
<1>3. toController' \in [Sockets -> Seq(Frames)] /\ toController'[s] = <<hello>>
    BY <1>1, <1>2, SendOne DEF LinkInv, TypeOK
<1>4. TypeOK'
    BY <1>3 DEF LinkInv, TypeOK, Open, addressVars, agentVars, sessionVars, pairingVars, rowVars
<1>5. \A o \in Sockets : SocketInv(o)'
  <2> SUFFICES ASSUME NEW o \in Sockets PROVE SocketInv(o)'
      OBVIOUS
  <2>1. /\ UNCHANGED <<link, toAgent, auth, pendingCredential>>
        /\ SocketInv(o)
      BY DEF Open, LinkInv, sessionVars
  <2>2. CASE o # s
      BY <1>2, <2>1, <2>2, SocketKept DEF LinkInv, TypeOK, Open
  <2>3. CASE o = s
    <3>1. agentEnd'[o] = "open" /\ controllerEnd'[o] = "open"
        BY <2>3 DEF LinkInv, TypeOK, Open
    <3>2. toAgent[o] = <<>> /\ auth[o] = 0
        BY <2>1, <2>3 DEF SocketInv, Ends, Open
    <3>3. <<hello>> # <<>> /\ Head(<<hello>>) = hello /\ Single(<<hello>>) /\ Single(<<>>)
        BY <1>1, SendOne
    <3>4. Ends(o)'
        BY <2>1, <3>1, <3>2 DEF Ends
    <3>5. HalfDuplex(o)'
        BY <1>3, <2>1, <2>3, <3>2, <3>3 DEF HalfDuplex
    <3>6. ChallengeIsFresh(o)'
        BY <1>1, <1>3, <2>1, <2>3, <3>2, <3>3 DEF ChallengeIsFresh, Challenged, Carries
    <3> QED
        BY <2>1, <3>2, <3>4, <3>5, <3>6 DEF SocketInv, AuthenticatedOnce
  <2> QED
      BY <2>2, <2>3
<1>6. SessionIsCurrent'
  <2>1. auth[s] = 0 /\ controllerEnd' = [controllerEnd EXCEPT ![s] = "open"]
      BY DEF LinkInv, SocketInv, Ends, Open
  <2>2. \A o \in Sockets : controllerEnd'[o] = "open" => controllerEnd[o] = "open" \/ auth[o] = 0
      BY <2>1 DEF LinkInv, TypeOK
  <2> QED
      BY <2>2, SessionsKept DEF LinkInv, Open, sessionVars, rowVars
<1> QED
    BY <1>4, <1>5, <1>6 DEF LinkInv

(* A step that only takes sockets down, from either side, and leaves sessions as
   they are. *)
LEMMA DownKeeps ==
    ASSUME LinkInv, TypeOK',
           UNCHANGED <<toAgent, toController, sessionVars, status>>,
           \A s \in Sockets :
              \/ /\ link'[s] = link[s] /\ agentEnd'[s] = agentEnd[s]
                 /\ controllerEnd'[s] = controllerEnd[s]
              \/ /\ link'[s] = "down"
                 /\ agentEnd'[s] \in {agentEnd[s], "closing"}
                 /\ \/ controllerEnd'[s] = controllerEnd[s]
                    \/ controllerEnd[s] # "none" /\ controllerEnd'[s] = "terminated"
    PROVE  LinkInv'
<1>1. \A s \in Sockets : SocketInv(s)'
  <2> SUFFICES ASSUME NEW s \in Sockets PROVE SocketInv(s)'
      OBVIOUS
  <2>1. UNCHANGED <<toAgent, toController, auth, pendingCredential>> /\ SocketInv(s)
      BY DEF LinkInv, sessionVars
  <2> QED
      BY <2>1, SocketKept, SocketDown
<1>2. SessionIsCurrent'
    BY SessionsKept DEF LinkInv, sessionVars
<1> QED
    BY <1>1, <1>2 DEF LinkInv

(* The pause is over. *)
LEMMA WakeUpKeeps ==
    ASSUME LinkInv, WakeUp
    PROVE  LinkInv'
<1>1. TypeOK'
  <2>1. serving' = 0 /\ 0 \in 0..MaxSockets
      BY LinkAssumption DEF WakeUp, CloseSocket
  <2> QED
      BY <2>1 DEF LinkInv, TypeOK, WakeUp, CloseSocket, addressVars, sessionVars, pairingVars, rowVars
<1>3. \A o \in Sockets :
          \/ /\ link'[o] = link[o] /\ agentEnd'[o] = agentEnd[o]
             /\ controllerEnd'[o] = controllerEnd[o]
          \/ /\ link'[o] = "down"
             /\ agentEnd'[o] \in {agentEnd[o], "closing"}
             /\ \/ controllerEnd'[o] = controllerEnd[o]
                \/ controllerEnd[o] # "none" /\ controllerEnd'[o] = "terminated"
    BY DEF LinkInv, TypeOK, WakeUp, CloseSocket
<1> QED
    BY <1>1, <1>3, DownKeeps DEF WakeUp, rowVars

(* The Controller is found at another address. *)
LEMMA RefreshKeeps ==
    ASSUME LinkInv, RefreshControllerLocation
    PROVE  LinkInv'
<1>1. PICK url \in RelocatedControllerUrls :
          /\ controllerUrl' = url
          /\ DropIfOpenToOtherUrl(url)
          /\ UNCHANGED <<pc, sock, stored, state, boot, connectedUrl, advertised,
                         controllerEnd, toController, toAgent, sessionVars, pairingVars,
                         rowVars, faults>>
    BY DEF RefreshControllerLocation
<1>2. TypeOK'
  <2>1. controllerUrl' \in Hosts
      BY <1>1 DEF LinkInv, TypeOK, RelocatedControllerUrls
  <2>2. serving' \in 0..MaxSockets
      BY <1>1, LinkAssumption DEF LinkInv, TypeOK, DropIfOpenToOtherUrl, CloseSocket
  <2> QED
      BY <1>1, <2>1, <2>2 DEF LinkInv, TypeOK, DropIfOpenToOtherUrl, CloseSocket, sessionVars,
                              pairingVars, rowVars
<1>3. \A o \in Sockets :
          /\ \/ link'[o] = link[o] /\ agentEnd'[o] = agentEnd[o]
             \/ link'[o] = "down" /\ agentEnd'[o] \in {agentEnd[o], "closing"}
          /\ controllerEnd'[o] = controllerEnd[o]
    BY <1>1 DEF LinkInv, TypeOK, DropIfOpenToOtherUrl, CloseSocket
<1>4. UNCHANGED <<toAgent, toController, sessionVars, status>>
    BY <1>1 DEF rowVars
<1> QED
    BY <1>2, <1>3, <1>4, DownKeeps

(* The Controller's host moves. *)
LEMMA MoveKeeps ==
    ASSUME LinkInv, MoveController
    PROVE  LinkInv'
<1>1. \A s \in Sockets : link'[s] \in {link[s], "down"}
    BY DEF MoveController
<1>2. link' \in [Sockets -> {"up", "down"}] /\ advertised' \in (SUBSET Hosts) \ {{}}
    BY DEF MoveController, LinkInv, TypeOK
<1>3. TypeOK'
    BY <1>2 DEF LinkInv, TypeOK, MoveController, Fault, agentVars, sessionVars, pairingVars, rowVars
<1> QED
    BY <1>1, <1>3, DownKeeps DEF MoveController, rowVars

(* A connection is cut. *)
LEMMA CutKeeps ==
    ASSUME LinkInv, NEW s \in Sockets, Cut(s)
    PROVE  LinkInv'
<1>1. TypeOK'
    BY DEF LinkInv, TypeOK, Cut, Fault, agentVars, addressVars, sessionVars, pairingVars, rowVars
<1>3. \A o \in Sockets :
          \/ /\ link'[o] = link[o] /\ agentEnd'[o] = agentEnd[o]
             /\ controllerEnd'[o] = controllerEnd[o]
          \/ /\ link'[o] = "down"
             /\ agentEnd'[o] \in {agentEnd[o], "closing"}
             /\ \/ controllerEnd'[o] = controllerEnd[o]
                \/ controllerEnd[o] # "none" /\ controllerEnd'[o] = "terminated"
    BY DEF LinkInv, TypeOK, Cut
<1> QED
    BY <1>1, <1>3, DownKeeps DEF Cut, rowVars

(* A session whose heartbeats stopped is terminated. *)
LEMMA CheckKeeps ==
    ASSUME LinkInv, NEW r \in Rows, CheckHeartbeats(r)
    PROVE  LinkInv'
<1>1. connectedAgents[r] \in Sockets
    BY LinkAssumption DEF CheckHeartbeats, LinkInv, TypeOK, Sockets
<1>2. TypeOK'
    BY <1>1 DEF LinkInv, TypeOK, CheckHeartbeats, Terminate, agentVars, addressVars, sessionVars,
                pairingVars, rowVars
<1>3. \A o \in Sockets :
          \/ /\ link'[o] = link[o] /\ agentEnd'[o] = agentEnd[o]
             /\ controllerEnd'[o] = controllerEnd[o]
          \/ /\ link'[o] = "down"
             /\ agentEnd'[o] \in {agentEnd[o], "closing"}
             /\ \/ controllerEnd'[o] = controllerEnd[o]
                \/ controllerEnd[o] # "none" /\ controllerEnd'[o] = "terminated"
    BY <1>1 DEF LinkInv, TypeOK, CheckHeartbeats, Terminate
<1> QED
    BY <1>2, <1>3, DownKeeps DEF CheckHeartbeats, rowVars

(* The Agent sees the close of a socket. *)
LEMMA AgentSeesCloseKeeps ==
    ASSUME LinkInv, NEW s \in Sockets, AgentSeesClose(s)
    PROVE  LinkInv'
<1>1. <<>> \in Seq(Frames) /\ NoCredential \in Credentials /\ 0 \in 0..MaxSockets
    BY LinkAssumption DEF Credentials
<1>2. TypeOK'
  <2>1. pc' \in {"top", "connecting", "session", "pausing"}
      BY DEF AgentSeesClose, LinkInv, TypeOK
  <2>2. toAgent' \in [Sockets -> Seq(Frames)]
      BY <1>1 DEF AgentSeesClose, LinkInv, TypeOK
  <2>3. state' \in [Sockets -> Credentials]
      BY <1>1 DEF AgentSeesClose, LinkInv, TypeOK
  <2>4. sock' \in 0..MaxSockets
      BY <1>1 DEF AgentSeesClose, LinkInv, TypeOK
  <2>5. agentEnd' \in [Sockets -> {"none", "connecting", "open", "closing"}]
      BY DEF AgentSeesClose, LinkInv, TypeOK
  <2> QED
      BY <1>1, <2>1, <2>2, <2>3, <2>4, <2>5
         DEF AgentSeesClose, LinkInv, TypeOK, addressVars, sessionVars, pairingVars, rowVars
<1>3. \A o \in Sockets : SocketInv(o)'
  <2> SUFFICES ASSUME NEW o \in Sockets PROVE SocketInv(o)'
      OBVIOUS
  <2>1. UNCHANGED <<controllerEnd, link, toController, auth, pendingCredential>> /\ SocketInv(o)
      BY DEF AgentSeesClose, LinkInv, sessionVars
  <2>2. CASE o # s
      BY <2>1, <2>2, SocketKept DEF LinkInv, TypeOK, AgentSeesClose
  <2>3. CASE o = s
    <3>1. agentEnd'[o] = "none" /\ toAgent'[o] = <<>> /\ link[o] = "down"
        BY <2>3 DEF LinkInv, TypeOK, AgentSeesClose
    <3> QED
        BY <2>1, <3>1 DEF SocketInv, Ends, HalfDuplex, Single, ChallengeIsFresh, Challenged, Carries,
                          AuthenticatedOnce
  <2> QED
      BY <2>2, <2>3
<1>4. SessionIsCurrent'
    BY SessionsKept DEF LinkInv, AgentSeesClose, sessionVars, rowVars
<1> QED
    BY <1>2, <1>3, <1>4 DEF LinkInv

-----------------------------------------------------------------------------
(* The Agent's side of the handshake. *)

(* An answer of the Agent keeps the invariant when a challenge is only answered
   after a challenge, and "authenticated" by the capabilities. *)
LEMMA AnswerKeeps ==
    ASSUME LinkInv, TypeOK', NEW s \in Sockets, NEW m \in Frames,
           agentEnd[s] \in {"open", "closing"}, toAgent[s] # <<>>, AgentAnswers(s, m),
           m.type = "challenge_response" => Head(toAgent[s]).type = "pairing_challenge",
           Head(toAgent[s]).type = "authenticated" => m.type = "capabilities",
           UNCHANGED <<sessionVars, status>>
    PROVE  LinkInv'
<1>1. /\ toAgent'[s] = <<>>
      /\ toController'[s] = IF link[s] = "up" THEN <<m>> ELSE <<>>
      /\ \A o \in Sockets \ {s} : toAgent'[o] = toAgent[o] /\ toController'[o] = toController[o]
      /\ agentEnd' = agentEnd /\ controllerEnd' = controllerEnd /\ link' = link
    BY AgentAnswered DEF LinkInv, SocketInv
<1>2. \A o \in Sockets : SocketInv(o)'
  <2> SUFFICES ASSUME NEW o \in Sockets PROVE SocketInv(o)'
      OBVIOUS
  <2>1. UNCHANGED <<auth, pendingCredential>> /\ SocketInv(o)
      BY DEF LinkInv, sessionVars
  <2>2. CASE o # s
      BY <1>1, <2>1, <2>2, SocketKept
  <2>3. CASE o = s
    <3>1. <<m>> # <<>> /\ Head(<<m>>) = m /\ Single(<<m>>) /\ Single(<<>>)
        BY SendOne
    <3>2. Ends(s)'
        BY <1>1, <2>1, <2>3 DEF SocketInv, Ends
    <3>3. HalfDuplex(s)'
        BY <1>1, <3>1 DEF HalfDuplex
    <3>4. ChallengeIsFresh(s)'
        BY <1>1, <2>1, <2>3, <3>1 DEF SocketInv, ChallengeIsFresh, Challenged, Carries
    <3>5. AuthenticatedOnce(s)'
        BY <1>1, <2>1, <2>3, <3>1 DEF SocketInv, AuthenticatedOnce
    <3> QED
        BY <2>3, <3>2, <3>3, <3>4, <3>5 DEF SocketInv
  <2> QED
      BY <2>2, <2>3
<1>3. SessionIsCurrent'
    BY <1>1, SessionsKept DEF LinkInv, sessionVars
<1> QED
    BY <1>2, <1>3 DEF LinkInv

(* What an answer does to the types. *)
LEMMA AnswerTypes ==
    ASSUME LinkInv, NEW s \in Sockets, NEW m \in Frames, toAgent[s] # <<>>, AgentAnswers(s, m)
    PROVE  /\ agentEnd' \in [Sockets -> {"none", "connecting", "open", "closing"}]
           /\ controllerEnd' \in [Sockets -> {"none", "open", "terminated"}]
           /\ link' \in [Sockets -> {"up", "down"}]
           /\ toController' \in [Sockets -> Seq(Frames)] /\ toAgent' \in [Sockets -> Seq(Frames)]
<1>1. HalfDuplex(s) /\ TypeOK
    BY DEF LinkInv, SocketInv
<1>2. /\ toAgent' \in [Sockets -> Seq(Frames)] /\ toController' \in [Sockets -> Seq(Frames)]
      /\ agentEnd' = agentEnd /\ controllerEnd' = controllerEnd /\ link' = link
    BY <1>1, AgentAnswered
<1> QED
    BY <1>1, <1>2 DEF TypeOK

(* The frame at the head of a queue. *)
LEMMA HeadsAreFrames ==
    ASSUME LinkInv, NEW s \in Sockets
    PROVE  /\ toAgent[s] # <<>> => Head(toAgent[s]) \in Frames
           /\ toController[s] # <<>> => Head(toController[s]) \in Frames
<1>1. toAgent[s] \in Seq(Frames) /\ toController[s] \in Seq(Frames) /\ HalfDuplex(s)
    BY DEF LinkInv, TypeOK, SocketInv
<1> QED
    BY <1>1, ReadOne DEF HalfDuplex

(* The Agent answers the challenge, asks to be paired, or pauses until it is
   approved. *)
LEMMA AskingKeeps ==
    ASSUME LinkInv, NEW s \in Sockets,
           AnswerChallenge(s) \/ AckUnauthenticated(s) \/ AckPairingPending(s)
    PROVE  LinkInv'
<1>1. CASE AnswerChallenge(s)
  <2> DEFINE m == Frame("challenge_response")
  <2>1. m \in Frames /\ m.type = "challenge_response"
    <3>1. NoCredential \in Credentials /\ "challenge_response" \in FrameTypes /\ 0 \in Nat
        BY DEF Credentials, FrameTypes
    <3> QED
        BY <3>1, FramesBuilt
  <2>2. /\ AgentAnswers(s, m) /\ toAgent[s] # <<>> /\ Head(toAgent[s]).type = "pairing_challenge"
        /\ agentEnd[s] \in {"open", "closing"}
        /\ UNCHANGED <<addressVars, agentVars, sessionVars, pairingVars, rowVars, faults>>
      BY <1>1 DEF AnswerChallenge, FromController
  <2> HIDE DEF m
  <2>3. TypeOK'
      BY <2>1, <2>2, AnswerTypes
         DEF LinkInv, TypeOK, addressVars, agentVars, sessionVars, pairingVars, rowVars
  <2>4. UNCHANGED <<sessionVars, status>>
      BY <2>2 DEF rowVars
  <2> QED
      BY <2>1, <2>2, <2>3, <2>4, AnswerKeeps
<1>2. CASE AckUnauthenticated(s)
  <2> DEFINE m == Frame("pairing_request")
  <2>1. m \in Frames /\ m.type = "pairing_request"
    <3>1. NoCredential \in Credentials /\ "pairing_request" \in FrameTypes /\ 0 \in Nat
        BY DEF Credentials, FrameTypes
    <3> QED
        BY <3>1, FramesBuilt
  <2>2. /\ AgentAnswers(s, m) /\ toAgent[s] # <<>> /\ Head(toAgent[s]).type = "unauthenticated"
        /\ agentEnd[s] \in {"open", "closing"}
        /\ UNCHANGED <<addressVars, agentVars, sessionVars, pairingVars, rowVars, faults>>
      BY <1>2 DEF AckUnauthenticated, FromController
  <2> HIDE DEF m
  <2>3. TypeOK'
      BY <2>1, <2>2, AnswerTypes
         DEF LinkInv, TypeOK, addressVars, agentVars, sessionVars, pairingVars, rowVars
  <2>4. UNCHANGED <<sessionVars, status>>
      BY <2>2 DEF rowVars
  <2> QED
      BY <2>1, <2>2, <2>3, <2>4, AnswerKeeps
<1>3. CASE AckPairingPending(s)
  <2>1. toAgent[s] \in Seq(Frames) /\ toAgent[s] # <<>> /\ Single(toAgent[s])
      BY <1>3 DEF AckPairingPending, FromController, LinkInv, TypeOK, SocketInv, HalfDuplex
  <2>2. Tail(toAgent[s]) = <<>> /\ <<>> \in Seq(Frames)
      BY <2>1, ReadOne
  <2>3. toAgent' = [toAgent EXCEPT ![s] = <<>>]
      BY <1>3, <2>2 DEF AckPairingPending, AgentReads, LinkInv, TypeOK
  <2>4. toAgent' \in [Sockets -> Seq(Frames)] /\ toAgent'[s] = <<>>
        /\ \A o \in Sockets \ {s} : toAgent'[o] = toAgent[o]
      BY <2>2, <2>3 DEF LinkInv, TypeOK
  <2>5. TypeOK'
      BY <1>3, <2>4 DEF AckPairingPending, LinkInv, TypeOK, addressVars, sessionVars, pairingVars,
                        rowVars
  <2>6. UNCHANGED <<agentEnd, controllerEnd, link, toController, sessionVars, status>>
      BY <1>3 DEF AckPairingPending, rowVars
  <2>7. \A o \in Sockets : SocketInv(o)'
      BY <2>4, <2>6, SocketKept, AgentRead DEF LinkInv, sessionVars
  <2>8. SessionIsCurrent'
      BY <2>6, SessionsKept DEF LinkInv, sessionVars
  <2> QED
      BY <2>5, <2>7, <2>8 DEF LinkInv
<1> QED
    BY <1>1, <1>2, <1>3

(* A credential arrives. *)
LEMMA ApprovedKeeps ==
    ASSUME LinkInv, NEW s \in Sockets, AckPairingApproved(s)
    PROVE  LinkInv'
<1> DEFINE c == Head(toAgent[s]).credential
           m == CredentialFrame("hello", c)
<1>1. toAgent[s] # <<>> /\ Head(toAgent[s]).type = "pairing_approved" /\ agentEnd[s] \in {"open", "closing"}
    BY DEF AckPairingApproved, FromController
<1>2. c \in Credentials
    BY <1>1, HeadsAreFrames DEF Frames
<1>3. stored' = c /\ state' = [state EXCEPT ![s] = c] /\ AgentAnswers(s, m)
    BY DEF AckPairingApproved
<1>4. m \in Frames /\ m.type = "hello"
  <2>1. "hello" \in FrameTypes /\ 0 \in Nat
      BY DEF FrameTypes
  <2> QED
      BY <1>2, <2>1, FramesBuilt
<1> HIDE DEF m, c
<1>5. stored' \in Credentials /\ state' \in [Sockets -> Credentials]
    BY <1>2, <1>3 DEF LinkInv, TypeOK
<1>6. TypeOK'
    BY <1>1, <1>3, <1>4, <1>5, AnswerTypes
       DEF AckPairingApproved, LinkInv, TypeOK, addressVars, sessionVars, pairingVars, rowVars
<1>7. UNCHANGED <<sessionVars, status>>
    BY DEF AckPairingApproved, rowVars
<1> QED
    BY <1>1, <1>3, <1>4, <1>6, <1>7, AnswerKeeps

(* The session begins. *)
LEMMA AuthenticatedKeeps ==
    ASSUME LinkInv, NEW s \in Sockets, AckAuthenticated(s)
    PROVE  LinkInv'
<1> DEFINE m == [Frame("capabilities") EXCEPT !.boot = boot]
<1>1. toAgent[s] # <<>> /\ agentEnd[s] \in {"open", "closing"} /\ AgentAnswers(s, m)
    BY DEF AckAuthenticated, FromController
<1>2. m \in Frames /\ m.type = "capabilities"
  <2>1. "capabilities" \in FrameTypes /\ boot \in Nat /\ NoCredential \in Credentials
      BY DEF FrameTypes, LinkInv, TypeOK, Credentials
  <2> QED
      BY <2>1, FramesBuilt
<1> HIDE DEF m
<1>3. /\ pc' \in {"top", "connecting", "session", "pausing"}
      /\ sock' \in 0..MaxSockets /\ serving' \in 0..MaxSockets
    BY LinkAssumption DEF AckAuthenticated, LinkInv, TypeOK, Sockets
<1>4. stored' \in Credentials
    BY DEF AckAuthenticated, LinkInv, TypeOK
<1>5. TypeOK'
    BY <1>1, <1>2, <1>3, <1>4, AnswerTypes
       DEF AckAuthenticated, LinkInv, TypeOK, addressVars, sessionVars, pairingVars, rowVars
<1>6. UNCHANGED <<sessionVars, status>>
    BY DEF AckAuthenticated, rowVars
<1> QED
    BY <1>1, <1>2, <1>5, <1>6, AnswerKeeps

(* The credential is refused. *)
LEMMA RejectedKeeps ==
    ASSUME LinkInv, NEW s \in Sockets, AckRejected(s)
    PROVE  LinkInv'
<1> DEFINE m == Frame("pairing_request")
<1>1. /\ toAgent[s] # <<>> /\ agentEnd[s] \in {"open", "closing"} /\ AgentAnswers(s, m)
      /\ Head(toAgent[s]).type = "rejected"
    BY DEF AckRejected, FromController
<1>2. NoCredential \in Credentials
    BY DEF Credentials
<1>3. m \in Frames /\ m.type = "pairing_request"
  <2>1. "pairing_request" \in FrameTypes /\ 0 \in Nat
      BY DEF FrameTypes
  <2> QED
      BY <1>2, <2>1, FramesBuilt
<1> HIDE DEF m
<1>4. stored' \in Credentials /\ state' \in [Sockets -> Credentials]
    BY <1>2 DEF AckRejected, LinkInv, TypeOK
<1>5. TypeOK'
    BY <1>1, <1>3, <1>4, AnswerTypes
       DEF AckRejected, LinkInv, TypeOK, addressVars, sessionVars, pairingVars, rowVars
<1>6. UNCHANGED <<sessionVars, status>>
    BY DEF AckRejected, rowVars
<1> QED
    BY <1>1, <1>3, <1>5, <1>6, AnswerKeeps

-----------------------------------------------------------------------------
(* The Controller's side of the handshake. *)

(* An answer of the Controller to a connection that is not authenticated; only a
   challenge needs the credential that it is about. *)
LEMMA ReplyKeeps ==
    ASSUME LinkInv, TypeOK', NEW s \in Sockets, NEW m \in Frames,
           controllerEnd[s] = "open", toController[s] # <<>>, ControllerAnswers(s, m),
           Head(toController[s]).type # "capabilities",
           m.type = "pairing_challenge" => pendingCredential'[s] \in Rows \X Nat,
           \A o \in Sockets \ {s} : pendingCredential'[o] = pendingCredential[o],
           UNCHANGED <<auth, connectedAgents, status>>
    PROVE  LinkInv'
<1>1. /\ toController'[s] = <<>>
      /\ toAgent'[s] = IF link[s] = "up" THEN <<m>> ELSE <<>>
      /\ \A o \in Sockets \ {s} : toAgent'[o] = toAgent[o] /\ toController'[o] = toController[o]
      /\ agentEnd' = agentEnd /\ controllerEnd' = controllerEnd /\ link' = link
    BY ControllerAnswered DEF LinkInv, SocketInv, ControllerAnswers
<1>2. \A o \in Sockets : SocketInv(o)'
  <2> SUFFICES ASSUME NEW o \in Sockets PROVE SocketInv(o)'
      OBVIOUS
  <2>1. UNCHANGED auth /\ SocketInv(o)
      BY DEF LinkInv
  <2>2. CASE o # s
      BY <1>1, <2>1, <2>2, SocketKept
  <2>3. CASE o = s
    <3>1. <<m>> # <<>> /\ Head(<<m>>) = m /\ Single(<<m>>) /\ Single(<<>>)
        BY SendOne
    <3>2. auth[s] = 0
        BY <2>1, <2>3 DEF SocketInv, AuthenticatedOnce
    <3>3. Ends(s)'
        BY <1>1, <2>1, <2>3 DEF SocketInv, Ends
    <3>4. HalfDuplex(s)'
        BY <1>1, <3>1 DEF HalfDuplex
    <3>5. ChallengeIsFresh(s)'
        BY <1>1, <2>1, <3>1, <3>2 DEF ChallengeIsFresh, Challenged, Carries
    <3> QED
        BY <2>1, <2>3, <3>2, <3>3, <3>4, <3>5 DEF SocketInv, AuthenticatedOnce
  <2> QED
      BY <2>2, <2>3
<1>3. SessionIsCurrent'
    BY <1>1, SessionsKept DEF LinkInv
<1> QED
    BY <1>2, <1>3 DEF LinkInv

(* What an answer does to the types. *)
LEMMA ReplyTypes ==
    ASSUME LinkInv, NEW s \in Sockets, NEW m \in Frames, toController[s] # <<>>,
           ControllerAnswers(s, m)
    PROVE  /\ agentEnd' \in [Sockets -> {"none", "connecting", "open", "closing"}]
           /\ controllerEnd' \in [Sockets -> {"none", "open", "terminated"}]
           /\ link' \in [Sockets -> {"up", "down"}]
           /\ toController' \in [Sockets -> Seq(Frames)] /\ toAgent' \in [Sockets -> Seq(Frames)]
<1>1. HalfDuplex(s) /\ TypeOK
    BY DEF LinkInv, SocketInv
<1>2. /\ toAgent' \in [Sockets -> Seq(Frames)] /\ toController' \in [Sockets -> Seq(Frames)]
      /\ agentEnd' = agentEnd /\ controllerEnd' = controllerEnd /\ link' = link
    BY <1>1, ControllerAnswered DEF ControllerAnswers
<1> QED
    BY <1>1, <1>2 DEF TypeOK

(* A hello is challenged when it names a credential. *)
LEMMA HelloKeeps ==
    ASSUME LinkInv, NEW s \in Sockets, HandleHello(s)
    PROVE  LinkInv'
<1>1. PICK c : c = Head(toController[s]).credential
    OBVIOUS
<1>2. PICK t : t = IF c = NoCredential THEN "unauthenticated" ELSE "pairing_challenge"
    OBVIOUS
<1>3. PICK m : m = Frame(t)
    OBVIOUS
<1>4. /\ toController[s] # <<>> /\ Head(toController[s]).type = "hello" /\ controllerEnd[s] = "open"
      /\ pendingCredential' = [pendingCredential EXCEPT ![s] = IF c = NoCredential THEN @ ELSE c]
      /\ ControllerAnswers(s, m)
      /\ UNCHANGED <<addressVars, agentVars, auth, connectedAgents, pairingVars, rowVars, faults>>
    BY <1>1, <1>2, <1>3 DEF HandleHello, FromAgent
<1>5. c \in Credentials
    BY <1>1, <1>4, HeadsAreFrames DEF Frames
<1>6. m \in Frames /\ m.type = t
  <2>1. t \in FrameTypes /\ 0 \in Nat
      BY <1>2 DEF FrameTypes
  <2> QED
      BY <1>3, <1>5, <2>1, FramesBuilt
<1>7. pendingCredential' \in [Sockets -> Credentials]
    BY <1>4, <1>5 DEF LinkInv, TypeOK
<1>8. m.type = "pairing_challenge" => pendingCredential'[s] \in Rows \X Nat
  <2>1. c # NoCredential => pendingCredential'[s] = c
      BY <1>4 DEF LinkInv, TypeOK
  <2> QED
      BY <1>2, <1>5, <1>6, <2>1, CredentialNamesRow
<1>9. \A o \in Sockets \ {s} : pendingCredential'[o] = pendingCredential[o]
    BY <1>4 DEF LinkInv, TypeOK
<1>10. TypeOK'
    BY <1>4, <1>6, <1>7, ReplyTypes
       DEF LinkInv, TypeOK, addressVars, agentVars, pairingVars, rowVars
<1>11. UNCHANGED <<auth, connectedAgents, status>>
    BY <1>4 DEF rowVars
<1> QED
    BY <1>4, <1>6, <1>8, <1>9, <1>10, <1>11, ReplyKeeps

(* A credential that does not verify. *)
LEMMA RefuseKeeps ==
    ASSUME LinkInv, NEW s \in Sockets, RefuseCredential(s)
    PROVE  LinkInv'
<1>1. PICK m : m = Frame("rejected")
    OBVIOUS
<1>2. NoCredential \in Credentials
    BY DEF Credentials
<1>3. m \in Frames /\ m.type = "rejected"
  <2>1. "rejected" \in FrameTypes /\ 0 \in Nat
      BY DEF FrameTypes
  <2> QED
      BY <1>1, <1>2, <2>1, FramesBuilt
<1>4. /\ toController[s] # <<>> /\ Head(toController[s]).type = "challenge_response"
      /\ controllerEnd[s] = "open" /\ ControllerAnswers(s, m)
      /\ pendingCredential' = [pendingCredential EXCEPT ![s] = NoCredential]
      /\ UNCHANGED <<addressVars, agentVars, auth, connectedAgents, pairingVars, rowVars, faults>>
    BY <1>1 DEF RefuseCredential, FromAgent
<1>5. /\ pendingCredential' \in [Sockets -> Credentials]
      /\ \A o \in Sockets \ {s} : pendingCredential'[o] = pendingCredential[o]
    BY <1>2, <1>4 DEF LinkInv, TypeOK
<1>6. TypeOK'
    BY <1>3, <1>4, <1>5, ReplyTypes
       DEF LinkInv, TypeOK, addressVars, agentVars, pairingVars, rowVars
<1>7. UNCHANGED <<auth, connectedAgents, status>>
    BY <1>4 DEF rowVars
<1> QED
    BY <1>3, <1>4, <1>5, <1>6, <1>7, ReplyKeeps

(* The claim of an approved request. *)
LEMMA ClaimKeeps ==
    ASSUME LinkInv, NEW s \in Sockets, ClaimApprovedPairing(s)
    PROVE  LinkInv'
<1>1. PICK r \in Rows :
          /\ IssueAgentCredential(r)
          /\ request' = [request EXCEPT ![r] = "claimed"]
          /\ ControllerAnswers(s, CredentialFrame("pairing_approved", <<r, version'[r]>>))
    BY DEF ClaimApprovedPairing
<1>2. version' \in [Rows -> Nat]
    BY <1>1 DEF IssueAgentCredential, LinkInv, TypeOK
<1>3. PICK c \in Credentials : c = <<r, version'[r]>>
    BY <1>2, RowCredential
<1>4. PICK m : m = CredentialFrame("pairing_approved", c)
    OBVIOUS
<1>5. m \in Frames /\ m.type = "pairing_approved"
  <2>1. "pairing_approved" \in FrameTypes /\ 0 \in Nat
      BY DEF FrameTypes
  <2> QED
      BY <1>4, <2>1, FramesBuilt
<1>6. /\ toController[s] # <<>> /\ Head(toController[s]).type = "pairing_request"
      /\ controllerEnd[s] = "open" /\ ControllerAnswers(s, m)
      /\ UNCHANGED <<addressVars, agentVars, sessionVars, stale, revoked, status, lastBoot, faults>>
    BY <1>1, <1>3, <1>4 DEF ClaimApprovedPairing, PairingRequested, FromAgent
<1>7. request' \in [Rows -> {"none", "pending", "approved", "claimed", "rejected", "expired"}]
    BY <1>1 DEF LinkInv, TypeOK
<1>8. TypeOK'
    BY <1>2, <1>5, <1>6, <1>7, ReplyTypes DEF LinkInv, TypeOK, addressVars, agentVars, sessionVars
<1>9. UNCHANGED <<auth, connectedAgents, status, pendingCredential>>
    BY <1>6 DEF sessionVars
<1> QED
    BY <1>5, <1>6, <1>8, <1>9, ReplyKeeps

(* Requests past their time are marked expired. *)
LEMMA SweptTyped ==
    ASSUME LinkInv
    PROVE  ExpireStalePairingRequests
              \in [Rows -> {"none", "pending", "approved", "claimed", "rejected", "expired"}]
BY DEF LinkInv, TypeOK, ExpireStalePairingRequests

(* A request is made, or an existing one used again. *)
LEMMA CreateKeeps ==
    ASSUME LinkInv, NEW s \in Sockets, CreatePairingRequest(s)
    PROVE  LinkInv'
<1>1. PICK m : m = Frame("pairing_pending")
    OBVIOUS
<1>2. m \in Frames /\ m.type = "pairing_pending"
  <2>1. "pairing_pending" \in FrameTypes /\ 0 \in Nat /\ NoCredential \in Credentials
      BY DEF FrameTypes, Credentials
  <2> QED
      BY <1>1, <2>1, FramesBuilt
<1>3. /\ toController[s] # <<>> /\ Head(toController[s]).type = "pairing_request"
      /\ controllerEnd[s] = "open" /\ ControllerAnswers(s, m)
      /\ UNCHANGED <<addressVars, agentVars, sessionVars, stale, rowVars, faults>>
    BY <1>1 DEF CreatePairingRequest, PairingRequested, FromAgent
<1>4. request' \in [Rows -> {"none", "pending", "approved", "claimed", "rejected", "expired"}]
  <2>1. PICK swept : swept = ExpireStalePairingRequests
      OBVIOUS
  <2>2. swept \in [Rows -> {"none", "pending", "approved", "claimed", "rejected", "expired"}]
      BY <2>1, SweptTyped
  <2>3. request' = swept \/ \E r \in Rows : request' = [swept EXCEPT ![r] = "pending"]
      BY <2>1 DEF CreatePairingRequest
  <2> QED
      BY <2>2, <2>3
<1>5. TypeOK'
    BY <1>2, <1>3, <1>4, ReplyTypes
       DEF LinkInv, TypeOK, addressVars, agentVars, sessionVars, rowVars
<1>6. UNCHANGED <<auth, connectedAgents, status, pendingCredential>>
    BY <1>3 DEF sessionVars, rowVars
<1> QED
    BY <1>2, <1>3, <1>5, <1>6, ReplyKeeps

(* A frame of the Agent that is read and not answered. *)
LEMMA ReadKeeps ==
    ASSUME LinkInv, NEW s \in Sockets, HandleCapabilities(s) \/ ClaimThrows(s)
    PROVE  LinkInv'
<1>1. /\ toController[s] # <<>> /\ controllerEnd[s] = "open" /\ ControllerReads(s)
      /\ UNCHANGED <<addressVars, agentVars, agentEnd, controllerEnd, link, toAgent,
                     sessionVars, pairingVars, version, revoked, status, faults>>
    BY DEF HandleCapabilities, ClaimThrows, PairingRequested, FromAgent, rowVars
<1>2. toController[s] \in Seq(Frames) /\ Single(toController[s])
    BY DEF LinkInv, TypeOK, SocketInv, HalfDuplex
<1>3. Tail(toController[s]) = <<>> /\ <<>> \in Seq(Frames) /\ Head(toController[s]) \in Frames
    BY <1>1, <1>2, ReadOne
<1>4. toController' = [toController EXCEPT ![s] = <<>>]
    BY <1>1, <1>3 DEF ControllerReads, LinkInv, TypeOK
<1>5. /\ toController' \in [Sockets -> Seq(Frames)] /\ toController'[s] = <<>>
      /\ \A o \in Sockets \ {s} : toController'[o] = toController[o]
    BY <1>3, <1>4 DEF LinkInv, TypeOK
<1>6. lastBoot' \in [Rows -> Nat]
  <2>1. Head(toController[s]).boot \in Nat
      BY <1>3 DEF Frames
  <2>2. auth[s] # 0 => auth[s] \in Rows
      BY LinkAssumption DEF LinkInv, TypeOK, Rows
  <2> QED
      BY <2>1, <2>2 DEF HandleCapabilities, ClaimThrows, UpdateAgentCapabilities, LinkInv, TypeOK, rowVars
<1>7. TypeOK'
    BY <1>1, <1>5, <1>6 DEF LinkInv, TypeOK, addressVars, agentVars, sessionVars, pairingVars
<1>8. \A o \in Sockets : SocketInv(o)'
  <2> SUFFICES ASSUME NEW o \in Sockets PROVE SocketInv(o)'
      OBVIOUS
  <2>1. UNCHANGED <<agentEnd, controllerEnd, link, toAgent, auth, pendingCredential>> /\ SocketInv(o)
      BY <1>1 DEF LinkInv, sessionVars
  <2>2. CASE o # s
      BY <1>5, <2>1, <2>2, SocketKept
  <2>3. CASE o = s
      BY <1>5, <2>1, <2>3 DEF SocketInv, Ends, HalfDuplex, Single, ChallengeIsFresh, Challenged,
                              Carries, AuthenticatedOnce
  <2> QED
      BY <2>2, <2>3
<1>9. SessionIsCurrent'
    BY <1>1, SessionsKept DEF LinkInv, sessionVars
<1> QED
    BY <1>7, <1>8, <1>9 DEF LinkInv

(* The credential verifies: the new session is registered and the previous socket
   terminated.  This connection was not authenticated before, so that it cannot be
   the previous one. *)
LEMMA AuthenticateKeeps ==
    ASSUME LinkInv, NEW s \in Sockets, Authenticate(s)
    PROVE  LinkInv'
<1>1. PICK r : r = pendingCredential[s][1]
    OBVIOUS
<1>2. PICK previous : previous = connectedAgents[r]
    OBVIOUS
<1>3. PICK m : m = Frame("authenticated")
    OBVIOUS
<1>4. NoCredential \in Credentials
    BY DEF Credentials
<1>5. m \in Frames /\ m.type = "authenticated"
  <2>1. "authenticated" \in FrameTypes /\ 0 \in Nat
      BY DEF FrameTypes
  <2> QED
      BY <1>3, <1>4, <2>1, FramesBuilt
<1>6. /\ toController[s] # <<>> /\ Head(toController[s]).type = "challenge_response"
      /\ controllerEnd[s] = "open"
      /\ connectedAgents' = [connectedAgents EXCEPT ![r] = s]
      /\ auth' = [auth EXCEPT ![s] = r]
      /\ pendingCredential' = [pendingCredential EXCEPT ![s] = NoCredential]
      /\ status' = [status EXCEPT ![r] = "idle"]
      /\ ControllerReads(s)
      /\ toAgent' = [toAgent EXCEPT ![s] = Sent(toAgent, s, m)]
      /\ IF previous \notin {0, s} THEN Terminate(previous) ELSE UNCHANGED <<controllerEnd, link>>
      /\ UNCHANGED <<addressVars, agentVars, agentEnd, pairingVars, version, revoked, lastBoot, faults>>
    BY <1>1, <1>2, <1>3 DEF Authenticate, FromAgent, MarkAgentSeen
<1>7. auth[s] = 0 /\ r \in Rows
  <2>1. auth[s] = 0 /\ pendingCredential[s] \in Rows \X Nat
      BY <1>6 DEF LinkInv, SocketInv, ChallengeIsFresh, Challenged, Carries
  <2> QED
      BY <1>1, <2>1
<1>8. r # 0 /\ 0 \notin Rows /\ 0 \notin Sockets
    BY <1>7, LinkAssumption DEF Rows, Sockets
<1>9. previous = 0 \/ (previous \in Sockets /\ previous # s /\ auth[previous] = r)
  <2>1. previous # 0 => auth[previous] = r
      BY <1>2, <1>7 DEF LinkInv, SessionIsCurrent
  <2>2. previous # 0 => previous \in Sockets
      BY <1>2, <1>7, LinkAssumption DEF LinkInv, TypeOK, Sockets
  <2> QED
      BY <1>7, <1>8, <2>1, <2>2
<1>10. /\ toAgent' \in [Sockets -> Seq(Frames)] /\ toController' \in [Sockets -> Seq(Frames)]
       /\ toController'[s] = <<>>
       /\ toAgent'[s] = IF link[s] = "up" THEN <<m>> ELSE <<>>
       /\ \A o \in Sockets \ {s} : toAgent'[o] = toAgent[o] /\ toController'[o] = toController[o]
    BY <1>5, <1>6, ControllerAnswered DEF LinkInv, SocketInv
<1>11. /\ controllerEnd' \in [Sockets -> {"none", "open", "terminated"}]
       /\ link' \in [Sockets -> {"up", "down"}]
       /\ \A o \in Sockets : o # previous => controllerEnd'[o] = controllerEnd[o] /\ link'[o] = link[o]
       /\ previous # 0 => controllerEnd'[previous] = "terminated" /\ link'[previous] = "down"
    BY <1>6, <1>9 DEF Terminate, LinkInv, TypeOK
<1>12. /\ auth' \in [Sockets -> 0..MaxRequests] /\ auth'[s] = r
       /\ \A o \in Sockets \ {s} : auth'[o] = auth[o]
  <2>1. r \in 0..MaxRequests
      BY <1>7, LinkAssumption DEF Rows
  <2> QED
      BY <1>6, <2>1 DEF LinkInv, TypeOK
<1>13. /\ connectedAgents' \in [Rows -> 0..MaxSockets] /\ connectedAgents'[r] = s
       /\ \A q \in Rows \ {r} : connectedAgents'[q] = connectedAgents[q]
  <2>1. s \in 0..MaxSockets
      BY LinkAssumption DEF Sockets
  <2> QED
      BY <1>6, <1>7, <2>1 DEF LinkInv, TypeOK
<1>14. /\ status' \in [Rows -> {"offline", "idle", "revoked"}] /\ status'[r] = "idle"
       /\ \A q \in Rows \ {r} : status'[q] = status[q]
    BY <1>6, <1>7 DEF LinkInv, TypeOK
<1>15. /\ pendingCredential' \in [Sockets -> Credentials]
       /\ \A o \in Sockets \ {s} : pendingCredential'[o] = pendingCredential[o]
    BY <1>4, <1>6 DEF LinkInv, TypeOK
<1>16. TypeOK'
    BY <1>6, <1>10, <1>11, <1>12, <1>13, <1>14, <1>15
       DEF LinkInv, TypeOK, addressVars, agentVars, pairingVars
<1>17. \A o \in Sockets : SocketInv(o)'
  <2> SUFFICES ASSUME NEW o \in Sockets PROVE SocketInv(o)'
      OBVIOUS
  <2>1. UNCHANGED agentEnd /\ SocketInv(o)
      BY <1>6 DEF LinkInv
  <2>2. CASE o \notin {s, previous}
      BY <1>10, <1>11, <1>12, <1>15, <2>1, <2>2, SocketKept
  <2>3. CASE o = previous /\ o # s
    <3>1. controllerEnd[o] # "none"
        BY <1>8, <1>9, <2>1, <2>3 DEF SocketInv, Ends
    <3> QED
        BY <1>8, <1>10, <1>11, <1>12, <1>15, <2>1, <2>3, <3>1, SocketDown
  <2>4. CASE o = s
    <3>1. <<m>> # <<>> /\ Head(<<m>>) = m /\ Single(<<m>>) /\ Single(<<>>)
        BY <1>5, SendOne
    <3>2. controllerEnd'[s] = "open" /\ link'[s] = link[s]
        BY <1>6, <1>8, <1>9, <1>11
    <3>3. Ends(s)'
        BY <1>6, <1>10, <2>1, <2>4, <3>2 DEF SocketInv, Ends
    <3>4. HalfDuplex(s)'
        BY <1>10, <3>1 DEF HalfDuplex
    <3>5. ChallengeIsFresh(s)'
        BY <1>5, <1>10, <3>1 DEF ChallengeIsFresh, Challenged, Carries
    <3>6. AuthenticatedOnce(s)'
        BY <1>5, <1>10, <3>1 DEF AuthenticatedOnce
    <3> QED
        BY <2>4, <3>3, <3>4, <3>5, <3>6 DEF SocketInv
  <2> QED
      BY <2>2, <2>3, <2>4
<1>18. SessionIsCurrent'
  <2>1. \A q \in Rows : IF connectedAgents'[q] # 0
                        THEN auth'[connectedAgents'[q]] = q /\ status'[q] # "offline"
                        ELSE status'[q] # "idle"
    <3> SUFFICES ASSUME NEW q \in Rows
                 PROVE  IF connectedAgents'[q] # 0
                        THEN auth'[connectedAgents'[q]] = q /\ status'[q] # "offline"
                        ELSE status'[q] # "idle"
        OBVIOUS
    <3>1. CASE q = r
        BY <1>8, <1>12, <1>13, <1>14, <3>1
    <3>2. CASE q # r
      <4>1. connectedAgents'[q] = connectedAgents[q] /\ status'[q] = status[q]
          BY <1>13, <1>14, <3>2
      <4>2. connectedAgents[q] # 0 => auth[connectedAgents[q]] = q /\ connectedAgents[q] \in Sockets
        <5>1. connectedAgents[q] # 0 => auth[connectedAgents[q]] = q
            BY DEF LinkInv, SessionIsCurrent
        <5>2. connectedAgents[q] \in 0..MaxSockets
            BY DEF LinkInv, TypeOK
        <5> QED
            BY <5>1, <5>2, LinkAssumption DEF Sockets
      <4>3. connectedAgents[q] # 0 => connectedAgents[q] # s
          BY <1>7, <1>8, <4>2
      <4> QED
          BY <1>12, <4>1, <4>2, <4>3 DEF LinkInv, SessionIsCurrent
    <3> QED
        BY <3>1, <3>2
  <2>2. \A o \in Sockets :
           controllerEnd'[o] = "open" /\ auth'[o] # 0 => connectedAgents'[auth'[o]] = o
    <3> SUFFICES ASSUME NEW o \in Sockets, controllerEnd'[o] = "open", auth'[o] # 0
                 PROVE  connectedAgents'[auth'[o]] = o
        OBVIOUS
    <3>1. CASE o = s
        BY <1>12, <1>13, <3>1
    <3>2. CASE o # s
      <4>1. auth'[o] = auth[o] /\ auth[o] \in Rows
          BY <1>12, <3>2, LinkAssumption DEF LinkInv, TypeOK, Rows
      <4>2. o # previous /\ controllerEnd[o] = "open"
          BY <1>8, <1>9, <1>11
      <4>3. connectedAgents[auth[o]] = o
          BY <4>1, <4>2 DEF LinkInv, SessionIsCurrent
      <4>4. auth[o] # r
          BY <1>2, <4>2, <4>3
      <4> QED
          BY <1>13, <4>1, <4>3, <4>4
    <3> QED
        BY <3>1, <3>2
  <2> QED
      BY <2>1, <2>2 DEF SessionIsCurrent
<1> QED
    BY <1>16, <1>17, <1>18 DEF LinkInv

-----------------------------------------------------------------------------
(* Pairing, sessions and restarts. *)

(* A step that leaves the sockets and their sessions alone. *)
LEMMA QuietKeeps ==
    ASSUME LinkInv, TypeOK', UNCHANGED <<socketVars, sessionVars>>,
           \A r \in Rows : \/ status'[r] = status[r]
                           \/ status'[r] = "revoked"
                           \/ status'[r] = "idle" /\ connectedAgents[r] # 0
    PROVE  LinkInv'
<1>1. \A s \in Sockets : SocketInv(s)'
    BY SocketKept DEF LinkInv, socketVars, sessionVars
<1>2. SessionIsCurrent'
    BY SessionsKept DEF LinkInv, socketVars, sessionVars
<1> QED
    BY <1>1, <1>2 DEF LinkInv

(* The operator's actions, the sweep of requests, and time. *)
LEMMA PairingKeeps ==
    ASSUME LinkInv, NEW r \in Rows,
           \/ ListPairingRequests \/ ApprovePairingRequest(r) \/ RejectPairingRequest(r)
           \/ TtlPasses(r) \/ RevokeAgent(r)
    PROVE  LinkInv'
<1>1. UNCHANGED <<addressVars, agentVars, socketVars, sessionVars, version, lastBoot>>
    BY DEF ListPairingRequests, ApprovePairingRequest, RejectPairingRequest, TtlPasses, RevokeAgent,
           rowVars
<1>2. request' \in [Rows -> {"none", "pending", "approved", "claimed", "rejected", "expired"}]
    BY SweptTyped DEF ListPairingRequests, ApprovePairingRequest, RejectPairingRequest, TtlPasses,
           RevokeAgent, pairingVars, LinkInv, TypeOK
<1>3. stale' \subseteq Rows /\ revoked' \subseteq Rows /\ faults' \in Nat
    BY DEF ListPairingRequests, ApprovePairingRequest, RejectPairingRequest, TtlPasses, RevokeAgent,
           pairingVars, rowVars, Fault, LinkInv, TypeOK
<1>4. /\ status' \in [Rows -> {"offline", "idle", "revoked"}]
      /\ \A q \in Rows : status'[q] = status[q] \/ status'[q] = "revoked"
    BY DEF ListPairingRequests, ApprovePairingRequest, RejectPairingRequest, TtlPasses, RevokeAgent,
           rowVars, LinkInv, TypeOK
<1>5. TypeOK'
    BY <1>1, <1>2, <1>3, <1>4 DEF LinkInv, TypeOK, addressVars, agentVars, socketVars, sessionVars
<1> QED
    BY <1>1, <1>4, <1>5, QuietKeeps

(* A heartbeat is of a registered session. *)
LEMMA HeartbeatKeeps ==
    ASSUME LinkInv, NEW s \in Sockets, Heartbeat(s)
    PROVE  LinkInv'
<1>1. auth[s] \in Rows /\ connectedAgents[auth[s]] = s /\ s # 0
  <2>1. auth[s] # 0 /\ controllerEnd[s] = "open"
      BY DEF Heartbeat
  <2>2. auth[s] \in Rows
      BY <2>1, LinkAssumption DEF LinkInv, TypeOK, Rows
  <2>3. s # 0
      BY LinkAssumption DEF Sockets
  <2> QED
      BY <2>1, <2>2, <2>3 DEF LinkInv, SessionIsCurrent
<1>2. status' = [status EXCEPT ![auth[s]] = "idle"]
    BY DEF Heartbeat, MarkAgentSeen
<1>3. /\ status' \in [Rows -> {"offline", "idle", "revoked"}]
      /\ \A r \in Rows : status'[r] = status[r] \/ (status'[r] = "idle" /\ connectedAgents[r] # 0)
    BY <1>1, <1>2 DEF LinkInv, TypeOK
<1>4. TypeOK'
    BY <1>3 DEF Heartbeat, LinkInv, TypeOK, addressVars, agentVars, socketVars, sessionVars,
                pairingVars
<1>5. UNCHANGED <<socketVars, sessionVars>>
    BY DEF Heartbeat
<1> QED
    BY <1>3, <1>4, <1>5, QuietKeeps

(* The Controller sees the close of a socket: the session ends only when it is
   that socket's. *)
LEMMA ControllerSeesCloseKeeps ==
    ASSUME LinkInv, NEW s \in Sockets, ControllerSeesClose(s)
    PROVE  LinkInv'
<1>1. NoCredential \in Credentials /\ <<>> \in Seq(Frames)
    BY DEF Credentials
<1>2. /\ controllerEnd[s] # "none" /\ link[s] = "down"
      /\ controllerEnd' = [controllerEnd EXCEPT ![s] = "none"]
      /\ toController' = [toController EXCEPT ![s] = <<>>]
      /\ auth' = [auth EXCEPT ![s] = 0]
      /\ pendingCredential' = [pendingCredential EXCEPT ![s] = NoCredential]
      /\ UNCHANGED <<addressVars, agentVars, agentEnd, link, toAgent, pairingVars, version,
                     revoked, lastBoot, faults>>
    BY DEF ControllerSeesClose, EndOfSocket
<1>3. /\ toController' \in [Sockets -> Seq(Frames)] /\ toController'[s] = <<>>
      /\ \A o \in Sockets \ {s} : toController'[o] = toController[o]
    BY <1>1, <1>2 DEF LinkInv, TypeOK
<1>4. /\ pendingCredential' \in [Sockets -> Credentials]
      /\ \A o \in Sockets \ {s} : pendingCredential'[o] = pendingCredential[o]
    BY <1>1, <1>2 DEF LinkInv, TypeOK
<1>5. /\ auth' \in [Sockets -> 0..MaxRequests] /\ auth'[s] = 0
      /\ \A o \in Sockets \ {s} : auth'[o] = auth[o]
    BY <1>2, LinkAssumption DEF LinkInv, TypeOK
<1>6. /\ controllerEnd' \in [Sockets -> {"none", "open", "terminated"}] /\ controllerEnd'[s] = "none"
      /\ \A o \in Sockets \ {s} : controllerEnd'[o] = controllerEnd[o]
    BY <1>2 DEF LinkInv, TypeOK
<1>7. auth[s] # 0 => auth[s] \in Rows
    BY LinkAssumption DEF LinkInv, TypeOK, Rows
<1>8. /\ connectedAgents' \in [Rows -> 0..MaxSockets]
      /\ status' \in [Rows -> {"offline", "idle", "revoked"}]
      /\ \A r \in Rows : IF connectedAgents[r] = s
                         THEN connectedAgents'[r] = 0 /\ status'[r] = "offline"
                         ELSE connectedAgents'[r] = connectedAgents[r] /\ status'[r] = status[r]
  <2>1. \A r \in Rows : connectedAgents[r] = s => auth[s] = r /\ auth[s] # 0
      BY LinkAssumption DEF LinkInv, SessionIsCurrent, Sockets, Rows
  <2>2. CASE auth[s] # 0 /\ connectedAgents[auth[s]] = s
    <3>1. /\ connectedAgents' = [connectedAgents EXCEPT ![auth[s]] = 0]
          /\ status' = [status EXCEPT ![auth[s]] = "offline"]
        BY <2>2 DEF ControllerSeesClose, ForgetSession, MarkAgentSeen
    <3>2. 0 \in 0..MaxSockets
        BY LinkAssumption
    <3> QED
        BY <1>7, <2>1, <2>2, <3>1, <3>2 DEF LinkInv, TypeOK
  <2>3. CASE ~(auth[s] # 0 /\ connectedAgents[auth[s]] = s)
    <3>1. connectedAgents' = connectedAgents /\ status' = status
        BY <2>3 DEF ControllerSeesClose
    <3> QED
        BY <2>1, <2>3, <3>1 DEF LinkInv, TypeOK
  <2> QED
      BY <2>2, <2>3
<1>9. TypeOK'
    BY <1>2, <1>3, <1>4, <1>5, <1>6, <1>8 DEF LinkInv, TypeOK, addressVars, agentVars, pairingVars
<1>10. \A o \in Sockets : SocketInv(o)'
  <2> SUFFICES ASSUME NEW o \in Sockets PROVE SocketInv(o)'
      OBVIOUS
  <2>1. UNCHANGED <<agentEnd, link, toAgent>> /\ SocketInv(o)
      BY <1>2 DEF LinkInv
  <2>2. CASE o # s
      BY <1>3, <1>4, <1>5, <1>6, <2>1, <2>2, SocketKept
  <2>3. CASE o = s
      BY <1>2, <1>3, <1>5, <1>6, <2>1, <2>3
         DEF SocketInv, Ends, HalfDuplex, Single, ChallengeIsFresh, Challenged, Carries,
             AuthenticatedOnce
  <2> QED
      BY <2>2, <2>3
<1>11. SessionIsCurrent'
  <2>1. \A r \in Rows : IF connectedAgents'[r] # 0
                        THEN auth'[connectedAgents'[r]] = r /\ status'[r] # "offline"
                        ELSE status'[r] # "idle"
    <3> SUFFICES ASSUME NEW r \in Rows
                 PROVE  IF connectedAgents'[r] # 0
                        THEN auth'[connectedAgents'[r]] = r /\ status'[r] # "offline"
                        ELSE status'[r] # "idle"
        OBVIOUS
    <3>1. connectedAgents[r] # 0 => connectedAgents[r] \in Sockets
        BY LinkAssumption DEF LinkInv, TypeOK, Sockets
    <3> QED
        BY <1>5, <1>8, <3>1 DEF LinkInv, SessionIsCurrent
  <2>2. \A o \in Sockets :
           controllerEnd'[o] = "open" /\ auth'[o] # 0 => connectedAgents'[auth'[o]] = o
    <3> SUFFICES ASSUME NEW o \in Sockets, controllerEnd'[o] = "open", auth'[o] # 0
                 PROVE  connectedAgents'[auth'[o]] = o
        OBVIOUS
    <3>1. o # s /\ auth'[o] = auth[o] /\ controllerEnd[o] = "open"
        BY <1>5, <1>6
    <3>2. auth[o] \in Rows
        BY <3>1, LinkAssumption DEF LinkInv, TypeOK, Rows
    <3>3. connectedAgents[auth[o]] = o
        BY <3>1 DEF LinkInv, SessionIsCurrent
    <3> QED
        BY <1>8, <3>1, <3>2, <3>3
  <2> QED
      BY <2>1, <2>2 DEF SessionIsCurrent
<1> QED
    BY <1>9, <1>10, <1>11 DEF LinkInv

(* Either process starts again. *)
LEMMA RestartKeeps ==
    ASSUME LinkInv, RestartAgent \/ RestartController
    PROVE  LinkInv'
<1>1. NoCredential \in Credentials /\ <<>> \in Seq(Frames) /\ 0 \in 0..MaxSockets /\ 0 \in 0..MaxRequests
    BY LinkAssumption DEF Credentials
<1>2. CASE RestartAgent
  <2>1. state' \in [Sockets -> Credentials]
      BY <1>1, <1>2 DEF RestartAgent
  <2>2. toAgent' \in [Sockets -> Seq(Frames)]
      BY <1>1, <1>2 DEF RestartAgent
  <2>3. /\ agentEnd' \in [Sockets -> {"none", "connecting", "open", "closing"}]
        /\ link' \in [Sockets -> {"up", "down"}]
      BY <1>2 DEF RestartAgent
  <2>4. /\ pc' \in {"top", "connecting", "session", "pausing"} /\ boot' \in Nat /\ faults' \in Nat
        /\ sock' \in 0..MaxSockets /\ serving' \in 0..MaxSockets
      BY <1>1, <1>2 DEF RestartAgent, Fault, LinkInv, TypeOK
  <2>5. TypeOK'
      BY <1>2, <2>1, <2>2, <2>3, <2>4 DEF RestartAgent, LinkInv, TypeOK, addressVars, sessionVars,
                                          pairingVars, rowVars
  <2>6. \A s \in Sockets : SocketInv(s)'
    <3> SUFFICES ASSUME NEW s \in Sockets PROVE SocketInv(s)'
        OBVIOUS
    <3>1. /\ agentEnd'[s] = "none" /\ link'[s] = "down" /\ toAgent'[s] = <<>>
          /\ UNCHANGED <<controllerEnd, toController, auth, pendingCredential>> /\ SocketInv(s)
        BY <1>2 DEF RestartAgent, LinkInv, sessionVars
    <3> QED
        BY <3>1 DEF SocketInv, Ends, HalfDuplex, Single, ChallengeIsFresh, Challenged, Carries,
                    AuthenticatedOnce
  <2>7. SessionIsCurrent'
      BY <1>2, SessionsKept DEF RestartAgent, LinkInv, sessionVars, rowVars
  <2> QED
      BY <2>5, <2>6, <2>7 DEF LinkInv
<1>3. CASE RestartController
  <2>1. toController' \in [Sockets -> Seq(Frames)]
      BY <1>1, <1>3 DEF RestartController
  <2>2. pendingCredential' \in [Sockets -> Credentials]
      BY <1>1, <1>3 DEF RestartController
  <2>3. auth' \in [Sockets -> 0..MaxRequests] /\ connectedAgents' \in [Rows -> 0..MaxSockets]
      BY <1>1, <1>3 DEF RestartController
  <2>4. /\ controllerEnd' \in [Sockets -> {"none", "open", "terminated"}]
        /\ link' \in [Sockets -> {"up", "down"}]
      BY <1>3 DEF RestartController, LinkInv, TypeOK
  <2>5. status' \in [Rows -> {"offline", "idle", "revoked"}]
      BY <1>3 DEF RestartController
  <2>6. version' \in [Rows -> Nat]
    <3>1. version' = version \/ \E r \in Rows : version' = [version EXCEPT ![r] = @ + 1]
        BY <1>3 DEF RestartController, InsideClaim, IssueAgentCredential
    <3>2. version \in [Rows -> Nat]
        BY DEF LinkInv, TypeOK
    <3> QED
        BY <3>1, <3>2
  <2>7. UNCHANGED <<addressVars, agentVars, agentEnd, toAgent, pairingVars, revoked, lastBoot>>
      BY <1>3 DEF RestartController
  <2>8. faults' \in Nat
      BY <1>3 DEF RestartController, Fault, LinkInv, TypeOK
  <2>9. TypeOK'
      BY <2>1, <2>2, <2>3, <2>4, <2>6, <2>5, <2>7, <2>8
         DEF LinkInv, TypeOK, addressVars, agentVars, pairingVars
  <2>10. \A s \in Sockets : SocketInv(s)'
    <3> SUFFICES ASSUME NEW s \in Sockets PROVE SocketInv(s)'
        OBVIOUS
    <3>1. /\ controllerEnd'[s] = "none" /\ toController'[s] = <<>> /\ auth'[s] = 0
          /\ link'[s] = IF controllerEnd[s] = "none" THEN link[s] ELSE "down"
          /\ UNCHANGED <<agentEnd, toAgent>> /\ SocketInv(s)
        BY <1>3 DEF RestartController, LinkInv
    <3>2. Ends(s)'
        BY <3>1 DEF SocketInv, Ends
    <3>3. HalfDuplex(s)'
        BY <3>1 DEF SocketInv, HalfDuplex, Single
    <3>4. ChallengeIsFresh(s)'
      <4>1. link'[s] = "up" => agentEnd[s] = "connecting" /\ toAgent[s] = <<>>
          BY <3>1 DEF SocketInv, Ends
      <4> QED
          BY <3>1, <4>1 DEF ChallengeIsFresh, Challenged, Carries
    <3> QED
        BY <3>1, <3>2, <3>3, <3>4 DEF SocketInv, AuthenticatedOnce
  <2>11. SessionIsCurrent'
      BY <1>3 DEF RestartController, SessionIsCurrent, LinkInv, TypeOK
  <2> QED
      BY <2>9, <2>10, <2>11 DEF LinkInv
<1> QED
    BY <1>2, <1>3

-----------------------------------------------------------------------------
(* The theorems. *)

(* Every step keeps the invariant. *)
LEMMA NextKeeps ==
    ASSUME LinkInv, [Next]_vars
    PROVE  LinkInv'
<1>1. CASE Loop
    BY <1>1, DialKeeps, WakeUpKeeps, OpenKeeps DEF Loop
<1>2. CASE RefreshControllerLocation \/ MoveController \/ RestartAgent \/ RestartController
    BY <1>2, RefreshKeeps, MoveKeeps, RestartKeeps
<1>3. CASE ListPairingRequests
  <2>1. 1 \in Rows
      BY LinkAssumption DEF Rows
  <2> QED
      BY <1>3, <2>1, PairingKeeps
<1>4. ASSUME NEW s \in Sockets, AgentReceives(s) PROVE LinkInv'
    BY <1>4, AskingKeeps, ApprovedKeeps, AuthenticatedKeeps, RejectedKeeps DEF AgentReceives
<1>5. ASSUME NEW s \in Sockets, ControllerReceives(s) PROVE LinkInv'
    BY <1>5, HelloKeeps, AuthenticateKeeps, RefuseKeeps, ReadKeeps, ClaimKeeps, CreateKeeps
       DEF ControllerReceives
<1>6. ASSUME NEW s \in Sockets,
             AgentSeesClose(s) \/ ControllerSeesClose(s) \/ Heartbeat(s) \/ Cut(s)
      PROVE  LinkInv'
    BY <1>6, AgentSeesCloseKeeps, ControllerSeesCloseKeeps, HeartbeatKeeps, CutKeeps
<1>7. ASSUME NEW r \in Rows,
             \/ ApprovePairingRequest(r) \/ RejectPairingRequest(r) \/ TtlPasses(r)
             \/ RevokeAgent(r) \/ CheckHeartbeats(r)
      PROVE  LinkInv'
    BY <1>7, PairingKeeps, CheckKeeps
<1>8. CASE UNCHANGED vars
  <2>1. UNCHANGED <<socketVars, sessionVars>> /\ status' = status
      BY <1>8 DEF vars, rowVars
  <2>2. TypeOK'
      BY <1>8 DEF LinkInv, TypeOK, vars, agentVars, addressVars, socketVars, sessionVars,
                  pairingVars, rowVars
  <2> QED
      BY <2>1, <2>2, QuietKeeps
<1> QED
    BY <1>1, <1>2, <1>3, <1>4, <1>5, <1>6, <1>7, <1>8 DEF Next

(* A Controller and an Agent that never met. *)
LEMMA InitHolds ==
    ASSUME Init
    PROVE  LinkInv
<1>1. NoCredential \in Credentials /\ <<>> \in Seq(Frames) /\ 0 \in 0..MaxSockets /\ 0 \in 0..MaxRequests
    BY LinkAssumption DEF Credentials
<1>2. TypeOK
  <2>1. stored \in Credentials /\ state \in [Sockets -> Credentials]
        /\ pendingCredential \in [Sockets -> Credentials]
      BY <1>1 DEF Init
  <2>2. toController \in [Sockets -> Seq(Frames)] /\ toAgent \in [Sockets -> Seq(Frames)]
      BY <1>1 DEF Init
  <2>3. /\ auth \in [Sockets -> 0..MaxRequests] /\ connectedAgents \in [Rows -> 0..MaxSockets]
        /\ sock \in 0..MaxSockets /\ serving \in 0..MaxSockets
      BY <1>1 DEF Init
  <2>4. /\ agentEnd \in [Sockets -> {"none", "connecting", "open", "closing"}]
        /\ controllerEnd \in [Sockets -> {"none", "open", "terminated"}]
        /\ link \in [Sockets -> {"up", "down"}]
      BY DEF Init
  <2>5. /\ request \in [Rows -> {"none", "pending", "approved", "claimed", "rejected", "expired"}]
        /\ version \in [Rows -> Nat] /\ lastBoot \in [Rows -> Nat]
        /\ status \in [Rows -> {"offline", "idle", "revoked"}]
      BY DEF Init
  <2>6. advertised \in (SUBSET Hosts) \ {{}} /\ controllerUrl \in Hosts /\ connectedUrl \in Hosts
    <3>1. advertised = Hosts /\ Hosts # {}
        BY LinkAssumption DEF Init
    <3>2. advertised \in SUBSET Hosts /\ advertised \notin {{}}
        BY <3>1
    <3> QED
        BY <3>2 DEF Init
  <2> QED
      BY <2>1, <2>2, <2>3, <2>4, <2>5, <2>6 DEF Init, TypeOK
<1>3. \A s \in Sockets : SocketInv(s)
    BY DEF Init, SocketInv, Ends, HalfDuplex, Single, ChallengeIsFresh, Challenged, Carries,
           AuthenticatedOnce
<1>4. SessionIsCurrent
    BY DEF Init, SessionIsCurrent
<1> QED
    BY <1>2, <1>3, <1>4 DEF LinkInv

(* The invariant of the link between an Agent and its Controller. *)
THEOREM LinkInvariant == Spec => []LinkInv
<1>1. Init => LinkInv
    BY InitHolds
<1>2. LinkInv /\ [Next]_vars => LinkInv'
    BY NextKeeps
<1> QED
    BY <1>1, <1>2, PTL DEF Spec

(* Every variable keeps its type. *)
THEOREM LinkTypeCorrect == Spec => []TypeOK
<1>1. LinkInv => TypeOK
    BY DEF LinkInv
<1> QED
    BY <1>1, LinkInvariant, PTL

(* The session that connectedAgents holds is that of an authenticated connection,
   every authenticated connection that is open is the one it holds, and the row of
   agents says offline exactly while there is none: neither the late close of a
   replaced socket nor a terminated one drops the session of its successor. *)
THEOREM SessionStaysCurrent == Spec => []SessionIsCurrent
<1>1. LinkInv => SessionIsCurrent
    BY DEF LinkInv
<1> QED
    BY <1>1, LinkInvariant, PTL

(* One frame of the handshake is on its way at a time, and a connection is
   authenticated once: the answer to a challenge only ever reaches a connection
   that is not authenticated and whose credential is still pending. *)
THEOREM ChallengesAreFresh ==
    Spec => [](\A s \in Sockets : HalfDuplex(s) /\ ChallengeIsFresh(s))
<1>1. LinkInv => \A s \in Sockets : HalfDuplex(s) /\ ChallengeIsFresh(s)
    BY DEF LinkInv, SocketInv
<1> QED
    BY <1>1, LinkInvariant, PTL

-----------------------------------------------------------------------------
(* The dispatches that lease the connected Agents to jobs (Scheduling). *)

Views == [agents : SUBSET Agents, active : [Agents -> Nat], penalty : [Agents -> Nat]]

(* A dispatch that is under way has a row, and one that selects has a view. *)
DispatchShape ==
    \A d \in Dispatchers :
        /\ place[d] # "idle" => rows[d] # <<>>
        /\ place[d] = "selecting" => seen[d] \in Views

(* The dispatches that believe Agent a has room. *)
Hopeful(a) == {d \in Dispatchers : place[d] = "selecting" /\ seen[d].active[a] < MaxJobs[a]}

(* Why the overcommitment is bounded: once an Agent is full, the leases above its
   limit and the dispatches that may still add one are together fewer than the
   dispatches. *)
RoomShared ==
    \A a \in Agents :
        (Unfinished(a) # {} /\ Cardinality(Unfinished(a)) >= MaxJobs[a]) =>
            Cardinality(Unfinished(a)) + Cardinality(Hopeful(a))
                < MaxJobs[a] + Cardinality(Dispatchers)

SchedulingInv == SchedulingTypeOK /\ DispatchShape /\ RoomShared

(* Attempt rows are finitely many, so they can be counted. *)
LEMMA FiniteAttempts ==
    ASSUME NEW S \in SUBSET AttemptIds
    PROVE  IsFiniteSet(S) /\ Cardinality(S) \in Nat
  <1>1. IsFiniteSet(AttemptIds)
    BY FS_Product, SchedulingAssumption DEF AttemptIds
  <1> QED BY <1>1, FS_Subset, FS_CardinalityType

(* So are the dispatches. *)
LEMMA FiniteDispatchers ==
    ASSUME NEW S \in SUBSET Dispatchers
    PROVE  /\ IsFiniteSet(S) /\ Cardinality(S) \in Nat
           /\ Cardinality(Dispatchers) \in Nat /\ Cardinality(S) <= Cardinality(Dispatchers)
  BY FS_Subset, FS_CardinalityType, SchedulingAssumption

(* An Agent's limit is a number. *)
LEMMA LimitType == ASSUME NEW a \in Agents PROVE MaxJobs[a] \in Nat
  BY SchedulingAssumption DEF MaxJobs

(* What a dispatch reads. *)
ViewSources ==
    /\ connected \subseteq Agents
    /\ recent \in [Agents -> Seq({"failed", "succeeded"})]
    /\ leasing \in [Agents -> SUBSET AttemptIds] /\ working \in [Agents -> SUBSET AttemptIds]

(* It makes a view, before a step and after it. *)
LEMMA ViewType == ViewSources => View \in Views
  <1> SUFFICES ASSUME ViewSources PROVE View \in Views
    OBVIOUS
  <1>1. ASSUME NEW a \in Agents PROVE ActiveJobs(a) \in Nat
    <2>1. Unfinished(a) \in SUBSET AttemptIds
      BY DEF ViewSources, Unfinished
    <2> QED BY <2>1, FiniteAttempts DEF ActiveJobs
  <1>2. ASSUME NEW a \in Agents PROVE Penalty(a) \in Nat
    <2> DEFINE F == {i \in DOMAIN recent[a] : recent[a][i] = "failed"}
    <2>1. recent[a] \in Seq({"failed", "succeeded"})
      BY DEF ViewSources
    <2>2. DOMAIN recent[a] = 1..Len(recent[a]) /\ Len(recent[a]) \in Nat
      BY <2>1
    <2>i. \A n \in Nat : IsFiniteSet(1..n)
      BY FS_Interval
    <2>3. IsFiniteSet(1..Len(recent[a]))
      BY <2>2, <2>i
    <2>4. IsFiniteSet(F)
      BY <2>2, <2>3, FS_Subset
    <2>5. Cardinality(F) \in Nat
      BY <2>4, FS_CardinalityType
    <2> HIDE DEF F
    <2> QED BY <2>5 DEF Penalty, ComputeRecentFailurePenalty, F
  <1>3. [a \in Agents |-> ActiveJobs(a)] \in [Agents -> Nat]
    BY <1>1
  <1>4. [a \in Agents |-> Penalty(a)] \in [Agents -> Nat]
    BY <1>2
  <1>5. connected \in SUBSET Agents
    BY DEF ViewSources
  <1> QED BY <1>3, <1>4, <1>5 DEF View, Views

(* The same, of the state after a step. *)
LEMMA NextViewType == ViewSources' => View' \in Views
  <1>1. ViewSources => View \in Views
    BY ViewType
  <1>2. ViewSources' => (View \in Views)'
    BY <1>1, PTL
  <1> QED BY <1>2

(* The rows of a sweep are jobs. *)
LEMMA QueueType ==
    ASSUME SchedulingTypeOK, NEW s \in Queue
    PROVE  [i \in DOMAIN s |-> Order[s[i]]] \in Seq(Jobs)
  <1> DEFINE queued == {i \in DOMAIN Order : jstate[Order[i]] = "queued"}
             n == Cardinality(queued)
  <1>1. Order \in Seq(Jobs) /\ DOMAIN Order = 1..Len(Order) /\ Len(Order) \in Nat
    BY SchedulingAssumption
  <1>2. n \in Nat
    <2>1. IsFiniteSet(1..Len(Order))
      BY <1>1, FS_Interval
    <2> QED BY <1>1, <2>1, FS_Subset, FS_CardinalityType
  <1>3. s \in [1..n -> queued]
    BY DEF Queue
  <1> HIDE DEF n
  <1>4. [i \in DOMAIN s |-> Order[s[i]]] \in [1..n -> Jobs]
    BY <1>1, <1>3
  <1> QED BY <1>2, <1>4

(* A dispatch goes on with other rows: it is idle, or has a fresh view. *)
LEMMA TakeUpStep ==
    ASSUME SchedulingTypeOK, DispatchShape, View' \in Views,
           NEW d \in Dispatchers, NEW jobs \in Seq(Jobs), TakeUp(d, jobs)
    PROVE  /\ rows' \in [Dispatchers -> Seq(Jobs)]
           /\ place' \in [Dispatchers -> {"idle", "selecting", "local"}]
           /\ seen' \in [Dispatchers -> Views \cup {None}]
           /\ DispatchShape'
           /\ \A e \in Dispatchers : e # d => place'[e] = place[e] /\ seen'[e] = seen[e]
           /\ place'[d] = "selecting" => seen'[d] = View'
  <1>t. /\ rows \in [Dispatchers -> Seq(Jobs)]
        /\ place \in [Dispatchers -> {"idle", "selecting", "local"}]
        /\ seen \in [Dispatchers -> Views \cup {None}]
    BY DEF SchedulingTypeOK, Views
  <1>1. rows' \in [Dispatchers -> Seq(Jobs)]
    BY <1>t DEF TakeUp
  <1>2. place' \in [Dispatchers -> {"idle", "selecting", "local"}]
    BY <1>t DEF TakeUp
  <1>3. seen' \in [Dispatchers -> Views \cup {None}]
    BY <1>t DEF TakeUp
  <1>4. /\ rows'[d] = jobs
        /\ place'[d] = IF jobs = <<>> THEN "idle" ELSE "selecting"
        /\ seen'[d] = IF jobs = <<>> THEN None ELSE View'
    BY <1>t DEF TakeUp
  <1>5. \A e \in Dispatchers : e # d => place'[e] = place[e] /\ seen'[e] = seen[e] /\ rows'[e] = rows[e]
    BY <1>t DEF TakeUp
  <1>6. DispatchShape'
    BY <1>4, <1>5 DEF DispatchShape
  <1> QED BY <1>1, <1>2, <1>3, <1>4, <1>5, <1>6

(* Every step of a dispatch keeps the types; Agents, frames and rows follow. *)
LEMMA SchedulingTypeStep ==
    ASSUME SchedulingTypeOK, DispatchShape, SchedulingNext
    PROVE  SchedulingTypeOK' /\ DispatchShape'
  <1> DEFINE Kinds == {"lease_accept", "lease_reject", "cleanup_complete"}
             Answers == [kind : Kinds, id : AttemptIds]
  <1>t. /\ jstate \in [Jobs -> JobStates] /\ tried \subseteq Jobs
        /\ leasing \in [Agents -> SUBSET AttemptIds] /\ working \in [Agents -> SUBSET AttemptIds]
        /\ held \in [Agents -> SUBSET AttemptIds] /\ ended \in [Agents -> SUBSET AttemptIds]
        /\ recent \in [Agents -> Seq({"failed", "succeeded"})]
        /\ offers \in [Agents -> Seq(AttemptIds)]
        /\ replies \in [Agents -> Seq(Answers)]
        /\ connected \subseteq Agents /\ pressed \subseteq Agents
        /\ place \in [Dispatchers -> {"idle", "selecting", "local"}]
        /\ rows \in [Dispatchers -> Seq(Jobs)]
        /\ seen \in [Dispatchers -> Views \cup {None}]
        /\ upsets \in 0..MaxUpsets
    BY DEF SchedulingTypeOK, Views
  <1>f. \A kind \in Kinds, id \in AttemptIds : [kind |-> kind, id |-> id] \in Answers
    OBVIOUS
  <1>i. \A f \in Answers : f.id \in AttemptIds
    OBVIOUS
  <1> HIDE DEF Answers
  <1>j. ASSUME NEW j \in Jobs, NEW s \in JobStates, SetJob(j, s)
        PROVE  jstate' \in [Jobs -> JobStates]
    BY <1>t, <1>j DEF SetJob
  <1>s. "queued" \in JobStates /\ "leasing" \in JobStates /\ "active" \in JobStates
        /\ "completed" \in JobStates
    BY DEF JobStates
  <1>k. ASSUME tasks' = tasks PROVE DispatchShape'
    BY <1>k DEF tasks, DispatchShape
  <1>w. ASSUME attempts' = attempts, recent' = recent, connected' = connected
        PROVE  View' \in Views
    BY <1>w, <1>t, NextViewType DEF attempts, ViewSources
  <1>d. ASSUME NEW d \in Dispatchers, place[d] # "idle"
        PROVE  rows[d] \in Seq(Jobs) /\ rows[d] # <<>> /\ JobOf(d) \in Jobs /\ Tail(rows[d]) \in Seq(Jobs)
    <2>1. rows[d] \in Seq(Jobs) /\ rows[d] # <<>>
      BY <1>d, <1>t DEF DispatchShape
    <2> QED BY <2>1 DEF JobOf
  <1>e. <<>> \in Seq(Jobs)
    OBVIOUS
  <1>1. ASSUME NEW d \in Dispatchers, NEW j \in Jobs, Submit(d, j)
        PROVE  SchedulingTypeOK' /\ DispatchShape'
    <2>1. View' \in Views /\ <<j>> \in Seq(Jobs)
      BY <1>1, <1>w DEF Submit, weather
    <2>2. TakeUp(d, <<j>>)
      BY <1>1 DEF Submit
    <2>3. jstate' \in [Jobs -> JobStates]
      BY <1>1, <1>j, <1>s DEF Submit
    <2>4. UNCHANGED <<tried, leasing, working, recent, offers, replies, held, ended, connected,
                      pressed, upsets>>
      BY <1>1 DEF Submit, attempts, wire, weather
    <2> QED BY <2>1, <2>2, <2>3, <2>4, <1>t, TakeUpStep DEF SchedulingTypeOK, Views
  <1>2. ASSUME NEW d \in Dispatchers, Sweep(d)
        PROVE  SchedulingTypeOK' /\ DispatchShape'
    <2>1. View' \in Views
      BY <1>2, <1>w DEF Sweep, weather
    <2>2. PICK s \in Queue : TakeUp(d, [i \in DOMAIN s |-> Order[s[i]]])
      BY <1>2 DEF Sweep
    <2>3. [i \in DOMAIN s |-> Order[s[i]]] \in Seq(Jobs)
      BY QueueType
    <2>4. UNCHANGED <<jstate, tried, leasing, working, recent, offers, replies, held, ended, connected,
                      pressed, upsets>>
      BY <1>2 DEF Sweep, attempts, wire, weather
    <2>5. PICK jobs \in Seq(Jobs) : TakeUp(d, jobs)
      BY <2>2, <2>3
    <2> QED BY <2>1, <2>4, <2>5, <1>t, TakeUpStep DEF SchedulingTypeOK, Views
  <1>3. ASSUME NEW d \in Dispatchers, DispatchStep(d)
        PROVE  SchedulingTypeOK' /\ DispatchShape'
    <2>1. place[d] # "idle" /\ UNCHANGED <<recent, replies, held, ended, connected, pressed, upsets>>
      BY <1>3 DEF DispatchStep, DispatchJobExecution, LocalJobEnds, weather
    <2>2. JobOf(d) \in Jobs /\ Tail(rows[d]) \in Seq(Jobs)
      BY <2>1, <1>d
    <2>3. ASSUME attempts' = attempts, offers' = offers, tried' = tried, Return(d) \/ Throw(d),
                 jstate' \in [Jobs -> JobStates]
          PROVE  SchedulingTypeOK' /\ DispatchShape'
      <3>1. View' \in Views
        BY <2>1, <2>3, <1>w
      <3>2. PICK jobs \in Seq(Jobs) : TakeUp(d, jobs)
        BY <2>2, <2>3, <1>e DEF Return, Throw
      <3>3. UNCHANGED <<tried, leasing, working, recent, offers, replies, held, ended, connected,
                        pressed, upsets>>
        BY <2>1, <2>3 DEF attempts
      <3> QED BY <3>1, <3>2, <3>3, <2>3, <1>t, TakeUpStep DEF SchedulingTypeOK, Views
    <2>4. CASE \E a : AgentNotConnected(d, a)
      BY <2>4, <2>3, <1>t DEF AgentNotConnected
    <2>5. CASE AlreadyOver(d) \/ OrdinalTaken(d) \/ Wait(d)
      BY <2>5, <2>3, <1>t DEF AlreadyOver, OrdinalTaken, Wait
    <2>6. CASE Finish(d)
      <3>1. jstate' \in [Jobs -> JobStates]
        BY <2>6, <2>2, <1>j, <1>s DEF Finish
      <3> QED BY <2>6, <2>3, <3>1 DEF Finish
    <2>7. CASE RunLocalJob(d)
      <3>1. jstate' \in [Jobs -> JobStates] /\ tried' \subseteq Jobs
        BY <2>7, <2>2, <1>j, <1>s, <1>t DEF RunLocalJob
      <3>2. place' \in [Dispatchers -> {"idle", "selecting", "local"}]
        BY <2>7, <1>t DEF RunLocalJob
      <3>3. seen' \in [Dispatchers -> Views \cup {None}]
        BY <2>7, <1>t DEF RunLocalJob
      <3>4. UNCHANGED <<rows, leasing, working, offers>>
        BY <2>7 DEF RunLocalJob, attempts
      <3>5. \A e \in Dispatchers : IF e = d THEN place'[e] = "local"
                                   ELSE place'[e] = place[e] /\ seen'[e] = seen[e]
        BY <2>7, <1>t DEF RunLocalJob
      <3>6. DispatchShape'
        BY <3>4, <3>5, <2>1 DEF DispatchShape
      <3> QED BY <3>1, <3>2, <3>3, <3>4, <3>6, <2>1, <1>t DEF SchedulingTypeOK, Views
    <2>8. ASSUME NEW a \in Agents, InitiateRemoteAttempt(d, a)
          PROVE  SchedulingTypeOK' /\ DispatchShape'
      <3>1. PICK id \in UnusedIds(a, JobOf(d)) :
               /\ leasing' = [leasing EXCEPT ![a] = @ \cup {id}]
               /\ offers' = [offers EXCEPT ![a] = Append(@, id)]
        BY <2>8 DEF InitiateRemoteAttempt
      <3>2. id \in AttemptIds
        BY <3>1, <2>2 DEF UnusedIds, AttemptIds
      <3>3. leasing' \in [Agents -> SUBSET AttemptIds]
        BY <3>1, <3>2, <1>t
      <3>4. offers' \in [Agents -> Seq(AttemptIds)]
        <4>1. Append(offers[a], id) \in Seq(AttemptIds)
          BY <3>2, <1>t
        <4> QED BY <3>1, <4>1, <1>t
      <3>5. working' = working /\ tried' \subseteq Jobs /\ jstate' \in [Jobs -> JobStates]
        BY <2>8, <2>2, <1>j, <1>s, <1>t DEF InitiateRemoteAttempt
      <3>6. View' \in Views
        BY <2>1, <3>3, <3>5, <1>t, NextViewType DEF ViewSources
      <3>7. PICK jobs \in Seq(Jobs) : TakeUp(d, jobs)
        BY <2>8, <2>2 DEF InitiateRemoteAttempt, Return
      <3> QED BY <2>1, <3>3, <3>4, <3>5, <3>6, <3>7, <1>t, TakeUpStep DEF SchedulingTypeOK, Views
    <2>9. \A a : a \in Best(JobOf(d), seen[d]) => (place[d] = "selecting" => a \in Agents)
      BY DEF Best, Eligible, DispatchShape, Views
    <2> QED
      BY <1>3, <2>4, <2>5, <2>6, <2>7, <2>8, <2>9 DEF DispatchStep, DispatchJobExecution, LocalJobEnds
  <1>4. ASSUME NEW a \in Agents, HandleLeaseOffer(a)
        PROVE  SchedulingTypeOK' /\ DispatchShape'
    <2>1. offers[a] \in Seq(AttemptIds) /\ offers[a] # <<>>
      BY <1>4, <1>t DEF HandleLeaseOffer
    <2>2. Head(offers[a]) \in AttemptIds /\ Tail(offers[a]) \in Seq(AttemptIds)
      BY <2>1
    <2>3. offers' \in [Agents -> Seq(AttemptIds)]
      BY <1>4, <2>2, <1>t DEF HandleLeaseOffer
    <2>4. \E kind \in Kinds : Reply(a, kind, Head(offers[a]))
      BY <1>4 DEF HandleLeaseOffer
    <2>5. PICK f \in Answers : replies' = [replies EXCEPT ![a] = Append(@, f)]
      BY <2>2, <2>4, <1>f DEF Reply
    <2>6. Append(replies[a], f) \in Seq(Answers)
      BY <1>t
    <2>7. replies' \in [Agents -> Seq(Answers)]
      BY <2>5, <2>6, <1>t
    <2>8. held' \in [Agents -> SUBSET AttemptIds]
      <3>1. held' = held \/ held' = [held EXCEPT ![a] = @ \cup {Head(offers[a])}]
        BY <1>4 DEF HandleLeaseOffer
      <3>2. held[a] \cup {Head(offers[a])} \in SUBSET AttemptIds
        BY <2>2, <1>t
      <3>3. CASE held' = [held EXCEPT ![a] = @ \cup {Head(offers[a])}]
        BY <3>2, <3>3, <1>t
      <3> QED BY <3>1, <3>3, <1>t
    <2>9. UNCHANGED <<jstate, tried, leasing, working, recent, ended, place, rows, seen, connected,
                      pressed, upsets>>
      BY <1>4 DEF HandleLeaseOffer, attempts, tasks, weather
    <2> QED BY <2>3, <2>7, <2>8, <2>9, <1>t, <1>k DEF SchedulingTypeOK, Views, tasks, Answers
  <1>5. ASSUME NEW a \in Agents, NEW id \in AttemptIds, SendCleanupComplete(a, id)
        PROVE  SchedulingTypeOK' /\ DispatchShape'
    <2>1. PICK f \in Answers : replies' = [replies EXCEPT ![a] = Append(@, f)]
      BY <1>5, <1>f DEF Reply, SendCleanupComplete
    <2>2. Append(replies[a], f) \in Seq(Answers)
      BY <1>t
    <2>3. replies' \in [Agents -> Seq(Answers)]
      BY <2>1, <2>2, <1>t
    <2>4. ended' \in [Agents -> SUBSET AttemptIds]
      BY <1>5, <1>t DEF SendCleanupComplete
    <2>5. UNCHANGED <<jstate, tried, leasing, working, recent, offers, held, place, rows, seen, connected,
                      pressed, upsets>>
      BY <1>5 DEF SendCleanupComplete, attempts, tasks, weather
    <2> QED BY <2>3, <2>4, <2>5, <1>t, <1>k DEF SchedulingTypeOK, Views, tasks, Answers
  <1>6. ASSUME NEW a \in Agents, NEW id \in AttemptIds, ClearAttempt(a, id)
        PROVE  SchedulingTypeOK' /\ DispatchShape'
    <2>1. ended' \in [Agents -> SUBSET AttemptIds]
      BY <1>6, <1>t DEF ClearAttempt
    <2>2. held' \in [Agents -> SUBSET AttemptIds]
      BY <1>6, <1>t DEF ClearAttempt
    <2>3. UNCHANGED <<jstate, tried, leasing, working, recent, offers, replies, place, rows, seen,
                      connected, pressed, upsets>>
      BY <1>6 DEF ClearAttempt, attempts, tasks, weather
    <2> QED BY <2>1, <2>2, <2>3, <1>t, <1>k DEF SchedulingTypeOK, Views, tasks
  <1>7. ASSUME NEW a \in Agents, Handle(a)
        PROVE  SchedulingTypeOK' /\ DispatchShape'
    <2>1. replies[a] # <<>> /\ replies' = [replies EXCEPT ![a] = Tail(@)]
      BY <1>7 DEF Handle, HandleRemoteLeaseAccept, HandleRemoteLeaseReject, RejectLease,
             HandleRemoteCleanupComplete, Receive
    <2>2. replies[a] \in Seq(Answers)
      BY <1>t
    <2>3. Head(replies[a]) \in Answers /\ Tail(replies[a]) \in Seq(Answers)
      BY <2>1, <2>2
    <2>4. replies' \in [Agents -> Seq(Answers)]
      BY <2>1, <2>3, <1>t
    <2>5. Answered(a) \in AttemptIds /\ AnsweredJob(a) \in Jobs
      BY <2>3, <1>i DEF Answered, AnsweredJob, AttemptIds
    <2>6. ASSUME NEW result \in {"failed", "succeeded"}, Record(a, result)
          PROVE  recent' \in [Agents -> Seq({"failed", "succeeded"})]
      <3> DEFINE all == <<result>> \o recent[a]
                 n == IF Len(recent[a]) < Window THEN Len(recent[a]) + 1 ELSE Window
      <3>1. recent[a] \in Seq({"failed", "succeeded"}) /\ Len(recent[a]) \in Nat
        BY <1>t
      <3>2. all \in Seq({"failed", "succeeded"}) /\ Len(all) = Len(recent[a]) + 1
        BY <3>1
      <3>3. n \in Nat /\ n <= Len(all)
        BY <3>1, <3>2, SchedulingAssumption
      <3> HIDE DEF all, n
      <3>4. SubSeq(all, 1, n) \in Seq({"failed", "succeeded"})
        BY <3>2, <3>3
      <3> QED BY <2>6, <3>4, <1>t DEF Record, all, n
    <2>7. jstate' \in [Jobs -> JobStates]
      BY <1>7, <2>5, <1>j, <1>s, <1>t DEF Handle, HandleRemoteLeaseAccept, HandleRemoteLeaseReject,
             RejectLease, HandleRemoteCleanupComplete
    <2>8. leasing' \in [Agents -> SUBSET AttemptIds]
      <3>1. \/ leasing' = leasing
            \/ leasing' = [leasing EXCEPT ![a] = @ \ {Answered(a)}]
        BY <1>7 DEF Handle, HandleRemoteLeaseAccept, HandleRemoteLeaseReject, RejectLease,
               HandleRemoteCleanupComplete, attempts
      <3> QED BY <3>1, <1>t
    <2>9. working' \in [Agents -> SUBSET AttemptIds]
      <3>1. \/ working' = working
            \/ working' = [working EXCEPT ![a] = @ \cup {Answered(a)}]
            \/ working' = [working EXCEPT ![a] = @ \ {Answered(a)}]
        BY <1>7 DEF Handle, HandleRemoteLeaseAccept, HandleRemoteLeaseReject, RejectLease,
               HandleRemoteCleanupComplete, attempts
      <3>2. /\ working[a] \cup {Answered(a)} \in SUBSET AttemptIds
            /\ working[a] \ {Answered(a)} \in SUBSET AttemptIds
        BY <2>5, <1>t
      <3>3. CASE working' = [working EXCEPT ![a] = @ \cup {Answered(a)}]
        BY <3>2, <3>3, <1>t
      <3>4. CASE working' = [working EXCEPT ![a] = @ \ {Answered(a)}]
        BY <3>2, <3>4, <1>t
      <3> QED BY <3>1, <3>3, <3>4, <1>t
    <2>10. recent' \in [Agents -> Seq({"failed", "succeeded"})]
      <3>1. recent' = recent \/ \E result \in {"failed", "succeeded"} : Record(a, result)
        BY <1>7, <2>5, SchedulingAssumption
           DEF Handle, HandleRemoteLeaseAccept, HandleRemoteLeaseReject, RejectLease,
               HandleRemoteCleanupComplete
      <3> QED BY <3>1, <2>6, <1>t
    <2>11. UNCHANGED <<tried, offers, held, ended, place, rows, seen, connected, pressed, upsets>>
      BY <1>7 DEF Handle, HandleRemoteLeaseAccept, HandleRemoteLeaseReject, RejectLease,
             HandleRemoteCleanupComplete, tasks, weather
    <2> QED BY <2>4, <2>7, <2>8, <2>9, <2>10, <2>11, <1>t, <1>k DEF SchedulingTypeOK, Views, tasks, Answers
  <1>8. ASSUME NEW a \in Agents, Disconnect(a) \/ Connect(a) \/ Press(a) \/ Relieve(a)
        PROVE  SchedulingTypeOK' /\ DispatchShape'
    <2>1. connected' \subseteq Agents /\ pressed' \subseteq Agents
      BY <1>8, <1>t DEF Disconnect, Connect, Press, Relieve
    <2>2. upsets' \in 0..MaxUpsets
      BY <1>8, <1>t, SchedulingAssumption DEF Disconnect, Connect, Press, Relieve
    <2>3. UNCHANGED <<jstate, tried, leasing, working, recent, offers, replies, held, ended, place,
                      rows, seen>>
      BY <1>8 DEF Disconnect, Connect, Press, Relieve, attempts, wire, tasks
    <2> QED BY <2>1, <2>2, <2>3, <1>t, <1>k DEF SchedulingTypeOK, Views, tasks
  <1> QED BY <1>1, <1>2, <1>3, <1>4, <1>5, <1>6, <1>7, <1>8 DEF SchedulingNext, Work

(* Fewer leases and fewer hopeful dispatches keep within the bound. *)
LEMMA RoomKept ==
    ASSUME NEW U \in SUBSET AttemptIds, NEW V \in SUBSET U,
           NEW H \in SUBSET Dispatchers, NEW K \in SUBSET H, NEW m \in Nat,
           (U # {} /\ Cardinality(U) >= m) =>
               Cardinality(U) + Cardinality(H) < m + Cardinality(Dispatchers),
           V # {}, Cardinality(V) >= m
    PROVE  Cardinality(V) + Cardinality(K) < m + Cardinality(Dispatchers)
  <1>1. /\ IsFiniteSet(U) /\ Cardinality(U) \in Nat
        /\ Cardinality(V) \in Nat
    BY FiniteAttempts
  <1>2. Cardinality(V) <= Cardinality(U)
    BY <1>1, FS_Subset
  <1>3. IsFiniteSet(H) /\ Cardinality(H) \in Nat /\ Cardinality(Dispatchers) \in Nat
    BY FiniteDispatchers
  <1>4. Cardinality(K) \in Nat /\ Cardinality(K) <= Cardinality(H)
    BY <1>3, FS_Subset, FS_CardinalityType
  <1>5. U # {}
    OBVIOUS
  <1> QED BY <1>1, <1>2, <1>3, <1>4, <1>5

(* A dispatch that adds a lease gives up its hope of the Agent, if it is full now. *)
LEMMA RoomTaken ==
    ASSUME NEW U \in SUBSET AttemptIds, NEW id \in AttemptIds \ U,
           NEW H \in SUBSET Dispatchers, NEW d \in H, NEW K \in SUBSET (Dispatchers \ {d}),
           NEW m \in Nat, m # 0, Cardinality(U) >= m => K \subseteq H,
           (U # {} /\ Cardinality(U) >= m) =>
               Cardinality(U) + Cardinality(H) < m + Cardinality(Dispatchers)
    PROVE  Cardinality(U \cup {id}) + Cardinality(K) < m + Cardinality(Dispatchers)
  <1>1. IsFiniteSet(U) /\ Cardinality(U) \in Nat
    BY FiniteAttempts
  <1>2. Cardinality(U \cup {id}) = Cardinality(U) + 1
    BY <1>1, FS_AddElement
  <1>3. /\ IsFiniteSet(H) /\ Cardinality(H) \in Nat /\ IsFiniteSet(Dispatchers)
        /\ Cardinality(Dispatchers) \in Nat /\ Cardinality(K) \in Nat
    BY FiniteDispatchers
  <1>4. CASE Cardinality(U) >= m
    <2>1. K \subseteq H \ {d}
      BY <1>4
    <2>2. IsFiniteSet(H \ {d}) /\ Cardinality(H \ {d}) = Cardinality(H) - 1
      BY <1>3, FS_RemoveElement
    <2>3. Cardinality(K) <= Cardinality(H \ {d})
      BY <2>1, <2>2, FS_Subset
    <2>4. U # {}
      BY <1>4, FS_EmptySet
    <2> QED BY <1>1, <1>2, <1>3, <1>4, <2>2, <2>3, <2>4
  <1>5. CASE Cardinality(U) < m
    <2>1. IsFiniteSet(Dispatchers \ {d}) /\ Cardinality(Dispatchers \ {d}) = Cardinality(Dispatchers) - 1
      BY <1>3, FS_RemoveElement
    <2>2. Cardinality(K) <= Cardinality(Dispatchers \ {d})
      BY <2>1, FS_Subset
    <2> QED BY <1>1, <1>2, <1>3, <1>5, <2>1, <2>2
  <1> QED BY <1>1, <1>4, <1>5

(* A dispatch that goes on reads the counts again: it does not hope for an Agent that
   is full. *)
LEMMA FreshViewShowsFull ==
    ASSUME SchedulingTypeOK, DispatchShape, View' \in Views,
           NEW d \in Dispatchers, NEW jobs \in Seq(Jobs), TakeUp(d, jobs),
           NEW a \in Agents, Cardinality(Unfinished(a)') >= MaxJobs[a]
    PROVE  Hopeful(a)' \subseteq Hopeful(a) \ {d}
  <1>1. /\ \A e \in Dispatchers : e # d => place'[e] = place[e] /\ seen'[e] = seen[e]
        /\ place'[d] = "selecting" => seen'[d] = View'
    BY TakeUpStep
  <1>2. View'.active[a] = Cardinality(Unfinished(a)')
    BY DEF View, ActiveJobs
  <1>3. View'.active[a] \in Nat /\ MaxJobs[a] \in Nat
    BY LimitType DEF Views
  <1>4. ~(View'.active[a] < MaxJobs[a])
    BY <1>2, <1>3
  <1>5. d \notin Hopeful(a)'
    BY <1>1, <1>4 DEF Hopeful
  <1>6. \A e \in Dispatchers : e # d => (e \in Hopeful(a)' => e \in Hopeful(a))
    BY <1>1 DEF Hopeful
  <1> QED BY <1>5, <1>6 DEF Hopeful

(* Every step shares the room that an Agent has. *)
LEMMA RoomStep ==
    ASSUME SchedulingInv, SchedulingNext
    PROVE  RoomShared'
  <1>t. /\ SchedulingTypeOK /\ DispatchShape /\ SchedulingTypeOK' /\ DispatchShape'
    BY SchedulingTypeStep DEF SchedulingInv
  <1>v. View' \in Views
    BY <1>t, NextViewType DEF SchedulingTypeOK, ViewSources
  <1> SUFFICES ASSUME NEW a \in Agents, Unfinished(a)' # {},
                      Cardinality(Unfinished(a)') >= MaxJobs[a]
               PROVE  Cardinality(Unfinished(a)') + Cardinality(Hopeful(a)')
                          < MaxJobs[a] + Cardinality(Dispatchers)
    BY DEF RoomShared
  <1>u. /\ Unfinished(a) \in SUBSET AttemptIds /\ Unfinished(a)' \in SUBSET AttemptIds
        /\ Hopeful(a) \in SUBSET Dispatchers /\ Hopeful(a)' \in SUBSET Dispatchers
        /\ MaxJobs[a] \in Nat
    BY <1>t, LimitType DEF SchedulingTypeOK, Unfinished, Hopeful
  <1>r. (Unfinished(a) # {} /\ Cardinality(Unfinished(a)) >= MaxJobs[a]) =>
            Cardinality(Unfinished(a)) + Cardinality(Hopeful(a)) < MaxJobs[a] + Cardinality(Dispatchers)
    BY DEF SchedulingInv, RoomShared
  <1>k. ASSUME Unfinished(a)' \subseteq Unfinished(a), Hopeful(a)' \subseteq Hopeful(a)
        PROVE  Cardinality(Unfinished(a)') + Cardinality(Hopeful(a)')
                   < MaxJobs[a] + Cardinality(Dispatchers)
    <2>1. Unfinished(a)' \in SUBSET Unfinished(a) /\ Hopeful(a)' \in SUBSET Hopeful(a)
      BY <1>k
    <2> QED BY <2>1, <1>u, <1>r, RoomKept
  <1>q. ASSUME tasks' = tasks PROVE Hopeful(a)' = Hopeful(a)
    BY <1>q DEF tasks, Hopeful
  <1>n. ASSUME attempts' = attempts PROVE Unfinished(a)' = Unfinished(a)
    BY <1>n DEF attempts, Unfinished
  <1>h. ASSUME NEW d \in Dispatchers, NEW jobs \in Seq(Jobs), TakeUp(d, jobs)
        PROVE  Hopeful(a)' \subseteq Hopeful(a) \ {d}
    BY <1>h, <1>t, <1>v, FreshViewShowsFull
  <1>e. <<>> \in Seq(Jobs)
    OBVIOUS
  <1>1. ASSUME NEW d \in Dispatchers, Sweep(d) \/ \E j \in Jobs : Submit(d, j)
        PROVE  Cardinality(Unfinished(a)') + Cardinality(Hopeful(a)')
                   < MaxJobs[a] + Cardinality(Dispatchers)
    <2>1. attempts' = attempts
      BY <1>1 DEF Sweep, Submit
    <2>2. \E jobs \in Seq(Jobs) : TakeUp(d, jobs)
      <3>1. CASE Sweep(d)
        <4>1. PICK s \in Queue : TakeUp(d, [i \in DOMAIN s |-> Order[s[i]]])
          BY <3>1 DEF Sweep
        <4>2. [i \in DOMAIN s |-> Order[s[i]]] \in Seq(Jobs)
          BY <1>t, QueueType
        <4> QED BY <4>1, <4>2
      <3>2. CASE \E j \in Jobs : Submit(d, j)
        <4>1. PICK j \in Jobs : TakeUp(d, <<j>>)
          BY <3>2 DEF Submit
        <4>2. <<j>> \in Seq(Jobs)
          OBVIOUS
        <4> QED BY <4>1, <4>2
      <3> QED BY <1>1, <3>1, <3>2
    <2>3. Hopeful(a)' \subseteq Hopeful(a)
      BY <2>2, <1>h
    <2> QED BY <2>1, <2>3, <1>n, <1>k
  <1>2. ASSUME NEW d \in Dispatchers, DispatchStep(d)
        PROVE  Cardinality(Unfinished(a)') + Cardinality(Hopeful(a)')
                   < MaxJobs[a] + Cardinality(Dispatchers)
    <2>1. place[d] # "idle"
      BY <1>2 DEF DispatchStep, DispatchJobExecution, LocalJobEnds
    <2>2. JobOf(d) \in Jobs /\ Tail(rows[d]) \in Seq(Jobs)
      <3>1. rows[d] \in Seq(Jobs) /\ rows[d] # <<>>
        BY <2>1, <1>t DEF DispatchShape, SchedulingTypeOK
      <3> QED BY <3>1 DEF JobOf
    <2>3. ASSUME attempts' = attempts, Return(d) \/ Throw(d)
          PROVE  Cardinality(Unfinished(a)') + Cardinality(Hopeful(a)')
                     < MaxJobs[a] + Cardinality(Dispatchers)
      <3>1. Hopeful(a)' \subseteq Hopeful(a)
        BY <2>2, <2>3, <1>e, <1>h DEF Return, Throw
      <3> QED BY <2>3, <3>1, <1>n, <1>k
    <2>4. CASE (\E b : AgentNotConnected(d, b)) \/ AlreadyOver(d) \/ OrdinalTaken(d) \/ Wait(d) \/ Finish(d)
      BY <2>4, <2>3 DEF AgentNotConnected, AlreadyOver, OrdinalTaken, Wait, Finish
    <2>5. CASE RunLocalJob(d)
      <3>1. \A e \in Dispatchers : IF e = d THEN place'[e] = "local"
                                   ELSE place'[e] = place[e] /\ seen'[e] = seen[e]
        BY <2>5, <1>t DEF RunLocalJob, SchedulingTypeOK
      <3>2. Hopeful(a)' \subseteq Hopeful(a)
        BY <3>1 DEF Hopeful
      <3>3. attempts' = attempts
        BY <2>5 DEF RunLocalJob
      <3> QED BY <3>2, <3>3, <1>n, <1>k
    <2>6. ASSUME NEW b \in Agents, place[d] = "selecting", b \in Best(JobOf(d), seen[d]),
                 InitiateRemoteAttempt(d, b)
          PROVE  Cardinality(Unfinished(a)') + Cardinality(Hopeful(a)')
                     < MaxJobs[a] + Cardinality(Dispatchers)
      <3>1. PICK id \in UnusedIds(b, JobOf(d)) : leasing' = [leasing EXCEPT ![b] = @ \cup {id}]
        BY <2>6 DEF InitiateRemoteAttempt
      <3>2. id \in AttemptIds /\ id \notin Unfinished(b)
        BY <3>1, <2>2 DEF UnusedIds, AttemptIds
      <3>3. working' = working /\ TakeUp(d, Tail(rows[d]))
        BY <2>6 DEF InitiateRemoteAttempt, Return
      <3>4. Hopeful(a)' \subseteq Hopeful(a) \ {d}
        BY <3>3, <2>2, <1>h
      <3>5. leasing'[a] = IF a = b THEN leasing[a] \cup {id} ELSE leasing[a]
        BY <3>1, <1>t DEF SchedulingTypeOK
      <3>6. CASE a # b
        <4>1. Unfinished(a)' = Unfinished(a)
          BY <3>3, <3>5, <3>6 DEF Unfinished
        <4> QED BY <3>4, <4>1, <1>k
      <3>7. CASE a = b
        <4>1. Unfinished(a)' = Unfinished(a) \cup {id}
          BY <3>3, <3>5, <3>7 DEF Unfinished
        <4>2. seen[d].active[a] < MaxJobs[a] /\ seen[d] \in Views
          BY <2>6, <3>7, <1>t DEF Best, Eligible, HasCapacity, DispatchShape
        <4>3. d \in Hopeful(a)
          BY <2>6, <4>2 DEF Hopeful
        <4>4. MaxJobs[a] # 0
          BY <4>2, <1>u DEF Views
        <4>5. Hopeful(a)' \in SUBSET (Dispatchers \ {d}) /\ Hopeful(a)' \subseteq Hopeful(a)
          BY <3>4, <1>u
        <4>6. id \in AttemptIds \ Unfinished(a)
          BY <3>2, <3>7
        <4>7. Cardinality(Unfinished(a) \cup {id}) + Cardinality(Hopeful(a)')
                  < MaxJobs[a] + Cardinality(Dispatchers)
          BY <4>3, <4>4, <4>5, <4>6, <1>u, <1>r, RoomTaken
        <4> QED BY <4>1, <4>7
      <3> QED BY <3>6, <3>7
    <2>7. \A b : b \in Best(JobOf(d), seen[d]) => (place[d] = "selecting" => b \in Agents)
      BY <1>t DEF Best, Eligible, DispatchShape, Views
    <2> QED
      BY <1>2, <2>4, <2>5, <2>6, <2>7 DEF DispatchStep, DispatchJobExecution, LocalJobEnds
  <1>3. ASSUME NEW b \in Agents, Handle(b)
        PROVE  Cardinality(Unfinished(a)') + Cardinality(Hopeful(a)')
                   < MaxJobs[a] + Cardinality(Dispatchers)
    <2>1. tasks' = tasks
      BY <1>3 DEF Handle, HandleRemoteLeaseAccept, HandleRemoteLeaseReject, RejectLease,
             HandleRemoteCleanupComplete
    <2>2. Unfinished(a)' \subseteq Unfinished(a)
      <3>t. leasing \in [Agents -> SUBSET AttemptIds] /\ working \in [Agents -> SUBSET AttemptIds]
        BY <1>t DEF SchedulingTypeOK
      <3>1. \/ attempts' = attempts
            \/ /\ leasing' = [leasing EXCEPT ![b] = @ \ {Answered(b)}]
               /\ working' = working
            \/ /\ Answered(b) \in leasing[b]
               /\ leasing' = [leasing EXCEPT ![b] = @ \ {Answered(b)}]
               /\ working' = [working EXCEPT ![b] = @ \cup {Answered(b)}]
            \/ /\ leasing' = leasing
               /\ working' = [working EXCEPT ![b] = @ \ {Answered(b)}]
        BY <1>3 DEF Handle, HandleRemoteLeaseAccept, HandleRemoteLeaseReject, RejectLease,
               HandleRemoteCleanupComplete, attempts
      <3> QED BY <3>1, <3>t DEF Unfinished, attempts
    <2> QED BY <2>1, <2>2, <1>q, <1>k
  <1>4. ASSUME NEW b \in Agents, HandleLeaseOffer(b) \/ Work(b) \/ Disconnect(b) \/ Connect(b)
                                 \/ Press(b) \/ Relieve(b)
        PROVE  Cardinality(Unfinished(a)') + Cardinality(Hopeful(a)')
                   < MaxJobs[a] + Cardinality(Dispatchers)
    <2>1. tasks' = tasks /\ attempts' = attempts
      BY <1>4 DEF HandleLeaseOffer, Work, SendCleanupComplete, ClearAttempt, Disconnect, Connect,
             Press, Relieve
    <2> QED BY <2>1, <1>q, <1>n, <1>k
  <1> QED BY <1>1, <1>2, <1>3, <1>4 DEF SchedulingNext

(* Nothing is leased and no dispatch is under way when the Controller starts. *)
LEMMA SchedulingStart == SchedulingInit => SchedulingInv
  <1> SUFFICES ASSUME SchedulingInit PROVE SchedulingInv
    OBVIOUS
  <1>e. /\ \A S : <<>> \in Seq(S)
        /\ 0 \in 0..MaxUpsets
    BY SchedulingAssumption
  <1>1. SchedulingTypeOK
    BY <1>e DEF SchedulingInit, SchedulingTypeOK, JobStates
  <1>2. DispatchShape
    BY DEF SchedulingInit, DispatchShape
  <1>3. RoomShared
    BY DEF SchedulingInit, RoomShared, Unfinished
  <1> QED BY <1>1, <1>2, <1>3 DEF SchedulingInv

(* The invariant holds throughout. *)
LEMMA SchedulingInvariance == SchedulingSpec => []SchedulingInv
  <1>1. ASSUME SchedulingInv, SchedulingNext PROVE SchedulingInv'
    BY <1>1, SchedulingTypeStep, RoomStep DEF SchedulingInv
  <1>2. ASSUME SchedulingInv, UNCHANGED schedulingVars PROVE SchedulingInv'
    <2>1. UNCHANGED <<jstate, tried, leasing, working, recent, offers, replies, held, ended, place,
                      rows, seen, connected, pressed, upsets>>
      BY <1>2 DEF schedulingVars, attempts, wire, tasks, weather
    <2>2. SchedulingTypeOK'
      BY <1>2, <2>1 DEF SchedulingInv, SchedulingTypeOK
    <2>3. DispatchShape'
      BY <1>2, <2>1 DEF SchedulingInv, DispatchShape
    <2>4. RoomShared'
      BY <1>2, <2>1 DEF SchedulingInv, RoomShared, Unfinished, Hopeful
    <2> QED BY <2>2, <2>3, <2>4 DEF SchedulingInv
  <1> QED BY <1>1, <1>2, SchedulingStart, PTL DEF SchedulingSpec

(* Every variable of the scheduler keeps its type: in particular a dispatch that is
   suspended in dispatchJobExecution holds a list of jobs, and the counts it read are
   numbers. *)
THEOREM SchedulingTypeCorrect == SchedulingSpec => []SchedulingTypeOK
  <1>1. SchedulingInv => SchedulingTypeOK
    BY DEF SchedulingInv
  <1> QED BY <1>1, SchedulingInvariance, PTL

(* For any number of Agents, jobs and dispatches in flight: the leases offered to an
   Agent exceed its max_jobs by less than the number of dispatches
   (dispatchJobExecution, getActiveJobsForAgents). *)
THEOREM LeasesAreBounded == SchedulingSpec => []OvercommitBounded
  <1>1. SchedulingInv => OvercommitBounded
    <2> SUFFICES ASSUME SchedulingInv, NEW a \in Agents, Unfinished(a) # {}
                 PROVE  Cardinality(Unfinished(a)) < MaxJobs[a] + Cardinality(Dispatchers)
      BY DEF OvercommitBounded
    <2>1. /\ Unfinished(a) \in SUBSET AttemptIds /\ Hopeful(a) \in SUBSET Dispatchers
      BY DEF SchedulingInv, SchedulingTypeOK, Unfinished, Hopeful
    <2>2. /\ Cardinality(Unfinished(a)) \in Nat /\ Cardinality(Hopeful(a)) \in Nat
          /\ Cardinality(Dispatchers) \in Nat /\ MaxJobs[a] \in Nat
      BY <2>1, FiniteAttempts, FiniteDispatchers, LimitType
    <2>3. Cardinality(Unfinished(a)) >= MaxJobs[a] =>
              Cardinality(Unfinished(a)) + Cardinality(Hopeful(a)) < MaxJobs[a] + Cardinality(Dispatchers)
      BY DEF SchedulingInv, RoomShared
    <2> QED BY <2>2, <2>3
  <1> QED BY <1>1, SchedulingInvariance, PTL
=============================================================================
