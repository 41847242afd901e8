----------------------------- MODULE Controller -----------------------------
(***************************************************************************)
(* The signalling controller (controller/controller.cc) with its two       *)
(* connection tables: clients (lib/controller_client_interface.cc) and     *)
(* switches (lib/controller_switch_interface.cc).                          *)
(*                                                                         *)
(* The controller runs one event loop, so every handler is one action.  An *)
(* exception that escapes a handler leaves io_context::run and ends the    *)
(* process (Controller::operator()): the action then sets running to FALSE *)
(* and only what had left the process is kept, the commands written to a   *)
(* switch.                                                                 *)
(*                                                                         *)
(* Clients are the environment.  A client sends one hello when its socket  *)
(* opens, offers whenever its user shares a track, and one answer, with    *)
(* all the offered media lines, per offer it was sent.  It may vanish at   *)
(* any time; the controller learns of it later, and until then a write to  *)
(* it may or may not fail.                                                 *)
(***************************************************************************)
EXTENDS Session

CONSTANTS
    SessionIds,   \* session ids clients ask for in their hello
    IceKinds,     \* kinds of ICE candidate lists clients send
    SwitchPorts,  \* endpoints switches connect from: natural numbers, the
                  \* order std::map iterates in
    MayVanish,    \* the clients and switch endpoints that may lose their
                  \* connection (environment)
    MaxBehind,    \* bound: writes to a switch endpoint that are started while
                  \* another is under way
    None          \* no offer outstanding

ASSUME IceKindsAssumption == IceKinds \subseteq IceKind
\* Ports are 16-bit numbers.
ASSUME SwitchPortsAssumption == SwitchPorts \subseteq Nat /\ IsFiniteSet(SwitchPorts)

ASSUME MaxBehindAssumption == MaxBehind \in Nat

VARIABLES
    running,  \* io_context::run has not been left
    sess,     \* SessionManager::_sessions; a session exists once next > 0
    conn,     \* ControllerClientInterface::_connections with each socket
    todo,     \* the offer a client was sent and has not answered
    sw,       \* ControllerSwitchInterface::_connections
    swOld,    \* the endpoints whose entry is of a socket before the one they have
    swSock,   \* the socket of each switch endpoint
    writing,  \* the sockets on which an asynchronous write is under way
    spoilt,   \* the sockets on which one was started behind another
    behind,   \* history: how often that happened on an endpoint
    swErr,    \* an asynchronous write to a switch has failed
    cmds      \* commands that reached the agent behind each switch socket

switchVars == <<sw, swOld, swSock>>
writeVars == <<writing, spoilt, behind, swErr, cmds>>
vars == <<running, sess, conn, todo, switchVars, writeVars>>

-----------------------------------------------------------------------------
(* Connections *)

\* none: never connected; open; gone: broken, close event pending; closed:
\* close handled, table entry kept; reopened: a second socket from the same
\* endpoint, for which the table still holds the first.
Phase == {"none", "open", "gone", "closed", "reopened"}

ConnType == [phase : Phase, reg : BOOLEAN, sid : SUBSET SessionIds, pid : 0..MaxParticipants]

NoConn == [phase |-> "none", reg |-> FALSE, sid |-> {}, pid |-> 0]

OfferType == [from : 0..MaxParticipants, media : SUBSET Mids]

ASSUME NoneAssumption == None \notin OfferType

CmdType ==
    [op : {"participant"}, sid : SessionIds, pid : PId]
      \cup [op : {"send"}, sid : SessionIds, pid : PId, mid : Mids]
      \cup [op : {"recv"}, sid : SessionIds, pid : PId, from : PId, mid : Mids]

\* The table entry of a switch endpoint, and its socket: down, up, broken
\* with the close event pending, dead once the close was handled.
SwState == {"none", "open", "registered"}
SockState == {"down", "up", "broken", "dead"}

\* _connectionById(0): the first entry in endpoint order.  Every entry matches,
\* registered or not: meta.id is 0 by default and 0 is the only id accepted.
Connected == {n \in SwitchPorts : sw[n] # "none"}

Switch0 == CHOOSE n \in Connected : \A m \in Connected : n <= m

TypeOK ==
    /\ running \in BOOLEAN
    /\ sess \in [SessionIds -> SessionType]
    /\ conn \in [Clients -> ConnType]
    /\ todo \in [Clients -> OfferType \cup {None}]
    /\ sw \in [SwitchPorts -> SwState]
    /\ swOld \subseteq Connected
    /\ swSock \in [SwitchPorts -> SockState]
    /\ writing \subseteq SwitchPorts
    /\ spoilt \subseteq SwitchPorts
    /\ behind \in [SwitchPorts -> 0..MaxBehind]
    /\ swErr \in BOOLEAN
    /\ cmds \in [SwitchPorts -> SUBSET CmdType]

Init ==
    /\ running = TRUE
    /\ sess = [s \in SessionIds |-> NewSession]
    /\ conn = [c \in Clients |-> NoConn]
    /\ todo = [c \in Clients |-> None]
    /\ sw = [n \in SwitchPorts |-> "none"]
    /\ swOld = {}
    /\ swSock = [n \in SwitchPorts |-> "down"]
    /\ writing = {}
    /\ spoilt = {}
    /\ behind = [n \in SwitchPorts |-> 0]
    /\ swErr = FALSE
    /\ cmds = [n \in SwitchPorts |-> {}]

\* ControllerClientInterface::get: the entry whose meta names the participant.
HasConnection(s, p) == \E c \in Clients : conn[c].sid = {s} /\ conn[c].pid = p

ConnectionOf(s, p) == CHOOSE c \in Clients : conn[c].sid = {s} /\ conn[c].pid = p

\* SecureWebSocketSession::write is synchronous and throws on an error code.
WriteMayFail(c) == conn[c].phase # "open"
WriteMaySucceed(c) == conn[c].phase \in {"open", "gone"}

\* The socket of the entry has not been closed.  An entry whose socket has may be
\* left behind, also when its endpoint has come back.
Live(n) == n \notin swOld /\ swSock[n] \in {"up", "broken"}

\* WebSocketSession::write starts an async_write on a temporary string.  On a
\* socket without a write under way the first is sent at once.  One that is
\* started behind another, of the same handler or of one before, is sent when
\* that is done, from a string that is gone by then: nothing says what arrives.
Arrives(n, written, arrived) ==
    IF swSock[n] = "up" THEN n \in writing \/ arrived # {} ELSE arrived = {}

StartWrite(n, several) ==
    /\ writing' = writing \cup {n}
    /\ IF several \/ n \in writing
       THEN /\ behind[n] < MaxBehind
            /\ spoilt' = spoilt \cup {n}
            /\ behind' = [behind EXCEPT ![n] = @ + 1]
       ELSE UNCHANGED <<spoilt, behind>>

\* The handler writes these commands to switch 0.  On a closed socket the write
\* completes with an error.
Command(written) ==
    \/ written = {} /\ UNCHANGED writeVars
    \/ /\ written # {}
       /\ Live(Switch0)
       /\ StartWrite(Switch0, \E a, b \in written : a # b)
       /\ \E arrived \in SUBSET written :
             /\ Arrives(Switch0, written, arrived)
             /\ cmds' = [cmds EXCEPT ![Switch0] = @ \cup arrived]
       /\ UNCHANGED swErr
    \/ /\ written # {}
       /\ ~Live(Switch0)
       /\ swErr' = TRUE
       /\ UNCHANGED <<writing, spoilt, behind, cmds>>

SendCmds(s, p, media) == {[op |-> "send", sid |-> s, pid |-> p, mid |-> m] : m \in media}

\* Mutant: receiver and sender swapped.
RecvCmds_swapped(s, p, q, media) ==
    {[op |-> "recv", sid |-> s, pid |-> q, from |-> p, mid |-> m] : m \in media}

RecvCmds(s, p, q, media) ==
    {[op |-> "recv", sid |-> s, pid |-> p, from |-> q, mid |-> m] : m \in media}

\* A handler throws after it wrote these commands: the process ends, its memory
\* and its sockets are gone.
Terminate(written) ==
    /\ running' = FALSE
    /\ sess' = [s \in SessionIds |-> NewSession]
    /\ conn' = [c \in Clients |-> NoConn]
    /\ todo' = [c \in Clients |-> None]
    /\ sw' = [n \in SwitchPorts |-> "none"]
    /\ swOld' = {}
    /\ swSock' = [n \in SwitchPorts |-> "down"]
    /\ Command(written)

-----------------------------------------------------------------------------
(* Client connections *)

\* ControllerClientInterface::_onClientOpen: emplace leaves an old entry alone.
OnClientOpen(c) ==
    /\ running
    /\ \/ conn[c].phase = "none" /\ conn' = [conn EXCEPT ![c].phase = "open"]
       \/ conn[c].phase = "closed" /\ conn' = [conn EXCEPT ![c].phase = "reopened"]
    /\ UNCHANGED <<running, sess, todo, switchVars, writeVars>>

\* The peer is gone; the controller has not read the error yet.
ClientVanishes(c) ==
    /\ running
    /\ c \in MayVanish
    /\ conn[c].phase = "open"
    /\ conn' = [conn EXCEPT ![c].phase = "gone"]
    /\ UNCHANGED <<running, sess, todo, switchVars, writeVars>>

\* _onClientClose: the participant is removed, nothing else.  The switch is not
\* told, the connection entry and the session stay.
OnClientClose(c) ==
    /\ running
    /\ conn[c].phase \in {"gone", "reopened"}
    /\ conn' = [conn EXCEPT ![c].phase = "closed"]
    /\ todo' = [todo EXCEPT ![c] = None]
    /\ sess' = [s \in SessionIds |->
                  IF /\ conn[c].phase = "gone"
                     /\ conn[c].sid = {s}
                     /\ conn[c].pid \in sess[s].ids
                  THEN removeParticipant(sess[s], conn[c].pid)
                  ELSE sess[s]]
    /\ UNCHANGED <<running, switchVars, writeVars>>

\* SecureWebSocketSession::_read: an error that is not one of closing throws.
OnClientReadError(c) ==
    /\ running
    /\ conn[c].phase \in {"gone", "reopened"}
    /\ Terminate({})

-----------------------------------------------------------------------------
(* _onNewParticipant *)

\* The session once the new participant is in it.
Joined(s, c) == addParticipant(sess[s], c)

JoinOffer(s, c) ==
    Cardinality(Joined(s, c).ids) > 1 /\ hasStreams(Joined(s, c))

JoinCmd(s, c) == {[op |-> "participant", sid |-> s, pid |-> nextParticipantId(sess[s])]}

HelloGuard(c, s) ==
    /\ running
    /\ \/ conn[c].phase \in {"open", "gone"} /\ ~conn[c].reg
       \/ conn[c].phase = "reopened"
    /\ sess[s].next < MaxParticipants
    /\ ~participantExistsAt(sess[s], c)

\* The session holds the new participant and, if it had a stream and another
\* participant, the signalling transaction of the one who is initiator now.
OnNewParticipant(c, s) ==
    LET p == nextParticipantId(sess[s])
    IN /\ HelloGuard(c, s)
       /\ WriteMaySucceed(c)
       /\ Connected # {}
       /\ JoinOffer(s, c) => ~getOfferThrows(Joined(s, c), p)
       /\ conn' = [conn EXCEPT ![c].reg = TRUE, ![c].sid = {s}, ![c].pid = p]
       /\ IF JoinOffer(s, c)
          THEN LET after == getOffer(Joined(s, c), p)
               IN /\ sess' = [sess EXCEPT ![s] = after]
                  /\ todo' = [todo EXCEPT ![c] = [from |-> 0, media |-> offerMedia(after)]]
          ELSE /\ sess' = [sess EXCEPT ![s] = Joined(s, c)]
               /\ UNCHANGED todo
       /\ Command(JoinCmd(s, c))
       /\ UNCHANGED <<running, switchVars>>

\* sendHello fails, no switch is connected, or there is no unique initiator
\* whose streams could be offered, or sendOffer fails.
OnNewParticipantThrows(c, s) ==
    /\ HelloGuard(c, s)
    /\ \/ WriteMayFail(c) /\ Terminate({})
       \/ Connected = {} /\ Terminate({})
       \/ /\ Connected # {}
          /\ JoinOffer(s, c)
          /\ \/ getOfferThrows(Joined(s, c), nextParticipantId(sess[s]))
             \/ WriteMayFail(c)
          /\ Terminate(JoinCmd(s, c))

-----------------------------------------------------------------------------
(* _onClientOffer *)

\* A message of a registered client.
FromParticipant(c, s) ==
    /\ running
    /\ conn[c].phase \in {"open", "gone"}
    /\ conn[c].reg
    /\ conn[c].sid = {s}
    /\ conn[c].pid \in sess[s].ids

Others(s, p) == sess[s].ids \ {p}

OnClientOffer(c, s, media, ice) ==
    LET p     == conn[c].pid
        added == addOffer(sess[s], p, media, ice)
        new   == newSendStreams(sess[s], p, media)
    IN /\ FromParticipant(c, s)
       /\ ~addOfferRefused(sess[s], p)
       /\ ~addOfferBadStream(sess[s], p, media, ice)
       /\ new # {} => Connected # {}
       /\ Command(SendCmds(s, p, new))
       /\ \/ /\ Others(s, p) # {}
             /\ \A q \in Others(s, p) :
                    HasConnection(s, q) /\ WriteMaySucceed(ConnectionOf(s, q))
             /\ sess' = [sess EXCEPT ![s] = getOffers(added, p)]
             /\ todo' = [d \in Clients |->
                           IF \E q \in Others(s, p) : d = ConnectionOf(s, q)
                           THEN [from |-> p, media |-> offerMedia(added)]
                           ELSE todo[d]]
          \/ /\ Others(s, p) = {}
             /\ WriteMaySucceed(c)
             /\ sess' = [sess EXCEPT ![s] = getAnswer(added, p)]
             /\ UNCHANGED todo
       /\ UNCHANGED <<running, conn, switchVars>>

OnClientOfferThrows(c, s, media, ice) ==
    LET p   == conn[c].pid
        new == newSendStreams(sess[s], p, media)
    IN /\ FromParticipant(c, s)
       /\ \/ addOfferRefused(sess[s], p) /\ Terminate({})
          \/ /\ ~addOfferRefused(sess[s], p)
             /\ addOfferBadStream(sess[s], p, media, ice)
             /\ Terminate({})
          \/ /\ ~addOfferRefused(sess[s], p)
             /\ ~addOfferBadStream(sess[s], p, media, ice)
             /\ new # {} /\ Connected = {}
             /\ Terminate({})
          \/ /\ ~addOfferRefused(sess[s], p)
             /\ ~addOfferBadStream(sess[s], p, media, ice)
             /\ new # {} => Connected # {}
             /\ \/ Others(s, p) = {} /\ WriteMayFail(c)
                \/ \E q \in Others(s, p) :
                       ~HasConnection(s, q) \/ WriteMayFail(ConnectionOf(s, q))
             /\ Terminate(SendCmds(s, p, new))

-----------------------------------------------------------------------------
(* _onClientAnswer *)

\* The answer is the one to the offer the client was sent.
OnClientAnswer(c, s, ice) ==
    LET p     == conn[c].pid
        media == todo[c].media
        init  == participantInState(sess[s], "gotOffer")
        new   == newReceiveStreams(sess[s], p, media)
        added == addAnswer(sess[s], p, media, ice)
    IN /\ FromParticipant(c, s)
       /\ todo[c] # None
       /\ ~addAnswerRefused(sess[s], p)
       /\ ~addAnswerBadStream(sess[s], p, media, ice)
       /\ new # {} => Connected # {}
       /\ Command(RecvCmds(s, p, init, new))
       /\ todo' = [todo EXCEPT ![c] = None]
       /\ \/ /\ participantsInState(added, "awaitAnswer") # {}
             /\ sess' = [sess EXCEPT ![s] = added]
          \/ /\ participantsInState(added, "awaitAnswer") = {}
             /\ HasConnection(s, init)
             /\ WriteMaySucceed(ConnectionOf(s, init))
             /\ sess' = [sess EXCEPT ![s] = getAnswer(added, init)]
       /\ UNCHANGED <<running, conn, switchVars>>

OnClientAnswerThrows(c, s, ice) ==
    LET p     == conn[c].pid
        media == todo[c].media
        init  == participantInState(sess[s], "gotOffer")
        new   == newReceiveStreams(sess[s], p, media)
        added == addAnswer(sess[s], p, media, ice)
    IN /\ FromParticipant(c, s)
       /\ todo[c] # None
       /\ \/ addAnswerRefused(sess[s], p) /\ Terminate({})
          \/ /\ ~addAnswerRefused(sess[s], p)
             /\ addAnswerBadStream(sess[s], p, media, ice)
             /\ Terminate({})
          \/ /\ ~addAnswerRefused(sess[s], p)
             /\ ~addAnswerBadStream(sess[s], p, media, ice)
             /\ new # {} /\ Connected = {}
             /\ Terminate({})
          \/ /\ ~addAnswerRefused(sess[s], p)
             /\ ~addAnswerBadStream(sess[s], p, media, ice)
             /\ new # {} => Connected # {}
             /\ participantsInState(added, "awaitAnswer") = {}
             /\ ~HasConnection(s, init) \/ WriteMayFail(ConnectionOf(s, init))
             /\ Terminate(RecvCmds(s, p, init, new))

-----------------------------------------------------------------------------
(* Switch connections *)

\* ControllerSwitchInterface::_onSwitchOpen: emplace leaves an old entry alone,
\* with the connection object of the socket before.  The agent behind a new socket
\* starts with an empty state.
OnSwitchOpen(n) ==
    /\ running
    /\ swSock[n] \in {"down", "dead"}
    /\ sw' = [sw EXCEPT ![n] = IF @ = "none" THEN "open" ELSE @]
    /\ swOld' = IF sw[n] = "none" THEN swOld ELSE swOld \cup {n}
    /\ swSock' = [swSock EXCEPT ![n] = "up"]
    /\ spoilt' = spoilt \ {n}
    /\ cmds' = [cmds EXCEPT ![n] = {}]
    /\ UNCHANGED <<running, sess, conn, todo, writing, behind, swErr>>

\* _onNewSwitch: only one switch, only id 0; the hello that answers is written to
\* the socket of the entry.
OnNewSwitch(n) ==
    /\ running
    /\ sw[n] = "open"
    /\ swSock[n] \in {"up", "broken"}
    /\ \A m \in SwitchPorts : sw[m] # "registered"
    /\ sw' = [sw EXCEPT ![n] = "registered"]
    /\ IF Live(n)
       THEN StartWrite(n, FALSE) /\ UNCHANGED swErr
       ELSE swErr' = TRUE /\ UNCHANGED <<writing, spoilt, behind>>
    /\ UNCHANGED <<running, sess, conn, todo, swOld, swSock, cmds>>

\* The completion of the last write that is under way.
OnSwitchWritten(n) ==
    /\ running
    /\ n \in writing
    /\ writing' = writing \ {n}
    /\ UNCHANGED <<running, sess, conn, todo, switchVars, spoilt, behind, swErr, cmds>>

\* The agent ends as well over a message that it cannot read.
SwitchVanishes(n) ==
    /\ running
    /\ n \in MayVanish \cup spoilt
    /\ swSock[n] = "up"
    /\ swSock' = [swSock EXCEPT ![n] = "broken"]
    /\ UNCHANGED <<running, sess, conn, todo, sw, swOld, writeVars>>

\* Mutant: only an entry that is registered is erased.
OnSwitchClose_registered(n) ==
    LET erased == {m \in {Switch0} : sw[m] = "registered"}
    IN /\ running
       /\ swSock[n] = "broken"
       /\ Connected # {}
       /\ sw' = [m \in SwitchPorts |-> IF m \in erased THEN "none" ELSE sw[m]]
       /\ swOld' = swOld \ erased
       /\ swSock' = [swSock EXCEPT ![n] = "dead"]
       /\ writing' = writing \ {n}
       /\ swErr' \in {swErr, swErr \/ n \in writing}
       /\ UNCHANGED <<running, sess, conn, todo, spoilt, behind, cmds>>

\* _onSwitchClose removes the entry found for the id, which need not be the
\* entry of the socket that closed.  A write still under way is cancelled.
OnSwitchClose(n) ==
    /\ running
    /\ swSock[n] = "broken"
    /\ Connected # {}
    /\ sw' = [sw EXCEPT ![Switch0] = "none"]
    /\ swOld' = swOld \ {Switch0}
    /\ swSock' = [swSock EXCEPT ![n] = "dead"]
    /\ writing' = writing \ {n}
    /\ swErr' \in {swErr, swErr \/ n \in writing}
    /\ UNCHANGED <<running, sess, conn, todo, spoilt, behind, cmds>>

\* remove throws when it finds no entry.
OnSwitchCloseThrows(n) ==
    /\ running
    /\ swSock[n] = "broken"
    /\ Connected = {}
    /\ Terminate({})

\* WebSocketSession::_read: an error that is not one of closing throws.
OnSwitchReadError(n) ==
    /\ running
    /\ swSock[n] = "broken"
    /\ Terminate({})

\* The completion handler of a failed write throws.
OnSwitchWriteError ==
    /\ running
    /\ swErr \/ \E n \in writing : swSock[n] = "broken"
    /\ Terminate({})

-----------------------------------------------------------------------------

ClientStep(c) ==
    \/ OnClientOpen(c)
    \/ ClientVanishes(c)
    \/ OnClientClose(c)
    \/ OnClientReadError(c)
    \/ \E s \in SessionIds :
          \/ OnNewParticipant(c, s)
          \/ OnNewParticipantThrows(c, s)
          \/ \E ice \in IceKinds :
                \/ \E media \in SUBSET Mids :
                      OnClientOffer(c, s, media, ice) \/ OnClientOfferThrows(c, s, media, ice)
                \/ OnClientAnswer(c, s, ice)
                \/ OnClientAnswerThrows(c, s, ice)

SwitchStep(n) ==
    \/ OnSwitchOpen(n)
    \/ OnNewSwitch(n)
    \/ OnSwitchWritten(n)
    \/ SwitchVanishes(n)
    \/ OnSwitchClose(n)
    \/ OnSwitchCloseThrows(n)
    \/ OnSwitchReadError(n)

Next ==
    \/ \E c \in Clients : ClientStep(c)
    \/ \E n \in SwitchPorts : SwitchStep(n)
    \/ OnSwitchWriteError

Spec == Init /\ [][Next]_vars

\* A browser answers the offer it was sent (P4SFUClient._onRemoteOffer awaits
\* only local promises) and the event loop reads the answer.  An offer without
\* participant id, the one for a joiner, is not promised an answer:
\* SignalClient._onOffer reports such a message and drops it.
AnswerStep(c) ==
    \E s \in SessionIds, ice \in IceKinds :
        /\ todo[c] # None /\ todo[c].from # 0
        /\ OnClientAnswer(c, s, ice) \/ OnClientAnswerThrows(c, s, ice)

\* The event loop also reads the completion of each write.
FairSpec ==
    /\ Spec
    /\ \A c \in Clients : WF_vars(AnswerStep(c))
    /\ \A n \in SwitchPorts : WF_vars(OnSwitchWritten(n))

-----------------------------------------------------------------------------
(* Properties *)

\* At most one participant of a session is the initiator of a signalling
\* transaction: participantInState(gotOffer), on which getOffer and addAnswer
\* rest, is never asked to choose between two.
OneInitiator ==
    \A s \in SessionIds : \A p, q \in participantsInState(sess[s], "gotOffer") : p = q

\* The state of the controller and what its clients hold agree: a participant
\* is in awaitAnswer exactly while its client has one unanswered offer, and as
\* long as the initiator is there that offer lists just what the initiator
\* sends, so that addAnswer never meets an unknown mid.
AwaitedOfferOutstanding ==
    \A s \in SessionIds, c \in Clients :
        conn[c].sid = {s} /\ conn[c].pid \in sess[s].ids =>
            /\ sess[s].sig[conn[c].pid] = "awaitAnswer" <=> todo[c] # None
            /\ \A q \in participantsInState(sess[s], "gotOffer") :
                  todo[c] # None => todo[c].media = sess[s].out[q]

\* Nobody is set up to receive a stream that a participant still in the session
\* does not send, nor its own stream.
ReceivesOnlyWhatIsSent ==
    \A s \in SessionIds : \A p, q \in sess[s].ids :
        /\ sess[s].in[p][q] \subseteq sess[s].out[q]
        /\ sess[s].in[p][p] = {}

\* Each participant is reached through exactly one entry of the connection
\* table, the one of its own endpoint, though entries are never erased:
\* ControllerClientInterface::get never throws and never picks a stale entry.
OneConnectionPerParticipant ==
    \A s \in SessionIds : \A p \in sess[s].ids :
        \E c \in Clients :
            /\ {d \in Clients : conn[d].sid = {s} /\ conn[d].pid = p} = {c}
            /\ sess[s].addr[p] = {c}
            /\ conn[c].phase \in {"open", "gone"}

\* An answer is sent to the initiator only when signalling is complete: in the
\* step that takes it back to stable nobody is left in awaitAnswer, and all the
\* others receive everything it sends, whoever joined or left meanwhile.
InitiatorAnsweredWhenComplete ==
    [][\A s \in SessionIds : \A p \in sess'[s].ids :
          /\ sess[s].sig[p] = "gotOffer"
          /\ sess'[s].sig[p] = "stable"
          => /\ participantsInState(sess'[s], "awaitAnswer") = {}
             /\ \A q \in sess'[s].ids \ {p} : sess'[s].out[p] \subseteq sess'[s].in[q][p]]_vars

\* What the session believes to be forwarded is what the switch was told: every
\* send stream and every receive stream, as long as no command was started while
\* another write was under way (by the same handler or by the one before).
SwitchHasSession(s) ==
    \A p \in sess[s].ids :
        /\ SendCmds(s, p, sess[s].out[p]) \subseteq cmds[Switch0]
        /\ \A q \in PId : RecvCmds(s, p, q, sess[s].in[p][q]) \subseteq cmds[Switch0]

SwitchFollowsSession ==
    running /\ Connected # {} /\ behind[Switch0] = 0 => \A s \in SessionIds : SwitchHasSession(s)

\* On one switch a receive stream is never known before the send stream it
\* forwards (SwitchAgent::_onAddStream ignores one that is), as long as no command
\* was started behind another.
SendStreamKnownFirst ==
    \A n \in SwitchPorts : \A k \in cmds[n] :
        behind[n] = 0 /\ k.op = "recv" =>
            [op |-> "send", sid |-> k.sid, pid |-> k.from, mid |-> k.mid] \in cmds[n]

\* controller.cc:175 "add participant on switch": whoever has joined is known to
\* the switch, which nobody has disconnected.
ParticipantOnSwitch ==
    running /\ Connected # {} =>
        \A s \in SessionIds : \A p \in sess[s].ids :
            [op |-> "participant", sid |-> s, pid |-> p] \in cmds[Switch0]

\* The table never holds more entries than there are sockets that have not been
\* closed, though a close may remove the entry of another socket and an endpoint
\* may come back while its old entry is still there: once the last switch is
\* gone no entry is left that a command would be written to.
SwitchEntriesBacked ==
    Cardinality(Connected) <= Cardinality({n \in SwitchPorts : swSock[n] \in {"up", "broken"}})

\* As long as nobody vanishes a signalling transaction ends, with everybody
\* back in stable or with the process, or somebody has joined meanwhile and was
\* sent an offer without participant id, which its browser does not answer.
TransactionEnds ==
    \A s \in SessionIds :
        participantsInState(sess[s], "gotOffer") # {}
            ~> \/ ~signalingActive(sess[s]) \/ ~running
               \/ \E c \in Clients : todo[c] # None /\ todo[c].from = 0

\* controller.cc:182 "send offer to new participant if there is more than one
\* participant": a participant who joins others that send streams is offered
\* them, and the controller goes on.
JoinerIsOffered ==
    [][\A s \in SessionIds, c \in Clients :
          /\ conn[c].phase = "open"
          /\ Connected # {}
          /\ OnNewParticipant(c, s) \/ OnNewParticipantThrows(c, s)
          /\ hasStreams(sess[s])
          => running' /\ todo'[c] # None]_vars

\* participant.h:36 gotOffer: "waits for answer after signaling to remaining
\* participants is complete": an initiator waits only while somebody still has
\* to answer.
InitiatorWaitsForSomeone ==
    running => \A s \in SessionIds :
        participantsInState(sess[s], "gotOffer") # {} =>
            participantsInState(sess[s], "awaitAnswer") # {}

=============================================================================
