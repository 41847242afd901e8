----------------------------- MODULE SwitchAgent -----------------------------
(***************************************************************************)
(* The switch agent (lib/switch_agent.h) in its model configuration, with  *)
(* the state it keeps of all streams (lib/switch_agent_state.h), its STUN  *)
(* agent (lib/stun_agent.cc) and the table of the data plane it drives.    *)
(*                                                                         *)
(* The agent runs one event loop, so every handler is one action.  An      *)
(* exception that escapes a handler ends the process (operator()).         *)
(*                                                                         *)
(* The controller is the environment: it announces each send stream once,  *)
(* with the SSRCs of the sender's browser, and each receive stream once,   *)
(* with the SSRCs of the send stream.  The command that announces a send   *)
(* stream may be lost on the way (WebSocketSession::write).  A participant *)
(* sends all its media from one address and has one address for all it     *)
(* receives from one sender.                                               *)
(***************************************************************************)
EXTENDS DataPlaneModel, FiniteSets

CONSTANT
    Settings   \* what the agent is used for: one record for each case

VARIABLES
    setting,   \* the case; it does not change
    up,        \* io_context::run has not been left
    announced, \* the controller: send streams <<sid, pid, mid>> to main SSRC
    asked,     \* the controller: receive streams it announced
    sends,     \* SwitchAgentState::_sendStreams, by id
    recvs,     \* SwitchAgentState::_receiveStreams, by id
    peers,     \* STUNAgent::_peers
    valid,     \* the peers that are validated
    sfu        \* the table of the data plane

envVars == <<setting, announced, asked>>
vars == <<setting, up, announced, asked, sends, recvs, peers, valid, sfu>>

SessionIds  == setting.sessions
PIds        == setting.pids        \* participant ids of a session, from 1
Mids        == setting.mids        \* media ids
VideoMids   == setting.videoMids   \* video has an SSRC for retransmissions
MainSSRCs   == setting.ssrcs       \* even numbers; s + 1 is the rtx SSRC
MayCollide  == setting.mayCollide  \* two streams of a session may share an SSRC
MayLoseSend == setting.mayLose     \* an announcement of a send stream may be lost
Checkers    == setting.checkers    \* participants that send connectivity checks
Bitrates    == setting.bitrates    \* estimates receivers report, in kbit/s
MaxReport   == setting.maxReport   \* bound on the SSRCs one estimate lists
ApiTargets  == setting.apiTargets  \* targets asked for through the API, valid or not

ASSUME SwitchAgentAssumption ==
    \A c \in Settings :
        /\ c.sessions \subseteq Nat
        /\ c.pids \subseteq Nat \ {0}
        /\ ZeroAddr \notin c.sessions \X c.pids \X c.pids
        /\ c.videoMids \subseteq c.mids
        /\ c.checkers \subseteq c.pids
        /\ c.ssrcs \subseteq {s \in Nat : s > FeedbackSSRC /\ s % 2 = 0}
        /\ c.bitrates \subseteq Nat
        /\ c.maxReport \in Nat
        /\ c.apiTargets \subseteq Nat

-----------------------------------------------------------------------------

StreamKey == SessionIds \X PIds \X Mids

\* Where participant p of session s sends from, and where it receives q's media.
SendAddr(s, p) == <<s, p, p>>
RecvAddr(s, p, q) == <<s, p, q>>
Addr == SessionIds \X PIds \X PIds

RtxOf(ssrc, m) == IF m \in VideoMids THEN ssrc + 1 ELSE NoSSRC

SSRC == MainSSRCs \cup {s + 1 : s \in MainSSRCs}

SendStream ==
    [sid : SessionIds, from : PIds, addr : Addr, ssrc : SSRC, video : BOOLEAN, rtx : BOOLEAN]

ReceiveStream ==
    [sid : SessionIds, from : PIds, to : PIds, addr : Addr, ssrc : SSRC,
     video : BOOLEAN, rtx : BOOLEAN, target : DecodeTarget]

TypeOK ==
    /\ setting \in Settings
    /\ up \in BOOLEAN
    /\ DOMAIN announced \subseteq StreamKey
    /\ \A k \in DOMAIN announced : announced[k] \in MainSSRCs
    /\ asked \subseteq StreamKey \X PIds
    /\ sends \in Seq(SendStream)
    /\ recvs \in Seq(ReceiveStream)
    /\ peers \subseteq Addr
    /\ valid \subseteq peers
    /\ DOMAIN sfu \subseteq (Addr \cup {ZeroAddr}) \X (SSRC \cup {NoSSRC, FeedbackSSRC})
    /\ \A m \in DOMAIN sfu :
          sfu[m] \in Seq([to : Addr \cup {ZeroAddr}, svc : SUBSET DecodeTarget])

Init ==
    /\ setting \in Settings
    /\ up = TRUE
    /\ announced = [k \in {} |-> NoSSRC]
    /\ asked = {}
    /\ sends = <<>>
    /\ recvs = <<>>
    /\ peers = {}
    /\ valid = {}
    /\ sfu = EmptyTable

-----------------------------------------------------------------------------
(* SwitchAgentState *)

\* Mutant: found by SSRC alone.
getSendStream_anywhere(s, ssrc) == {i \in DOMAIN sends : sends[i].ssrc = ssrc}

\* getSendStream and the two getReceiveStream: the ids a search may return.
getSendStream(s, ssrc) == {i \in DOMAIN sends : sends[i].sid = s /\ sends[i].ssrc = ssrc}

getReceiveStream(s, ssrc, p) ==
    {i \in DOMAIN recvs : recvs[i].sid = s /\ recvs[i].ssrc = ssrc /\ recvs[i].to = p}

getReceiveStreamAt(addr, ssrc) ==
    {i \in DOMAIN recvs : recvs[i].addr = addr /\ recvs[i].ssrc = ssrc}

\* The main stream and, for video, the one for retransmissions.
addSendStream(s, p, m, ssrc) ==
    LET new(n, r) == [sid |-> s, from |-> p, addr |-> SendAddr(s, p), ssrc |-> n,
                      video |-> m \in VideoMids, rtx |-> r]
    IN sends \o <<new(ssrc, FALSE)>>
             \o (IF RtxOf(ssrc, m) # NoSSRC THEN <<new(RtxOf(ssrc, m), TRUE)>> ELSE <<>>)

addSendStreamThrows(s, m, ssrc) ==
    getSendStream(s, ssrc) # {} \/ getSendStream(s, RtxOf(ssrc, m)) # {}

\* Type and sender are those of the send stream.
addReceiveStream(s, p, addr, ssrc, rtxSsrc) ==
    LET new(n, r) ==
            LET ss == sends[CHOOSE i \in getSendStream(s, n) : TRUE]
            IN [sid |-> s, from |-> ss.from, to |-> p, addr |-> addr, ssrc |-> n,
                video |-> ss.video, rtx |-> r, target |-> MaxIdent]
    IN recvs \o <<new(ssrc, FALSE)>>
             \o (IF rtxSsrc # NoSSRC THEN <<new(rtxSsrc, TRUE)>> ELSE <<>>)

addReceiveStreamThrows(s, rtxSsrc) == rtxSsrc # NoSSRC /\ getSendStream(s, rtxSsrc) = {}

-----------------------------------------------------------------------------
(* _onAddStream *)

\* Mutant: a peer with the same host counts as known whatever its port.
withPeer_host(addr) ==
    IF \E a \in peers : a[1] = addr[1] /\ a[2] = addr[2] THEN peers ELSE peers \cup {addr}

\* addPeer unless hasPeer.
withPeer(addr) == peers \cup {addr}

UsedInSession(s, ssrc) == \E k \in DOMAIN announced : k[1] = s /\ announced[k] = ssrc

\* The controller learns of a new send stream.
Announce(s, p, m, ssrc) ==
    /\ up
    /\ <<s, p, m>> \notin DOMAIN announced
    /\ MayCollide \/ ~UsedInSession(s, ssrc)
    /\ announced' = [k \in DOMAIN announced \cup {<<s, p, m>>} |->
                       IF k = <<s, p, m>> THEN ssrc ELSE announced[k]]

SendStreamLost(s, p, m, ssrc) ==
    /\ MayLoseSend
    /\ Announce(s, p, m, ssrc)
    /\ UNCHANGED <<setting, up, asked, sends, recvs, peers, valid, sfu>>

\* The data plane gets the sender as the destination, from address 0:0.
OnAddSendStream(s, p, m, ssrc) ==
    /\ Announce(s, p, m, ssrc)
    /\ ~addSendStreamThrows(s, m, ssrc)
    /\ sends' = addSendStream(s, p, m, ssrc)
    /\ peers' = withPeer(SendAddr(s, p))
    /\ sfu' = addStream(sfu, [src |-> ZeroAddr, dst |-> SendAddr(s, p), ssrc |-> ssrc,
                              rtxSsrc |-> RtxOf(ssrc, m), rtcpSsrc |-> NoSSRC,
                              rtcpRtxSsrc |-> NoSSRC])
    /\ UNCHANGED <<setting, up, asked, recvs, valid>>

OnAddSendStreamThrows(s, p, m, ssrc) ==
    /\ Announce(s, p, m, ssrc)
    /\ addSendStreamThrows(s, m, ssrc)
    /\ up' = FALSE
    /\ UNCHANGED <<setting, asked, sends, recvs, peers, valid, sfu>>

\* Participant p receives from q.  The peer is known to the STUN agent even if
\* the send stream is not found and nothing is forwarded.
OnAddReceiveStream(s, p, q, m) ==
    LET ssrc  == announced[<<s, q, m>>]
        rtx   == RtxOf(ssrc, m)
        addr  == RecvAddr(s, p, q)
        found == getSendStream(s, ssrc)
    IN /\ up
       /\ p # q
       /\ <<s, q, m>> \in DOMAIN announced
       /\ <<<<s, q, m>>, p>> \notin asked
       /\ asked' = asked \cup {<<<<s, q, m>>, p>>}
       /\ peers' = withPeer(addr)
       /\ \/ /\ found = {}
             /\ UNCHANGED <<up, recvs, sfu>>
          \/ /\ found # {}
             /\ addReceiveStreamThrows(s, rtx)
             /\ up' = FALSE
             /\ recvs' = addReceiveStream(s, p, addr, ssrc, NoSSRC)
             /\ UNCHANGED sfu
          \/ /\ found # {}
             /\ ~addReceiveStreamThrows(s, rtx)
             /\ recvs' = addReceiveStream(s, p, addr, ssrc, rtx)
             /\ \E i \in found :
                   sfu' = addStream(sfu, [src |-> sends[i].addr, dst |-> addr, ssrc |-> ssrc,
                                          rtxSsrc |-> rtx, rtcpSsrc |-> FeedbackSSRC,
                                          rtcpRtxSsrc |-> FeedbackSSRC])
             /\ UNCHANGED up
       /\ UNCHANGED <<setting, announced, sends, valid>>

-----------------------------------------------------------------------------
(* Decode targets *)

\* Mutant: the range of the target is not checked.
Adjustable_unchecked(i, target) ==
    /\ getSendStream(recvs[i].sid, recvs[i].ssrc) # {}
    /\ recvs[i].video /\ ~recvs[i].rtx

\* _adjustDecodeTarget for the receive stream i: only video that is not a
\* retransmission, and only if the send stream is there.
Adjustable(i, target) ==
    /\ target <= MaxIdent
    /\ getSendStream(recvs[i].sid, recvs[i].ssrc) # {}
    /\ recvs[i].video /\ ~recvs[i].rtx

Adjusted(table, i, target) ==
    LET ss == sends[CHOOSE j \in getSendStream(recvs[i].sid, recvs[i].ssrc) : TRUE]
    IN adjustDecodeTarget(table, ss.addr, recvs[i].addr, ss.ssrc, target)

\* _decideDecodeTarget, bit rates in kbit/s.
decideDecodeTarget(bitrate) ==
    IF bitrate > 2000 THEN 2 ELSE IF bitrate > 1000 THEN 1 ELSE 0

\* _processReceiverEstimatedBitrate for one SSRC of a report, on the streams and
\* the table as the SSRCs before it left them.  The target is stored first, then
\* set in the data plane if that is possible, for the stream found by session,
\* SSRC and participant.  An SSRC that is not found ends the report.
processEstimate(st, addr, ssrc, target) ==
    LET i == CHOOSE n \in getReceiveStreamAt(addr, ssrc) : TRUE
        j == CHOOSE n \in getReceiveStream(recvs[i].sid, ssrc, recvs[i].to) : TRUE
    IN IF st.ended \/ getReceiveStreamAt(addr, ssrc) = {} THEN [st EXCEPT !.ended = TRUE]
       ELSE IF target = st.recvs[i].target THEN st
       ELSE IF Adjustable(j, target)
       THEN [st EXCEPT !.recvs[i].target = target, !.recvs[j].target = target,
                       !.sfu = Adjusted(@, j, target)]
       ELSE [st EXCEPT !.recvs[i].target = target]

processReport(st, addr, part) ==
    LET after[n \in 0..Len(part.ssrcs)] ==
            IF n = 0 THEN [st EXCEPT !.ended = FALSE]
            ELSE processEstimate(after[n - 1], addr, part.ssrcs[n],
                                 decideDecodeTarget(part.bitrate))
    IN after[Len(part.ssrcs)]

\* A compound packet: some report or feedback message, alone or with an estimate
\* of the bandwidth behind it, or the estimate alone.
Part(t) == [type |-> t, ssrcs |-> <<>>, bitrate |-> 0]

Estimates ==
    [type : {"remb"}, ssrcs : UNION {[1..n -> SSRC] : n \in 1..MaxReport}, bitrate : Bitrates]

Compounds == {<<e>> : e \in Estimates} \cup {<<Part(t), e>> : t \in RTCPTypes, e \in Estimates}

\* _handleRTCP: all parts in order.  Only estimates change anything.
handleCompound(addr, packet) ==
    LET after[n \in 0..Len(packet)] ==
            IF n = 0 THEN [recvs |-> recvs, sfu |-> sfu, ended |-> FALSE]
            ELSE IF packet[n].type = "remb" THEN processReport(after[n - 1], addr, packet[n])
            ELSE after[n - 1]
    IN after[Len(packet)]

\* Participant p sends feedback on streams of q.  The data plane decides by the
\* first part whether the agent sees it.
OnRTCP(s, p, q, packet) ==
    LET after == handleCompound(RecvAddr(s, p, q), packet)
    IN /\ up
       /\ handleRTCP(sfu, packet[1].type, RecvAddr(s, p, q), FeedbackSSRC).cpu
       /\ recvs' = after.recvs
       /\ sfu' = after.sfu
       /\ UNCHANGED <<up, envVars, sends, peers, valid>>

\* _onAPISetDecodeTarget: the data plane first, then the stored target.
OnAPISetDecodeTarget(s, ssrc, p, target) ==
    /\ up
    /\ \E i \in getReceiveStream(s, ssrc, p) :
          /\ Adjustable(i, target)
          /\ sfu' = Adjusted(sfu, i, target)
          /\ recvs' = [recvs EXCEPT ![i].target = target]
    /\ UNCHANGED <<up, envVars, sends, peers, valid>>

\* _onAPIGetStreams: the receive streams shown with the send stream i, those
\* added for it.
receiversOf(i) ==
    {j \in DOMAIN recvs : recvs[j].sid = sends[i].sid /\ recvs[j].ssrc = sends[i].ssrc}

\* A binding request with the right credentials from a known peer.
OnSTUNBindingRequest(addr) ==
    /\ up
    /\ addr \in peers /\ addr[2] \in Checkers
    /\ valid' = valid \cup {addr}
    /\ UNCHANGED <<up, envVars, sends, recvs, peers, sfu>>

-----------------------------------------------------------------------------

Next ==
    \/ \E s \in SessionIds, p \in PIds :
          \/ \E m \in Mids, ssrc \in MainSSRCs :
                \/ SendStreamLost(s, p, m, ssrc)
                \/ OnAddSendStream(s, p, m, ssrc)
                \/ OnAddSendStreamThrows(s, p, m, ssrc)
          \/ \E q \in PIds, m \in Mids : OnAddReceiveStream(s, p, q, m)
          \/ \E q \in PIds, packet \in Compounds : OnRTCP(s, p, q, packet)
          \/ \E ssrc \in SSRC, t \in ApiTargets : OnAPISetDecodeTarget(s, ssrc, p, t)
    \/ \E addr \in Addr : OnSTUNBindingRequest(addr)

Spec == Init /\ [][Next]_vars

-----------------------------------------------------------------------------
(* Properties *)

\* Two streams of one session use the same SSRC: it is up to the browsers.
Collision(s) ==
    \E k, l \in DOMAIN announced :
        k # l /\ k[1] = s /\ l[1] = s /\ announced[k] = announced[l]

\* What the agent shows as the decode target of a video stream is what the data
\* plane does for that receiver, though bandwidth estimates and API requests
\* store and install it in opposite orders and find the stream by other keys.
\* Two streams with one SSRC, of which only one was announced to the agent, share
\* an entry of the table, and then a target may be stored for the other receiver.
StoredTargetInForce ==
    \A i \in DOMAIN sends : \A j \in receiversOf(i) :
        sends[i].video /\ ~sends[i].rtx /\ ~Collision(sends[i].sid) =>
            TargetInForce(sfu, sends[i].addr, recvs[j].addr, sends[i].ssrc) = {recvs[j].target}

\* Media and feedback of every receive stream have their way, whichever
\* announcements were lost: the sender's reports go where its media goes, to the
\* receiver; the receiver's requests for retransmissions and pictures, which have
\* the same SSRC for audio and video, go to that sender and to nobody else, and
\* its reports to the agent only.
ForwardingComplete ==
    \A i \in DOMAIN recvs :
        LET r         == recvs[i]
            sender    == SendAddr(r.sid, r.from)
            reports   == handleRTCP(sfu, "sr", sender, r.ssrc).to
            back(t)   == handleRTCP(sfu, t, r.addr, FeedbackSSRC)
        IN ~Collision(r.sid) =>
              /\ r.addr \in reports
              /\ \A t \in {"nack", "pli"} : back(t) = [to |-> {sender}, cpu |-> TRUE]
              /\ back("rr") = [to |-> {}, cpu |-> TRUE]

\* Flows of media, and the flows that may be meant by a request: the sender is
\* found by its SSRC.
MediaFlows ==
    UNION {{<<m[1], m[2], to>> : to \in Destinations(sfu, m[1], m[2])} :
              m \in {n \in DOMAIN sfu : n[1] # ZeroAddr /\ n[2] \in SSRC}}

Meant(a) ==
    LET k    == a[1]
        ssrc == announced[k]
    IN {{<<SendAddr(k[1], l[2]), n, RecvAddr(k[1], a[2], k[2])>> :
            n \in {ssrc, RtxOf(ssrc, k[3])} \ {NoSSRC}} :
            l \in {x \in DOMAIN announced : x[1] = k[1] /\ announced[x] = ssrc}}

Router == INSTANCE MediaRouter WITH
    Requests  <- SUBSET ((Nat \X Nat \X Nat) \X Nat \X (Nat \X Nat \X Nat)),
    alive     <- up,
    requested <- UNION {Meant(a) : a \in asked},
    forwarded <- MediaFlows

\* The agent and its table implement the abstract data plane: media goes only
\* where the controller asked for it, in the session of the sender, for a stream
\* and its retransmissions at once, and stays forwarded whatever targets are set.
ImplementsMediaRouter == Router!Spec

\* A receiver that media is forwarded to can complete its connectivity checks.
DestinationsArePeers ==
    \A m \in DOMAIN sfu : \A to \in Destinations(sfu, m[1], m[2]) :
        to # ZeroAddr => to \in peers

\* The agent stops only if two streams of one session use the same SSRC.
StopsOnlyOnCollision == ~up => \E s \in SessionIds : Collision(s)

=============================================================================
