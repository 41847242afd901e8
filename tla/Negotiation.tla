----------------------------- MODULE Negotiation -----------------------------
(***************************************************************************)
(* What the messages of signalling say: the session descriptions that      *)
(* browsers send, the controller reads (SDP), rewrites (lib/stream.cc,     *)
(* lib/session.cc, lib/sfu_config.h), sends on and keeps, and the commands *)
(* it derives from them for the switch (RPC).  The control of the session  *)
(* is that of Session; connections that fail, commands that are lost and   *)
(* participants that leave are in Controller.                              *)
(*                                                                         *)
(* A browser has one connection for what it sends and one per participant  *)
(* it receives from.  It bundles (max-bundle): all media sections of a     *)
(* connection share the transport of the first, which alone carries the    *)
(* candidates.  RTCPeerConnection is external.  Browsers are numbered in   *)
(* the order they join, that is by the participant id they are given.      *)
(***************************************************************************)
EXTENDS Session, SDP, RPC

CONSTANTS
    SessionId,       \* the session all clients ask for
    Kinds,           \* media a client may share, each once
    CandidateLists   \* what a client gathers: sequences of [net, prio]

ASSUME NegotiationAssumption ==
    /\ SessionId \in Nat \ {0}
    /\ Clients = PId
    /\ Mids = 1..Cardinality(Kinds)

VARIABLES
    running,    \* io_context::run has not been left
    sess,       \* the session: participants and signalling states
    streams,    \* descriptions of _sender.streams, by participant
    known,      \* _sender._iceCandidates, as far as it is read: the first
    rknown,     \* the same of _receivers[q]
    gathers,    \* the candidates a browser gathers for each connection
    tracks,     \* kinds a browser has shared; the mid is the position
    waits,      \* browsers whose own offer is unanswered
    recv,       \* the offer in force on each receive connection
    todo,       \* the receive connection a browser has to answer on, or 0
    answer,     \* the answer in force on the send connection
    agent,      \* what the switch agent has been told, while it lives
    ignored     \* messages that the controller (0) or a browser has dropped

controllerVars == <<sess, streams, known, rknown>>
browserVars == <<tracks, waits, recv, todo, answer>>
vars == <<running, controllerVars, gathers, browserVars, agent, ignored>>

Init ==
    /\ running = TRUE
    /\ sess = NewSession
    /\ streams = [p \in PId |-> <<>>]
    /\ known = [p \in PId |-> <<>>]
    /\ rknown = [p \in PId |-> [q \in PId |-> <<>>]]
    /\ gathers = [p \in PId |-> <<>>]
    /\ tracks = [p \in PId |-> <<>>]
    /\ waits = {}
    /\ recv = [p \in PId |-> [q \in PId |-> <<>>]]
    /\ todo = [p \in PId |-> 0]
    /\ answer = [p \in PId |-> <<>>]
    /\ agent = [alive |-> TRUE, participants |-> {}, streams |-> {}]
    /\ ignored = {}

-----------------------------------------------------------------------------
(* RTCPeerConnection: connection 0 of a client is the one it sends on *)

\* The candidates of connection q; each has an address of its own.
Gathered(c, q) == [i \in 1..Len(gathers[c]) |->
                     [net |-> gathers[c][i].net, prio |-> gathers[c][i].prio,
                      addr |-> <<c, q, i>>]]

MainSSRC(c, i) == 100 * c + 10 * i

\* Video has a second SSRC for retransmissions.
SSRCs(c, i, kind) ==
    LET S(n) == [ssrc |-> n, cname |-> <<c>>, msid |-> <<c, i>>]
    IN IF kind = "video" THEN <<S(MainSSRC(c, i)), S(MainSSRC(c, i) + 1)>>
       ELSE <<S(MainSSRC(c, i))>>

\* setCodecPreferences: AV1 with retransmissions, Opus.
Formats(kind) ==
    IF kind = "video"
    THEN <<[pt |-> 45, codec |-> "AV1", fbTypes |-> <<"nack", "transport-cc">>,
            fmtParams |-> <<"profile=0">>],
           [pt |-> 46, codec |-> "rtx", fbTypes |-> <<>>, fmtParams |-> <<"apt=45">>]>>
    ELSE <<[pt |-> 111, codec |-> "opus", fbTypes |-> <<"transport-cc">>,
            fmtParams |-> <<"minptime=10">>]>>

\* A media section as a browser writes it.
Section(kind, c, q, mid, direction, msid, ssrcs) ==
    LET cs == IF mid = 1 THEN Gathered(c, q) ELSE <<>>
    IN <<Line("m", [type |-> kind, port |-> 9]), Line("c", <<c, q, 0>>), Line("rtcp", 9)>>
         \o [i \in 1..Len(cs) |-> Line("candidate", cs[i])]
         \o <<Line("ufrag", <<c, q>>), Line("pwd", <<c, q>>), Line("ice-other", "trickle"),
              Line("other", "fingerprint"), Line("mid", mid), Line("extmap", "transport-cc"),
              Line("direction", direction)>>
         \o [i \in 1..Len(msid) |-> Line("msid", msid[i])]
         \o <<Line("rtcp-other", "mux")>>
         \o FlattenSeq([i \in 1..Len(Formats(kind)) |-> formatLines(Formats(kind)[i])])
         \o ssrcLines(ssrcs)

Preamble(c) == <<Line("v", 0), Line("o", c), Line("s", "-"), Line("t", 0),
                 Line("bundle", <<>>), Line("session-other", "extmap-allow-mixed")>>

localOffer(c, kinds) ==
    Preamble(c) \o FlattenSeq([i \in 1..Len(kinds) |->
        Section(kinds[i], c, 0, i, "sendonly", <<<<c, i>>>>, SSRCs(c, i, kinds[i]))])

\* An answer has the media sections of the offer.
localAnswer(c, q) ==
    LET ms == SessionDescription(recv[c][q]).media
    IN Preamble(c) \o FlattenSeq([i \in 1..Len(ms) |->
           Section(ms[i].type, c, q, Mid(ms[i]), "recvonly", <<>>, <<>>)])

-----------------------------------------------------------------------------
(* SFUConfig and Stream *)

SFU == [addr |-> <<0, 0, 0>>, ufrag |-> <<0, 0>>, pwd |-> <<0, 0>>, port |-> 3000]

sessionTemplate == [origin |-> 0, timing |-> <<0>>,
                    otherLines |-> <<"extmap-allow-mixed", "msid-semantic">>, media |-> <<>>]

RTPExtensions == [audio |-> <<"abs-send-time", "mid", "audio-level">>,
                  video |-> <<"abs-send-time", "mid", "dependency-descriptor">>]

FbTypes == [audio |-> <<"goog-remb">>, video |-> <<"goog-remb", "nack", "nack pli", "ccm fir">>]

\* The constructor of Stream, given the SSRCs of the send stream if m is received.
StreamThrows(m, ssrcs) ==
    \/ m.attr["direction"] = <<>>
    \/ Direction(m) \notin {"sendonly", "recvonly"}
    \/ Direction(m) = "sendonly" /\ (ssrcs # <<>> \/ m.ssrcs = <<>>)
    \/ Direction(m) = "recvonly" /\ ssrcs = <<>>
    \/ filterCandidatesBySubnet(m.attr["candidate"]) = <<>>

SSRCAt(ss, i, default) == IF Len(ss) < i THEN default ELSE ss[i].ssrc

\* Mutant: a received stream is forwarded under the SSRCs of its receiver.
dataPlaneConfig_own(m, ssrcs) ==
    LET best == highestPriorityICECandidate(filterCandidatesBySubnet(m.attr["candidate"]))
    IN [addr |-> best.addr, iceUfrag |-> m.attr["ufrag"][1], icePwd |-> m.attr["pwd"][1],
        mediaType |-> m.type, direction |-> Direction(m),
        mainSSRC |-> SSRCAt(m.ssrcs, 1, 1), rtxSSRC |-> SSRCAt(m.ssrcs, 2, 0),
        rtcpSSRC |-> 0, rtcpRtxSSRC |-> 0]

\* A receiver that sends no media reports with SSRC 1; a send stream has no SSRC
\* for reports.
dataPlaneConfig(m, ssrcs) ==
    LET best == highestPriorityICECandidate(filterCandidatesBySubnet(m.attr["candidate"]))
        sent == IF Direction(m) = "sendonly" THEN m.ssrcs ELSE ssrcs
        rtcp == IF Direction(m) = "sendonly" THEN 0 ELSE 1
    IN [addr |-> best.addr, iceUfrag |-> m.attr["ufrag"][1], icePwd |-> m.attr["pwd"][1],
        mediaType |-> m.type, direction |-> Direction(m),
        mainSSRC |-> SSRCAt(sent, 1, 0), rtxSSRC |-> SSRCAt(sent, 2, 0),
        rtcpSSRC |-> IF rtcp = 0 THEN 0 ELSE SSRCAt(m.ssrcs, 1, 1),
        rtcpRtxSSRC |-> IF rtcp = 0 THEN 0 ELSE SSRCAt(m.ssrcs, 2, IF m.ssrcs = <<>> THEN 1 ELSE 0)]

\* Stream::offer: the SFU takes the place of the sending peer.
streamOffer(m) ==
    [m EXCEPT !.port = SFU.port,
              !.attr["c"] = <<SFU.addr>>,
              !.attr["candidate"] = <<[net |-> "in", prio |-> 1, addr |-> SFU.addr]>>,
              !.attr["ufrag"] = <<SFU.ufrag>>,
              !.attr["pwd"] = <<SFU.pwd>>]

\* Retransmissions of video keep their feedback types.
supported(m) ==
    [m EXCEPT !.attr["extmap"] = RTPExtensions[m.type],
              !.mediaFormats = [i \in DOMAIN @ |->
                  IF m.type = "video" /\ @[i].codec = "rtx" THEN @[i]
                  ELSE [@[i] EXCEPT !.fbTypes = FbTypes[m.type]]]]

-----------------------------------------------------------------------------
(* Session::getOffer and Session::getAnswer *)

\* Mutant: the newest stream comes first.
offerDescription_newest(p) ==
    [sessionTemplate EXCEPT !.media = [i \in DOMAIN streams'[p] |->
        [supported(streamOffer(streams'[p][Len(streams'[p]) + 1 - i]))
           EXCEPT !.attr["direction"] = <<"sendonly">>]]]

\* Of the streams p sends, after the step.
offerDescription(p) ==
    [sessionTemplate EXCEPT !.media = [i \in DOMAIN streams'[p] |->
        [supported(streamOffer(streams'[p][i])) EXCEPT !.attr["direction"] = <<"sendonly">>]]]

\* Mutant: the SSRCs are left in.
answerDescription_ssrcs(p) ==
    [sessionTemplate EXCEPT !.origin = SessionId, !.media = [i \in DOMAIN streams'[p] |->
        [supported(streamOffer(streams'[p][i]))
           EXCEPT !.attr["direction"] = <<"recvonly">>, !.attr["msid"] = <<>>]]]

answerDescription(p) ==
    [sessionTemplate EXCEPT !.origin = SessionId, !.media = [i \in DOMAIN streams'[p] |->
        [supported(streamOffer(streams'[p][i]))
           EXCEPT !.attr["direction"] = <<"recvonly">>, !.attr["msid"] = <<>>, !.ssrcs = <<>>]]]

-----------------------------------------------------------------------------
(* Messages *)

\* What the browsers in to drop of a message written while one of p is handled.
Dropped(p, to, msg) ==
    IF browserTakes(msg) THEN {} ELSE {[reader |-> q, type |-> msg.type, on |-> p] : q \in to}

\* The id that a browser knows, or 0: that of the hello if it could take it.
BrowserId(p) == IF browserTakes(clHello_to_json(SessionId, p)) THEN p ELSE 0

\* An offer is set on the connection of the participant it names.
SendOffers(to, msg) ==
    IF browserTakes(msg)
    THEN LET q == Get(msg, "participant_id")
         IN /\ recv' = [p \in PId |->
                          IF p \in to THEN [recv[p] EXCEPT ![q] = Get(msg, "sdp")] ELSE recv[p]]
            /\ todo' = [p \in PId |-> IF p \in to THEN q ELSE todo[p]]
    ELSE UNCHANGED <<recv, todo>>

\* waiting is whose offers are unanswered until then.
SendAnswer(p, waiting, msg) ==
    IF browserTakes(msg)
    THEN /\ answer' = [answer EXCEPT ![p] = Get(msg, "sdp")]
         /\ waits' = waiting \ {p}
    ELSE /\ waits' = waiting
         /\ UNCHANGED answer

\* SwitchControllerClient::_onMessage, one by one: what it cannot take ends the
\* agent, and nobody reads what follows.
SendToAgent(msgs) ==
    LET bad == SelectInSeq(msgs, LAMBDA m : ~agentTakes(m))
        read(type) == {m \in Range(IF bad = 0 THEN msgs ELSE SubSeq(msgs, 1, bad - 1)) :
                          m.type = type}
    IN agent' =
        IF agent.alive
        THEN [alive        |-> bad = 0,
              participants |-> agent.participants
                                 \cup {AddParticipant(m) : m \in read("add_participant")},
              streams      |-> agent.streams
                                 \cup UNION {AddStream(m) : m \in read("add_stream")}]
        ELSE agent

\* ControllerSwitchConnection::addStream, for a sequence of streams.
AddStreams(p, configs) ==
    SendToAgent([i \in DOMAIN configs |->
        LET g == configs[i]
        IN AddStream_to_json(
              [sessionId |-> SessionId, participantId |-> p, ip |-> g.addr, port |-> g.addr,
               iceUfrag |-> g.iceUfrag, icePwd |-> g.icePwd, mainSSRC |-> g.mainSSRC,
               rtxSSRC |-> g.rtxSSRC, rtcpSSRC |-> g.rtcpSSRC,
               rtcpRtxSSRC |-> g.rtcpRtxSSRC, mediaType |-> g.mediaType,
               direction |-> g.direction])])

\* A handler throws: the process ends.
Terminate ==
    /\ running' = FALSE
    /\ UNCHANGED <<controllerVars, gathers, browserVars, agent, ignored>>

\* The controller reports a message of p and drops it.
Ignore(p, msg) ==
    /\ ignored' = ignored \cup {[reader |-> 0, type |-> msg.type, on |-> p]}
    /\ UNCHANGED <<running, controllerVars, gathers, answer, agent>>

-----------------------------------------------------------------------------
(* _onNewParticipant *)

offersOnJoin(new) == Cardinality(new.ids) > 1 /\ hasStreams(new)

\* A hello without session id makes it read an empty optional: whatever session
\* that names, it is not the one the client asked for.
Join(p, candidates) ==
    LET new   == addParticipant(sess, p)
        hello == sendClientHello(SessionId)
        init  == participantInState(new, "gotOffer")
        taken == clHello_to_json(SessionId, p)
        offer == Offer_to_json(sessionLines(offerDescription(init)), 0)
    IN /\ running
       /\ p = nextParticipantId(sess)
       /\ \/ /\ ~handlesClientMessage(hello, FALSE) \/ clHello(hello).sessionId = {}
             /\ Ignore(p, hello)
             /\ UNCHANGED <<tracks, waits, recv, todo>>
          \/ /\ handlesClientMessage(hello, FALSE)
             /\ \/ clHelloThrows(hello)
                \/ offersOnJoin(new) /\ getOfferThrows(new, p)
             /\ Terminate
          \/ /\ handlesClientMessage(hello, FALSE) /\ ~clHelloThrows(hello)
             /\ clHello(hello).sessionId = {SessionId}
             /\ ~(offersOnJoin(new) /\ getOfferThrows(new, p))
             /\ gathers' = [gathers EXCEPT ![p] = candidates]
             /\ SendToAgent(<<AddParticipant_to_json(SessionId, p, p)>>)
             /\ streams' = streams
             /\ IF offersOnJoin(new)
                THEN /\ sess' = getOffer(new, p)
                     /\ SendOffers({p}, offer)
                     /\ ignored' = ignored \cup Dropped(p, {p}, taken) \cup Dropped(p, {p}, offer)
                ELSE /\ sess' = new
                     /\ ignored' = ignored \cup Dropped(p, {p}, taken)
                     /\ UNCHANGED <<recv, todo>>
             /\ UNCHANGED <<running, known, rknown, tracks, waits, answer>>

-----------------------------------------------------------------------------
(* _onClientOffer *)

\* updateICECandidatesFromSessionDescription, as far as the first one goes.
FirstCandidate(candidates, media) ==
    LET all == candidates \o FlattenSeq([i \in DOMAIN media |-> media[i].attr["candidate"]])
    IN SubSeq(all, 1, IF all = <<>> THEN 0 ELSE 1)

\* Mutant: a section is taken as it is.
withCandidate_asis(m, candidates) == m

\* A section without candidates is given the one remembered first.
withCandidate(m, candidates) ==
    IF m.attr["candidate"] = <<>> THEN [m EXCEPT !.attr["candidate"] = candidates] ELSE m

\* A user shares a track of this kind; the offer is sent once gathering is complete.
Share(p, kind) ==
    LET kinds  == Append(tracks[p], kind)
        msg    == sendClientDescription("offer", localOffer(p, kinds), BrowserId(p))
        lines  == Offer(msg).sdp
        desc   == SessionDescription(lines)
        first  == FirstCandidate(known[p], desc.media)
        fresh  == SelectSeq(desc.media, LAMBDA m :
                      Direction(m) = "sendonly" /\ Mid(m) \notin sess.out[p])
        added  == [i \in DOMAIN fresh |-> withCandidate(fresh[i], first)]
        after  == addOffer(sess, p, {Mid(fresh[i]) : i \in DOMAIN fresh}, "ok")
        others == sess.ids \ {p}
        offer  == Offer_to_json(sessionLines(offerDescription(p)), p)
        reply  == Answer_to_json(sessionLines(answerDescription(p)), p)
        throws == \/ OfferThrows(msg) \/ invalidDescription(lines)
                  \/ addOfferRefused(sess, p)
                  \/ \E i \in DOMAIN added : StreamThrows(added[i], <<>>)
    IN /\ running
       /\ p \in sess.ids \ waits
       /\ kind \notin Range(tracks[p])
       /\ \/ /\ ~handlesClientMessage(msg, TRUE)
             /\ Ignore(p, msg)
             /\ tracks' = [tracks EXCEPT ![p] = kinds]
             /\ waits' = waits \cup {p}
             /\ UNCHANGED <<recv, todo>>
          \/ handlesClientMessage(msg, TRUE) /\ throws /\ Terminate
          \/ /\ handlesClientMessage(msg, TRUE) /\ ~throws
             /\ streams' = [streams EXCEPT ![p] = @ \o added]
             /\ known' = [known EXCEPT ![p] = first]
             /\ tracks' = [tracks EXCEPT ![p] = kinds]
             /\ AddStreams(p, [i \in DOMAIN added |-> dataPlaneConfig(added[i], <<>>)])
             /\ IF others # {}
                THEN /\ sess' = getOffers(after, p)
                     /\ SendOffers(others, offer)
                     /\ ignored' = ignored \cup Dropped(p, others, offer)
                     /\ waits' = waits \cup {p}
                     /\ UNCHANGED answer
                ELSE /\ sess' = getAnswer(after, p)
                     /\ SendAnswer(p, waits \cup {p}, reply)
                     /\ ignored' = ignored \cup Dropped(p, {p}, reply)
                     /\ UNCHANGED <<recv, todo>>
             /\ UNCHANGED <<running, rknown, gathers>>

-----------------------------------------------------------------------------
(* _onClientAnswer *)

\* sendStreamWithMid
hasSendStream(p, mid) == \E i \in DOMAIN streams[p] : Mid(streams[p][i]) = mid

sendStreamWithMid(p, mid) ==
    streams[p][SelectInSeq(streams[p], LAMBDA m : Mid(m) = mid)]

\* The browser answers on the connection it was sent an offer for.
AnswerOffer(p) ==
    LET msg   == sendClientDescription("answer", localAnswer(p, todo[p]), BrowserId(p))
        lines == Answer(msg).sdp
        media == SessionDescription(lines).media
        init  == participantInState(sess, "gotOffer")
        first == FirstCandidate(rknown[p][init], media)
        built == [i \in DOMAIN media |-> withCandidate(media[i], first)]
        sent(i) == sendStreamWithMid(init, Mid(media[i])).ssrcs
        new   == SelectSeq([i \in DOMAIN media |-> i],
                           LAMBDA i : Mid(media[i]) \notin sess.in[p][init])
        added == addAnswer(sess, p, {Mid(media[i]) : i \in DOMAIN media}, "ok")
        reply == Answer_to_json(sessionLines(answerDescription(init)), init)
        throws == \/ AnswerThrows(msg) \/ invalidDescription(lines)
                  \/ addAnswerRefused(sess, p)
                  \/ \E i \in DOMAIN media : \/ ~hasSendStream(init, Mid(media[i]))
                                             \/ StreamThrows(built[i], sent(i))
    IN /\ running
       /\ todo[p] # 0
       /\ \/ /\ ~handlesClientMessage(msg, TRUE)
             /\ Ignore(p, msg)
             /\ todo' = [todo EXCEPT ![p] = 0]
             /\ UNCHANGED <<tracks, waits, recv>>
          \/ handlesClientMessage(msg, TRUE) /\ throws /\ Terminate
          \/ /\ handlesClientMessage(msg, TRUE) /\ ~throws
             /\ rknown' = [rknown EXCEPT ![p][init] = first]
             /\ AddStreams(p, [k \in DOMAIN new |-> dataPlaneConfig(built[new[k]], sent(new[k]))])
             /\ todo' = [todo EXCEPT ![p] = 0]
             /\ streams' = streams
             /\ IF participantsInState(added, "awaitAnswer") = {}
                THEN /\ sess' = getAnswer(added, init)
                     /\ SendAnswer(init, waits, reply)
                     /\ ignored' = ignored \cup Dropped(p, {init}, reply)
                ELSE sess' = added /\ UNCHANGED <<answer, waits, ignored>>
             /\ UNCHANGED <<running, known, gathers, tracks, recv>>

-----------------------------------------------------------------------------

Next ==
    \E p \in PId :
        \/ \E candidates \in CandidateLists : Join(p, candidates)
        \/ \E kind \in Kinds : Share(p, kind)
        \/ AnswerOffer(p)

Spec == Init /\ [][Next]_vars

-----------------------------------------------------------------------------
(* Properties *)

\* What a browser holds of another participant describes just what that one
\* shares, in the order of its m-lines and under its SSRCs and stream ids, but
\* with the SFU in its place, through parsing, storing, rewriting and printing.
OffersConveyStreams ==
    \A p, q \in PId :
        recv[p][q] # <<>> =>
            LET media == SessionDescription(recv[p][q]).media
            IN /\ Len(media) = Len(tracks[q])
               /\ \A i \in DOMAIN media :
                     /\ media[i].type = tracks[q][i] /\ Mid(media[i]) = i
                     /\ Direction(media[i]) = "sendonly"
                     /\ media[i].ssrcs = SSRCs(q, i, tracks[q][i])
                     /\ media[i].attr["msid"] = <<<<q, i>>>>
                     /\ media[i].attr["ufrag"] = <<SFU.ufrag>>
                     /\ \A j \in DOMAIN media[i].attr["candidate"] :
                           media[i].attr["candidate"][j].addr = SFU.addr

MLines(lines) == LET ms == SessionDescription(lines).media
                 IN [i \in DOMAIN ms |-> <<Mid(ms[i]), ms[i].type>>]

\* A later offer for a connection keeps the m-lines of the one before, in place:
\* RTCPeerConnection refuses anything else.
MLinesOnlyAppended ==
    [][\A p, q \in PId :
          recv[p][q] \notin {<<>>, recv'[p][q]} =>
              IsPrefix(MLines(recv[p][q]), MLines(recv'[p][q]))]_vars

\* The answer a browser is sent has the m-lines of its offer, received and
\* without streams of its own in it, whatever was shared in between.
AnswerMatchesOffer ==
    \A p \in PId :
        tracks[p] # <<>> /\ p \notin waits =>
            LET media == SessionDescription(answer[p]).media
                own   == SessionDescription(localOffer(p, tracks[p])).media
            IN /\ Len(media) = Len(own)
               /\ \A i \in DOMAIN media :
                     /\ Mid(media[i]) = Mid(own[i]) /\ media[i].type = own[i].type
                     /\ [j \in DOMAIN media[i].mediaFormats |-> media[i].mediaFormats[j].pt]
                          = [j \in DOMAIN own[i].mediaFormats |-> own[i].mediaFormats[j].pt]
                     /\ Direction(media[i]) = "recvonly"
                     /\ media[i].ssrcs = <<>>

\* What the agent has been told fits together: it knows each stream of the
\* session, and each once; every receive stream carries the SSRCs and the type of a
\* send stream of another participant it was told of, and goes to an address in the
\* subnet on a connection of its own participant.
AgentTold ==
    LET told(p, dir) == {r \in agent.streams : r.participantId = p /\ r.direction = dir}
    IN /\ \A p \in sess.ids :
             /\ Cardinality(told(p, "sendonly")) = Cardinality(sess.out[p])
             /\ Cardinality(told(p, "recvonly"))
                  = Cardinality({<<q, m>> \in PId \X Mids : m \in sess.in[p][q]})
       /\ \A r \in agent.streams :
             /\ \E m \in agent.participants : m.participantId = r.participantId
             /\ r.direction = "recvonly" =>
                   \E s \in agent.streams :
                       /\ s.direction = "sendonly" /\ s.participantId # r.participantId
                       /\ s.mainSSRC = r.mainSSRC /\ s.rtxSSRC = r.rtxSSRC
                       /\ s.mediaType = r.mediaType
                       /\ r.iceUfrag = <<r.ip[1], s.participantId>>
             /\ r.ip[1] = r.participantId
             /\ gathers[r.ip[1]][r.ip[3]].net = "in"

\* Writers and readers of messages agree, the controller's as well as the agent's
\* and the browsers': no message of a browser is dropped, none for the agent ends
\* it, and the one that a browser drops is the offer to itself as a joiner, which
\* does not name a participant.
MessagesUnderstood ==
    /\ agent.alive
    /\ \A i \in ignored : i.type = "offer" /\ i.reader = i.on

\* What the controller stores it can print and read again without loss.
ReadsItsOwn ==
    \A p \in PId : \A i \in DOMAIN streams[p] :
        MediaDescription(mediaLines(streams[p][i])) = streams[p][i]

\* The controller ends only when an offer meets a transaction under way, when a
\* participant joins others that send but are idle, or when a description has no
\* candidate in the subnet to fall back to, though others of its list may be:
\* never over a description of its own or over the answer to one.
EndsOnlyIf ==
    [][~running' =>
          \/ signalingActive(sess) /\ \E p \in PId, kind \in Kinds : Share(p, kind)
          \/ hasStreams(sess) /\ ~signalingActive(sess) /\ \E p \in PId, cs \in CandidateLists : Join(p, cs)
          \/ \E p \in sess.ids : gathers[p] = <<>> \/ gathers[p][1].net # "in"]_vars

=============================================================================
