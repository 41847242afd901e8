--------------------------- MODULE DataPlaneModel ---------------------------
(***************************************************************************)
(* The forwarding table of the software data plane                         *)
(* (lib/data_plane_model.cc over lib/sfu_table.cc) as a value, and the     *)
(* operations on it.  The table maps a match, <<address, SSRC>>, to the    *)
(* list of its actions: where to, and the decode target of the action's    *)
(* svcConfig, {} if there is none.  What an action's sequence rewriter     *)
(* does to the packets is the subject of Forwarding.                       *)
(*                                                                         *)
(* Nothing is ever removed: removeStream throws "not implemented".         *)
(***************************************************************************)
EXTENDS Naturals, Sequences

CONSTANT ZeroAddr   \* IPv4Port{0, 0}

NoSSRC == 0         \* an SSRC that is not given
FeedbackSSRC == 1   \* sender SSRC of feedback on a receive-only transceiver

MaxIdent == 2       \* av1::svc::L1T3::MAX_IDENT, the target hi

DecodeTarget == 0..MaxIdent

Action(to) == [to |-> to, svc |-> {}]

EmptyTable == [m \in {} |-> <<>>]

hasMatch(sfu, m) == m \in DOMAIN sfu

hasAction(actions, to) == \E i \in DOMAIN actions : actions[i].to = to

-----------------------------------------------------------------------------
(* addStream *)

addMatches(sfu, ms) ==
    [m \in DOMAIN sfu \cup ms |-> IF hasMatch(sfu, m) THEN sfu[m] ELSE <<>>]

\* Mutant: media with the SSRC is taken for the stream, whoever sends it.
addAction_anyone(sfu, m, to) ==
    [n \in DOMAIN sfu |->
        IF (n = m \/ (n[2] = m[2] /\ n[2] > FeedbackSSRC)) /\ ~hasAction(sfu[n], to)
        THEN Append(sfu[n], Action(to)) ELSE sfu[n]]

addAction(sfu, m, to) ==
    IF hasAction(sfu[m], to) THEN sfu
    ELSE [sfu EXCEPT ![m] = Append(@, Action(to))]

\* The matches of a stream: its media and, in the reverse direction, feedback.
mediaMatches(s) ==
    {<<s.src, s.ssrc>>} \cup (IF s.rtxSsrc # NoSSRC THEN {<<s.src, s.rtxSsrc>>} ELSE {})

returnMatches(s) ==
    {<<s.dst, s.rtcpSsrc>>}
      \cup (IF s.rtcpRtxSsrc # NoSSRC THEN {<<s.dst, s.rtcpRtxSsrc>>} ELSE {})

\* Mutant: no way back for feedback with the default SSRC.
addStream_oneway(sfu, s) ==
    LET media == addMatches(sfu, mediaMatches(s))
        main  == addAction(addMatches(media, returnMatches(s)), <<s.src, s.ssrc>>, s.dst)
        rtx   == IF s.rtxSsrc # NoSSRC THEN addAction(main, <<s.src, s.rtxSsrc>>, s.dst) ELSE main
    IN IF s.rtcpSsrc # FeedbackSSRC THEN addAction(rtx, <<s.dst, s.rtcpSsrc>>, s.src) ELSE rtx

addStream(sfu, s) ==
    LET media  == addMatches(sfu, mediaMatches(s))
        both   == addMatches(media, returnMatches(s))
        main   == addAction(both, <<s.src, s.ssrc>>, s.dst)
        return == addAction(main, <<s.dst, s.rtcpSsrc>>, s.src)
        rtx    == IF s.rtxSsrc # NoSSRC
                  THEN addAction(return, <<s.src, s.rtxSsrc>>, s.dst)
                  ELSE return
    IN IF s.dst = ZeroAddr THEN media
       ELSE IF s.rtcpRtxSsrc # NoSSRC /\ s.rtcpSsrc # FeedbackSSRC
       THEN addAction(rtx, <<s.dst, s.rtcpRtxSsrc>>, s.src)
       ELSE rtx

-----------------------------------------------------------------------------
(* adjustDecodeTarget; an invalid target only leaves a default svcConfig *)

\* Mutant: the target of all receivers of the stream is changed.
adjustDecodeTarget_all(sfu, from, to, ssrc, target) ==
    IF ~hasMatch(sfu, <<from, ssrc>>) THEN sfu
    ELSE [sfu EXCEPT ![<<from, ssrc>>] = [i \in DOMAIN @ |-> [@[i] EXCEPT !.svc = {target}]]]

retargeted(action, target) ==
    [action EXCEPT !.svc = IF target <= MaxIdent THEN {target}
                           ELSE IF @ = {} THEN {MaxIdent} ELSE @]

adjustDecodeTarget(sfu, from, to, ssrc, target) ==
    LET m == <<from, ssrc>>
    IN IF ~hasMatch(sfu, m) THEN sfu
       ELSE [sfu EXCEPT ![m] = [i \in DOMAIN sfu[m] |->
                IF sfu[m][i].to = to THEN retargeted(sfu[m][i], target) ELSE sfu[m][i]]]

-----------------------------------------------------------------------------
(* Where packets go *)

\* Every action of the match.
Destinations(sfu, from, ssrc) ==
    IF hasMatch(sfu, <<from, ssrc>>)
    THEN {sfu[<<from, ssrc>>][i].to : i \in DOMAIN sfu[<<from, ssrc>>]}
    ELSE {}

\* What may be first in an RTCP packet: reports, NACK, PLI, source descriptions.
RTCPTypes == {"sr", "rr", "nack", "pli", "sdes"}

\* Sender reports go the way of the media, receiver reports to the agent,
\* negative acknowledgements and picture loss indications back to the sender with
\* a copy to the agent.
handleSR(sfu, from, ssrc) == [to |-> Destinations(sfu, from, ssrc), cpu |-> FALSE]

handleRR == [to |-> {}, cpu |-> TRUE]

handleRTPFB(sfu, from, ssrc) == [to |-> Destinations(sfu, from, ssrc), cpu |-> TRUE]

handlePSFB(sfu, from, ssrc) == [to |-> Destinations(sfu, from, ssrc), cpu |-> TRUE]

\* By the first part of a packet; other feedback and descriptions are dropped,
\* an estimate that comes first among them.
handleRTCP(sfu, type, from, ssrc) ==
    CASE type = "sr"   -> handleSR(sfu, from, ssrc)
      [] type = "rr"   -> handleRR
      [] type = "nack" -> handleRTPFB(sfu, from, ssrc)
      [] type = "pli"  -> handlePSFB(sfu, from, ssrc)
      [] OTHER         -> [to |-> {}, cpu |-> FALSE]

\* The decode target in force for one receiver of a stream; hi without a config.
TargetInForce(sfu, from, to, ssrc) ==
    UNION {IF sfu[<<from, ssrc>>][i].svc = {} THEN {MaxIdent} ELSE sfu[<<from, ssrc>>][i].svc :
              i \in {j \in DOMAIN sfu[<<from, ssrc>>] : sfu[<<from, ssrc>>][j].to = to}}

=============================================================================
