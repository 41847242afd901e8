--------------------------------- MODULE RPC ---------------------------------
(***************************************************************************)
(* The messages of the control channels (lib/rpc.cc), how they are written *)
(* and what their readers make of them: the controller (client and switch  *)
(* interface), the switch agent (lib/switch_controller_client.cc) and the  *)
(* browser (client/src/SignalClient.ts).                                   *)
(*                                                                         *)
(* A JSON message is its type and a set of at most one data object, a      *)
(* function from the names of the fields that are present.                 *)
(***************************************************************************)
EXTENDS Naturals, Sequences

Json(type, data) == [type |-> type, data |-> {data}]

JsonBare(type) == [type |-> type, data |-> {}]

\* The object with the fields of f that are named in present.
Fields(f, present) == [n \in DOMAIN f \cap present |-> f[n]]

Has(msg, field) == \E d \in msg.data : field \in DOMAIN d

Get(msg, field) == (CHOOSE d \in msg.data : TRUE)[field]

-----------------------------------------------------------------------------
(* rpc::cl *)

\* ids that are 0 are not set by ControllerClientConnection::sendHello.
clHello_to_json(sid, pid) ==
    LET present == {n \in {"session_id", "participant_id"} :
                       IF n = "session_id" THEN sid # 0 ELSE pid # 0}
    IN IF present = {} THEN JsonBare("hello")
       ELSE Json("hello", Fields([session_id |-> sid, participant_id |-> pid], present))

clHelloThrows(msg) == msg.type # "hello"

\* A hello without session id makes _onNewParticipant read an empty optional.
clHello(msg) ==
    [sessionId     |-> IF Has(msg, "session_id") THEN {Get(msg, "session_id")} ELSE {},
     participantId |-> IF Has(msg, "participant_id") THEN {Get(msg, "participant_id")} ELSE {}]

\* An id of 0 is not written.
Offer_to_json(sdp, pid) ==
    Json("offer", Fields([type |-> "offer", sdp |-> sdp, participant_id |-> pid],
                         {"type", "sdp"} \cup (IF pid # 0 THEN {"participant_id"} ELSE {})))

\* Both fields are required, but only if there is a data object.
OfferThrows(msg) ==
    \/ msg.type # "offer"
    \/ msg.data # {} /\ ~(Has(msg, "sdp") /\ Has(msg, "participant_id"))

Offer(msg) == [sdp |-> IF msg.data = {} THEN <<>> ELSE Get(msg, "sdp"),
               participantId |-> IF msg.data = {} THEN 0 ELSE Get(msg, "participant_id")]

Answer_to_json(sdp, pid) ==
    Json("answer", Fields([type |-> "answer", sdp |-> sdp, participant_id |-> pid],
                          {"type", "sdp"} \cup (IF pid # 0 THEN {"participant_id"} ELSE {})))

AnswerThrows(msg) ==
    \/ msg.type # "answer"
    \/ ~(Has(msg, "sdp") /\ Has(msg, "participant_id"))

Answer(msg) == [sdp |-> Get(msg, "sdp"), participantId |-> Get(msg, "participant_id")]

\* _parseClientMessage: a message of another type, or none, is dropped.
parseClientMessage(msg) == msg.type \in {"hello", "offer", "answer"}

\* _onClientMessage: only a hello before the client is registered.
handlesClientMessage(msg, registered) ==
    parseClientMessage(msg) /\ (registered \/ msg.type = "hello")

-----------------------------------------------------------------------------
(* What the browser writes and reads: SignalClient.ts *)

sendClientHello(sid) == Json("hello", [session_id |-> sid])

\* An id that the browser does not know (0) is undefined, which JSON leaves out.
sendClientDescription(type, sdp, pid) ==
    Json(type, Fields([sdp |-> sdp, participant_id |-> pid],
                      {"sdp"} \cup (IF pid # 0 THEN {"participant_id"} ELSE {})))

\* _onHello, _onOffer, _onAnswer; anything else is reported and dropped.
browserTakes(msg) ==
    \/ msg.type = "hello" /\ Has(msg, "participant_id")
    \/ msg.type \in {"offer", "answer"} /\ Has(msg, "sdp") /\ Has(msg, "participant_id")

-----------------------------------------------------------------------------
(* rpc::sw *)

AddParticipant_to_json(sid, pid, ip) ==
    Json("add_participant", [session_id |-> sid, participant_id |-> pid, ip |-> ip])

AddParticipantThrows(msg) ==
    \/ msg.type # "add_participant"
    \/ \E f \in {"session_id", "participant_id", "ip"} : ~Has(msg, f)

AddParticipant(msg) ==
    [sessionId |-> Get(msg, "session_id"), participantId |-> Get(msg, "participant_id"),
     ip |-> Get(msg, "ip")]

AddStreamFields ==
    {"session_id", "participant_id", "ip", "port", "ice_ufrag", "ice_pwd", "main_ssrc",
     "rtx_ssrc", "rtcp_ssrc", "rtcp_rtx_ssrc", "media_type", "direction"}

\* Mutant: the SSRC of reports on retransmissions is not written.
AddStream_to_json_short(m) ==
    Json("add_stream",
         [session_id |-> m.sessionId, participant_id |-> m.participantId,
          ip |-> m.ip, port |-> m.port, ice_ufrag |-> m.iceUfrag, ice_pwd |-> m.icePwd,
          main_ssrc |-> m.mainSSRC, rtx_ssrc |-> m.rtxSSRC, rtcp_ssrc |-> m.rtcpSSRC,
          media_type |-> m.mediaType, direction |-> m.direction])

AddStream_to_json(m) ==
    Json("add_stream",
         [session_id |-> m.sessionId, participant_id |-> m.participantId,
          ip |-> m.ip, port |-> m.port, ice_ufrag |-> m.iceUfrag, ice_pwd |-> m.icePwd,
          main_ssrc |-> m.mainSSRC, rtx_ssrc |-> m.rtxSSRC,
          rtcp_ssrc |-> m.rtcpSSRC, rtcp_rtx_ssrc |-> m.rtcpRtxSSRC,
          media_type |-> m.mediaType, direction |-> m.direction])

AddStreamThrows(msg) == msg.type # "add_stream" \/ \E f \in AddStreamFields : ~Has(msg, f)

\* mediaType and direction have no initial value: they are whatever is in memory
\* when the text is neither of the two that are compared.
enumerators(text, known) == IF text \in known THEN {text} ELSE known

\* The records the message may be read as.
AddStream(msg) ==
    {[sessionId |-> Get(msg, "session_id"), participantId |-> Get(msg, "participant_id"),
      ip |-> Get(msg, "ip"), port |-> Get(msg, "port"),
      iceUfrag |-> Get(msg, "ice_ufrag"), icePwd |-> Get(msg, "ice_pwd"),
      mainSSRC |-> Get(msg, "main_ssrc"), rtxSSRC |-> Get(msg, "rtx_ssrc"),
      rtcpSSRC |-> Get(msg, "rtcp_ssrc"), rtcpRtxSSRC |-> Get(msg, "rtcp_rtx_ssrc"),
      mediaType |-> t, direction |-> d] :
         t \in enumerators(Get(msg, "media_type"), {"audio", "video"}),
         d \in enumerators(Get(msg, "direction"), {"sendonly", "recvonly"})}

\* SwitchControllerClient::_onMessage throws on any other type.
agentTakes(msg) ==
    \/ msg.type = "hello"
    \/ msg.type = "add_participant" /\ ~AddParticipantThrows(msg)
    \/ msg.type = "add_stream" /\ ~AddStreamThrows(msg)

=============================================================================
