---------------------------- MODULE BrowserClient ----------------------------
(***************************************************************************)
(* One browser: SignalClient.ts, P4SFUClient.ts and the buttons of         *)
(* ClientController.ts.  The controller is the environment.  It answers    *)
(* offers with the same media, or never: it waits for answerers who have   *)
(* left, and for a joiner.  It has at most one offer of its own under way, *)
(* and one that it sends a joiner does not name a participant (see         *)
(* Controller and Negotiation).                                            *)
(*                                                                         *)
(* RTCPeerConnection is external, and modelled by what the code relies on. *)
(* Asynchronous calls wait in a chain, the oldest first.  An event is      *)
(* handled in the step that changes the state it is about; setting a local *)
(* offer when there is one is allowed, and changes no state.  An answer    *)
(* must have the media of the local offer.  Candidates are gathered once,  *)
(* after the first local description.                                      *)
(***************************************************************************)
EXTENDS Naturals, Sequences, FiniteSets

CONSTANTS
    Kinds,      \* "video", "audio": the buttons
    Senders,    \* participant ids in the offers of the controller that have one
    MaxClicks,  \* bound on clicks
    MaxOffers   \* bound on offers of the controller

ASSUME BrowserAssumption == MaxClicks \in Nat /\ MaxOffers \in Nat

VARIABLES
    limitip,    \* Config.limitip is set
    joiner,     \* the offer for a joiner that follows the controller's hello if a
                \* transaction is under way: none, still to come, or dropped
    ws,         \* SignalClient: connecting, open, established, closed
    media,      \* calls of getUserMedia under way: how many of each kind
    send,       \* _sendMediaConnection
    recv,       \* _receiveMediaConnections, by participant id
    offers,     \* offers sent and not answered
    answers,    \* offers received, and answers sent
    clicks,     \* clicks so far
    overlapped  \* a click came while an earlier one was not through

vars == <<limitip, joiner, ws, media, send, recv, offers, answers, clicks, overlapped>>

\* A MediaConnection: state of its RTCPeerConnection, the media added to it, the
\* media of the local offer, the media agreed on, and the chain of calls.
SendConnection ==
    [sig : {"none", "stable", "have-local-offer", "closed"}, gathered : BOOLEAN,
     added : SUBSET Kinds, local : SUBSET Kinds, agreed : SUBSET Kinds,
     ops : Seq([op : {"createOffer", "setLocal", "limit", "setRemote"}, media : SUBSET Kinds])]

RecvConnection ==
    [sig : {"stable", "have-remote-offer", "closed"}, gathered : BOOLEAN, answered : BOOLEAN,
     ops : Seq({"setRemote", "createAnswer", "setLocal"})]

\* No connection yet, and a new one.
NoSend == [sig |-> "none", gathered |-> FALSE, added |-> {}, local |-> {}, agreed |-> {},
           ops |-> <<>>]

NewSend == [NoSend EXCEPT !.sig = "stable"]

TypeOK ==
    /\ limitip \in BOOLEAN
    /\ joiner \in {"no", "due", "dropped"}
    /\ ws \in {"connecting", "open", "established", "closed"}
    /\ media \in [Kinds -> 0..MaxClicks]
    /\ send \in SendConnection
    /\ DOMAIN recv \subseteq Senders /\ \A p \in DOMAIN recv : recv[p] \in RecvConnection
    /\ offers \in Seq(SUBSET Kinds)
    /\ answers \in [received : 0..MaxOffers, sent : 0..MaxOffers]
    /\ clicks \in 0..MaxClicks
    /\ overlapped \in BOOLEAN

Init ==
    /\ limitip \in BOOLEAN
    /\ joiner \in {"no", "due"}
    /\ ws = "connecting"
    /\ media = [k \in Kinds |-> 0]
    /\ send = NoSend
    /\ recv = <<>>
    /\ offers = <<>>
    /\ answers = [received |-> 0, sent |-> 0]
    /\ clicks = 0
    /\ overlapped = FALSE

-----------------------------------------------------------------------------
(* SignalClient *)

\* _onOpen sends the hello.
OnOpen ==
    /\ ws = "connecting"
    /\ ws' = "open"
    /\ UNCHANGED <<limitip, joiner, media, send, recv, offers, answers, clicks, overlapped>>

OnHello ==
    /\ ws = "open"
    /\ ws' = "established"
    /\ UNCHANGED <<limitip, joiner, media, send, recv, offers, answers, clicks, overlapped>>

\* _onClose, P4SFUClient._onDisconnected: all connections are closed.
OnClose ==
    /\ ws \in {"open", "established"}
    /\ ws' = "closed"
    /\ send' = [send EXCEPT !.sig = IF @ = "none" THEN @ ELSE "closed"]
    /\ recv' = [p \in DOMAIN recv |-> [recv[p] EXCEPT !.sig = "closed"]]
    /\ UNCHANGED <<limitip, joiner, media, offers, answers, clicks, overlapped>>

\* sendOffer and sendAnswer drop what comes when the connection is gone.
sendOffer(o) == offers' = IF ws = "established" THEN Append(offers, o) ELSE offers

sendAnswer == answers' = IF ws = "established" THEN [answers EXCEPT !.sent = @ + 1] ELSE answers

-----------------------------------------------------------------------------
(* MediaConnection of type "send" *)

Op(o, m) == [op |-> o, media |-> m]

Later(c, o, m) == [c EXCEPT !.ops = Append(@, Op(o, m))]

offerAvailableForSignaling(c) == c.gathered /\ c.sig = "have-local-offer" /\ c.local # {}

\* _onSignalingOrICEGatheringStateChange on the connection as it is after the
\* change.  With limitip, the description is set again without some candidates,
\* and sent when that is done.
OnStateChange(c) ==
    IF offerAvailableForSignaling(c)
    THEN IF limitip THEN send' = Later(c, "limit", c.local) /\ UNCHANGED offers
         ELSE send' = c /\ sendOffer(c.local)
    ELSE send' = c /\ UNCHANGED offers

\* Mutant: setting a local offer always counts as a change.
setLocalDescription_event(c, o) ==
    OnStateChange([c EXCEPT !.local = o, !.sig = "have-local-offer"])

\* Mutant: only the gathering of candidates is listened to.
setLocalDescription_quiet(c, o) ==
    send' = [c EXCEPT !.local = o, !.sig = "have-local-offer"] /\ UNCHANGED offers

setLocalDescription(c, o) ==
    LET after == [c EXCEPT !.local = o, !.sig = "have-local-offer"]
    IN IF c.sig = "stable" THEN OnStateChange(after) ELSE send' = after /\ UNCHANGED offers

\* Mutant: the description is set as an offer.
setRemoteDescription_offer(c, a) ==
    OnStateChange([c EXCEPT !.sig = "have-remote-offer", !.agreed = a])

\* An answer that does not fit is an error, and caught.
setRemoteDescription(c, a) ==
    IF c.sig = "have-local-offer" /\ a = c.local
    THEN OnStateChange([c EXCEPT !.sig = "stable", !.agreed = a])
    ELSE send' = c /\ UNCHANGED offers

\* The next call in the chain.  On a closed connection it fails.
RunSendOp ==
    /\ send.ops # <<>>
    /\ LET c == [send EXCEPT !.ops = Tail(@)]
           o == Head(send.ops)
       IN \/ /\ c.sig = "closed"
             /\ send' = c /\ UNCHANGED offers
          \/ /\ c.sig # "closed" /\ o.op = "createOffer"
             /\ send' = Later(c, "setLocal", c.added) /\ UNCHANGED offers
          \/ /\ c.sig # "closed" /\ o.op = "setLocal"
             /\ setLocalDescription(c, o.media)
          \/ /\ c.sig # "closed" /\ o.op = "limit"
             /\ send' = [c EXCEPT !.local = o.media] /\ sendOffer(o.media)
          \/ /\ c.sig # "closed" /\ o.op = "setRemote"
             /\ setRemoteDescription(c, o.media)
    /\ UNCHANGED <<limitip, joiner, ws, media, recv, answers, clicks, overlapped>>

OnSendGathered ==
    /\ send.sig # "closed" /\ send.local # {} /\ ~send.gathered
    /\ OnStateChange([send EXCEPT !.gathered = TRUE])
    /\ UNCHANGED <<limitip, joiner, ws, media, recv, answers, clicks, overlapped>>

-----------------------------------------------------------------------------
(* P4SFUClient: sharing *)

Sharing ==
    \/ \E k \in Kinds : media[k] > 0
    \/ send.ops # <<>>
    \/ send.sig = "have-local-offer"

\* videoActive and audioActive.
Active(k) == k \in send.added

\* shareVideo and shareAudio.  The participant id is known from the first hello.
Click(k) ==
    /\ clicks < MaxClicks
    /\ clicks' = clicks + 1
    /\ ws \in {"established", "closed"}
    /\ ~Active(k)
    /\ send' = IF send.sig = "none" THEN NewSend ELSE send
    /\ media' = [media EXCEPT ![k] = @ + 1]
    /\ overlapped' = (overlapped \/ Sharing)
    /\ UNCHANGED <<limitip, joiner, ws, recv, offers, answers>>

\* getUserMedia fails.
NoMedia(k) ==
    /\ media[k] > 0
    /\ media' = [media EXCEPT ![k] = @ - 1]
    /\ UNCHANGED <<limitip, joiner, ws, send, recv, offers, answers, clicks, overlapped>>

\* addSendStream.  A second track of the kind is not added, but offered.
GotMedia(k) ==
    /\ media[k] > 0
    /\ media' = [media EXCEPT ![k] = @ - 1]
    /\ send' = IF send.sig = "closed" THEN send
               ELSE Later([send EXCEPT !.added = @ \cup {k}], "createOffer", {})
    /\ UNCHANGED <<limitip, joiner, ws, recv, offers, answers, clicks, overlapped>>

\* The controller answers, _onRemoteAnswer.  The transaction of a joiner who does
\* not answer stays open, and the controller takes no offer while one is.
OnRemoteAnswer ==
    /\ ws = "established"
    /\ joiner = "no"
    /\ offers # <<>>
    /\ offers' = Tail(offers)
    /\ send' = Later(send, "setRemote", Head(offers))
    /\ UNCHANGED <<limitip, joiner, ws, media, recv, answers, clicks, overlapped>>

-----------------------------------------------------------------------------
(* Connections of type "recv" *)

NewRecv == [sig |-> "stable", gathered |-> FALSE, answered |-> FALSE, ops |-> <<>>]

\* Mutant: an answer is sent as soon as there is one.
answerAvailableForSignaling_early(c) == c.sig = "stable" /\ c.answered

answerAvailableForSignaling(c) == c.gathered /\ c.sig = "stable" /\ c.answered

SetRecv(p, c) == recv' = [q \in DOMAIN recv \cup {p} |-> IF q = p THEN c ELSE recv[q]]

OnRecvStateChange(p, c) ==
    /\ SetRecv(p, c)
    /\ IF answerAvailableForSignaling(c) THEN sendAnswer ELSE UNCHANGED answers

\* SignalClient._onOffer drops an offer that names no participant, which is the one
\* for a joiner: Offer::to_json leaves the id 0 out.
OnJoinerOffer ==
    /\ ws = "established"
    /\ joiner = "due"
    /\ joiner' = "dropped"
    /\ UNCHANGED <<limitip, ws, media, send, recv, offers, answers, clicks, overlapped>>

\* An offer that names its sender, _onRemoteOffer, if the controller has no answer
\* to wait for.
OnRemoteOffer(p) ==
    /\ ws = "established"
    /\ joiner = "no"
    /\ answers.received < MaxOffers
    /\ answers.sent >= answers.received
    /\ answers' = [answers EXCEPT !.received = @ + 1]
    /\ SetRecv(p, [(IF p \in DOMAIN recv THEN recv[p] ELSE NewRecv)
                     EXCEPT !.ops = Append(@, "setRemote")])
    /\ UNCHANGED <<limitip, joiner, ws, media, send, offers, clicks, overlapped>>

\* setRemoteDescription, createAnswer and setLocalDescription, one after the other.
RunRecvOp(p) ==
    LET c == [recv[p] EXCEPT !.ops = Tail(@)]
        o == Head(recv[p].ops)
    IN /\ recv[p].ops # <<>>
       /\ \/ /\ c.sig = "closed"
             /\ SetRecv(p, c) /\ UNCHANGED answers
          \/ /\ c.sig # "closed" /\ o = "setRemote"
             /\ OnRecvStateChange(p, [c EXCEPT !.sig = "have-remote-offer",
                                               !.ops = Append(@, "createAnswer")])
          \/ /\ c.sig # "closed" /\ o = "createAnswer"
             /\ SetRecv(p, [c EXCEPT !.ops = Append(@, "setLocal")]) /\ UNCHANGED answers
          \/ /\ c.sig # "closed" /\ o = "setLocal"
             /\ OnRecvStateChange(p, [c EXCEPT !.sig = "stable", !.answered = TRUE])
       /\ UNCHANGED <<limitip, joiner, ws, media, send, offers, clicks, overlapped>>

\* Mutant: only the signaling state is listened to.
OnRecvGathered_quiet(p) ==
    /\ recv[p].sig # "closed" /\ recv[p].answered /\ ~recv[p].gathered
    /\ SetRecv(p, [recv[p] EXCEPT !.gathered = TRUE])
    /\ UNCHANGED <<limitip, joiner, ws, media, send, offers, answers, clicks, overlapped>>

OnRecvGathered(p) ==
    /\ recv[p].sig # "closed" /\ recv[p].answered /\ ~recv[p].gathered
    /\ OnRecvStateChange(p, [recv[p] EXCEPT !.gathered = TRUE])
    /\ UNCHANGED <<limitip, joiner, ws, media, send, offers, clicks, overlapped>>

-----------------------------------------------------------------------------

RecvSteps == \E p \in DOMAIN recv : RunRecvOp(p) \/ OnRecvGathered(p)

Next ==
    \/ OnOpen \/ OnHello \/ OnClose
    \/ RunSendOp \/ OnSendGathered
    \/ \E k \in Kinds : Click(k) \/ GotMedia(k) \/ NoMedia(k)
    \/ OnRemoteAnswer
    \/ OnJoinerOffer
    \/ \E p \in Senders : OnRemoteOffer(p)
    \/ RecvSteps

\* The browser runs its event loop and the user answers the question for the camera.
\* Nothing is assumed of the controller, which may wait for others for ever.
Fairness ==
    /\ WF_vars(RunSendOp) /\ WF_vars(OnSendGathered)
    /\ \A k \in Kinds : WF_vars(GotMedia(k) \/ NoMedia(k))
    /\ WF_vars(RecvSteps)

Spec == Init /\ [][Next]_vars /\ Fairness

-----------------------------------------------------------------------------
(* Properties *)

\* The browser never has two offers under way, which the controller relies on:
\* it answers the one it has, however clicks, gathered candidates and the second
\* setLocalDescription of limitip fall together.
OneOfferAtATime == Len(offers) <= 1

\* No offer of the controller gets two answers, though an answer may become
\* available through two events, and some offer of the browser may be under way.
OneAnswerPerOffer == answers.sent <= answers.received

\* Every offer of the controller that names a participant gets its answer, unless
\* the connection closes.
OffersAnswered == (answers.sent < answers.received) ~> (answers.sent = answers.received \/ ws = "closed")

\* Media that was added is agreed on in the end, unless the connection closes, an
\* offer is never answered, or the user clicked while an earlier click was not
\* through.  In the last case it may happen that an offer is replaced after it was
\* sent, that its answer does not fit, and that nothing is offered ever again.
SharesTakeEffect ==
    \/ <>[](offers # <<>>)
    \/ \A k \in Kinds : Active(k) ~> (k \in send.agreed \/ overlapped \/ ws = "closed")

=============================================================================
