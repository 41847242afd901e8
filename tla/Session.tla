------------------------------ MODULE Session ------------------------------
(***************************************************************************)
(* The signalling state of one conferencing session, as the class Session  *)
(* (lib/session.cc) and its Participant and Transceiver members            *)
(* (lib/participant.cc) keep it.  A session is a record; each method is an *)
(* operator from the record before the call to the record after it, with   *)
(* a predicate that says when the call throws std::logic_error.            *)
(*                                                                         *)
(* A media stream is named by the mid its sender gave it: the controller   *)
(* copies the SSRCs of a receive stream from the send stream with the same *)
(* mid, so <<sender, mid>> stands for the SSRC pair.  ICE candidates are   *)
(* abstracted to what the code asks of them: "none" (the list is empty),   *)
(* "ok" (the first candidate lies in the configured subnet), "later"       *)
(* (another one does) and "filtered" (none does); the media lines of one   *)
(* session description share that kind.  Negotiation has the lists.        *)
(***************************************************************************)
EXTENDS Naturals, FiniteSets

CONSTANTS
    Clients,          \* control-channel endpoints, (ip, port) of a client
    MaxParticipants,  \* bound on _nextParticipantId
    Mids              \* media ids a client uses in its descriptions

ASSUME MaxParticipantsAssumption == MaxParticipants \in Nat

\* Participant ids: pre-increment of a counter that starts at 0.
PId == 1..MaxParticipants

SignalingState == {"stable", "gotOffer", "awaitAnswer"}

IceKind == {"none", "ok", "later", "filtered"}

SessionType ==
    [next : 0..MaxParticipants,           \* _nextParticipantId
     ids  : SUBSET PId,                   \* keys of _participants
     addr : [PId -> SUBSET Clients],      \* {control endpoint}, {} if absent
     sig  : [PId -> SignalingState],      \* _signalingState
     out  : [PId -> SUBSET Mids],         \* mids of _sender.streams
     in   : [PId -> [PId -> SUBSET Mids]],\* mids of _receivers[q].streams
     ice  : [PId -> IceKind],             \* first of _sender's candidates
     rice : [PId -> [PId -> IceKind]]]    \* first of _receivers[q]'s

NewSession ==
    [next |-> 0,
     ids  |-> {},
     addr |-> [p \in PId |-> {}],
     sig  |-> [p \in PId |-> "stable"],
     out  |-> [p \in PId |-> {}],
     in   |-> [p \in PId |-> [q \in PId |-> {}]],
     ice  |-> [p \in PId |-> "none"],
     rice |-> [p \in PId |-> [q \in PId |-> "none"]]]

-----------------------------------------------------------------------------
(* Queries *)

participantExistsAt(s, c) == \E p \in s.ids : s.addr[p] = {c}

participantsInState(s, st) == {p \in s.ids : s.sig[p] = st}

\* participantInState returns only if exactly one participant is in the state.
hasParticipantInState(s, st) == \E p \in s.ids : participantsInState(s, st) = {p}

participantInState(s, st) == CHOOSE p \in s.ids : participantsInState(s, st) = {p}

signalingActive(s) == \E p \in s.ids : s.sig[p] # "stable"

\* countStreams() > 0
hasStreams(s) == \E p \in s.ids : s.out[p] # {}

-----------------------------------------------------------------------------
(* Participants *)

\* Mutant: the counter is read before it is incremented.
nextParticipantId_post(s) == s.next

nextParticipantId(s) == s.next + 1

addParticipant(s, c) ==
    LET p == nextParticipantId(s)
    IN [s EXCEPT !.next = p,
                 !.ids  = @ \cup {p},
                 !.addr[p] = {c}]

\* Mutant: the map entry is cleared but not erased.
removeParticipant_kept(s, p) == [s EXCEPT !.addr[p] = {}, !.sig[p] = "stable"]

\* Erases the map entry of p.  What others receive from p stays with them.
removeParticipant(s, p) ==
    [s EXCEPT !.ids = @ \ {p},
              !.addr[p] = {},
              !.sig[p]  = "stable",
              !.out[p]  = {},
              !.in[p]   = [q \in PId |-> {}],
              !.ice[p]  = "none",
              !.rice[p] = [q \in PId |-> "none"]]

-----------------------------------------------------------------------------
(* Offers *)

\* Only the candidate added first is ever read again.
firstCandidate(known, given) ==
    IF known # "none" THEN known ELSE IF given = "later" THEN "filtered" ELSE given

\* A description's own candidates are used for its streams, the remembered one
\* only if it carries none.
usableCandidate(known, given) ==
    given \in {"ok", "later"} \/ (given = "none" /\ known = "ok")

\* Mutant: mids taken to be unique in the session, not in a participant.
newSendStreams_global(s, p, media) == media \ UNION {s.out[q] : q \in s.ids}

newSendStreams(s, p, media) == media \ s.out[p]

\* addOffer throws if signalling is active, or on a new stream that has no
\* ICE candidate at all or none in the subnet (the Stream constructor).
addOfferRefused(s, p) == p \notin s.ids \/ signalingActive(s)

addOfferBadStream(s, p, media, ice) ==
    /\ newSendStreams(s, p, media) # {}
    /\ ~usableCandidate(s.ice[p], ice)

addOffer(s, p, media, ice) ==
    [s EXCEPT !.ice[p] = firstCandidate(@, ice),
              !.out[p] = @ \cup media,
              !.sig[p] = "gotOffer"]

\* getOffer moves its addressee to awaitAnswer, then looks for the initiator.
awaitAnswer(s, p) == [s EXCEPT !.sig[p] = "awaitAnswer"]

getOfferThrows(s, p) ==
    p \notin s.ids \/ ~hasParticipantInState(awaitAnswer(s, p), "gotOffer")

getOffer(s, p) == awaitAnswer(s, p)

\* What the generated offer lists: everything the initiator sends.
offerMedia(s) == s.out[participantInState(s, "gotOffer")]

\* getOffer for every participant but the initiator, which addOffer has made
\* sure is the only one: none of these calls throws.
getOffers(s, init) ==
    [s EXCEPT !.sig = [p \in PId |-> IF p \in s.ids \ {init} THEN "awaitAnswer" ELSE @[p]]]

-----------------------------------------------------------------------------
(* Answers *)

addAnswerRefused(s, p) ==
    \/ ~hasParticipantInState(s, "gotOffer")
    \/ s.sig[p] # "awaitAnswer"

newReceiveStreams(s, p, media) ==
    media \ s.in[p][participantInState(s, "gotOffer")]

\* A media line the initiator does not send, or one without usable candidate:
\* every line builds a Stream, also one that is received already.
addAnswerBadStream(s, p, media, ice) ==
    LET init == participantInState(s, "gotOffer")
    IN \/ ~(media \subseteq s.out[init])
       \/ media # {} /\ ~usableCandidate(s.rice[p][init], ice)

\* Mutant: the first answer ends the transaction for all.
addAnswer_all(s, p, media, ice) ==
    LET init == participantInState(s, "gotOffer")
    IN [s EXCEPT !.in[p][init] = @ \cup media,
                 !.sig = [q \in PId |-> IF @[q] = "awaitAnswer" THEN "stable" ELSE @[q]]]

\* Mutant: who has answered is taken for an initiator.
addAnswer_gotOffer(s, p, media, ice) ==
    [s EXCEPT !.in[p][participantInState(s, "gotOffer")] = @ \cup media,
              !.sig[p] = "gotOffer"]

\* Mutant: the participant stays in awaitAnswer.
addAnswer_awaiting(s, p, media, ice) ==
    [s EXCEPT !.in[p][participantInState(s, "gotOffer")] = @ \cup media]

\* Mutant: the stream is stored as one the initiator receives.
addAnswer_swapped(s, p, media, ice) ==
    [s EXCEPT !.in[participantInState(s, "gotOffer")][p] = @ \cup media,
              !.sig[p] = "stable"]

addAnswer(s, p, media, ice) ==
    LET init == participantInState(s, "gotOffer")
    IN [s EXCEPT !.rice[p][init] = firstCandidate(@, ice),
                 !.in[p][init]   = @ \cup media,
                 !.sig[p]        = "stable"]

\* Mutant: the initiator is not taken back to stable.
getAnswer_waiting(s, p) == s

getAnswer(s, p) == [s EXCEPT !.sig[p] = "stable"]

=============================================================================
