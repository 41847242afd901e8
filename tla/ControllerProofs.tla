-------------------------- MODULE ControllerProofs --------------------------
(***************************************************************************)
(* Proofs about the controller, for any number of clients, sessions,       *)
(* media ids and switch endpoints.                                         *)
(***************************************************************************)
EXTENDS Controller, WellFoundedInduction, NaturalsInduction, TLAPS

-----------------------------------------------------------------------------
(* Session operations: each keeps the type of a session. *)

\* Participant ids are positive numbers.
LEMMA PIdFacts == PId \subseteq Nat \ {0} /\ PId \subseteq 0..MaxParticipants
  BY MaxParticipantsAssumption DEF PId

\* A session nobody has joined is a session.
LEMMA NewSessionType == NewSession \in SessionType
  BY MaxParticipantsAssumption DEF NewSession, SessionType, SignalingState, IceKind, PId

\* addParticipant, while ids are left.
LEMMA AddParticipantType ==
  ASSUME NEW s \in SessionType, NEW c \in Clients, s.next < MaxParticipants
  PROVE  addParticipant(s, c) \in SessionType
<1>1. nextParticipantId(s) \in PId
  BY MaxParticipantsAssumption DEF nextParticipantId, SessionType, PId
<1>2. QED
  BY <1>1, PIdFacts DEF addParticipant, SessionType

\* removeParticipant leaves a session.
LEMMA RemoveParticipantType ==
  ASSUME NEW s \in SessionType, NEW p \in PId
  PROVE  removeParticipant(s, p) \in SessionType
  BY DEF removeParticipant, SessionType, SignalingState, IceKind

\* addOffer leaves a session.
LEMMA AddOfferType ==
  ASSUME NEW s \in SessionType, NEW p \in PId, NEW media \in SUBSET Mids, NEW ice \in IceKind
  PROVE  addOffer(s, p, media, ice) \in SessionType
  BY DEF addOffer, firstCandidate, IceKind, SessionType, SignalingState

\* getOffer leaves a session.
LEMMA GetOfferType ==
  ASSUME NEW s \in SessionType, NEW p \in PId
  PROVE  getOffer(s, p) \in SessionType
  BY DEF getOffer, awaitAnswer, SessionType, SignalingState

\* So does getOffer for all participants but one.
LEMMA GetOffersType ==
  ASSUME NEW s \in SessionType, NEW p \in PId
  PROVE  getOffers(s, p) \in SessionType
  BY DEF getOffers, SessionType, SignalingState

\* participantInState returns a participant that is the only one in the state.
LEMMA InitiatorIsParticipant ==
  ASSUME NEW s, NEW st, hasParticipantInState(s, st)
  PROVE  /\ participantInState(s, st) \in s.ids
         /\ participantsInState(s, st) = {participantInState(s, st)}
  BY DEF hasParticipantInState, participantInState

\* addAnswer leaves a session: the initiator it looks up is a participant.
LEMMA AddAnswerType ==
  ASSUME NEW s \in SessionType, NEW p \in PId, NEW media \in SUBSET Mids, NEW ice \in IceKind,
         hasParticipantInState(s, "gotOffer")
  PROVE  addAnswer(s, p, media, ice) \in SessionType
<1>1. participantInState(s, "gotOffer") \in PId
  BY InitiatorIsParticipant DEF SessionType
<1> DEFINE i == participantInState(s, "gotOffer")
<1>2. [s.rice EXCEPT ![p][i] = firstCandidate(s.rice[p][i], ice)] \in [PId -> [PId -> IceKind]]
  BY <1>1 DEF firstCandidate, IceKind, SessionType
<1>3. [s.in EXCEPT ![p][i] = s.in[p][i] \cup media] \in [PId -> [PId -> SUBSET Mids]]
  BY <1>1 DEF SessionType
<1>4. [s.sig EXCEPT ![p] = "stable"] \in [PId -> SignalingState]
  BY DEF SessionType, SignalingState
<1>5. addAnswer(s, p, media, ice)
        = [s EXCEPT !.rice = [s.rice EXCEPT ![p][i] = firstCandidate(s.rice[p][i], ice)],
                    !.in   = [s.in EXCEPT ![p][i] = s.in[p][i] \cup media],
                    !.sig  = [s.sig EXCEPT ![p] = "stable"]]
  BY DEF addAnswer, SessionType
<1> HIDE DEF i
<1>6. QED
  BY <1>2, <1>3, <1>4, <1>5 DEF SessionType

\* getAnswer leaves a session.
LEMMA GetAnswerType ==
  ASSUME NEW s \in SessionType, NEW p \in PId
  PROVE  getAnswer(s, p) \in SessionType
  BY DEF getAnswer, SessionType, SignalingState

-----------------------------------------------------------------------------
(* The inductive invariant of one session. *)

\* Ids are handed out in increasing order and never again.
IdsGiven(s) == s.ids \subseteq 1..s.next

\* The entries of ids that are not in the session are as the constructor of
\* Participant would leave them.
AbsentBlank(s) ==
    \A p \in PId \ s.ids :
        s.sig[p] = "stable" /\ s.out[p] = {} /\ \A q \in PId : s.in[p][q] = {}

\* Nobody receives from a participant that has yet to come.
NothingFromFuture(s) == \A p, q \in PId : q > s.next => s.in[p][q] = {}

AtMostOneInitiator(s) == \A p, q \in participantsInState(s, "gotOffer") : p = q

InWhatIsOut(s) ==
    \A p, q \in s.ids : s.in[p][q] \subseteq s.out[q] /\ s.in[p][p] = {}

SessionInv(s) ==
    /\ IdsGiven(s)
    /\ AbsentBlank(s)
    /\ NothingFromFuture(s)
    /\ AtMostOneInitiator(s)
    /\ InWhatIsOut(s)

\* A session nobody has joined satisfies the invariant.
LEMMA NewSessionInv == SessionInv(NewSession)
  BY DEF SessionInv, NewSession, IdsGiven, AbsentBlank, NothingFromFuture, AtMostOneInitiator,
         InWhatIsOut, participantsInState

\* addParticipant: the new id was never used, so nobody receives from it, it
\* receives from nobody and it is not the initiator.
LEMMA AddParticipantInv ==
  ASSUME NEW s \in SessionType, NEW c \in Clients, s.next < MaxParticipants, SessionInv(s)
  PROVE  SessionInv(addParticipant(s, c))
<1> DEFINE p == s.next + 1
           t == addParticipant(s, c)
<1>1. /\ s.next \in Nat
      /\ p \in PId
      /\ p \notin s.ids
  BY MaxParticipantsAssumption DEF SessionInv, IdsGiven, SessionType, PId
<1>2. /\ t.next = p
      /\ t.ids = s.ids \cup {p}
      /\ t.sig = s.sig
      /\ t.out = s.out
      /\ t.in = s.in
  BY DEF addParticipant, nextParticipantId, SessionType
<1>3. PId \subseteq Nat
  BY PIdFacts
<1> HIDE DEF t
<1>4. IdsGiven(t)
  BY <1>1, <1>2 DEF SessionInv, IdsGiven
<1>5. AbsentBlank(t)
  BY <1>1, <1>2 DEF SessionInv, AbsentBlank
<1>6. NothingFromFuture(t)
  BY <1>1, <1>2, <1>3 DEF SessionInv, NothingFromFuture
<1>7. AtMostOneInitiator(t)
  BY <1>1, <1>2 DEF SessionInv, AbsentBlank, AtMostOneInitiator, participantsInState
<1>8. InWhatIsOut(t)
  <2> SUFFICES ASSUME NEW a \in t.ids, NEW b \in t.ids
               PROVE  t.in[a][b] \subseteq t.out[b] /\ t.in[a][a] = {}
    BY DEF InWhatIsOut
  <2>1. \A a1 \in PId : s.in[a1][p] = {}
    BY <1>1, <1>3 DEF SessionInv, NothingFromFuture
  <2>2. \A b1 \in PId : s.in[p][b1] = {}
    BY <1>1 DEF SessionInv, AbsentBlank
  <2>3. s.ids \subseteq PId
    BY DEF SessionType
  <2>4. QED
    BY <1>1, <1>2, <2>1, <2>2, <2>3 DEF SessionInv, InWhatIsOut
<1>9. QED
  BY <1>4, <1>5, <1>6, <1>7, <1>8 DEF SessionInv, t

\* removeParticipant: who stays may still hold what it received from the one who
\* left, which is no longer a participant.
LEMMA RemoveParticipantInv ==
  ASSUME NEW s \in SessionType, NEW p \in s.ids, SessionInv(s)
  PROVE  SessionInv(removeParticipant(s, p))
<1> DEFINE t == removeParticipant(s, p)
<1>1. /\ t.next = s.next
      /\ t.ids = s.ids \ {p}
      /\ t.sig = [s.sig EXCEPT ![p] = "stable"]
      /\ t.out = [s.out EXCEPT ![p] = {}]
      /\ t.in = [s.in EXCEPT ![p] = [q \in PId |-> {}]]
  BY DEF removeParticipant, SessionType
<1>2. /\ s.ids \subseteq PId
      /\ s.sig \in [PId -> SignalingState]
      /\ s.out \in [PId -> SUBSET Mids]
      /\ s.in \in [PId -> [PId -> SUBSET Mids]]
  BY DEF SessionType
<1> HIDE DEF t
<1>3. IdsGiven(t)
  BY <1>1 DEF SessionInv, IdsGiven
<1>4. AbsentBlank(t)
  BY <1>1, <1>2 DEF SessionInv, AbsentBlank
<1>5. NothingFromFuture(t)
  BY <1>1, <1>2 DEF SessionInv, NothingFromFuture
<1>6. AtMostOneInitiator(t)
  BY <1>1, <1>2 DEF SessionInv, AtMostOneInitiator, participantsInState
<1>7. InWhatIsOut(t)
  BY <1>1, <1>2 DEF SessionInv, InWhatIsOut
<1>8. QED
  BY <1>3, <1>4, <1>5, <1>6, <1>7 DEF SessionInv, t

\* addOffer: signalling was not active, so the sender is the only initiator; it
\* sends no less than before.
LEMMA AddOfferInv ==
  ASSUME NEW s \in SessionType, NEW p \in PId, NEW media \in SUBSET Mids, NEW ice \in IceKind,
         SessionInv(s), ~addOfferRefused(s, p)
  PROVE  SessionInv(addOffer(s, p, media, ice))
<1> DEFINE t == addOffer(s, p, media, ice)
<1>1. /\ t.next = s.next
      /\ t.ids = s.ids
      /\ t.sig = [s.sig EXCEPT ![p] = "gotOffer"]
      /\ t.out = [s.out EXCEPT ![p] = s.out[p] \cup media]
      /\ t.in = s.in
  BY DEF addOffer, SessionType
<1>2. /\ s.ids \subseteq PId
      /\ s.sig \in [PId -> SignalingState]
      /\ s.out \in [PId -> SUBSET Mids]
  BY DEF SessionType
<1>3. p \in s.ids /\ \A q \in s.ids : s.sig[q] = "stable"
  BY DEF addOfferRefused, signalingActive
<1> HIDE DEF t
<1>4. IdsGiven(t)
  BY <1>1 DEF SessionInv, IdsGiven
<1>5. AbsentBlank(t)
  BY <1>1, <1>2, <1>3 DEF SessionInv, AbsentBlank
<1>6. NothingFromFuture(t)
  BY <1>1 DEF SessionInv, NothingFromFuture
<1>7. AtMostOneInitiator(t)
  BY <1>1, <1>2, <1>3 DEF AtMostOneInitiator, participantsInState
<1>8. InWhatIsOut(t)
  BY <1>1, <1>2, <1>3 DEF SessionInv, InWhatIsOut
<1>9. QED
  BY <1>4, <1>5, <1>6, <1>7, <1>8 DEF SessionInv, t

\* What getOffer, getOffers and getAnswer have in common: only signalling states
\* of participants change, and none of them to gotOffer.
LEMMA SignalingInv ==
  ASSUME NEW s \in SessionType, NEW t, SessionInv(s),
         t.next = s.next, t.ids = s.ids, t.out = s.out, t.in = s.in,
         \A q \in PId \ s.ids : t.sig[q] = "stable",
         \A q \in s.ids : t.sig[q] = "gotOffer" => s.sig[q] = "gotOffer"
  PROVE  SessionInv(t)
  BY DEF SessionInv, IdsGiven, AbsentBlank, NothingFromFuture, AtMostOneInitiator,
         InWhatIsOut, participantsInState

\* getOffer keeps the invariant.
LEMMA GetOfferInv ==
  ASSUME NEW s \in SessionType, NEW p \in s.ids, SessionInv(s)
  PROVE  SessionInv(getOffer(s, p))
<1> DEFINE t == getOffer(s, p)
<1>1. /\ t.next = s.next /\ t.ids = s.ids /\ t.out = s.out /\ t.in = s.in
      /\ t.sig = [s.sig EXCEPT ![p] = "awaitAnswer"]
  BY DEF getOffer, awaitAnswer, SessionType
<1>2. s.sig \in [PId -> SignalingState] /\ s.ids \subseteq PId
  BY DEF SessionType
<1>3. \A q \in PId \ s.ids : s.sig[q] = "stable"
  BY DEF SessionInv, AbsentBlank
<1> HIDE DEF t
<1>4. SessionInv(t)
  BY <1>1, <1>2, <1>3, SignalingInv
<1>5. QED
  BY <1>4 DEF t

\* getOffer for all participants but the initiator keeps the invariant.
LEMMA GetOffersInv ==
  ASSUME NEW s \in SessionType, NEW p \in s.ids, SessionInv(s)
  PROVE  SessionInv(getOffers(s, p))
<1> DEFINE t == getOffers(s, p)
<1>1. /\ t.next = s.next /\ t.ids = s.ids /\ t.out = s.out /\ t.in = s.in
      /\ t.sig = [q \in PId |-> IF q \in s.ids \ {p} THEN "awaitAnswer" ELSE s.sig[q]]
  BY DEF getOffers, SessionType
<1>2. s.ids \subseteq PId
  BY DEF SessionType
<1>3. \A q \in PId \ s.ids : s.sig[q] = "stable"
  BY DEF SessionInv, AbsentBlank
<1> HIDE DEF t
<1>4. SessionInv(t)
  BY <1>1, <1>2, <1>3, SignalingInv
<1>5. QED
  BY <1>4 DEF t

\* getAnswer keeps the invariant.
LEMMA GetAnswerInv ==
  ASSUME NEW s \in SessionType, NEW p \in PId, SessionInv(s)
  PROVE  SessionInv(getAnswer(s, p))
<1> DEFINE t == getAnswer(s, p)
<1>1. /\ t.next = s.next /\ t.ids = s.ids /\ t.out = s.out /\ t.in = s.in
      /\ t.sig = [s.sig EXCEPT ![p] = "stable"]
  BY DEF getAnswer, SessionType
<1>2. s.sig \in [PId -> SignalingState] /\ s.ids \subseteq PId
  BY DEF SessionType
<1>3. \A q \in PId \ s.ids : s.sig[q] = "stable"
  BY DEF SessionInv, AbsentBlank
<1> HIDE DEF t
<1>4. SessionInv(t)
  BY <1>1, <1>2, <1>3, SignalingInv
<1>5. QED
  BY <1>4 DEF t

\* addAnswer: the media lines it takes are streams of the initiator, which is
\* another participant than the one that answers.
LEMMA AddAnswerInv ==
  ASSUME NEW s \in SessionType, NEW p \in s.ids, NEW media \in SUBSET Mids, NEW ice \in IceKind,
         SessionInv(s), ~addAnswerRefused(s, p), ~addAnswerBadStream(s, p, media, ice)
  PROVE  SessionInv(addAnswer(s, p, media, ice))
<1> DEFINE t == addAnswer(s, p, media, ice)
           i == participantInState(s, "gotOffer")
<1>1. /\ t.next = s.next
      /\ t.ids = s.ids
      /\ t.sig = [s.sig EXCEPT ![p] = "stable"]
      /\ t.out = s.out
      /\ t.in = [s.in EXCEPT ![p][i] = s.in[p][i] \cup media]
  BY DEF addAnswer, SessionType
<1>2. /\ s.ids \subseteq PId
      /\ s.sig \in [PId -> SignalingState]
      /\ s.out \in [PId -> SUBSET Mids]
      /\ s.in \in [PId -> [PId -> SUBSET Mids]]
      /\ s.next \in Nat
  BY MaxParticipantsAssumption DEF SessionType
<1>3. i \in s.ids /\ s.sig[i] = "gotOffer" /\ s.sig[p] = "awaitAnswer"
  BY InitiatorIsParticipant DEF addAnswerRefused, participantsInState
<1>4. i # p /\ media \subseteq s.out[i]
  BY <1>3 DEF addAnswerBadStream
<1>5. i <= s.next
  BY <1>2, <1>3 DEF SessionInv, IdsGiven
<1> HIDE DEF t, i
<1>6. IdsGiven(t)
  BY <1>1 DEF SessionInv, IdsGiven
<1>7. AbsentBlank(t)
  BY <1>1, <1>2 DEF SessionInv, AbsentBlank
<1>8. NothingFromFuture(t)
  <2>1. PId \subseteq Nat
    BY PIdFacts
  <2>2. \A a, b \in PId : b # i => t.in[a][b] = s.in[a][b]
    BY <1>1, <1>2
  <2>3. QED
    BY <1>1, <1>2, <1>3, <1>5, <2>1, <2>2 DEF SessionInv, NothingFromFuture
<1>9. AtMostOneInitiator(t)
  BY <1>1, <1>2 DEF SessionInv, AtMostOneInitiator, participantsInState
<1>10. InWhatIsOut(t)
  BY <1>1, <1>2, <1>3, <1>4 DEF SessionInv, InWhatIsOut
<1>11. QED
  BY <1>6, <1>7, <1>8, <1>9, <1>10 DEF SessionInv, t

-----------------------------------------------------------------------------
(* Type correctness *)

\* After an offer was taken its sender is the one initiator.
LEMMA AddOfferInitiator ==
  ASSUME NEW s \in SessionType, NEW p \in PId, NEW media \in SUBSET Mids, NEW ice \in IceKind,
         ~addOfferRefused(s, p)
  PROVE  /\ hasParticipantInState(addOffer(s, p, media, ice), "gotOffer")
         /\ addOffer(s, p, media, ice).ids = s.ids
<1> DEFINE t == addOffer(s, p, media, ice)
<1>1. t.ids = s.ids /\ t.sig = [s.sig EXCEPT ![p] = "gotOffer"]
  BY DEF addOffer, SessionType
<1>2. s.ids \subseteq PId /\ s.sig \in [PId -> SignalingState]
  BY DEF SessionType
<1>3. p \in s.ids /\ \A q \in s.ids : s.sig[q] = "stable"
  BY DEF addOfferRefused, signalingActive
<1> HIDE DEF t
<1>4. participantsInState(t, "gotOffer") = {p}
  BY <1>1, <1>2, <1>3 DEF participantsInState
<1>5. hasParticipantInState(t, "gotOffer")
  BY <1>1, <1>3, <1>4 DEF hasParticipantInState
<1>6. QED
  BY <1>1, <1>5 DEF t

\* The media of an offer.
LEMMA OfferMediaType ==
  ASSUME NEW s \in SessionType, hasParticipantInState(s, "gotOffer")
  PROVE  offerMedia(s) \in SUBSET Mids
<1>1. participantInState(s, "gotOffer") \in PId
  BY InitiatorIsParticipant DEF SessionType
<1>2. QED
  BY <1>1 DEF offerMedia, SessionType

\* std::map has a first entry when it has one.
LEMMA FirstEntry ==
  ASSUME Connected # {}
  PROVE  Switch0 \in Connected
<1>1. Connected \subseteq Nat
  BY SwitchPortsAssumption DEF Connected
<1>2. IsWellFoundedOn(OpToRel(<, Nat), Nat)
  BY NatLessThanWellFounded
<1>3. \E n \in Connected : \A m \in Connected : ~(<<m, n>> \in OpToRel(<, Nat))
  BY <1>1, <1>2, WFMin
<1>4. \E n \in Connected : \A m \in Connected : n <= m
  <2>1. \A m, n \in Nat : m < n => <<m, n>> \in OpToRel(<, Nat)
    BY DEF OpToRel
  <2>2. \A m, n \in Nat : ~(m < n) => n <= m
    OBVIOUS
  <2>3. QED
    BY <1>1, <1>3, <2>1, <2>2
<1>5. QED
  BY <1>4 DEF Switch0

WritesType ==
    /\ writing \subseteq SwitchPorts
    /\ spoilt \subseteq SwitchPorts
    /\ behind \in [SwitchPorts -> 0..MaxBehind]
    /\ swErr \in BOOLEAN
    /\ cmds \in [SwitchPorts -> SUBSET CmdType]

\* A write that is started, alone or behind another.
LEMMA StartWriteType ==
  ASSUME WritesType, NEW n \in SwitchPorts, NEW several, StartWrite(n, several)
  PROVE  /\ writing' \subseteq SwitchPorts
         /\ spoilt' \subseteq SwitchPorts
         /\ behind' \in [SwitchPorts -> 0..MaxBehind]
<1>1. CASE several \/ n \in writing
  <2>1. behind[n] \in 0..MaxBehind /\ behind[n] < MaxBehind
    BY <1>1 DEF StartWrite, WritesType
  <2>2. behind[n] + 1 \in 0..MaxBehind
    BY <2>1, MaxBehindAssumption
  <2>3. QED
    BY <1>1, <2>2 DEF StartWrite, WritesType
<1>2. CASE ~(several \/ n \in writing)
  BY <1>2 DEF StartWrite, WritesType
<1>3. QED
  BY <1>1, <1>2

\* Commands are written to a connected switch; each arrives whole or not at all.
LEMMA CommandType ==
  ASSUME TypeOK, NEW written \in SUBSET CmdType, Command(written),
         written # {} => Connected # {}
  PROVE  WritesType'
<1>1. WritesType
  BY DEF TypeOK, WritesType
<1>2. CASE UNCHANGED writeVars
  BY <1>1, <1>2 DEF writeVars, WritesType
<1>3. ASSUME written # {}, StartWrite(Switch0, \E a, b \in written : a # b),
             NEW arrived \in SUBSET written,
             cmds' = [cmds EXCEPT ![Switch0] = @ \cup arrived], UNCHANGED swErr
      PROVE  WritesType'
  <2>1. Switch0 \in SwitchPorts
    BY <1>3, FirstEntry DEF Connected
  <2>2. /\ writing' \subseteq SwitchPorts /\ spoilt' \subseteq SwitchPorts
        /\ behind' \in [SwitchPorts -> 0..MaxBehind]
    BY <1>1, <1>3, <2>1, StartWriteType
  <2>3. cmds' \in [SwitchPorts -> SUBSET CmdType] /\ swErr' \in BOOLEAN
    BY <1>1, <1>3 DEF WritesType
  <2>4. QED
    BY <2>2, <2>3 DEF WritesType
<1>4. CASE swErr' = TRUE /\ UNCHANGED <<writing, spoilt, behind, cmds>>
  BY <1>1, <1>4 DEF WritesType
<1>5. QED
  BY <1>2, <1>3, <1>4 DEF Command

\* A handler that throws leaves the state of a process that has ended.
LEMMA TerminateType ==
  ASSUME TypeOK, NEW written \in SUBSET CmdType, Terminate(written),
         written # {} => Connected # {}
  PROVE  TypeOK'
<1>1. WritesType'
  BY CommandType DEF Terminate
<1>2. NoConn \in ConnType
  BY MaxParticipantsAssumption DEF NoConn, ConnType, Phase
<1>3. QED
  BY <1>1, <1>2, NewSessionType DEF Terminate, TypeOK, WritesType, SwState, SockState

\* The commands of _onNewStream.
LEMMA CmdsType ==
  ASSUME NEW s \in SessionIds, NEW p \in PId, NEW q \in PId, NEW media \in SUBSET Mids
  PROVE  SendCmds(s, p, media) \in SUBSET CmdType /\ RecvCmds(s, p, q, media) \in SUBSET CmdType
  BY DEF SendCmds, RecvCmds, CmdType

\* The id a new participant gets.
LEMMA NextIdType ==
  ASSUME TypeOK, NEW s \in SessionIds, sess[s].next < MaxParticipants
  PROVE  nextParticipantId(sess[s]) \in PId
<1>1. sess[s] \in SessionType
  BY DEF TypeOK
<1>2. QED
  BY <1>1, MaxParticipantsAssumption DEF nextParticipantId, SessionType, PId

\* The sender of a message is a participant.
LEMMA FromParticipantType ==
  ASSUME TypeOK, NEW c \in Clients, NEW s \in SessionIds, FromParticipant(c, s)
  PROVE  sess[s] \in SessionType /\ conn[c].pid \in PId /\ conn[c].pid \in sess[s].ids
  BY DEF TypeOK, FromParticipant, SessionType

\* _onNewParticipant keeps the types.
LEMMA OnNewParticipantType ==
  ASSUME TypeOK, NEW c \in Clients, NEW s \in SessionIds, OnNewParticipant(c, s)
  PROVE  TypeOK'
<1> DEFINE p == nextParticipantId(sess[s])
           j == Joined(s, c)
<1>1. sess[s] \in SessionType /\ sess[s].next < MaxParticipants
  BY DEF TypeOK, OnNewParticipant, HelloGuard
<1>2. p \in PId /\ p \in 0..MaxParticipants
  BY <1>1, NextIdType, PIdFacts
<1>3. j \in SessionType
  BY <1>1, AddParticipantType DEF Joined
<1>4. JoinCmd(s, c) \in SUBSET CmdType
  BY <1>2 DEF JoinCmd, CmdType
<1>5. WritesType'
  BY <1>4, CommandType DEF OnNewParticipant
<1>6. conn' \in [Clients -> ConnType]
  <2> DEFINE e == [conn[c] EXCEPT !.reg = TRUE, !.sid = {s}, !.pid = p]
  <2>1. e \in ConnType
    BY <1>2 DEF TypeOK, ConnType
  <2>2. conn' = [conn EXCEPT ![c] = e]
    BY DEF OnNewParticipant, TypeOK
  <2> HIDE DEF e
  <2>3. QED
    BY <2>1, <2>2 DEF TypeOK
<1>7. sess' \in [SessionIds -> SessionType] /\ todo' \in [Clients -> OfferType \cup {None}]
  <2>1. CASE JoinOffer(s, c)
    <3>1. getOffer(j, p) \in SessionType
      BY <1>2, <1>3, GetOfferType
    <3>2. hasParticipantInState(getOffer(j, p), "gotOffer")
      BY <2>1 DEF OnNewParticipant, getOfferThrows, getOffer
    <3>3. offerMedia(getOffer(j, p)) \in SUBSET Mids
      BY <3>1, <3>2, OfferMediaType
    <3>4. [from |-> 0, media |-> offerMedia(getOffer(j, p))] \in OfferType
      BY <3>3, MaxParticipantsAssumption DEF OfferType
    <3>5. /\ sess' = [sess EXCEPT ![s] = getOffer(j, p)]
          /\ todo' = [todo EXCEPT ![c] = [from |-> 0, media |-> offerMedia(getOffer(j, p))]]
      BY <2>1 DEF OnNewParticipant
    <3> HIDE DEF j, p
    <3>6. QED
      BY <3>1, <3>4, <3>5 DEF TypeOK
  <2>2. CASE ~JoinOffer(s, c)
    <3>1. sess' = [sess EXCEPT ![s] = j] /\ UNCHANGED todo
      BY <2>2 DEF OnNewParticipant
    <3> HIDE DEF j, p
    <3>2. QED
      BY <1>3, <3>1 DEF TypeOK
  <2>3. QED
    BY <2>1, <2>2
<1>8. UNCHANGED <<running, sw, swOld, swSock, Connected>>
  BY DEF OnNewParticipant, switchVars, Connected
<1>9. QED
  BY <1>5, <1>6, <1>7, <1>8 DEF TypeOK, WritesType

\* _onClientOffer keeps the types.
LEMMA OnClientOfferType ==
  ASSUME TypeOK, NEW c \in Clients, NEW s \in SessionIds, NEW media \in SUBSET Mids,
         NEW ice \in IceKinds, OnClientOffer(c, s, media, ice)
  PROVE  TypeOK'
<1> DEFINE p     == conn[c].pid
           added == addOffer(sess[s], p, media, ice)
           new   == newSendStreams(sess[s], p, media)
<1>1. sess[s] \in SessionType /\ p \in PId /\ p \in 0..MaxParticipants /\ ice \in IceKind
  BY FromParticipantType, PIdFacts, IceKindsAssumption DEF OnClientOffer
<1>2. added \in SessionType
  BY <1>1, AddOfferType
<1>3. getOffers(added, p) \in SessionType /\ getAnswer(added, p) \in SessionType
  BY <1>1, <1>2, GetOffersType, GetAnswerType
<1>4. offerMedia(added) \in SUBSET Mids
  BY <1>1, <1>2, AddOfferInitiator, OfferMediaType DEF OnClientOffer
<1>5. [from |-> p, media |-> offerMedia(added)] \in OfferType
  BY <1>1, <1>4 DEF OfferType
<1>6. new \in SUBSET Mids
  BY DEF newSendStreams
<1>7. SendCmds(s, p, new) \in SUBSET CmdType
  BY <1>1, <1>6, CmdsType
<1>8. WritesType'
  <2>1. Command(SendCmds(s, p, new)) /\ (new # {} => Connected # {})
    BY DEF OnClientOffer
  <2>2. SendCmds(s, p, new) # {} => Connected # {}
    BY <2>1 DEF SendCmds
  <2>3. QED
    BY <1>7, <2>1, <2>2, CommandType
<1>9. UNCHANGED <<running, conn, sw, swOld, swSock, Connected>>
  BY DEF OnClientOffer, switchVars, Connected
<1>10. \/ /\ sess' = [sess EXCEPT ![s] = getOffers(added, p)]
          /\ todo' = [d \in Clients |->
                        IF \E q \in Others(s, p) : d = ConnectionOf(s, q)
                        THEN [from |-> p, media |-> offerMedia(added)]
                        ELSE todo[d]]
       \/ /\ sess' = [sess EXCEPT ![s] = getAnswer(added, p)]
          /\ UNCHANGED todo
  BY DEF OnClientOffer
<1> HIDE DEF p, added, new
<1>11. sess' \in [SessionIds -> SessionType] /\ todo' \in [Clients -> OfferType \cup {None}]
  BY <1>3, <1>5, <1>10 DEF TypeOK
<1>12. QED
  BY <1>8, <1>9, <1>11 DEF TypeOK, WritesType

\* _onClientAnswer keeps the types.
LEMMA OnClientAnswerType ==
  ASSUME TypeOK, NEW c \in Clients, NEW s \in SessionIds, NEW ice \in IceKinds,
         OnClientAnswer(c, s, ice)
  PROVE  TypeOK'
<1> DEFINE p     == conn[c].pid
           media == todo[c].media
           init  == participantInState(sess[s], "gotOffer")
           added == addAnswer(sess[s], p, media, ice)
           new   == newReceiveStreams(sess[s], p, media)
<1>1. sess[s] \in SessionType /\ p \in PId /\ ice \in IceKind
  BY FromParticipantType, IceKindsAssumption DEF OnClientAnswer
<1>2. media \in SUBSET Mids
  BY DEF TypeOK, OfferType, OnClientAnswer
<1>3. hasParticipantInState(sess[s], "gotOffer")
  BY DEF OnClientAnswer, addAnswerRefused
<1>4. init \in PId
  BY <1>1, <1>3, InitiatorIsParticipant DEF SessionType
<1>5. added \in SessionType
  BY <1>1, <1>2, <1>3, AddAnswerType
<1>6. getAnswer(added, init) \in SessionType
  BY <1>4, <1>5, GetAnswerType
<1>7. RecvCmds(s, p, init, new) \in SUBSET CmdType
  BY <1>1, <1>2, <1>4, CmdsType DEF newReceiveStreams
<1>8. WritesType'
  <2>1. Command(RecvCmds(s, p, init, new)) /\ (new # {} => Connected # {})
    BY DEF OnClientAnswer
  <2>2. RecvCmds(s, p, init, new) # {} => Connected # {}
    BY <2>1 DEF RecvCmds
  <2>3. QED
    BY <1>7, <2>1, <2>2, CommandType
<1>9. UNCHANGED <<running, conn, sw, swOld, swSock, Connected>>
  BY DEF OnClientAnswer, switchVars, Connected
<1>10. /\ todo' = [todo EXCEPT ![c] = None]
       /\ \/ sess' = [sess EXCEPT ![s] = added]
          \/ sess' = [sess EXCEPT ![s] = getAnswer(added, init)]
  BY DEF OnClientAnswer
<1> HIDE DEF p, media, init, added, new
<1>11. QED
  BY <1>5, <1>6, <1>8, <1>9, <1>10 DEF TypeOK, WritesType

\* A handler that throws ends in Terminate with commands of the right type.
LEMMA NewParticipantThrowsType ==
  ASSUME TypeOK, NEW c \in Clients, NEW s \in SessionIds, OnNewParticipantThrows(c, s)
  PROVE  TypeOK'
<1>1. JoinCmd(s, c) \in SUBSET CmdType
  BY NextIdType DEF OnNewParticipantThrows, HelloGuard, JoinCmd, CmdType
<1>2. QED
  BY <1>1, TerminateType DEF OnNewParticipantThrows

\* The same for an offer that is refused or cannot be passed on.
LEMMA OfferThrowsType ==
  ASSUME TypeOK, NEW c \in Clients, NEW s \in SessionIds, NEW ice \in IceKinds,
         NEW media \in SUBSET Mids, OnClientOfferThrows(c, s, media, ice)
  PROVE  TypeOK'
<1>1. conn[c].pid \in PId
  BY FromParticipantType DEF OnClientOfferThrows
<1> DEFINE W == SendCmds(s, conn[c].pid, newSendStreams(sess[s], conn[c].pid, media))
<1>2. W \in SUBSET CmdType
  BY <1>1, CmdsType DEF newSendStreams
<1>3. Terminate({}) \/ (Terminate(W) /\ (W # {} => Connected # {}))
  BY DEF OnClientOfferThrows, SendCmds
<1> HIDE DEF W
<1>4. QED
  BY <1>2, <1>3, TerminateType

\* The same for an answer that is refused or cannot be passed on.
LEMMA AnswerThrowsType ==
  ASSUME TypeOK, NEW c \in Clients, NEW s \in SessionIds, NEW ice \in IceKinds,
         OnClientAnswerThrows(c, s, ice)
  PROVE  TypeOK'
<1> DEFINE p    == conn[c].pid
           init == participantInState(sess[s], "gotOffer")
           new  == newReceiveStreams(sess[s], p, todo[c].media)
<1>1. sess[s] \in SessionType /\ p \in PId
  BY FromParticipantType DEF OnClientAnswerThrows
<1>2. todo[c].media \in SUBSET Mids
  BY DEF TypeOK, OfferType, OnClientAnswerThrows
<1>3. ~addAnswerRefused(sess[s], p) => init \in PId
  BY <1>1, InitiatorIsParticipant DEF addAnswerRefused, SessionType
<1>4. ~addAnswerRefused(sess[s], p) => RecvCmds(s, p, init, new) \in SUBSET CmdType
  BY <1>1, <1>2, <1>3, CmdsType DEF newReceiveStreams
<1>5. \/ Terminate({})
      \/ /\ ~addAnswerRefused(sess[s], p) /\ Terminate(RecvCmds(s, p, init, new))
         /\ RecvCmds(s, p, init, new) # {} => Connected # {}
  BY DEF OnClientAnswerThrows, RecvCmds
<1> HIDE DEF p, init, new
<1>6. QED
  BY <1>4, <1>5, TerminateType

\* The initial state has the types.
LEMMA InitType == Init => TypeOK
<1>1. NoConn \in ConnType
  BY MaxParticipantsAssumption DEF NoConn, ConnType, Phase
<1>2. SUFFICES ASSUME Init PROVE TypeOK
  OBVIOUS
<1>3. running \in BOOLEAN /\ swOld \subseteq Connected
  BY <1>2 DEF Init
<1>4. sess \in [SessionIds -> SessionType] /\ conn \in [Clients -> ConnType]
  BY <1>1, <1>2, NewSessionType DEF Init
<1>5. /\ todo \in [Clients -> OfferType \cup {None}]
      /\ sw \in [SwitchPorts -> SwState]
      /\ swSock \in [SwitchPorts -> SockState]
  BY <1>2 DEF Init, SwState, SockState
<1>6. WritesType
  <2>1. 0 \in 0..MaxBehind
    BY MaxBehindAssumption
  <2>2. behind \in [SwitchPorts -> 0..MaxBehind]
    BY <1>2, <2>1 DEF Init
  <2>3. QED
    BY <1>2, <2>2 DEF Init, WritesType
<1>7. QED
  BY <1>3, <1>4, <1>5, <1>6 DEF TypeOK, WritesType

\* The connection of a client opening, breaking and closing.
LEMMA ClientConnectionType ==
  ASSUME TypeOK, NEW c \in Clients,
         OnClientOpen(c) \/ ClientVanishes(c) \/ OnClientClose(c) \/ OnClientReadError(c)
  PROVE  TypeOK'
<1>1. CASE OnClientOpen(c)
  <2>1. PICK ph \in Phase : conn' = [conn EXCEPT ![c].phase = ph]
    BY <1>1 DEF OnClientOpen, Phase
  <2>2. QED
    BY <1>1, <2>1 DEF OnClientOpen, TypeOK, ConnType, switchVars, writeVars, Connected
<1>2. CASE ClientVanishes(c)
  BY <1>2 DEF ClientVanishes, TypeOK, ConnType, Phase, switchVars, writeVars, Connected
<1>3. CASE OnClientClose(c)
  <2>1. conn' \in [Clients -> ConnType] /\ todo' \in [Clients -> OfferType \cup {None}]
    BY <1>3 DEF OnClientClose, TypeOK, ConnType, Phase
  <2>2. sess' \in [SessionIds -> SessionType]
    <3>1. \A s \in SessionIds :
             conn[c].pid \in sess[s].ids => removeParticipant(sess[s], conn[c].pid) \in SessionType
      <4> TAKE s \in SessionIds
      <4>1. sess[s] \in SessionType /\ sess[s].ids \subseteq PId
        BY DEF TypeOK, SessionType
      <4>2. QED
        BY <4>1, RemoveParticipantType
    <3>2. QED
      BY <1>3, <3>1 DEF OnClientClose, TypeOK
  <2>3. QED
    BY <1>3, <2>1, <2>2 DEF OnClientClose, TypeOK, switchVars, writeVars, Connected
<1>4. CASE OnClientReadError(c)
  BY <1>4, TerminateType DEF OnClientReadError
<1>5. QED
  BY <1>1, <1>2, <1>3, <1>4

\* The connection of a switch opening, registering, breaking and closing.
LEMMA SwitchConnectionType ==
  ASSUME TypeOK, NEW n \in SwitchPorts, SwitchStep(n)
  PROVE  TypeOK'
<1>1. CASE OnSwitchOpen(n)
  <2>1. swOld' \subseteq Connected'
    BY <1>1 DEF OnSwitchOpen, TypeOK, Connected
  <2>2. QED
    BY <1>1, <2>1 DEF OnSwitchOpen, TypeOK, SwState, SockState
<1>2. CASE OnNewSwitch(n)
  <2>1. swOld' \subseteq Connected'
    BY <1>2 DEF OnNewSwitch, TypeOK, Connected
  <2>2. /\ writing' \subseteq SwitchPorts /\ spoilt' \subseteq SwitchPorts
        /\ behind' \in [SwitchPorts -> 0..MaxBehind] /\ swErr' \in BOOLEAN
    BY <1>2, StartWriteType DEF OnNewSwitch, TypeOK, WritesType
  <2>3. QED
    BY <1>2, <2>1, <2>2 DEF OnNewSwitch, TypeOK, SwState
<1>3. CASE SwitchVanishes(n)
  BY <1>3 DEF SwitchVanishes, TypeOK, SockState, writeVars, Connected
<1>4. CASE OnSwitchClose(n)
  <2>1. swOld' \subseteq Connected'
    BY <1>4 DEF OnSwitchClose, TypeOK, Connected
  <2>2. QED
    BY <1>4, <2>1 DEF OnSwitchClose, TypeOK, SwState, SockState
<1>7. CASE OnSwitchWritten(n)
  BY <1>7 DEF OnSwitchWritten, TypeOK, switchVars, Connected
<1>5. CASE OnSwitchCloseThrows(n) \/ OnSwitchReadError(n)
  BY <1>5, TerminateType DEF OnSwitchCloseThrows, OnSwitchReadError
<1>6. QED
  BY <1>1, <1>2, <1>3, <1>4, <1>5, <1>7 DEF SwitchStep

\* Type correctness: whatever clients and switches do, and whenever a handler
\* throws, the variables of the controller keep their types.
THEOREM TypeCorrect == Spec => []TypeOK
<1>1. Init => TypeOK
  BY InitType
<1>2. TypeOK /\ [Next]_vars => TypeOK'
  <2> SUFFICES ASSUME TypeOK, [Next]_vars PROVE TypeOK'
    OBVIOUS
  <2>1. ASSUME NEW c \in Clients, ClientStep(c) PROVE TypeOK'
    <3>1. CASE OnClientOpen(c) \/ ClientVanishes(c) \/ OnClientClose(c) \/ OnClientReadError(c)
      BY <3>1, ClientConnectionType
    <3>2. ASSUME NEW s \in SessionIds, OnNewParticipant(c, s) \/ OnNewParticipantThrows(c, s)
          PROVE  TypeOK'
      BY <3>2, OnNewParticipantType, NewParticipantThrowsType
    <3>3. ASSUME NEW s \in SessionIds, NEW ice \in IceKinds, NEW media \in SUBSET Mids,
                 OnClientOffer(c, s, media, ice) \/ OnClientOfferThrows(c, s, media, ice)
          PROVE  TypeOK'
      BY <3>3, OnClientOfferType, OfferThrowsType
    <3>4. ASSUME NEW s \in SessionIds, NEW ice \in IceKinds,
                 OnClientAnswer(c, s, ice) \/ OnClientAnswerThrows(c, s, ice)
          PROVE  TypeOK'
      BY <3>4, OnClientAnswerType, AnswerThrowsType
    <3>5. QED
      BY <2>1, <3>1, <3>2, <3>3, <3>4 DEF ClientStep
  <2>2. ASSUME NEW n \in SwitchPorts, SwitchStep(n) PROVE TypeOK'
    BY <2>2, SwitchConnectionType
  <2>3. CASE OnSwitchWriteError
    BY <2>3, TerminateType DEF OnSwitchWriteError
  <2>4. CASE UNCHANGED vars
    BY <2>4 DEF vars, TypeOK, switchVars, writeVars, Connected
  <2>5. QED
    BY <2>1, <2>2, <2>3, <2>4 DEF Next
<1>3. QED
  BY <1>1, <1>2, PTL DEF Spec

-----------------------------------------------------------------------------
(* The signalling invariant of every session *)

SessionsInv == \A s \in SessionIds : SessionInv(sess[s])

\* A handler that throws leaves no session behind.
LEMMA TerminateInv ==
  ASSUME NEW written, Terminate(written)
  PROVE  SessionsInv'
  BY NewSessionInv DEF Terminate, SessionsInv

\* A step that changes one session keeps the invariant if that session does.
LEMMA OneSession ==
  ASSUME TypeOK, SessionsInv, NEW s \in SessionIds, NEW t,
         sess' = [sess EXCEPT ![s] = t], SessionInv(t)
  PROVE  SessionsInv'
  BY DEF SessionsInv, TypeOK

\* _onNewParticipant keeps the invariant of every session.
LEMMA OnNewParticipantInv ==
  ASSUME TypeOK, SessionsInv, NEW c \in Clients, NEW s \in SessionIds, OnNewParticipant(c, s)
  PROVE  SessionsInv'
<1> DEFINE p == nextParticipantId(sess[s])
           j == Joined(s, c)
<1>1. sess[s] \in SessionType /\ sess[s].next < MaxParticipants /\ SessionInv(sess[s])
  BY DEF TypeOK, SessionsInv, OnNewParticipant, HelloGuard
<1>2. j \in SessionType /\ SessionInv(j)
  BY <1>1, AddParticipantType, AddParticipantInv DEF Joined
<1>3. p \in j.ids
  BY <1>1 DEF Joined, addParticipant, SessionType
<1>4. SessionInv(getOffer(j, p))
  BY <1>2, <1>3, GetOfferInv
<1>5. sess' = [sess EXCEPT ![s] = getOffer(j, p)] \/ sess' = [sess EXCEPT ![s] = j]
  BY DEF OnNewParticipant
<1> HIDE DEF p, j
<1>6. QED
  BY <1>2, <1>4, <1>5, OneSession

\* _onClientOffer keeps the invariant of every session.
LEMMA OnClientOfferInv ==
  ASSUME TypeOK, SessionsInv, NEW c \in Clients, NEW s \in SessionIds,
         NEW media \in SUBSET Mids, NEW ice \in IceKinds, OnClientOffer(c, s, media, ice)
  PROVE  SessionsInv'
<1> DEFINE p     == conn[c].pid
           added == addOffer(sess[s], p, media, ice)
<1>1. /\ sess[s] \in SessionType /\ SessionInv(sess[s])
      /\ p \in PId /\ p \in sess[s].ids
      /\ ice \in IceKind
      /\ ~addOfferRefused(sess[s], p)
  BY FromParticipantType, IceKindsAssumption DEF SessionsInv, OnClientOffer
<1>2. added \in SessionType /\ SessionInv(added) /\ p \in added.ids
  BY <1>1, AddOfferType, AddOfferInv, AddOfferInitiator
<1>3. SessionInv(getOffers(added, p)) /\ SessionInv(getAnswer(added, p))
  BY <1>1, <1>2, GetOffersInv, GetAnswerInv
<1>4. \/ sess' = [sess EXCEPT ![s] = getOffers(added, p)]
      \/ sess' = [sess EXCEPT ![s] = getAnswer(added, p)]
  BY DEF OnClientOffer
<1> HIDE DEF p, added
<1>5. QED
  BY <1>3, <1>4, OneSession

\* _onClientAnswer keeps the invariant of every session.
LEMMA OnClientAnswerInv ==
  ASSUME TypeOK, SessionsInv, NEW c \in Clients, NEW s \in SessionIds, NEW ice \in IceKinds,
         OnClientAnswer(c, s, ice)
  PROVE  SessionsInv'
<1> DEFINE p     == conn[c].pid
           media == todo[c].media
           init  == participantInState(sess[s], "gotOffer")
           added == addAnswer(sess[s], p, media, ice)
<1>1. /\ sess[s] \in SessionType /\ SessionInv(sess[s])
      /\ p \in PId /\ p \in sess[s].ids
      /\ ice \in IceKind
  BY FromParticipantType, IceKindsAssumption DEF SessionsInv, OnClientAnswer
<1>2. ~addAnswerRefused(sess[s], p) /\ ~addAnswerBadStream(sess[s], p, media, ice)
  BY DEF OnClientAnswer
<1>3. media \in SUBSET Mids
  BY DEF TypeOK, OfferType, OnClientAnswer
<1>4. hasParticipantInState(sess[s], "gotOffer")
  BY <1>2 DEF addAnswerRefused
<1>5. init \in PId
  BY <1>1, <1>4, InitiatorIsParticipant DEF SessionType
<1>6. added \in SessionType /\ SessionInv(added)
  BY <1>1, <1>2, <1>3, <1>4, AddAnswerType, AddAnswerInv
<1>7. SessionInv(getAnswer(added, init))
  BY <1>5, <1>6, GetAnswerInv
<1>8. \/ sess' = [sess EXCEPT ![s] = added]
      \/ sess' = [sess EXCEPT ![s] = getAnswer(added, init)]
  BY DEF OnClientAnswer
<1> HIDE DEF p, media, init, added
<1>9. QED
  BY <1>6, <1>7, <1>8, OneSession

\* _onClientClose keeps the invariant of every session.
LEMMA OnClientCloseInv ==
  ASSUME TypeOK, SessionsInv, NEW c \in Clients, OnClientClose(c)
  PROVE  SessionsInv'
<1> SUFFICES ASSUME NEW s \in SessionIds PROVE SessionInv(sess'[s])
  BY DEF SessionsInv
<1>1. sess[s] \in SessionType /\ SessionInv(sess[s])
  BY DEF TypeOK, SessionsInv
<1>2. \/ conn[c].pid \in sess[s].ids /\ sess'[s] = removeParticipant(sess[s], conn[c].pid)
      \/ sess'[s] = sess[s]
  BY DEF OnClientClose
<1>3. QED
  BY <1>1, <1>2, RemoveParticipantInv

\* Every session keeps its invariant: ids are never given twice, entries of
\* absent participants are blank, one initiator, nothing received is not sent.
THEOREM SessionsInvariant == Spec => []SessionsInv
<1>1. Init => SessionsInv
  BY NewSessionInv DEF Init, SessionsInv
<1>2. TypeOK /\ SessionsInv /\ [Next]_vars => SessionsInv'
  <2> SUFFICES ASSUME TypeOK, SessionsInv, [Next]_vars PROVE SessionsInv'
    OBVIOUS
  <2>1. ASSUME UNCHANGED sess PROVE SessionsInv'
    BY <2>1 DEF SessionsInv
  <2>2. ASSUME NEW c \in Clients, ClientStep(c) PROVE SessionsInv'
    <3>1. CASE OnClientOpen(c) \/ ClientVanishes(c)
      BY <2>1, <3>1 DEF OnClientOpen, ClientVanishes
    <3>2. CASE OnClientClose(c)
      BY <3>2, OnClientCloseInv
    <3>3. CASE OnClientReadError(c)
      BY <3>3, TerminateInv DEF OnClientReadError
    <3>4. ASSUME NEW s \in SessionIds, OnNewParticipant(c, s) \/ OnNewParticipantThrows(c, s)
          PROVE  SessionsInv'
      BY <3>4, OnNewParticipantInv, TerminateInv DEF OnNewParticipantThrows
    <3>5. ASSUME NEW s \in SessionIds, NEW ice \in IceKinds, NEW media \in SUBSET Mids,
                 OnClientOffer(c, s, media, ice) \/ OnClientOfferThrows(c, s, media, ice)
          PROVE  SessionsInv'
      BY <3>5, OnClientOfferInv, TerminateInv DEF OnClientOfferThrows
    <3>6. ASSUME NEW s \in SessionIds, NEW ice \in IceKinds,
                 OnClientAnswer(c, s, ice) \/ OnClientAnswerThrows(c, s, ice)
          PROVE  SessionsInv'
      BY <3>6, OnClientAnswerInv, TerminateInv DEF OnClientAnswerThrows
    <3>7. QED
      BY <2>2, <3>1, <3>2, <3>3, <3>4, <3>5, <3>6 DEF ClientStep
  <2>3. ASSUME NEW n \in SwitchPorts, SwitchStep(n) PROVE SessionsInv'
    BY <2>1, <2>3, TerminateInv
       DEF SwitchStep, OnSwitchOpen, OnNewSwitch, OnSwitchWritten, SwitchVanishes, OnSwitchClose,
           OnSwitchCloseThrows, OnSwitchReadError
  <2>4. CASE OnSwitchWriteError
    BY <2>4, TerminateInv DEF OnSwitchWriteError
  <2>5. CASE UNCHANGED vars
    BY <2>1, <2>5 DEF vars
  <2>6. QED
    BY <2>2, <2>3, <2>4, <2>5 DEF Next
<1>3. QED
  BY <1>1, <1>2, TypeCorrect, PTL DEF Spec

\* At most one initiator: participantInState(gotOffer), on which getOffer and
\* addAnswer rest, is never asked to choose between two participants.
THEOREM OneInitiatorAlways == Spec => []OneInitiator
<1>1. SessionsInv => OneInitiator
  BY DEF SessionsInv, SessionInv, AtMostOneInitiator, OneInitiator
<1>2. QED
  BY <1>1, SessionsInvariant, PTL

\* No participant is ever set up to receive what its sender, still there, does
\* not send, nor its own stream.
THEOREM ReceivesOnlyWhatIsSentAlways == Spec => []ReceivesOnlyWhatIsSent
<1>1. SessionsInv => ReceivesOnlyWhatIsSent
  BY DEF SessionsInv, SessionInv, InWhatIsOut, ReceivesOnlyWhatIsSent
<1>2. QED
  BY <1>1, SessionsInvariant, PTL

=============================================================================
