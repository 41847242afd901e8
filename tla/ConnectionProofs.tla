-------------------------- MODULE ConnectionProofs --------------------------
(***************************************************************************)
(* Proofs about how the tables of the controller relate to its sessions:   *)
(* the connection table to the participants, the offers clients hold to    *)
(* the signalling states, and the switch table to the sockets.             *)
(***************************************************************************)
EXTENDS ControllerProofs, FiniteSetTheorems

-----------------------------------------------------------------------------
(* The connection table and the participants *)

\* c holds the only entry for participant p of session s, is where p spoke from
\* and its close is still to come.
Placed(s, p, c) ==
    /\ \A d \in Clients : conn[d].sid = {s} /\ conn[d].pid = p <=> d = c
    /\ sess[s].addr[p] = {c}
    /\ conn[c].phase \in {"open", "gone"}

AllPlaced == \A s \in SessionIds : \A p \in sess[s].ids : \E c \in Clients : Placed(s, p, c)

\* A connection without hello names nobody and was sent nothing.
UnregisteredBlank == \A c \in Clients : ~conn[c].reg => conn[c].sid = {} /\ todo[c] = None

\* Entries, stale ones too, name ids that were given.
EntriesGiven ==
    \A c \in Clients, s \in SessionIds : conn[c].sid = {s} => conn[c].pid \in 1..sess[s].next

ConnInv == AllPlaced /\ UnregisteredBlank /\ EntriesGiven

\* A step that changes neither the members of a session nor an entry keeps the
\* table in order, if offers go to registered clients only.
LEMMA SameMembersConn ==
  ASSUME ConnInv, UNCHANGED conn,
         \A s \in SessionIds : /\ sess'[s].ids = sess[s].ids
                               /\ sess'[s].addr = sess[s].addr
                               /\ sess'[s].next = sess[s].next,
         \A c \in Clients : ~conn[c].reg => todo'[c] = todo[c]
  PROVE  ConnInv'
<1>1. AllPlaced'
  BY DEF ConnInv, AllPlaced, Placed
<1>2. UnregisteredBlank'
  BY DEF ConnInv, UnregisteredBlank
<1>3. EntriesGiven'
  BY DEF ConnInv, EntriesGiven
<1>4. QED
  BY <1>1, <1>2, <1>3 DEF ConnInv

\* A handler that throws leaves no participant and no entry.
LEMMA TerminateConn ==
  ASSUME NEW written, Terminate(written)
  PROVE  ConnInv'
  BY DEF Terminate, ConnInv, AllPlaced, UnregisteredBlank, EntriesGiven, NewSession, NoConn

\* A socket that opens, or breaks, is no other entry: its phase is not that of
\* a participant before, or stays one.
LEMMA PhaseConn ==
  ASSUME TypeOK, ConnInv, NEW c \in Clients, OnClientOpen(c) \/ ClientVanishes(c)
  PROVE  ConnInv'
<1>1. PICK ph \in Phase :
        /\ conn' = [conn EXCEPT ![c].phase = ph]
        /\ conn[c].phase \in {"open", "gone"} => ph \in {"open", "gone"}
  BY DEF OnClientOpen, ClientVanishes, Phase
<1>2. \A d \in Clients : /\ conn'[d].sid = conn[d].sid
                         /\ conn'[d].pid = conn[d].pid
                         /\ conn'[d].reg = conn[d].reg
                         /\ conn[d].phase \in {"open", "gone"} => conn'[d].phase \in {"open", "gone"}
  BY <1>1 DEF TypeOK, ConnType
<1>3. UNCHANGED <<sess, todo>>
  BY DEF OnClientOpen, ClientVanishes
<1>4. AllPlaced'
  BY <1>2, <1>3 DEF ConnInv, AllPlaced, Placed
<1>5. UnregisteredBlank' /\ EntriesGiven'
  BY <1>2, <1>3 DEF ConnInv, UnregisteredBlank, EntriesGiven
<1>6. QED
  BY <1>4, <1>5 DEF ConnInv

\* _onClientClose: the participant of a broken connection goes with it; the
\* entry of a second socket never was that of a participant.
LEMMA OnClientCloseConn ==
  ASSUME TypeOK, ConnInv, NEW c \in Clients, OnClientClose(c)
  PROVE  ConnInv'
<1>1. \A d \in Clients : /\ conn'[d].sid = conn[d].sid
                         /\ conn'[d].pid = conn[d].pid
                         /\ conn'[d].reg = conn[d].reg
                         /\ d # c => conn'[d].phase = conn[d].phase
  BY DEF OnClientClose, TypeOK, ConnType
<1>2. ASSUME NEW s \in SessionIds
      PROVE  /\ sess'[s].next = sess[s].next
             /\ \A p \in sess'[s].ids :
                   /\ p \in sess[s].ids
                   /\ sess'[s].addr[p] = sess[s].addr[p]
                   /\ ~(conn[c].phase = "gone" /\ conn[c].sid = {s} /\ conn[c].pid = p)
  <2>1. sess[s] \in SessionType
    BY DEF TypeOK
  <2>2. CASE conn[c].phase = "gone" /\ conn[c].sid = {s} /\ conn[c].pid \in sess[s].ids
    <3>1. sess'[s] = removeParticipant(sess[s], conn[c].pid)
      BY <2>2 DEF OnClientClose
    <3>2. /\ sess'[s].next = sess[s].next
          /\ sess'[s].ids = sess[s].ids \ {conn[c].pid}
          /\ sess'[s].addr = [sess[s].addr EXCEPT ![conn[c].pid] = {}]
      BY <2>1, <3>1 DEF removeParticipant, SessionType
    <3>3. sess[s].ids \subseteq PId /\ sess[s].addr \in [PId -> SUBSET Clients]
      BY <2>1 DEF SessionType
    <3>4. QED
      BY <3>2, <3>3
  <2>3. CASE ~(conn[c].phase = "gone" /\ conn[c].sid = {s} /\ conn[c].pid \in sess[s].ids)
    BY <2>3 DEF OnClientClose
  <2>4. QED
    BY <2>2, <2>3
<1>3. AllPlaced'
  <2> SUFFICES ASSUME NEW s \in SessionIds, NEW p \in sess'[s].ids
               PROVE  \E d \in Clients : Placed(s, p, d)'
    BY DEF AllPlaced
  <2>1. PICK d \in Clients : Placed(s, p, d)
    BY <1>2 DEF ConnInv, AllPlaced
  <2>2. d # c
    BY <1>2, <2>1 DEF Placed, OnClientClose
  <2>3. QED
    BY <1>1, <1>2, <2>1, <2>2 DEF Placed
<1>4. UnregisteredBlank'
  BY <1>1 DEF ConnInv, UnregisteredBlank, OnClientClose, TypeOK
<1>5. EntriesGiven'
  BY <1>1, <1>2 DEF ConnInv, EntriesGiven
<1>6. QED
  BY <1>3, <1>4, <1>5 DEF ConnInv

\* What addParticipant and getOffer do to the members of a session.
LEMMA JoinedMembers ==
  ASSUME TypeOK, NEW c \in Clients, NEW s \in SessionIds, OnNewParticipant(c, s)
  PROVE  /\ nextParticipantId(sess[s]) \in PId
         /\ sess'[s].next = nextParticipantId(sess[s])
         /\ sess'[s].ids = sess[s].ids \cup {nextParticipantId(sess[s])}
         /\ sess'[s].addr = [sess[s].addr EXCEPT ![nextParticipantId(sess[s])] = {c}]
         /\ \A t \in SessionIds \ {s} : sess'[t] = sess[t]
<1> DEFINE p == nextParticipantId(sess[s])
           j == Joined(s, c)
<1>1. sess[s] \in SessionType /\ sess[s].next < MaxParticipants
  BY DEF TypeOK, OnNewParticipant, HelloGuard
<1>2. p \in PId
  BY <1>1, NextIdType
<1>3. /\ j.next = p
      /\ j.ids = sess[s].ids \cup {p}
      /\ j.addr = [sess[s].addr EXCEPT ![p] = {c}]
  BY <1>1 DEF Joined, addParticipant, SessionType
<1> j \in SessionType
  BY <1>1, AddParticipantType DEF Joined
<1>4. sess' = [sess EXCEPT ![s] = getOffer(j, p)] \/ sess' = [sess EXCEPT ![s] = j]
  BY DEF OnNewParticipant
<1> HIDE DEF p, j
<1>5. getOffer(j, p).next = j.next /\ getOffer(j, p).ids = j.ids /\ getOffer(j, p).addr = j.addr
  BY <1>3 DEF getOffer, awaitAnswer, SessionType
<1>6. /\ sess'[s].next = j.next /\ sess'[s].ids = j.ids /\ sess'[s].addr = j.addr
      /\ \A t \in SessionIds \ {s} : sess'[t] = sess[t]
  BY <1>4, <1>5 DEF TypeOK
<1>7. QED
  BY <1>2, <1>3, <1>6 DEF p

\* _onNewParticipant: the id is new, so no entry names it yet, and the entry it
\* is written to named nobody.
LEMMA OnNewParticipantConn ==
  ASSUME TypeOK, SessionsInv, ConnInv, NEW c \in Clients, NEW s \in SessionIds,
         OnNewParticipant(c, s)
  PROVE  ConnInv'
<1> DEFINE p == nextParticipantId(sess[s])
<1>1. /\ p \in PId
      /\ sess'[s].next = p
      /\ sess'[s].ids = sess[s].ids \cup {p}
      /\ sess'[s].addr = [sess[s].addr EXCEPT ![p] = {c}]
      /\ \A t \in SessionIds \ {s} : sess'[t] = sess[t]
  BY JoinedMembers
<1>2. /\ sess[s].next \in Nat /\ p = sess[s].next + 1
      /\ sess[s].ids \subseteq PId /\ sess[s].ids \subseteq 1..sess[s].next
      /\ sess[s].addr \in [PId -> SUBSET Clients]
  BY MaxParticipantsAssumption
     DEF TypeOK, SessionType, SessionsInv, SessionInv, IdsGiven, nextParticipantId
<1>3. /\ conn'[c].reg /\ conn'[c].sid = {s} /\ conn'[c].pid = p
      /\ conn'[c].phase \in {"open", "gone"}
      /\ \A d \in Clients \ {c} : conn'[d] = conn[d]
  BY DEF OnNewParticipant, WriteMaySucceed, TypeOK, ConnType
<1>4. ~conn[c].reg /\ conn[c].sid = {}
  BY DEF OnNewParticipant, HelloGuard, WriteMaySucceed, ConnInv, UnregisteredBlank
<1> HIDE DEF p
<1>5. p \notin sess[s].ids /\ ~(p \in 1..sess[s].next)
  BY <1>2
<1>6. AllPlaced'
  <2> SUFFICES ASSUME NEW t \in SessionIds, NEW q \in sess'[t].ids
               PROVE  \E d \in Clients : Placed(t, q, d)'
    BY DEF AllPlaced
  <2>1. CASE t = s /\ q = p
    <3>1. \A d \in Clients \ {c} : ~(conn[d].sid = {s} /\ conn[d].pid = p)
      BY <1>5 DEF ConnInv, EntriesGiven
    <3>2. Placed(t, q, c)'
      BY <1>1, <1>2, <1>3, <2>1, <3>1 DEF Placed
    <3>3. QED
      BY <3>2
  <2>2. CASE ~(t = s /\ q = p)
    <3>1. q \in sess[t].ids /\ sess'[t].addr[q] = sess[t].addr[q]
      BY <1>1, <1>2, <2>2
    <3>2. PICK d \in Clients : Placed(t, q, d)
      BY <3>1 DEF ConnInv, AllPlaced
    <3>3. d # c /\ ~(conn[c].sid = {t})
      BY <1>4, <3>2 DEF Placed
    <3>4. ~(conn'[c].sid = {t} /\ conn'[c].pid = q)
      BY <1>3, <2>2
    <3>5. Placed(t, q, d)'
      BY <1>3, <3>1, <3>2, <3>3, <3>4 DEF Placed
    <3>6. QED
      BY <3>5
  <2>3. QED
    BY <2>1, <2>2
<1>7. UnregisteredBlank'
  <2>1. \A d \in Clients \ {c} : todo'[d] = todo[d]
    BY DEF OnNewParticipant, TypeOK
  <2>2. QED
    BY <1>3, <2>1 DEF ConnInv, UnregisteredBlank
<1>8. EntriesGiven'
  <2>1. \A t \in SessionIds : 1..sess[t].next \subseteq 1..sess'[t].next
    BY <1>1, <1>2
  <2>2. p \in 1..sess'[s].next
    BY <1>1, <1>2
  <2>3. QED
    BY <1>3, <2>1, <2>2 DEF ConnInv, EntriesGiven
<1>9. QED
  BY <1>6, <1>7, <1>8 DEF ConnInv

\* _onClientOffer and _onClientAnswer leave the members of every session alone.
LEMMA OfferMembers ==
  ASSUME TypeOK, NEW c \in Clients, NEW s \in SessionIds, NEW media \in SUBSET Mids,
         NEW ice \in IceKinds, OnClientOffer(c, s, media, ice)
  PROVE  \A t \in SessionIds : /\ sess'[t].ids = sess[t].ids
                               /\ sess'[t].addr = sess[t].addr
                               /\ sess'[t].next = sess[t].next
<1> DEFINE p     == conn[c].pid
           added == addOffer(sess[s], p, media, ice)
<1>1. sess[s] \in SessionType /\ p \in PId /\ ice \in IceKind
  BY FromParticipantType, IceKindsAssumption DEF OnClientOffer
<1>2. added \in SessionType
  BY <1>1, AddOfferType
<1>3. added.ids = sess[s].ids /\ added.addr = sess[s].addr /\ added.next = sess[s].next
  BY <1>1 DEF addOffer, SessionType
<1>4. \/ sess' = [sess EXCEPT ![s] = getOffers(added, p)]
      \/ sess' = [sess EXCEPT ![s] = getAnswer(added, p)]
  BY DEF OnClientOffer
<1> HIDE DEF added, p
<1>5. \A u \in {getOffers(added, p), getAnswer(added, p)} :
         u.ids = added.ids /\ u.addr = added.addr /\ u.next = added.next
  BY <1>2 DEF getOffers, getAnswer, SessionType
<1>6. QED
  BY <1>3, <1>4, <1>5 DEF TypeOK

\* The same for an answer.
LEMMA AnswerMembers ==
  ASSUME TypeOK, NEW c \in Clients, NEW s \in SessionIds, NEW ice \in IceKinds,
         OnClientAnswer(c, s, ice)
  PROVE  \A t \in SessionIds : /\ sess'[t].ids = sess[t].ids
                               /\ sess'[t].addr = sess[t].addr
                               /\ sess'[t].next = sess[t].next
<1> DEFINE p     == conn[c].pid
           media == todo[c].media
           init  == participantInState(sess[s], "gotOffer")
           added == addAnswer(sess[s], p, media, ice)
<1>1. sess[s] \in SessionType /\ p \in PId /\ ice \in IceKind /\ media \in SUBSET Mids
  BY FromParticipantType, IceKindsAssumption DEF OnClientAnswer, TypeOK, OfferType
<1>2. added \in SessionType
  BY <1>1, AddAnswerType DEF OnClientAnswer, addAnswerRefused
<1>3. added.ids = sess[s].ids /\ added.addr = sess[s].addr /\ added.next = sess[s].next
  BY <1>1 DEF addAnswer, SessionType
<1>4. sess' = [sess EXCEPT ![s] = added] \/ sess' = [sess EXCEPT ![s] = getAnswer(added, init)]
  BY DEF OnClientAnswer
<1> HIDE DEF p, media, init, added
<1>5. /\ getAnswer(added, init).ids = added.ids
      /\ getAnswer(added, init).addr = added.addr
      /\ getAnswer(added, init).next = added.next
  BY <1>2 DEF getAnswer, SessionType
<1>6. QED
  BY <1>3, <1>4, <1>5 DEF TypeOK

\* The entry ControllerClientInterface::get finds for a participant.
LEMMA ConnectionFound ==
  ASSUME ConnInv, NEW s \in SessionIds, NEW p \in sess[s].ids
  PROVE  /\ ConnectionOf(s, p) \in Clients
         /\ Placed(s, p, ConnectionOf(s, p))
         /\ conn[ConnectionOf(s, p)].sid = {s}
         /\ conn[ConnectionOf(s, p)].pid = p
<1>1. PICK c \in Clients : Placed(s, p, c)
  BY DEF ConnInv, AllPlaced
<1>2. ConnectionOf(s, p) = c
  BY <1>1 DEF Placed, ConnectionOf
<1>3. QED
  BY <1>1, <1>2 DEF Placed

\* _onClientOffer sends offers to participants, who are registered.
LEMMA OnClientOfferConn ==
  ASSUME TypeOK, ConnInv, NEW c \in Clients, NEW s \in SessionIds, NEW media \in SUBSET Mids,
         NEW ice \in IceKinds, OnClientOffer(c, s, media, ice)
  PROVE  ConnInv'
<1>1. \A d \in Clients : ~conn[d].reg => todo'[d] = todo[d]
  <2> SUFFICES ASSUME NEW d \in Clients, ~conn[d].reg PROVE todo'[d] = todo[d]
    OBVIOUS
  <2>1. \A q \in Others(s, conn[c].pid) : d # ConnectionOf(s, q)
    BY ConnectionFound DEF Others, ConnInv, UnregisteredBlank
  <2>2. QED
    BY <2>1 DEF OnClientOffer
<1>2. UNCHANGED conn
  BY DEF OnClientOffer
<1>3. QED
  BY <1>1, <1>2, OfferMembers, SameMembersConn

\* _onClientAnswer takes an offer from a client that is registered.
LEMMA OnClientAnswerConn ==
  ASSUME TypeOK, ConnInv, NEW c \in Clients, NEW s \in SessionIds, NEW ice \in IceKinds,
         OnClientAnswer(c, s, ice)
  PROVE  ConnInv'
<1>1. \A d \in Clients : ~conn[d].reg => todo'[d] = todo[d]
  BY DEF OnClientAnswer, FromParticipant, TypeOK
<1>2. UNCHANGED conn
  BY DEF OnClientAnswer
<1>3. QED
  BY <1>1, <1>2, AnswerMembers, SameMembersConn

\* The connection table stays in order.
THEOREM ConnInvariant == Spec => []ConnInv
<1>1. Init => ConnInv
  <2> SUFFICES ASSUME Init PROVE ConnInv
    OBVIOUS
  <2>1. \A s \in SessionIds : sess[s].ids = {}
    BY DEF Init, NewSession
  <2>2. \A c \in Clients : conn[c].sid = {} /\ todo[c] = None
    BY DEF Init, NoConn
  <2>3. QED
    BY <2>1, <2>2 DEF ConnInv, AllPlaced, UnregisteredBlank, EntriesGiven
<1>2. TypeOK /\ SessionsInv /\ ConnInv /\ [Next]_vars => ConnInv'
  <2> SUFFICES ASSUME TypeOK, SessionsInv, ConnInv, [Next]_vars PROVE ConnInv'
    OBVIOUS
  <2>1. ASSUME UNCHANGED <<sess, conn, todo>> PROVE ConnInv'
    BY <2>1, SameMembersConn
  <2>2. ASSUME NEW c \in Clients, ClientStep(c) PROVE ConnInv'
    <3>1. CASE OnClientOpen(c) \/ ClientVanishes(c) \/ OnClientClose(c) \/ OnClientReadError(c)
      BY <3>1, PhaseConn, OnClientCloseConn, TerminateConn DEF OnClientReadError
    <3>2. ASSUME NEW s \in SessionIds, OnNewParticipant(c, s) \/ OnNewParticipantThrows(c, s)
          PROVE  ConnInv'
      BY <3>2, OnNewParticipantConn, TerminateConn DEF OnNewParticipantThrows
    <3>3. ASSUME NEW s \in SessionIds, NEW ice \in IceKinds, NEW media \in SUBSET Mids,
                 OnClientOffer(c, s, media, ice) \/ OnClientOfferThrows(c, s, media, ice)
          PROVE  ConnInv'
      BY <3>3, OnClientOfferConn, TerminateConn DEF OnClientOfferThrows
    <3>4. ASSUME NEW s \in SessionIds, NEW ice \in IceKinds,
                 OnClientAnswer(c, s, ice) \/ OnClientAnswerThrows(c, s, ice)
          PROVE  ConnInv'
      BY <3>4, OnClientAnswerConn, TerminateConn DEF OnClientAnswerThrows
    <3>5. QED
      BY <2>2, <3>1, <3>2, <3>3, <3>4 DEF ClientStep
  <2>3. ASSUME NEW n \in SwitchPorts, SwitchStep(n) PROVE ConnInv'
    BY <2>1, <2>3, TerminateConn
       DEF SwitchStep, OnSwitchOpen, OnNewSwitch, OnSwitchWritten, SwitchVanishes, OnSwitchClose,
           OnSwitchCloseThrows, OnSwitchReadError
  <2>4. CASE OnSwitchWriteError
    BY <2>4, TerminateConn DEF OnSwitchWriteError
  <2>5. CASE UNCHANGED vars
    BY <2>1, <2>5 DEF vars
  <2>6. QED
    BY <2>2, <2>3, <2>4, <2>5 DEF Next
<1>3. QED
  BY <1>1, <1>2, TypeCorrect, SessionsInvariant, PTL DEF Spec

\* Each participant is reached through exactly one entry of the connection
\* table, the one of its own endpoint: ControllerClientInterface::get never
\* throws and never picks one of the stale entries, which are never erased.
THEOREM OneConnectionPerParticipantAlways == Spec => []OneConnectionPerParticipant
<1>1. ConnInv => OneConnectionPerParticipant
  <2> SUFFICES ASSUME ConnInv, NEW s \in SessionIds, NEW p \in sess[s].ids
               PROVE  \E c \in Clients :
                          /\ {d \in Clients : conn[d].sid = {s} /\ conn[d].pid = p} = {c}
                          /\ sess[s].addr[p] = {c}
                          /\ conn[c].phase \in {"open", "gone"}
    BY DEF OneConnectionPerParticipant
  <2>1. PICK c \in Clients : Placed(s, p, c)
    BY DEF ConnInv, AllPlaced
  <2>2. {d \in Clients : conn[d].sid = {s} /\ conn[d].pid = p} = {c}
    BY <2>1 DEF Placed
  <2>3. QED
    BY <2>1, <2>2 DEF Placed
<1>2. QED
  BY <1>1, ConnInvariant, PTL

-----------------------------------------------------------------------------
(* What the handlers do to the signalling states *)

\* _onNewParticipant: only the new participant's state may change, and the offer
\* it is sent lists what the one initiator sends.
LEMMA JoinSignal ==
  ASSUME TypeOK, SessionsInv, NEW c \in Clients, NEW s \in SessionIds, OnNewParticipant(c, s)
  PROVE  LET p == nextParticipantId(sess[s])
         IN /\ sess'[s].out = sess[s].out /\ sess'[s].in = sess[s].in
            /\ \A q \in sess[s].ids : sess'[s].sig[q] = sess[s].sig[q]
            /\ \/ /\ JoinOffer(s, c)
                  /\ sess'[s].sig[p] = "awaitAnswer"
                  /\ todo'[c] # None
                  /\ \A q \in participantsInState(sess[s], "gotOffer") :
                        todo'[c].media = sess[s].out[q]
               \/ /\ ~JoinOffer(s, c)
                  /\ sess'[s].sig[p] = "stable"
                  /\ todo'[c] = todo[c]
<1> DEFINE p == nextParticipantId(sess[s])
           j == Joined(s, c)
           g == getOffer(j, p)
<1>1. sess[s] \in SessionType /\ sess[s].next < MaxParticipants
  BY DEF TypeOK, OnNewParticipant, HelloGuard
<1>2. p \in PId
  BY <1>1, NextIdType
<1>3. p \notin sess[s].ids
  BY <1>1, MaxParticipantsAssumption
     DEF SessionsInv, SessionInv, IdsGiven, SessionType, nextParticipantId
<1>4. /\ j.ids = sess[s].ids \cup {p}
      /\ j.sig = sess[s].sig /\ j.out = sess[s].out /\ j.in = sess[s].in
  BY <1>1 DEF Joined, addParticipant, SessionType
<1>5. j \in SessionType
  BY <1>1, AddParticipantType DEF Joined
<1>6. sess[s].sig \in [PId -> SignalingState] /\ sess[s].ids \subseteq PId
  BY <1>1 DEF SessionType
<1>7. sess[s].sig[p] = "stable"
  BY <1>2, <1>3 DEF SessionsInv, SessionInv, AbsentBlank
<1>8. CASE JoinOffer(s, c)
  <2>1. /\ sess' = [sess EXCEPT ![s] = g]
        /\ todo' = [todo EXCEPT ![c] = [from |-> 0, media |-> offerMedia(g)]]
        /\ hasParticipantInState(g, "gotOffer")
    BY <1>8 DEF OnNewParticipant, getOfferThrows, getOffer
  <2> HIDE DEF j, p
  <2>2. /\ g.ids = j.ids /\ g.out = j.out /\ g.in = j.in
        /\ g.sig = [j.sig EXCEPT ![p] = "awaitAnswer"]
        /\ g \in SessionType
    BY <1>2, <1>5, GetOfferType DEF getOffer, awaitAnswer, SessionType
  <2> HIDE DEF g
  <2>3. participantsInState(g, "gotOffer") = {participantInState(g, "gotOffer")}
    BY <2>1, InitiatorIsParticipant
  <2>4. participantsInState(sess[s], "gotOffer") \subseteq participantsInState(g, "gotOffer")
    BY <1>3, <1>4, <1>6, <2>2 DEF participantsInState
  <2>5. \A q \in participantsInState(sess[s], "gotOffer") : offerMedia(g) = sess[s].out[q]
    BY <1>4, <2>2, <2>3, <2>4 DEF offerMedia
  <2>6. [from |-> 0, media |-> offerMedia(g)] \in OfferType
    BY <2>1, <2>2, OfferMediaType, MaxParticipantsAssumption DEF OfferType
  <2>7. sess'[s] = g /\ todo'[c] = [from |-> 0, media |-> offerMedia(g)]
    BY <2>1 DEF TypeOK
  <2>8. todo'[c] # None /\ todo'[c].media = offerMedia(g)
    BY <2>6, <2>7, NoneAssumption
  <2>9. QED
    BY <1>2, <1>3, <1>4, <1>6, <1>8, <2>2, <2>5, <2>7, <2>8 DEF p
<1>9. CASE ~JoinOffer(s, c)
  <2>1. sess' = [sess EXCEPT ![s] = j] /\ UNCHANGED todo
    BY <1>9 DEF OnNewParticipant
  <2> HIDE DEF j
  <2>2. sess'[s] = j
    BY <2>1 DEF TypeOK
  <2>3. QED
    BY <1>4, <1>7, <1>9, <2>1, <2>2
<1>10. QED
  BY <1>8, <1>9

\* _onClientOffer: everybody was stable; now its sender is the initiator and all
\* the others await, or it is alone and everybody is stable again.
LEMMA OfferSignal ==
  ASSUME TypeOK, NEW c \in Clients, NEW s \in SessionIds, NEW media \in SUBSET Mids,
         NEW ice \in IceKinds, OnClientOffer(c, s, media, ice)
  PROVE  LET p == conn[c].pid
         IN /\ \A q \in sess[s].ids : sess[s].sig[q] = "stable"
            /\ sess'[s].in = sess[s].in
            /\ \A t \in SessionIds \ {s} : sess'[t] = sess[t]
            /\ \/ /\ \A q \in sess[s].ids \ {p} : sess'[s].sig[q] = "awaitAnswer"
                  /\ sess'[s].sig[p] = "gotOffer"
                  /\ todo' = [d \in Clients |->
                                IF \E q \in Others(s, p) : d = ConnectionOf(s, q)
                                THEN [from |-> p, media |-> sess'[s].out[p]]
                                ELSE todo[d]]
                  /\ [from |-> p, media |-> sess'[s].out[p]] \in OfferType
               \/ /\ \A q \in sess[s].ids : sess'[s].sig[q] = "stable"
                  /\ UNCHANGED todo
<1> DEFINE p     == conn[c].pid
           x     == sess[s]
           added == addOffer(x, p, media, ice)
           o     == getOffers(added, p)
           a     == getAnswer(added, p)
<1>1. x \in SessionType /\ p \in PId /\ p \in x.ids /\ ice \in IceKind /\ ~addOfferRefused(x, p)
  BY FromParticipantType, IceKindsAssumption DEF OnClientOffer
<1>2. added \in SessionType
  BY <1>1, AddOfferType
<1>3. \A q \in x.ids : x.sig[q] = "stable"
  BY <1>1 DEF addOfferRefused, signalingActive
<1>4. /\ added.ids = x.ids /\ added.in = x.in
      /\ added.sig = [x.sig EXCEPT ![p] = "gotOffer"]
  BY <1>1 DEF addOffer, SessionType
<1>5. x.ids \subseteq PId /\ x.sig \in [PId -> SignalingState]
  BY <1>1 DEF SessionType
<1>6. \/ /\ sess' = [sess EXCEPT ![s] = o]
         /\ todo' = [d \in Clients |->
                       IF \E q \in Others(s, p) : d = ConnectionOf(s, q)
                       THEN [from |-> p, media |-> offerMedia(added)]
                       ELSE todo[d]]
      \/ sess' = [sess EXCEPT ![s] = a] /\ UNCHANGED todo
  BY DEF OnClientOffer
<1> HIDE DEF p, x, added
<1>7. offerMedia(added) = added.out[p]
  <2>1. participantsInState(added, "gotOffer") = {p}
    BY <1>1, <1>3, <1>4, <1>5 DEF participantsInState
  <2>2. participantInState(added, "gotOffer") = p
    BY <1>1, <1>4, <2>1, InitiatorIsParticipant DEF hasParticipantInState
  <2>3. QED
    BY <2>2 DEF offerMedia
<1>8. /\ o.in = added.in /\ o.out = added.out
      /\ o.sig = [q \in PId |-> IF q \in x.ids \ {p} THEN "awaitAnswer" ELSE added.sig[q]]
  BY <1>2, <1>4 DEF getOffers, SessionType
<1>9. a.in = added.in /\ a.out = added.out /\ a.sig = [added.sig EXCEPT ![p] = "stable"]
  BY <1>2 DEF getAnswer, SessionType
<1>10. [from |-> p, media |-> added.out[p]] \in OfferType
  BY <1>1, <1>2, PIdFacts DEF OfferType, SessionType
<1> HIDE DEF o, a
<1>11. x = sess[s] /\ (sess'[s] = o \/ sess'[s] = a) /\ \A t \in SessionIds \ {s} : sess'[t] = sess[t]
  BY <1>6 DEF TypeOK, x
<1>12. CASE sess' = [sess EXCEPT ![s] = o]
            /\ todo' = [d \in Clients |->
                       IF \E q \in Others(s, p) : d = ConnectionOf(s, q)
                       THEN [from |-> p, media |-> offerMedia(added)]
                       ELSE todo[d]]
  <2>1. sess'[s] = o
    BY <1>12 DEF TypeOK
  <2>2. \A q \in x.ids \ {p} : o.sig[q] = "awaitAnswer"
    BY <1>5, <1>8
  <2>3. o.sig[p] = "gotOffer"
    BY <1>1, <1>4, <1>5, <1>8
  <2>4. QED
    BY <1>3, <1>4, <1>7, <1>8, <1>10, <1>11, <1>12, <2>1, <2>2, <2>3 DEF p
<1>13. CASE sess' = [sess EXCEPT ![s] = a] /\ UNCHANGED todo
  <2>1. sess'[s] = a
    BY <1>13 DEF TypeOK
  <2>2. \A q \in x.ids : a.sig[q] = "stable"
    BY <1>3, <1>4, <1>5, <1>9
  <2>3. QED
    BY <1>3, <1>4, <1>9, <1>11, <1>13, <2>1, <2>2 DEF p
<1>14. QED
  BY <1>6, <1>12, <1>13

\* _onClientAnswer: who answered is stable, and so is the initiator once nobody
\* is left to answer.
LEMMA AnswerSignal ==
  ASSUME TypeOK, NEW c \in Clients, NEW s \in SessionIds, NEW ice \in IceKinds,
         OnClientAnswer(c, s, ice)
  PROVE  LET p == conn[c].pid
             i == participantInState(sess[s], "gotOffer")
         IN /\ i \in sess[s].ids /\ i # p
            /\ sess[s].sig[i] = "gotOffer" /\ sess[s].sig[p] = "awaitAnswer"
            /\ sess'[s].out = sess[s].out
            /\ sess'[s].in[p][i] = sess[s].in[p][i] \cup todo[c].media
            /\ \A q \in sess[s].ids \ {p} : sess'[s].in[q] = sess[s].in[q]
            /\ \A t \in SessionIds \ {s} : sess'[t] = sess[t]
            /\ sess'[s].sig[p] = "stable"
            /\ \A q \in sess[s].ids \ {p, i} : sess'[s].sig[q] = sess[s].sig[q]
            /\ \/ sess'[s].sig[i] = "gotOffer"
               \/ /\ sess'[s].sig[i] = "stable"
                  /\ \A q \in sess[s].ids \ {p} : sess[s].sig[q] # "awaitAnswer"
<1> DEFINE p     == conn[c].pid
           x     == sess[s]
           media == todo[c].media
           i     == participantInState(x, "gotOffer")
           added == addAnswer(x, p, media, ice)
           a     == getAnswer(added, i)
<1>1. x \in SessionType /\ p \in PId /\ p \in x.ids /\ ice \in IceKind
  BY FromParticipantType, IceKindsAssumption DEF OnClientAnswer
<1>2. media \in SUBSET Mids /\ hasParticipantInState(x, "gotOffer")
  BY DEF OnClientAnswer, TypeOK, OfferType, addAnswerRefused
<1>3. i \in x.ids /\ x.sig[i] = "gotOffer" /\ x.sig[p] = "awaitAnswer"
  BY <1>2, InitiatorIsParticipant DEF OnClientAnswer, addAnswerRefused, participantsInState
<1>4. added \in SessionType
  BY <1>1, <1>2, AddAnswerType
<1>5. /\ added.ids = x.ids /\ added.out = x.out
      /\ added.sig = [x.sig EXCEPT ![p] = "stable"]
      /\ added.in = [x.in EXCEPT ![p][i] = x.in[p][i] \cup media]
  BY <1>1 DEF addAnswer, SessionType
<1>6. /\ x.ids \subseteq PId /\ x.sig \in [PId -> SignalingState]
      /\ x.in \in [PId -> [PId -> SUBSET Mids]]
  BY <1>1 DEF SessionType
<1>7. \/ sess' = [sess EXCEPT ![s] = added]
      \/ /\ participantsInState(added, "awaitAnswer") = {}
         /\ sess' = [sess EXCEPT ![s] = a]
  BY DEF OnClientAnswer
<1> HIDE DEF p, x, media, i, added
<1>8. a.in = added.in /\ a.out = added.out /\ a.sig = [added.sig EXCEPT ![i] = "stable"]
  BY <1>4 DEF getAnswer, SessionType
<1> HIDE DEF a
<1>9. /\ i # p
      /\ added.in[p][i] = x.in[p][i] \cup media
      /\ \A q \in x.ids \ {p} : added.in[q] = x.in[q]
      /\ added.sig[p] = "stable" /\ added.sig[i] = "gotOffer"
      /\ \A q \in x.ids \ {p, i} : added.sig[q] = x.sig[q]
  BY <1>1, <1>3, <1>5, <1>6
<1>10. /\ a.sig[p] = "stable" /\ a.sig[i] = "stable"
       /\ \A q \in x.ids \ {p, i} : a.sig[q] = x.sig[q]
  BY <1>1, <1>3, <1>5, <1>6, <1>8, <1>9
<1>11. participantsInState(added, "awaitAnswer") = {} =>
          \A q \in x.ids \ {p} : x.sig[q] # "awaitAnswer"
  BY <1>1, <1>3, <1>5, <1>6 DEF participantsInState
<1>12. \A t \in SessionIds \ {s} : sess'[t] = sess[t]
  BY <1>7 DEF TypeOK
<1>13. CASE sess' = [sess EXCEPT ![s] = added]
  <2>1. sess'[s] = added
    BY <1>13 DEF TypeOK
  <2>2. QED
    BY <1>3, <1>5, <1>9, <1>12, <2>1 DEF p, x, media, i
<1>14. CASE participantsInState(added, "awaitAnswer") = {} /\ sess' = [sess EXCEPT ![s] = a]
  <2>1. sess'[s] = a
    BY <1>14 DEF TypeOK
  <2>2. /\ a.out = x.out
        /\ a.in[p][i] = x.in[p][i] \cup media
        /\ \A q \in x.ids \ {p} : a.in[q] = x.in[q]
        /\ \A q \in x.ids \ {p} : x.sig[q] # "awaitAnswer"
    BY <1>5, <1>8, <1>9, <1>11, <1>14
  <2>3. QED
    BY <1>3, <1>9, <1>10, <1>12, <2>1, <2>2 DEF p, x, media, i
<1>15. QED
  BY <1>7, <1>13, <1>14

-----------------------------------------------------------------------------
(* The offers clients hold and the signalling states *)

\* _onClientClose: who stays in a session is as it was.
LEMMA CloseSignal ==
  ASSUME TypeOK, NEW c \in Clients, NEW s \in SessionIds, OnClientClose(c)
  PROVE  /\ sess'[s].ids \subseteq sess[s].ids
         /\ \A q \in sess'[s].ids :
               /\ sess'[s].sig[q] = sess[s].sig[q]
               /\ sess'[s].out[q] = sess[s].out[q]
               /\ sess'[s].in[q] = sess[s].in[q]
               /\ ~(conn[c].phase = "gone" /\ conn[c].sid = {s} /\ conn[c].pid = q)
<1>1. CASE conn[c].phase = "gone" /\ conn[c].sid = {s} /\ conn[c].pid \in sess[s].ids
  <2> DEFINE x == sess[s]
             p == conn[c].pid
  <2>1. x \in SessionType
    BY DEF TypeOK
  <2>2. sess'[s] = removeParticipant(x, p)
    BY <1>1 DEF OnClientClose
  <2>3. /\ sess'[s].ids = x.ids \ {p}
        /\ sess'[s].sig = [x.sig EXCEPT ![p] = "stable"]
        /\ sess'[s].out = [x.out EXCEPT ![p] = {}]
        /\ sess'[s].in = [x.in EXCEPT ![p] = [q \in PId |-> {}]]
    BY <2>1, <2>2 DEF removeParticipant, SessionType
  <2>4. /\ x.ids \subseteq PId /\ x.sig \in [PId -> SignalingState]
        /\ x.out \in [PId -> SUBSET Mids] /\ x.in \in [PId -> [PId -> SUBSET Mids]]
    BY <2>1 DEF SessionType
  <2> HIDE DEF x, p
  <2>5. \A q \in sess'[s].ids : /\ q # p /\ sess'[s].sig[q] = x.sig[q]
                              /\ sess'[s].out[q] = x.out[q] /\ sess'[s].in[q] = x.in[q]
    BY <2>3, <2>4
  <2>6. QED
    BY <2>3, <2>5 DEF x, p
<1>2. CASE ~(conn[c].phase = "gone" /\ conn[c].sid = {s} /\ conn[c].pid \in sess[s].ids)
  BY <1>2 DEF OnClientClose
<1>3. QED
  BY <1>1, <1>2

\* The client behind a participant is the one the table names.
LEMMA SameClient ==
  ASSUME ConnInv, NEW s \in SessionIds, NEW p \in sess[s].ids, NEW c \in Clients, NEW d \in Clients,
         conn[c].sid = {s}, conn[c].pid = p, conn[d].sid = {s}, conn[d].pid = p
  PROVE  c = d
  BY DEF ConnInv, AllPlaced, Placed

\* A handler that throws leaves no offer.
LEMMA TerminateAwaited ==
  ASSUME NEW written, Terminate(written)
  PROVE  AwaitedOfferOutstanding'
  BY DEF Terminate, AwaitedOfferOutstanding, NewSession

\* _onClientClose: the offer of a client that closes goes with its participant.
LEMMA OnClientCloseAwaited ==
  ASSUME TypeOK, ConnInv, AwaitedOfferOutstanding, NEW c \in Clients, OnClientClose(c)
  PROVE  AwaitedOfferOutstanding'
<1> SUFFICES ASSUME NEW s \in SessionIds, NEW d \in Clients,
                    (conn[d].sid = {s} /\ conn[d].pid \in sess[s].ids)'
             PROVE  (/\ sess[s].sig[conn[d].pid] = "awaitAnswer" <=> todo[d] # None
                     /\ \A q \in participantsInState(sess[s], "gotOffer") :
                           todo[d] # None => todo[d].media = sess[s].out[q])'
  BY DEF AwaitedOfferOutstanding
<1>1. conn'[d].sid = conn[d].sid /\ conn'[d].pid = conn[d].pid
  BY DEF OnClientClose, TypeOK, ConnType
<1>4. /\ sess'[s].ids \subseteq sess[s].ids
      /\ \A q \in sess'[s].ids : /\ sess'[s].sig[q] = sess[s].sig[q]
                                 /\ sess'[s].out[q] = sess[s].out[q]
                                 /\ ~(conn[c].phase = "gone" /\ conn[c].sid = {s} /\ conn[c].pid = q)
  BY CloseSignal
<1>5. d # c
  <2> SUFFICES ASSUME d = c PROVE FALSE
    OBVIOUS
  <2>1. conn[c].sid = {s} /\ conn[c].pid \in sess[s].ids /\ conn[c].phase # "gone"
    BY <1>1, <1>4
  <2>2. conn[c].phase \in {"open", "gone"}
    BY <2>1 DEF ConnInv, AllPlaced, Placed
  <2>3. QED
    BY <2>1, <2>2 DEF OnClientClose
<1>6. todo'[d] = todo[d]
  BY <1>5 DEF OnClientClose, TypeOK
<1>7. QED
  BY <1>1, <1>4, <1>6 DEF AwaitedOfferOutstanding, participantsInState

\* _onNewParticipant: a joiner is sent an offer exactly when it is made to await.
LEMMA OnNewParticipantAwaited ==
  ASSUME TypeOK, SessionsInv, ConnInv, AwaitedOfferOutstanding,
         NEW c \in Clients, NEW s \in SessionIds, OnNewParticipant(c, s)
  PROVE  AwaitedOfferOutstanding'
<1> SUFFICES ASSUME NEW t \in SessionIds, NEW d \in Clients,
                    (conn[d].sid = {t} /\ conn[d].pid \in sess[t].ids)'
             PROVE  (/\ sess[t].sig[conn[d].pid] = "awaitAnswer" <=> todo[d] # None
                     /\ \A q \in participantsInState(sess[t], "gotOffer") :
                           todo[d] # None => todo[d].media = sess[t].out[q])'
  BY DEF AwaitedOfferOutstanding
<1> DEFINE p == nextParticipantId(sess[s])
<1>1. /\ sess'[s].ids = sess[s].ids \cup {p}
      /\ \A u \in SessionIds \ {s} : sess'[u] = sess[u]
  BY JoinedMembers
<1>2. /\ conn'[c].sid = {s} /\ conn'[c].pid = p
      /\ \A e \in Clients \ {c} : conn'[e] = conn[e] /\ todo'[e] = todo[e]
  BY DEF OnNewParticipant, TypeOK, ConnType
<1>3. todo[c] = None
  BY DEF OnNewParticipant, HelloGuard, WriteMaySucceed, ConnInv, UnregisteredBlank
<1>4. /\ sess'[s].out = sess[s].out
      /\ \A q \in sess[s].ids : sess'[s].sig[q] = sess[s].sig[q]
      /\ \/ /\ sess'[s].sig[p] = "awaitAnswer"
            /\ todo'[c] # None
            /\ \A q \in participantsInState(sess[s], "gotOffer") :
                  todo'[c].media = sess[s].out[q]
         \/ sess'[s].sig[p] = "stable" /\ todo'[c] = todo[c]
  BY JoinSignal
<1>5. \A e \in Clients : conn[e].sid = {s} => conn[e].pid # p
  <2>1. sess[s].next \in Nat /\ p = sess[s].next + 1
    BY MaxParticipantsAssumption DEF TypeOK, SessionType, nextParticipantId
  <2>2. QED
    BY <2>1 DEF ConnInv, EntriesGiven
<1> HIDE DEF p
<1>6. participantsInState(sess[s], "gotOffer")' \subseteq participantsInState(sess[s], "gotOffer")
  BY <1>1, <1>4 DEF participantsInState
<1>7. CASE d = c
  BY <1>2, <1>3, <1>4, <1>6, <1>7
<1>8. CASE d # c /\ t = s
  BY <1>1, <1>2, <1>4, <1>5, <1>6, <1>8 DEF AwaitedOfferOutstanding
<1>9. CASE d # c /\ t # s
  BY <1>1, <1>2, <1>9 DEF AwaitedOfferOutstanding, participantsInState
<1>10. QED
  BY <1>7, <1>8, <1>9

\* _onClientOffer: nobody held an offer; all but the sender are sent one.
LEMMA OnClientOfferAwaited ==
  ASSUME TypeOK, ConnInv, AwaitedOfferOutstanding, NEW c \in Clients, NEW s \in SessionIds,
         NEW media \in SUBSET Mids, NEW ice \in IceKinds, OnClientOffer(c, s, media, ice)
  PROVE  AwaitedOfferOutstanding'
<1> SUFFICES ASSUME NEW t \in SessionIds, NEW d \in Clients,
                    (conn[d].sid = {t} /\ conn[d].pid \in sess[t].ids)'
             PROVE  (/\ sess[t].sig[conn[d].pid] = "awaitAnswer" <=> todo[d] # None
                     /\ \A q \in participantsInState(sess[t], "gotOffer") :
                           todo[d] # None => todo[d].media = sess[t].out[q])'
  BY DEF AwaitedOfferOutstanding
<1> DEFINE p == conn[c].pid
           o == [from |-> p, media |-> sess'[s].out[p]]
<1>1. conn' = conn /\ p \in sess[s].ids /\ conn[c].sid = {s}
  BY DEF OnClientOffer, FromParticipant
<1>2. \A u \in SessionIds : sess'[u].ids = sess[u].ids
  BY OfferMembers
<1>3. /\ \A q \in sess[s].ids : sess[s].sig[q] = "stable"
      /\ \A u \in SessionIds \ {s} : sess'[u] = sess[u]
      /\ \/ /\ \A q \in sess[s].ids \ {p} : sess'[s].sig[q] = "awaitAnswer"
            /\ sess'[s].sig[p] = "gotOffer"
            /\ todo' = [e \in Clients |->
                          IF \E q \in Others(s, p) : e = ConnectionOf(s, q) THEN o ELSE todo[e]]
            /\ o \in OfferType
         \/ /\ \A q \in sess[s].ids : sess'[s].sig[q] = "stable"
            /\ UNCHANGED todo
  BY OfferSignal
<1> HIDE DEF p
<1>4. CASE t # s
  <2>1. \A q \in Others(s, p) : d # ConnectionOf(s, q)
    BY <1>1, <1>4, ConnectionFound DEF Others
  <2>2. todo'[d] = todo[d]
    BY <1>3, <2>1
  <2>3. QED
    BY <1>1, <1>3, <1>4, <2>2 DEF AwaitedOfferOutstanding, participantsInState
<1>5. CASE t = s
  <2>1. conn[d].pid \in sess[s].ids /\ todo[d] = None
    BY <1>1, <1>2, <1>3, <1>5 DEF AwaitedOfferOutstanding
  <2>2. CASE UNCHANGED todo /\ \A q \in sess[s].ids : sess'[s].sig[q] = "stable"
    BY <1>1, <1>5, <2>1, <2>2
  <2>3. CASE /\ \A q \in sess[s].ids \ {p} : sess'[s].sig[q] = "awaitAnswer"
             /\ sess'[s].sig[p] = "gotOffer"
             /\ todo' = [e \in Clients |->
                           IF \E q \in Others(s, p) : e = ConnectionOf(s, q) THEN o ELSE todo[e]]
             /\ o \in OfferType
    <3>1. participantsInState(sess[s], "gotOffer")' = {p}
      BY <1>1, <1>2, <2>3 DEF participantsInState
    <3>2. CASE conn[d].pid = p
      <4>1. \A q \in Others(s, p) : d # ConnectionOf(s, q)
        BY <3>2, ConnectionFound DEF Others
      <4>2. todo'[d] = None
        BY <2>1, <2>3, <4>1
      <4>3. QED
        BY <1>1, <1>5, <2>3, <3>2, <4>2
    <3>3. CASE conn[d].pid # p
      <4>1. conn[d].pid \in Others(s, p) /\ d = ConnectionOf(s, conn[d].pid)
        BY <1>1, <1>5, <2>1, <3>3, ConnectionFound, SameClient DEF Others
      <4>2. todo'[d] = o
        BY <2>3, <4>1
      <4>3. todo'[d] # None /\ todo'[d].media = sess'[s].out[p]
        BY <2>3, <4>2, NoneAssumption
      <4>4. QED
        BY <1>1, <1>5, <2>1, <2>3, <3>1, <3>3, <4>3
    <3>4. QED
      BY <3>2, <3>3
  <2>4. QED
    BY <1>3, <2>2, <2>3
<1>6. QED
  BY <1>4, <1>5

\* _onClientAnswer: the client that answers holds no offer any more, and the
\* initiator, which may go back to stable, held none.
LEMMA OnClientAnswerAwaited ==
  ASSUME TypeOK, ConnInv, AwaitedOfferOutstanding, NEW c \in Clients, NEW s \in SessionIds,
         NEW ice \in IceKinds, OnClientAnswer(c, s, ice)
  PROVE  AwaitedOfferOutstanding'
<1> SUFFICES ASSUME NEW t \in SessionIds, NEW d \in Clients,
                    (conn[d].sid = {t} /\ conn[d].pid \in sess[t].ids)'
             PROVE  (/\ sess[t].sig[conn[d].pid] = "awaitAnswer" <=> todo[d] # None
                     /\ \A q \in participantsInState(sess[t], "gotOffer") :
                           todo[d] # None => todo[d].media = sess[t].out[q])'
  BY DEF AwaitedOfferOutstanding
<1> DEFINE p == conn[c].pid
           i == participantInState(sess[s], "gotOffer")
<1>1. /\ conn' = conn /\ p \in sess[s].ids /\ conn[c].sid = {s}
      /\ todo'[c] = None /\ \A e \in Clients \ {c} : todo'[e] = todo[e]
  BY DEF OnClientAnswer, FromParticipant, TypeOK
<1>2. \A u \in SessionIds : sess'[u].ids = sess[u].ids
  BY AnswerMembers
<1>3. /\ i \in sess[s].ids /\ sess[s].sig[i] = "gotOffer"
      /\ sess'[s].out = sess[s].out
      /\ \A u \in SessionIds \ {s} : sess'[u] = sess[u]
      /\ sess'[s].sig[p] = "stable"
      /\ \A q \in sess[s].ids \ {p, i} : sess'[s].sig[q] = sess[s].sig[q]
      /\ sess'[s].sig[i] \in {"gotOffer", "stable"}
  BY AnswerSignal
<1> HIDE DEF p, i
<1>4. participantsInState(sess[s], "gotOffer")' \subseteq participantsInState(sess[s], "gotOffer")
  BY <1>2, <1>3 DEF participantsInState
<1>5. CASE t # s
  BY <1>1, <1>3, <1>5 DEF AwaitedOfferOutstanding, participantsInState
<1>6. CASE t = s /\ d = c
  BY <1>1, <1>3, <1>6 DEF p
<1>7. CASE t = s /\ d # c
  <2>1. conn[d].pid \in sess[s].ids /\ conn[d].pid # p
    BY <1>1, <1>2, <1>7, SameClient DEF p
  <2>2. sess'[s].sig[conn[d].pid] = "awaitAnswer" <=> sess[s].sig[conn[d].pid] = "awaitAnswer"
    BY <1>3, <2>1
  <2>3. QED
    BY <1>1, <1>3, <1>4, <1>7, <2>1, <2>2 DEF AwaitedOfferOutstanding
<1>8. QED
  BY <1>5, <1>6, <1>7

\* A participant is in awaitAnswer exactly while its client holds one offer it
\* has not answered, and that offer lists what the initiator sends: addAnswer is
\* never given a mid it does not know.
THEOREM AwaitedOfferOutstandingAlways == Spec => []AwaitedOfferOutstanding
<1>1. Init => AwaitedOfferOutstanding
  BY DEF Init, NewSession, AwaitedOfferOutstanding
<1>2. TypeOK /\ SessionsInv /\ ConnInv /\ AwaitedOfferOutstanding /\ [Next]_vars
        => AwaitedOfferOutstanding'
  <2> SUFFICES ASSUME TypeOK, SessionsInv, ConnInv, AwaitedOfferOutstanding, [Next]_vars
               PROVE  AwaitedOfferOutstanding'
    OBVIOUS
  <2>1. ASSUME UNCHANGED <<sess, todo>>,
               \A d \in Clients : conn'[d].sid = conn[d].sid /\ conn'[d].pid = conn[d].pid
        PROVE  AwaitedOfferOutstanding'
    BY <2>1 DEF AwaitedOfferOutstanding, participantsInState
  <2>2. ASSUME NEW c \in Clients, ClientStep(c) PROVE AwaitedOfferOutstanding'
    <3>1. CASE OnClientOpen(c) \/ ClientVanishes(c)
      <4>1. UNCHANGED <<sess, todo>>
        BY <3>1 DEF OnClientOpen, ClientVanishes
      <4>2. \A d \in Clients : conn'[d].sid = conn[d].sid /\ conn'[d].pid = conn[d].pid
        <5>1. conn \in [Clients -> ConnType]
          BY DEF TypeOK
        <5>2. \E ph \in Phase : conn' = [conn EXCEPT ![c].phase = ph]
          BY <3>1 DEF OnClientOpen, ClientVanishes, Phase
        <5>3. QED
          BY <5>1, <5>2 DEF ConnType
      <4>3. QED
        BY <2>1, <4>1, <4>2
    <3>2. CASE OnClientClose(c) \/ OnClientReadError(c)
      BY <3>2, OnClientCloseAwaited, TerminateAwaited DEF OnClientReadError
    <3>3. ASSUME NEW s \in SessionIds, OnNewParticipant(c, s) \/ OnNewParticipantThrows(c, s)
          PROVE  AwaitedOfferOutstanding'
      BY <3>3, OnNewParticipantAwaited, TerminateAwaited DEF OnNewParticipantThrows
    <3>4. ASSUME NEW s \in SessionIds, NEW ice \in IceKinds, NEW media \in SUBSET Mids,
                 OnClientOffer(c, s, media, ice) \/ OnClientOfferThrows(c, s, media, ice)
          PROVE  AwaitedOfferOutstanding'
      BY <3>4, OnClientOfferAwaited, TerminateAwaited DEF OnClientOfferThrows
    <3>5. ASSUME NEW s \in SessionIds, NEW ice \in IceKinds,
                 OnClientAnswer(c, s, ice) \/ OnClientAnswerThrows(c, s, ice)
          PROVE  AwaitedOfferOutstanding'
      BY <3>5, OnClientAnswerAwaited, TerminateAwaited DEF OnClientAnswerThrows
    <3>6. QED
      BY <2>2, <3>1, <3>2, <3>3, <3>4, <3>5 DEF ClientStep
  <2>3. ASSUME NEW n \in SwitchPorts, SwitchStep(n) PROVE AwaitedOfferOutstanding'
    BY <2>1, <2>3, TerminateAwaited
       DEF SwitchStep, OnSwitchOpen, OnNewSwitch, OnSwitchWritten, SwitchVanishes, OnSwitchClose,
           OnSwitchCloseThrows, OnSwitchReadError
  <2>4. CASE OnSwitchWriteError
    BY <2>4, TerminateAwaited DEF OnSwitchWriteError
  <2>5. CASE UNCHANGED vars
    BY <2>1, <2>5 DEF vars
  <2>6. QED
    BY <2>2, <2>3, <2>4, <2>5 DEF Next
<1>3. QED
  BY <1>1, <1>2, TypeCorrect, SessionsInvariant, ConnInvariant, PTL DEF Spec

-----------------------------------------------------------------------------
(* The initiator is answered when signalling is complete *)

\* While a transaction runs everybody else awaits or receives all the initiator
\* sends.
Served(s) ==
    \A p \in participantsInState(s, "gotOffer") : \A q \in s.ids \ {p} :
        s.sig[q] = "awaitAnswer" \/ s.out[p] \subseteq s.in[q][p]

AllServed == \A s \in SessionIds : Served(sess[s])

\* The step of one session that InitiatorAnsweredWhenComplete allows.
Complete(s, t) ==
    \A p \in t.ids :
        s.sig[p] = "gotOffer" /\ t.sig[p] = "stable"
        => /\ participantsInState(t, "awaitAnswer") = {}
           /\ \A q \in t.ids \ {p} : t.out[p] \subseteq t.in[q][p]

\* Two members make a session of more than one.
LEMMA TwoMembers ==
  ASSUME NEW S \in SUBSET PId, NEW p \in S, NEW q \in S, p # q
  PROVE  Cardinality(S) > 1
<1>1. IsFiniteSet(PId)
  BY FS_Interval, MaxParticipantsAssumption DEF PId
<1>2. IsFiniteSet(S)
  BY <1>1, FS_Subset
<1>3. Cardinality(S) # 0 /\ Cardinality(S) # 1 /\ Cardinality(S) \in Nat
  BY <1>2, FS_EmptySet, FS_Singleton, FS_CardinalityType
<1>4. QED
  BY <1>3

\* A handler that throws leaves nobody to be served.
LEMMA TerminateServed ==
  ASSUME NEW written, Terminate(written)
  PROVE  AllServed' /\ \A s \in SessionIds : Complete(sess[s], sess'[s])
  BY DEF Terminate, AllServed, Served, Complete, NewSession, participantsInState

\* A step that leaves the sessions alone.
LEMMA SameServed ==
  ASSUME AllServed, UNCHANGED sess
  PROVE  AllServed' /\ \A s \in SessionIds : Complete(sess[s], sess'[s])
  BY DEF AllServed, Served, Complete, participantsInState

\* _onNewParticipant: a joiner awaits, unless the initiator sends nothing.
LEMMA OnNewParticipantServed ==
  ASSUME TypeOK, SessionsInv, AllServed, NEW c \in Clients, NEW s \in SessionIds,
         OnNewParticipant(c, s)
  PROVE  AllServed' /\ \A t \in SessionIds : Complete(sess[t], sess'[t])
<1> DEFINE p == nextParticipantId(sess[s])
<1>1. /\ p \in PId
      /\ sess'[s].ids = sess[s].ids \cup {p}
      /\ \A t \in SessionIds \ {s} : sess'[t] = sess[t]
  BY JoinedMembers
<1>2. sess[s] \in SessionType /\ sess[s].ids \subseteq PId
  BY DEF TypeOK, SessionType
<1>3. p \notin sess[s].ids
  BY <1>2, MaxParticipantsAssumption
     DEF SessionsInv, SessionInv, IdsGiven, SessionType, nextParticipantId
<1>4. sess[s].sig[p] = "stable"
  BY <1>1, <1>3 DEF SessionsInv, SessionInv, AbsentBlank
<1>5. /\ sess'[s].out = sess[s].out /\ sess'[s].in = sess[s].in
      /\ \A q \in sess[s].ids : sess'[s].sig[q] = sess[s].sig[q]
      /\ \/ sess'[s].sig[p] = "awaitAnswer"
         \/ ~JoinOffer(s, c) /\ sess'[s].sig[p] = "stable"
  BY JoinSignal
<1>6. /\ Joined(s, c).ids = sess[s].ids \cup {p}
      /\ Joined(s, c).out = sess[s].out
  BY <1>2 DEF Joined, addParticipant, SessionType
<1> HIDE DEF p
<1>7. Served(sess[s])'
  <2> SUFFICES ASSUME NEW i \in participantsInState(sess[s], "gotOffer")', NEW q \in sess'[s].ids \ {i}
               PROVE  sess'[s].sig[q] = "awaitAnswer" \/ sess'[s].out[i] \subseteq sess'[s].in[q][i]
    BY DEF Served
  <2>1. i \in sess[s].ids /\ i # p /\ i \in participantsInState(sess[s], "gotOffer")
    BY <1>1, <1>3, <1>5 DEF participantsInState
  <2>2. CASE q # p
    BY <1>1, <1>5, <2>1, <2>2 DEF AllServed, Served
  <2>3. CASE q = p /\ ~JoinOffer(s, c)
    <3>1. Cardinality(sess[s].ids \cup {p}) > 1
      BY <1>1, <1>2, <2>1, TwoMembers
    <3>2. sess[s].out[i] = {}
      BY <1>6, <2>1, <2>3, <3>1 DEF JoinOffer, hasStreams
    <3>3. QED
      BY <1>5, <3>2
  <2>4. QED
    BY <1>5, <2>2, <2>3
<1>8. AllServed'
  BY <1>1, <1>7 DEF AllServed, Served, participantsInState
<1>9. \A t \in SessionIds : Complete(sess[t], sess'[t])
  BY <1>1, <1>4, <1>5 DEF Complete
<1>10. QED
  BY <1>8, <1>9

\* _onClientClose: who leaves was served or not; the others are as they were.
LEMMA OnClientCloseServed ==
  ASSUME TypeOK, AllServed, NEW c \in Clients, OnClientClose(c)
  PROVE  AllServed' /\ \A s \in SessionIds : Complete(sess[s], sess'[s])
<1>1. ASSUME NEW s \in SessionIds
      PROVE  /\ sess'[s].ids \subseteq sess[s].ids
             /\ \A q \in sess'[s].ids : /\ sess'[s].sig[q] = sess[s].sig[q]
                                        /\ sess'[s].out[q] = sess[s].out[q]
                                        /\ sess'[s].in[q] = sess[s].in[q]
  BY CloseSignal
<1>2. AllServed'
  BY <1>1 DEF AllServed, Served, participantsInState
<1>3. \A s \in SessionIds : Complete(sess[s], sess'[s])
  BY <1>1 DEF Complete
<1>4. QED
  BY <1>2, <1>3

\* _onClientOffer: everybody was stable; all but the initiator await now.
LEMMA OnClientOfferServed ==
  ASSUME TypeOK, AllServed, NEW c \in Clients, NEW s \in SessionIds,
         NEW media \in SUBSET Mids, NEW ice \in IceKinds, OnClientOffer(c, s, media, ice)
  PROVE  AllServed' /\ \A t \in SessionIds : Complete(sess[t], sess'[t])
<1> DEFINE p == conn[c].pid
<1>1. /\ \A q \in sess[s].ids : sess[s].sig[q] = "stable"
      /\ \A t \in SessionIds \ {s} : sess'[t] = sess[t]
      /\ \/ /\ \A q \in sess[s].ids \ {p} : sess'[s].sig[q] = "awaitAnswer"
            /\ sess'[s].sig[p] = "gotOffer"
         \/ \A q \in sess[s].ids : sess'[s].sig[q] = "stable"
  BY OfferSignal
<1>2. sess'[s].ids = sess[s].ids
  BY OfferMembers
<1> HIDE DEF p
<1>3. Served(sess[s])'
  BY <1>1, <1>2 DEF Served, participantsInState
<1>4. AllServed'
  BY <1>1, <1>3 DEF AllServed, Served, participantsInState
<1>5. \A t \in SessionIds : Complete(sess[t], sess'[t])
  BY <1>1, <1>2 DEF Complete
<1>6. QED
  BY <1>4, <1>5

\* _onClientAnswer: who answers receives all the initiator sends, for that is
\* what the offer it held lists.
LEMMA OnClientAnswerServed ==
  ASSUME TypeOK, SessionsInv, AwaitedOfferOutstanding, AllServed, NEW c \in Clients,
         NEW s \in SessionIds, NEW ice \in IceKinds, OnClientAnswer(c, s, ice)
  PROVE  AllServed' /\ \A t \in SessionIds : Complete(sess[t], sess'[t])
<1> DEFINE p == conn[c].pid
           i == participantInState(sess[s], "gotOffer")
<1>1. /\ i \in sess[s].ids /\ i # p
      /\ sess[s].sig[i] = "gotOffer" /\ sess[s].sig[p] = "awaitAnswer"
      /\ sess'[s].out = sess[s].out
      /\ sess'[s].in[p][i] = sess[s].in[p][i] \cup todo[c].media
      /\ \A q \in sess[s].ids \ {p} : sess'[s].in[q] = sess[s].in[q]
      /\ \A t \in SessionIds \ {s} : sess'[t] = sess[t]
      /\ sess'[s].sig[p] = "stable"
      /\ \A q \in sess[s].ids \ {p, i} : sess'[s].sig[q] = sess[s].sig[q]
      /\ \/ sess'[s].sig[i] = "gotOffer"
         \/ /\ sess'[s].sig[i] = "stable"
            /\ \A q \in sess[s].ids \ {p} : sess[s].sig[q] # "awaitAnswer"
  BY AnswerSignal
<1>2. sess'[s].ids = sess[s].ids
  BY AnswerMembers
<1>3. conn[c].sid = {s} /\ p \in sess[s].ids /\ todo[c] # None
  BY DEF OnClientAnswer, FromParticipant
<1>4. i \in participantsInState(sess[s], "gotOffer")
  BY <1>1 DEF participantsInState
<1>5. todo[c].media = sess[s].out[i]
  BY <1>3, <1>4 DEF AwaitedOfferOutstanding
<1>6. \A k \in sess[s].ids : sess[s].sig[k] = "gotOffer" => k = i
  BY <1>4 DEF SessionsInv, SessionInv, AtMostOneInitiator, participantsInState
<1> HIDE DEF p, i
<1>7. \A q \in sess[s].ids \ {i} :
         (sess[s].sig[q] = "awaitAnswer" /\ q # p) \/ sess'[s].out[i] \subseteq sess'[s].in[q][i]
  BY <1>1, <1>3, <1>4, <1>5 DEF AllServed, Served
<1>8. Served(sess[s])'
  BY <1>1, <1>2, <1>6, <1>7 DEF Served, participantsInState
<1>9. AllServed'
  BY <1>1, <1>8 DEF AllServed, Served, participantsInState
<1>10. Complete(sess[s], sess'[s])
  BY <1>1, <1>2, <1>6, <1>7 DEF Complete, participantsInState
<1>11. \A t \in SessionIds : Complete(sess[t], sess'[t])
  BY <1>1, <1>10 DEF Complete
<1>12. QED
  BY <1>9, <1>11

\* Every step of the controller, seen from the sessions.
LEMMA NextServed ==
  ASSUME TypeOK, SessionsInv, AwaitedOfferOutstanding, AllServed, [Next]_vars
  PROVE  AllServed' /\ \A s \in SessionIds : Complete(sess[s], sess'[s])
<1> DEFINE G == AllServed' /\ \A s \in SessionIds : Complete(sess[s], sess'[s])
<1>1. ASSUME UNCHANGED sess PROVE G
  BY <1>1, SameServed
<1>2. ASSUME NEW written, Terminate(written) PROVE G
  BY <1>2, TerminateServed
<1>3. ASSUME NEW c \in Clients, ClientStep(c) PROVE G
  <2>1. CASE OnClientOpen(c) \/ ClientVanishes(c)
    BY <1>1, <2>1 DEF OnClientOpen, ClientVanishes
  <2>2. CASE OnClientClose(c)
    BY <2>2, OnClientCloseServed
  <2>3. CASE OnClientReadError(c)
    BY <1>2, <2>3 DEF OnClientReadError
  <2>4. ASSUME NEW s \in SessionIds, OnNewParticipant(c, s) \/ OnNewParticipantThrows(c, s)
        PROVE  G
    <3>1. CASE OnNewParticipant(c, s)
      BY <3>1, OnNewParticipantServed
    <3>2. CASE OnNewParticipantThrows(c, s)
      BY <1>2, <3>2 DEF OnNewParticipantThrows
    <3>3. QED
      BY <2>4, <3>1, <3>2
  <2>5. ASSUME NEW s \in SessionIds, NEW ice \in IceKinds, NEW media \in SUBSET Mids,
               OnClientOffer(c, s, media, ice) \/ OnClientOfferThrows(c, s, media, ice)
        PROVE  G
    <3>1. CASE OnClientOffer(c, s, media, ice)
      BY <3>1, OnClientOfferServed
    <3>2. CASE OnClientOfferThrows(c, s, media, ice)
      BY <1>2, <3>2 DEF OnClientOfferThrows
    <3>3. QED
      BY <2>5, <3>1, <3>2
  <2>6. ASSUME NEW s \in SessionIds, NEW ice \in IceKinds,
               OnClientAnswer(c, s, ice) \/ OnClientAnswerThrows(c, s, ice)
        PROVE  G
    <3>1. CASE OnClientAnswer(c, s, ice)
      BY <3>1, OnClientAnswerServed
    <3>2. CASE OnClientAnswerThrows(c, s, ice)
      BY <1>2, <3>2 DEF OnClientAnswerThrows
    <3>3. QED
      BY <2>6, <3>1, <3>2
  <2> HIDE DEF G
  <2>7. QED
    BY <1>3, <2>1, <2>2, <2>3, <2>4, <2>5, <2>6 DEF ClientStep
<1>4. ASSUME NEW n \in SwitchPorts, SwitchStep(n) PROVE G
  <2> HIDE DEF G
  <2>1. QED
    BY <1>1, <1>2, <1>4
       DEF SwitchStep, OnSwitchOpen, OnNewSwitch, OnSwitchWritten, SwitchVanishes, OnSwitchClose,
           OnSwitchCloseThrows, OnSwitchReadError
<1>5. ASSUME OnSwitchWriteError PROVE G
  BY <1>2, <1>5 DEF OnSwitchWriteError
<1>6. ASSUME UNCHANGED vars PROVE G
  BY <1>1, <1>6 DEF vars
<1> HIDE DEF G
<1>7. G
  BY <1>3, <1>4, <1>5, <1>6 DEF Next
<1>8. QED
  BY <1>7 DEF G

\* While a transaction runs everybody else awaits or receives everything.
THEOREM AllServedAlways == Spec => []AllServed
<1>1. Init => AllServed
  BY DEF Init, NewSession, AllServed, Served, participantsInState
<1>2. TypeOK /\ SessionsInv /\ AwaitedOfferOutstanding /\ AllServed /\ [Next]_vars => AllServed'
  BY NextServed
<1>3. QED
  BY <1>1, <1>2, TypeCorrect, SessionsInvariant, AwaitedOfferOutstandingAlways, PTL DEF Spec

\* The initiator's answer means that signalling is complete: nobody is left in
\* awaitAnswer and all the others receive everything the initiator sends,
\* whoever joined or left meanwhile.
THEOREM InitiatorAnsweredWhenCompleteAlways == Spec => InitiatorAnsweredWhenComplete
<1> DEFINE Step == \A s \in SessionIds : \A p \in sess'[s].ids :
                     /\ sess[s].sig[p] = "gotOffer"
                     /\ sess'[s].sig[p] = "stable"
                     => /\ participantsInState(sess'[s], "awaitAnswer") = {}
                        /\ \A q \in sess'[s].ids \ {p} : sess'[s].out[p] \subseteq sess'[s].in[q][p]
<1>1. TypeOK /\ SessionsInv /\ AwaitedOfferOutstanding /\ AllServed /\ [Next]_vars => [Step]_vars
  BY NextServed DEF Complete
<1>2. Spec => [][Step]_vars
  BY <1>1, TypeCorrect, SessionsInvariant, AwaitedOfferOutstandingAlways, AllServedAlways, PTL DEF Spec
<1>3. QED
  BY <1>2 DEF InitiatorAnsweredWhenComplete

-----------------------------------------------------------------------------
(* The switch table and the sockets *)

Backing == {n \in SwitchPorts : swSock[n] \in {"up", "broken"}}

\* Sets of endpoints are finite.
LEMMA PortSets ==
  ASSUME NEW S \in SUBSET SwitchPorts
  PROVE  IsFiniteSet(S) /\ Cardinality(S) \in Nat
  BY SwitchPortsAssumption, FS_Subset, FS_CardinalityType

\* The table never holds more entries than there are sockets that have not been
\* closed, though _onSwitchClose may remove another socket's entry: once the last
\* switch is gone no entry is left that a command would be written to.
THEOREM SwitchEntriesBackedAlways == Spec => []SwitchEntriesBacked
<1>1. SwitchEntriesBacked <=> Cardinality(Connected) <= Cardinality(Backing)
  BY DEF SwitchEntriesBacked, Backing
<1>2. Init => SwitchEntriesBacked
  <2> SUFFICES ASSUME Init PROVE SwitchEntriesBacked
    OBVIOUS
  <2>1. Connected = {}
    BY DEF Init, Connected
  <2>2. Cardinality(Backing) \in Nat
    BY PortSets DEF Backing
  <2>3. QED
    BY <1>1, <2>1, <2>2, FS_EmptySet
<1>3. TypeOK /\ SwitchEntriesBacked /\ [Next]_vars => SwitchEntriesBacked'
  <2> SUFFICES ASSUME TypeOK, SwitchEntriesBacked, [Next]_vars
               PROVE  Cardinality(Connected') <= Cardinality(Backing')
    BY DEF SwitchEntriesBacked, Backing
  <2> DEFINE G == Cardinality(Connected') <= Cardinality(Backing')
  <2>1. /\ Connected \in SUBSET SwitchPorts /\ Backing \in SUBSET SwitchPorts
        /\ Connected' \in SUBSET SwitchPorts /\ Backing' \in SUBSET SwitchPorts
    BY DEF Connected, Backing
  <2>2. /\ IsFiniteSet(Connected) /\ Cardinality(Connected) \in Nat
        /\ IsFiniteSet(Backing) /\ Cardinality(Backing) \in Nat
        /\ Cardinality(Connected) <= Cardinality(Backing)
    BY <1>1, <2>1, PortSets
  <2>3. ASSUME NEW written, Terminate(written) PROVE G
    <3>1. Connected' = {} /\ Cardinality(Backing') \in Nat
      BY <2>1, <2>3, PortSets DEF Terminate, Connected
    <3>2. QED
      BY <3>1, FS_EmptySet
  <2>4. ASSUME Connected' = Connected, Backing' = Backing PROVE G
    BY <2>2, <2>4
  <2>5. ASSUME UNCHANGED switchVars PROVE G
    BY <2>4, <2>5 DEF switchVars, Connected, Backing
  <2>6. ASSUME NEW n \in SwitchPorts, OnSwitchOpen(n) PROVE G
    <3>1. Connected' = Connected \cup {n}
      BY <2>6 DEF OnSwitchOpen, Connected, TypeOK
    <3>2. n \notin Backing /\ Backing' = Backing \cup {n}
      BY <2>6 DEF OnSwitchOpen, Backing, TypeOK
    <3>3. Cardinality(Connected \cup {n}) \in {Cardinality(Connected), Cardinality(Connected) + 1}
      BY <2>2, FS_AddElement
    <3>4. Cardinality(Backing \cup {n}) = Cardinality(Backing) + 1
      BY <2>2, <3>2, FS_AddElement
    <3>5. QED
      BY <2>2, <3>1, <3>2, <3>3, <3>4
  <2>7. ASSUME NEW n \in SwitchPorts, OnNewSwitch(n) \/ OnSwitchWritten(n) \/ SwitchVanishes(n)
        PROVE  G
    <3>1. Connected' = Connected
      BY <2>7 DEF OnNewSwitch, OnSwitchWritten, SwitchVanishes, Connected, TypeOK, switchVars
    <3>2. Backing' = Backing
      BY <2>7 DEF OnNewSwitch, OnSwitchWritten, SwitchVanishes, Backing, TypeOK, switchVars
    <3>3. QED
      BY <2>4, <3>1, <3>2
  <2>8. ASSUME NEW n \in SwitchPorts, OnSwitchClose(n) PROVE G
    <3>1. Switch0 \in Connected
      BY <2>8, FirstEntry DEF OnSwitchClose
    <3>2. Connected' = Connected \ {Switch0}
      BY <2>8, <3>1 DEF OnSwitchClose, Connected, TypeOK
    <3>3. n \in Backing /\ Backing' = Backing \ {n}
      BY <2>8 DEF OnSwitchClose, Backing, TypeOK
    <3>4. Cardinality(Connected \ {Switch0}) = Cardinality(Connected) - 1
      BY <2>2, <3>1, FS_RemoveElement
    <3>5. Cardinality(Backing \ {n}) = Cardinality(Backing) - 1
      BY <2>2, <3>3, FS_RemoveElement
    <3>6. QED
      BY <2>2, <3>2, <3>3, <3>4, <3>5
  <2> HIDE DEF G
  <2>9. ASSUME NEW n \in SwitchPorts, SwitchStep(n) PROVE G
    BY <2>3, <2>6, <2>7, <2>8, <2>9 DEF SwitchStep, OnSwitchCloseThrows, OnSwitchReadError
  <2>10. ASSUME NEW c \in Clients, ClientStep(c) PROVE G
    <3>1. CASE OnClientOpen(c) \/ ClientVanishes(c) \/ OnClientClose(c) \/ OnClientReadError(c)
      BY <2>3, <2>5, <3>1 DEF OnClientOpen, ClientVanishes, OnClientClose, OnClientReadError
    <3>2. ASSUME NEW s \in SessionIds, OnNewParticipant(c, s) \/ OnNewParticipantThrows(c, s)
          PROVE  G
      BY <2>3, <2>5, <3>2 DEF OnNewParticipant, OnNewParticipantThrows
    <3>3. ASSUME NEW s \in SessionIds, NEW ice \in IceKinds, NEW media \in SUBSET Mids,
                 OnClientOffer(c, s, media, ice) \/ OnClientOfferThrows(c, s, media, ice)
          PROVE  G
      BY <2>3, <2>5, <3>3 DEF OnClientOffer, OnClientOfferThrows
    <3>4. ASSUME NEW s \in SessionIds, NEW ice \in IceKinds,
                 OnClientAnswer(c, s, ice) \/ OnClientAnswerThrows(c, s, ice)
          PROVE  G
      BY <2>3, <2>5, <3>4 DEF OnClientAnswer, OnClientAnswerThrows
    <3>5. QED
      BY <2>10, <3>1, <3>2, <3>3, <3>4 DEF ClientStep
  <2>11. ASSUME OnSwitchWriteError PROVE G
    BY <2>3, <2>11 DEF OnSwitchWriteError
  <2>12. ASSUME UNCHANGED vars PROVE G
    BY <2>5, <2>12 DEF vars, switchVars
  <2>13. G
    BY <2>9, <2>10, <2>11, <2>12 DEF Next
  <2>14. QED
    BY <2>13 DEF G
<1>4. QED
  BY <1>2, <1>3, TypeCorrect, PTL DEF Spec

-----------------------------------------------------------------------------
(* What the sessions believe and what the switch was told *)

\* No command was ever started behind another.
Unspoilt == \A n \in SwitchPorts : behind[n] = 0

\* There is one switch endpoint, and it does not lose its connection unless it is
\* sent what it cannot read.
SteadySwitch == \E n \in SwitchPorts : SwitchPorts = {n} /\ n \notin MayVanish

\* The agent behind endpoint n was told of every stream of a session.
Told(n, s) ==
    \A p \in sess[s].ids :
        /\ \A m \in sess[s].out[p] : [op |-> "send", sid |-> s, pid |-> p, mid |-> m] \in cmds[n]
        /\ \A q \in PId : \A m \in sess[s].in[p][q] :
              [op |-> "recv", sid |-> s, pid |-> p, from |-> q, mid |-> m] \in cmds[n]

\* The command a receive stream rests on.
SendOf(k) == [op |-> "send", sid |-> k.sid, pid |-> k.from, mid |-> k.mid]

SendsKnown(n) == \A k \in cmds[n] : k.op = "recv" => SendOf(k) \in cmds[n]

\* While nothing is spoilt, the socket of a switch is up exactly while the table has
\* an entry, its own, no write to it has failed, and nobody is in a session before it connects: its first
\* agent is told everything.
FollowsInv ==
    \A n \in SwitchPorts :
        /\ n \notin swOld /\ n \notin spoilt
        /\ swSock[n] \in {"down", "up"}
        /\ sw[n] = "none" <=> swSock[n] = "down"
        /\ ~swErr
        /\ sw[n] = "none" => \A s \in SessionIds : sess[s].ids = {}
        /\ \A s \in SessionIds : Told(n, s)
        /\ SendsKnown(n)

\* What a handler may write: nothing unless a switch is connected, and nothing
\* for a receive stream whose send stream is unknown.
Writable(n, written) ==
    /\ written # {} => Connected # {}
    /\ \A k \in written : k.op = "recv" => SendOf(k) \in cmds[n]

\* The entry of the only switch is the first.
LEMMA OnlySwitch ==
  ASSUME NEW n \in SwitchPorts, SwitchPorts = {n}, Connected # {}
  PROVE  Switch0 = n /\ sw[n] # "none"
  BY FirstEntry DEF Connected

\* A write that spoils nothing is alone, and nothing was spoilt before.
LEMMA StartedAlone ==
  ASSUME TypeOK, NEW n, NEW several, StartWrite(n, several), Unspoilt'
  PROVE  /\ Unspoilt
         /\ n \in SwitchPorts => ~several /\ n \notin writing /\ UNCHANGED spoilt
<1>1. behind \in [SwitchPorts -> Nat]
  BY MaxBehindAssumption DEF TypeOK
<1>2. CASE several \/ n \in writing
  <2>1. behind' = [behind EXCEPT ![n] = @ + 1]
    BY <1>2 DEF StartWrite
  <2>2. \A m \in SwitchPorts : m # n /\ behind[m] = 0
    <3> TAKE m \in SwitchPorts
    <3>1. behind[m] \in Nat /\ behind'[m] = IF m = n THEN behind[m] + 1 ELSE behind[m]
      BY <1>1, <2>1
    <3>2. behind'[m] = 0
      BY DEF Unspoilt
    <3>3. QED
      BY <3>1, <3>2
  <2>3. QED
    BY <2>2 DEF Unspoilt
<1>3. CASE ~(several \/ n \in writing)
  BY <1>3 DEF StartWrite, Unspoilt
<1>4. QED
  BY <1>2, <1>3

\* What was spoilt stays so: for a handler's commands.
LEMMA CommandUnspoilt ==
  ASSUME TypeOK, NEW written, Command(written), Unspoilt'
  PROVE  Unspoilt
<1>1. CASE UNCHANGED behind
  BY <1>1 DEF Unspoilt
<1>2. CASE StartWrite(Switch0, \E a, b \in written : a # b)
  BY <1>2, StartedAlone
<1>3. QED
  BY <1>1, <1>2 DEF Command, writeVars

\* And for every step.
LEMMA NextUnspoilt ==
  ASSUME TypeOK, [Next]_vars, Unspoilt'
  PROVE  Unspoilt
<1>1. ASSUME UNCHANGED behind PROVE Unspoilt
  BY <1>1 DEF Unspoilt
<1>2. ASSUME NEW written, Terminate(written) PROVE Unspoilt
  BY <1>2, CommandUnspoilt DEF Terminate
<1>3. ASSUME NEW c \in Clients, ClientStep(c) PROVE Unspoilt
  <2>1. CASE OnClientOpen(c) \/ ClientVanishes(c) \/ OnClientClose(c)
    BY <1>1, <2>1 DEF OnClientOpen, ClientVanishes, OnClientClose, writeVars
  <2>2. CASE OnClientReadError(c)
    BY <1>2, <2>2 DEF OnClientReadError
  <2>3. ASSUME NEW s \in SessionIds, OnNewParticipant(c, s) \/ OnNewParticipantThrows(c, s)
        PROVE  Unspoilt
    BY <1>2, <2>3, CommandUnspoilt DEF OnNewParticipant, OnNewParticipantThrows
  <2>4. ASSUME NEW s \in SessionIds, NEW ice \in IceKinds, NEW media \in SUBSET Mids,
               OnClientOffer(c, s, media, ice) \/ OnClientOfferThrows(c, s, media, ice)
        PROVE  Unspoilt
    BY <1>2, <2>4, CommandUnspoilt DEF OnClientOffer, OnClientOfferThrows
  <2>5. ASSUME NEW s \in SessionIds, NEW ice \in IceKinds,
               OnClientAnswer(c, s, ice) \/ OnClientAnswerThrows(c, s, ice)
        PROVE  Unspoilt
    BY <1>2, <2>5, CommandUnspoilt DEF OnClientAnswer, OnClientAnswerThrows
  <2>6. QED
    BY <1>3, <2>1, <2>2, <2>3, <2>4, <2>5 DEF ClientStep
<1>4. ASSUME NEW n \in SwitchPorts, SwitchStep(n) PROVE Unspoilt
  <2>1. CASE OnSwitchOpen(n) \/ OnSwitchWritten(n) \/ SwitchVanishes(n) \/ OnSwitchClose(n)
    BY <1>1, <2>1 DEF OnSwitchOpen, OnSwitchWritten, SwitchVanishes, OnSwitchClose, writeVars
  <2>2. CASE OnNewSwitch(n)
    BY <1>1, <2>2, StartedAlone DEF OnNewSwitch
  <2>3. CASE OnSwitchCloseThrows(n) \/ OnSwitchReadError(n)
    BY <1>2, <2>3 DEF OnSwitchCloseThrows, OnSwitchReadError
  <2>4. QED
    BY <1>4, <2>1, <2>2, <2>3 DEF SwitchStep
<1>5. CASE OnSwitchWriteError
  BY <1>2, <1>5 DEF OnSwitchWriteError
<1>6. CASE UNCHANGED vars
  BY <1>1, <1>6 DEF vars, writeVars
<1>7. QED
  BY <1>3, <1>4, <1>5, <1>6 DEF Next

\* What a handler writes reaches the agent, which knew the send stream before.
LEMMA CommandArrives ==
  ASSUME TypeOK, FollowsInv, NEW n \in SwitchPorts, SwitchPorts = {n},
         NEW written, Command(written), Writable(n, written), Unspoilt'
  PROVE  /\ cmds'[n] = cmds[n] \cup written
         /\ ~swErr'
         /\ n \notin spoilt'
         /\ SendsKnown(n)'
<1>1. /\ swSock[n] \in {"down", "up"} /\ (sw[n] = "none" <=> swSock[n] = "down")
      /\ n \notin swOld /\ n \notin spoilt /\ ~swErr /\ SendsKnown(n)
      /\ written # {} => Connected # {}
  BY DEF FollowsInv, Writable
<1>2. ASSUME written = {}
      PROVE  cmds'[n] = cmds[n] \cup written /\ ~swErr' /\ n \notin spoilt'
  BY <1>1, <1>2 DEF Command, writeVars
<1>3. ASSUME written # {}
      PROVE  cmds'[n] = cmds[n] \cup written /\ ~swErr' /\ n \notin spoilt'
  <2>1. Switch0 = n /\ swSock[Switch0] = "up" /\ Live(Switch0)
    BY <1>1, <1>3, OnlySwitch DEF Live
  <2>2. /\ StartWrite(Switch0, \E a, b \in written : a # b)
        /\ \E arrived \in SUBSET written :
              Arrives(Switch0, written, arrived) /\ cmds' = [cmds EXCEPT ![Switch0] = @ \cup arrived]
        /\ UNCHANGED swErr
    BY <1>3, <2>1 DEF Command
  <2>3. (\A a, b \in written : a = b) /\ Switch0 \notin writing /\ UNCHANGED spoilt
    BY <2>1, <2>2, StartedAlone
  <2>4. PICK arrived \in SUBSET written :
           arrived # {} /\ cmds' = [cmds EXCEPT ![Switch0] = @ \cup arrived]
    BY <2>1, <2>2, <2>3 DEF Arrives
  <2>5. arrived = written
    BY <2>3, <2>4
  <2>6. QED
    BY <1>1, <2>1, <2>2, <2>3, <2>4, <2>5 DEF TypeOK
<1>4. cmds'[n] = cmds[n] \cup written /\ ~swErr' /\ n \notin spoilt'
  BY <1>2, <1>3
<1>5. SendsKnown(n)'
  <2> SUFFICES ASSUME NEW k \in cmds'[n], k.op = "recv" PROVE SendOf(k) \in cmds'[n]
    BY DEF SendsKnown
  <2>1. QED
    BY <1>1, <1>4 DEF SendsKnown, Writable
<1>6. QED
  BY <1>4, <1>5

\* A step that leaves the switch alone and gives nobody a stream.
LEMMA NoNewStream ==
  ASSUME FollowsInv, UNCHANGED <<switchVars, spoilt, swErr, cmds>>,
         \A s \in SessionIds :
            /\ sess'[s].ids \subseteq sess[s].ids
            /\ \A q \in sess'[s].ids : /\ sess'[s].out[q] = sess[s].out[q]
                                       /\ sess'[s].in[q] = sess[s].in[q]
  PROVE  FollowsInv'
<1> SUFFICES ASSUME NEW n \in SwitchPorts
             PROVE  /\ (sw[n] = "none" => \A s \in SessionIds : sess[s].ids = {})'
                    /\ \A s \in SessionIds : Told(n, s)'
                    /\ SendsKnown(n)'
  BY DEF FollowsInv, switchVars
<1>1. (sw[n] = "none" => \A s \in SessionIds : sess[s].ids = {})'
  BY DEF FollowsInv, switchVars
<1>2. \A s \in SessionIds : Told(n, s)'
  BY DEF FollowsInv, Told
<1>3. SendsKnown(n)'
  BY DEF FollowsInv, SendsKnown
<1>4. QED
  BY <1>1, <1>2, <1>3

\* A handler that wrote a command, for a session in which all that is new is what
\* the command tells.
LEMMA OneNewStream ==
  ASSUME TypeOK, FollowsInv, NEW n \in SwitchPorts, SwitchPorts = {n},
         NEW written, Command(written), Writable(n, written), Unspoilt', UNCHANGED switchVars,
         NEW s \in SessionIds, Connected # {} \/ sess[s].ids # {},
         \A t \in SessionIds \ {s} : sess'[t] = sess[t],
         cmds'[n] = cmds[n] \cup written => Told(n, s)'
  PROVE  FollowsInv'
<1>1. /\ cmds'[n] = cmds[n] \cup written
      /\ ~swErr' /\ n \notin spoilt'
      /\ SendsKnown(n)'
  BY CommandArrives
<1>2. sw[n] # "none"
  BY OnlySwitch DEF FollowsInv
<1>3. \A t \in SessionIds : Told(n, t)'
  BY <1>1 DEF FollowsInv, Told
<1>4. QED
  BY <1>1, <1>2, <1>3 DEF FollowsInv, switchVars

\* A handler that throws leaves nobody in a session.
LEMMA TerminateFollows ==
  ASSUME TypeOK, FollowsInv, NEW n \in SwitchPorts, SwitchPorts = {n},
         NEW written, Terminate(written), Writable(n, written), Unspoilt'
  PROVE  FollowsInv'
<1>1. ~swErr' /\ n \notin spoilt' /\ SendsKnown(n)'
  BY CommandArrives DEF Terminate
<1>2. sw'[n] = "none" /\ swOld' = {} /\ swSock'[n] = "down" /\ \A s \in SessionIds : sess'[s].ids = {}
  BY DEF Terminate, NewSession
<1>3. \A s \in SessionIds : Told(n, s)'
  BY <1>2 DEF Told
<1>4. QED
  BY <1>1, <1>2, <1>3 DEF FollowsInv

\* A handler that throws before it writes anything.
LEMMA TerminateSilent ==
  ASSUME TypeOK, FollowsInv, NEW n \in SwitchPorts, SwitchPorts = {n}, Terminate({}),
         Unspoilt'
  PROVE  FollowsInv'
<1>1. Writable(n, {})
  BY DEF Writable
<1>2. QED
  BY <1>1, TerminateFollows

\* _onNewParticipant: a new participant has no streams.
LEMMA JoinFollows ==
  ASSUME TypeOK, SessionsInv, FollowsInv, NEW n \in SwitchPorts, SwitchPorts = {n},
         NEW c \in Clients, NEW s \in SessionIds, OnNewParticipant(c, s), Unspoilt'
  PROVE  FollowsInv'
<1> DEFINE p == nextParticipantId(sess[s])
<1>1. /\ p \in PId
      /\ sess'[s].ids = sess[s].ids \cup {p}
      /\ \A t \in SessionIds \ {s} : sess'[t] = sess[t]
  BY JoinedMembers
<1>2. sess[s] \in SessionType /\ sess[s].ids \subseteq PId
  BY DEF TypeOK, SessionType
<1>3. p \notin sess[s].ids
  BY <1>2, MaxParticipantsAssumption
     DEF SessionsInv, SessionInv, IdsGiven, SessionType, nextParticipantId
<1>4. sess[s].out[p] = {} /\ \A q \in PId : sess[s].in[p][q] = {}
  BY <1>1, <1>3 DEF SessionsInv, SessionInv, AbsentBlank
<1>5. sess'[s].out = sess[s].out /\ sess'[s].in = sess[s].in
  BY JoinSignal
<1>6. /\ Command(JoinCmd(s, c)) /\ Connected # {} /\ UNCHANGED switchVars
  BY DEF OnNewParticipant
<1>7. Writable(n, JoinCmd(s, c))
  BY <1>6 DEF JoinCmd, Writable
<1> HIDE DEF p
<1>8. cmds'[n] = cmds[n] \cup JoinCmd(s, c) => Told(n, s)'
  BY <1>1, <1>4, <1>5 DEF FollowsInv, Told
<1>9. QED
  BY <1>1, <1>6, <1>7, <1>8, OneNewStream

\* _onNewParticipant throws: it has written at most that somebody joined.
LEMMA JoinThrowsFollows ==
  ASSUME TypeOK, FollowsInv, NEW n \in SwitchPorts, SwitchPorts = {n},
         NEW c \in Clients, NEW s \in SessionIds, OnNewParticipantThrows(c, s), Unspoilt'
  PROVE  FollowsInv'
<1>1. CASE Terminate({})
  BY <1>1, TerminateSilent
<1>2. CASE Connected # {} /\ Terminate(JoinCmd(s, c))
  <2>1. Writable(n, JoinCmd(s, c))
    BY <1>2 DEF JoinCmd, Writable
  <2>2. QED
    BY <1>2, <2>1, TerminateFollows
<1>3. QED
  BY <1>1, <1>2 DEF OnNewParticipantThrows

\* addOffer adds to what the participant sends.
LEMMA OfferOut ==
  ASSUME TypeOK, NEW c \in Clients, NEW s \in SessionIds, NEW media \in SUBSET Mids,
         NEW ice \in IceKinds, OnClientOffer(c, s, media, ice)
  PROVE  sess'[s].out = [sess[s].out EXCEPT ![conn[c].pid] = @ \cup media]
<1> DEFINE p     == conn[c].pid
           added == addOffer(sess[s], p, media, ice)
<1>1. sess[s] \in SessionType /\ p \in PId /\ ice \in IceKind
  BY FromParticipantType, IceKindsAssumption DEF OnClientOffer
<1>2. added \in SessionType
  BY <1>1, AddOfferType
<1>3. added.out = [sess[s].out EXCEPT ![p] = @ \cup media]
  BY <1>1 DEF addOffer, SessionType
<1>4. \/ sess' = [sess EXCEPT ![s] = getOffers(added, p)]
      \/ sess' = [sess EXCEPT ![s] = getAnswer(added, p)]
  BY DEF OnClientOffer
<1> HIDE DEF added, p
<1>5. \A u \in {getOffers(added, p), getAnswer(added, p)} : u.out = added.out
  BY <1>2 DEF getOffers, getAnswer, SessionType
<1>6. sess'[s].out = added.out
  BY <1>4, <1>5 DEF TypeOK
<1>7. QED
  BY <1>3, <1>6 DEF p

\* addAnswer adds to what the participant receives from the initiator.
LEMMA AnswerIn ==
  ASSUME TypeOK, NEW c \in Clients, NEW s \in SessionIds, NEW ice \in IceKinds,
         OnClientAnswer(c, s, ice)
  PROVE  LET p == conn[c].pid
             i == participantInState(sess[s], "gotOffer")
         IN /\ i \in PId
            /\ sess'[s].in = [sess[s].in EXCEPT ![p][i] = @ \cup todo[c].media]
<1> DEFINE p     == conn[c].pid
           media == todo[c].media
           init  == participantInState(sess[s], "gotOffer")
           added == addAnswer(sess[s], p, media, ice)
<1>1. /\ sess[s] \in SessionType /\ p \in PId /\ ice \in IceKind /\ media \in SUBSET Mids
      /\ hasParticipantInState(sess[s], "gotOffer")
  BY FromParticipantType, IceKindsAssumption DEF OnClientAnswer, TypeOK, OfferType, addAnswerRefused
<1>2. added \in SessionType /\ init \in PId
  BY <1>1, AddAnswerType, InitiatorIsParticipant DEF SessionType
<1>3. added.in = [sess[s].in EXCEPT ![p][init] = @ \cup media]
  BY <1>1 DEF addAnswer, SessionType
<1>4. sess' = [sess EXCEPT ![s] = added] \/ sess' = [sess EXCEPT ![s] = getAnswer(added, init)]
  BY DEF OnClientAnswer
<1> HIDE DEF p, media, init, added
<1>5. getAnswer(added, init).in = added.in
  BY <1>2 DEF getAnswer, SessionType
<1>6. sess'[s].in = added.in
  BY <1>4, <1>5 DEF TypeOK
<1>7. QED
  BY <1>2, <1>3, <1>6 DEF p, media, init

\* The commands of a handler that adds send streams.
LEMMA SendWritten ==
  ASSUME NEW n, NEW s, NEW p, NEW x, NEW media \in SUBSET Mids,
         newSendStreams(x, p, media) # {} => Connected # {}
  PROVE  Writable(n, SendCmds(s, p, newSendStreams(x, p, media)))
  BY DEF SendCmds, Writable

\* _onClientOffer: the agent is told of every stream that is new.
LEMMA OfferFollows ==
  ASSUME TypeOK, FollowsInv, NEW n \in SwitchPorts, SwitchPorts = {n},
         NEW c \in Clients, NEW s \in SessionIds, NEW media \in SUBSET Mids,
         NEW ice \in IceKinds, OnClientOffer(c, s, media, ice), Unspoilt'
  PROVE  FollowsInv'
<1> DEFINE p   == conn[c].pid
           new == newSendStreams(sess[s], p, media)
           W   == SendCmds(s, p, new)
<1>1. sess[s] \in SessionType /\ p \in PId /\ p \in sess[s].ids
  BY FromParticipantType DEF OnClientOffer
<1>2. /\ Command(W) /\ (new # {} => Connected # {}) /\ UNCHANGED switchVars
  BY DEF OnClientOffer
<1>3. Writable(n, W)
  BY <1>2, SendWritten
<1>4. sess'[s].out = [sess[s].out EXCEPT ![p] = @ \cup media]
  BY OfferOut
<1>5. sess'[s].in = sess[s].in /\ \A t \in SessionIds \ {s} : sess'[t] = sess[t]
  BY OfferSignal
<1>6. sess'[s].ids = sess[s].ids
  BY OfferMembers
<1>7. Told(n, s)
  BY DEF FollowsInv
<1>8. ASSUME NEW q \in sess[s].ids, NEW m \in sess'[s].out[q], cmds'[n] = cmds[n] \cup W
      PROVE  [op |-> "send", sid |-> s, pid |-> q, mid |-> m] \in cmds'[n]
  <2>1. sess[s].out \in [PId -> SUBSET Mids] /\ q \in PId
    BY <1>1 DEF SessionType
  <2>2. CASE m \in sess[s].out[q]
    BY <1>7, <1>8, <2>2 DEF Told
  <2>3. CASE m \notin sess[s].out[q]
    <3>1. q = p /\ m \in new
      BY <1>1, <1>4, <1>8, <2>1, <2>3 DEF newSendStreams
    <3>2. QED
      BY <1>8, <3>1 DEF SendCmds
  <2>4. QED
    BY <2>2, <2>3
<1> HIDE DEF W, new, p
<1>9. cmds'[n] = cmds[n] \cup W => Told(n, s)'
  BY <1>5, <1>6, <1>7, <1>8 DEF Told
<1>10. QED
  BY <1>1, <1>2, <1>3, <1>5, <1>9, OneNewStream

\* _onClientOffer throws: it has written at most the new send stream.
LEMMA OfferThrowsFollows ==
  ASSUME TypeOK, FollowsInv, NEW n \in SwitchPorts, SwitchPorts = {n},
         NEW c \in Clients, NEW s \in SessionIds, NEW media \in SUBSET Mids,
         NEW ice \in IceKinds, OnClientOfferThrows(c, s, media, ice), Unspoilt'
  PROVE  FollowsInv'
<1> DEFINE new == newSendStreams(sess[s], conn[c].pid, media)
           W   == SendCmds(s, conn[c].pid, new)
<1>1. CASE Terminate({})
  BY <1>1, TerminateSilent
<1>2. CASE (new # {} => Connected # {}) /\ Terminate(W)
  <2>1. Writable(n, W)
    BY <1>2, SendWritten
  <2> HIDE DEF W, new
  <2>2. QED
    BY <1>2, <2>1, TerminateFollows
<1>3. QED
  BY <1>1, <1>2 DEF OnClientOfferThrows

\* The commands of a handler that adds receive streams: the answer lists only
\* what the initiator sends, and the agent was told of that.
LEMMA RecvWritten ==
  ASSUME TypeOK, FollowsInv, NEW n \in SwitchPorts, NEW s \in SessionIds,
         NEW p \in PId, NEW media, NEW ice,
         ~addAnswerRefused(sess[s], p), ~addAnswerBadStream(sess[s], p, media, ice),
         newReceiveStreams(sess[s], p, media) # {} => Connected # {}
  PROVE  LET i   == participantInState(sess[s], "gotOffer")
             new == newReceiveStreams(sess[s], p, media)
         IN Writable(n, RecvCmds(s, p, i, new))
<1> DEFINE i   == participantInState(sess[s], "gotOffer")
           new == newReceiveStreams(sess[s], p, media)
<1>1. hasParticipantInState(sess[s], "gotOffer") /\ media \subseteq sess[s].out[i]
  BY DEF addAnswerRefused, addAnswerBadStream
<1>2. i \in sess[s].ids /\ sess[s].ids \subseteq PId /\ sess[s].out \in [PId -> SUBSET Mids]
  BY <1>1, InitiatorIsParticipant DEF TypeOK, SessionType
<1>3. new \subseteq sess[s].out[i] /\ new \in SUBSET Mids
  BY <1>1, <1>2 DEF newReceiveStreams
<1> HIDE DEF i, new
<1>5. \A m \in new : [op |-> "send", sid |-> s, pid |-> i, mid |-> m] \in cmds[n]
  BY <1>2, <1>3 DEF FollowsInv, Told
<1>6. \A k \in RecvCmds(s, p, i, new) : SendOf(k) \in cmds[n]
  BY <1>5 DEF RecvCmds, SendOf
<1>7. RecvCmds(s, p, i, new) # {} => new # {}
  BY DEF RecvCmds
<1>8. QED
  BY <1>6, <1>7 DEF i, new, Writable

\* _onClientAnswer: the agent is told of every stream that is new.
LEMMA AnswerFollows ==
  ASSUME TypeOK, FollowsInv, NEW n \in SwitchPorts, SwitchPorts = {n},
         NEW c \in Clients, NEW s \in SessionIds, NEW ice \in IceKinds,
         OnClientAnswer(c, s, ice), Unspoilt'
  PROVE  FollowsInv'
<1> DEFINE p     == conn[c].pid
           media == todo[c].media
           i     == participantInState(sess[s], "gotOffer")
           new   == newReceiveStreams(sess[s], p, media)
           W     == RecvCmds(s, p, i, new)
<1>1. sess[s] \in SessionType /\ p \in PId /\ p \in sess[s].ids
  BY FromParticipantType DEF OnClientAnswer
<1>2. /\ Command(W) /\ (new # {} => Connected # {}) /\ UNCHANGED switchVars
      /\ ~addAnswerRefused(sess[s], p) /\ ~addAnswerBadStream(sess[s], p, media, ice)
  BY DEF OnClientAnswer
<1>3. Writable(n, W)
  BY <1>1, <1>2, RecvWritten
<1>4. i \in PId /\ sess'[s].in = [sess[s].in EXCEPT ![p][i] = @ \cup media]
  BY AnswerIn
<1>5. sess'[s].out = sess[s].out /\ \A t \in SessionIds \ {s} : sess'[t] = sess[t]
  BY AnswerSignal
<1>6. sess'[s].ids = sess[s].ids
  BY AnswerMembers
<1>7. Told(n, s)
  BY DEF FollowsInv
<1>8. ASSUME NEW r \in sess[s].ids, NEW q \in PId, NEW m \in sess'[s].in[r][q],
             cmds'[n] = cmds[n] \cup W
      PROVE  [op |-> "recv", sid |-> s, pid |-> r, from |-> q, mid |-> m] \in cmds'[n]
  <2>1. sess[s].in \in [PId -> [PId -> SUBSET Mids]] /\ r \in PId
    BY <1>1 DEF SessionType
  <2>2. CASE m \in sess[s].in[r][q]
    BY <1>7, <1>8, <2>2 DEF Told
  <2>3. CASE m \notin sess[s].in[r][q]
    <3> HIDE DEF W, new, i, p, media
    <3>1. r = p /\ q = i /\ m \in media
      BY <1>1, <1>4, <1>8, <2>1, <2>3
    <3>2. m \in new
      BY <2>3, <3>1 DEF new, newReceiveStreams, i
    <3>3. QED
      BY <1>8, <3>1, <3>2 DEF W, RecvCmds
  <2>4. QED
    BY <2>2, <2>3
<1> HIDE DEF W, new, i, p, media
<1>9. cmds'[n] = cmds[n] \cup W => Told(n, s)'
  BY <1>5, <1>6, <1>7, <1>8 DEF Told
<1>10. QED
  BY <1>1, <1>2, <1>3, <1>5, <1>9, OneNewStream

\* _onClientAnswer throws: it has written at most the new receive stream.
LEMMA AnswerThrowsFollows ==
  ASSUME TypeOK, FollowsInv, NEW n \in SwitchPorts, SwitchPorts = {n},
         NEW c \in Clients, NEW s \in SessionIds, NEW ice \in IceKinds,
         OnClientAnswerThrows(c, s, ice), Unspoilt'
  PROVE  FollowsInv'
<1> DEFINE p     == conn[c].pid
           media == todo[c].media
           i     == participantInState(sess[s], "gotOffer")
           new   == newReceiveStreams(sess[s], p, media)
           W     == RecvCmds(s, p, i, new)
<1>1. p \in PId
  BY FromParticipantType DEF OnClientAnswerThrows
<1>2. CASE Terminate({})
  BY <1>2, TerminateSilent
<1>3. CASE /\ ~addAnswerRefused(sess[s], p) /\ ~addAnswerBadStream(sess[s], p, media, ice)
           /\ new # {} => Connected # {}
           /\ Terminate(W)
  <2>1. Writable(n, W)
    BY <1>1, <1>3, RecvWritten
  <2> HIDE DEF W, new, i, p, media
  <2>2. QED
    BY <1>3, <2>1, TerminateFollows
<1>4. QED
  BY <1>2, <1>3 DEF OnClientAnswerThrows

\* A switch connects: nobody is in a session yet, and its agent knows nothing.
LEMMA SwitchOpenFollows ==
  ASSUME TypeOK, FollowsInv, NEW n \in SwitchPorts, SwitchPorts = {n}, OnSwitchOpen(n), Unspoilt'
  PROVE  FollowsInv'
<1>1. swSock[n] = "down" /\ sw[n] = "none" /\ ~swErr /\ n \notin swOld
  BY DEF FollowsInv, OnSwitchOpen
<1>2. /\ sw'[n] = "open" /\ swSock'[n] = "up" /\ ~swErr' /\ cmds'[n] = {}
      /\ n \notin swOld' /\ n \notin spoilt'
      /\ UNCHANGED sess
  BY <1>1 DEF OnSwitchOpen, TypeOK
<1>3. \A s \in SessionIds : sess'[s].ids = {}
  BY <1>1, <1>2 DEF FollowsInv
<1>4. \A s \in SessionIds : Told(n, s)'
  BY <1>3 DEF Told
<1>5. SendsKnown(n)'
  BY <1>2 DEF SendsKnown
<1>6. QED
  BY <1>2, <1>3, <1>4, <1>5 DEF FollowsInv

\* The switch registers.
LEMMA NewSwitchFollows ==
  ASSUME TypeOK, FollowsInv, NEW n \in SwitchPorts, SwitchPorts = {n}, OnNewSwitch(n), Unspoilt'
  PROVE  FollowsInv'
<1>1. swSock[n] = "up" /\ sw[n] = "open" /\ ~swErr /\ n \notin swOld /\ n \notin spoilt
  BY DEF FollowsInv, OnNewSwitch
<1>2. StartWrite(n, FALSE) /\ UNCHANGED swErr
  BY <1>1 DEF OnNewSwitch, Live
<1>6. UNCHANGED spoilt
  BY <1>2, StartedAlone
<1>7. /\ sw'[n] = "registered" /\ swSock'[n] = "up" /\ ~swErr' /\ n \notin swOld' /\ n \notin spoilt'
      /\ UNCHANGED <<sess, cmds>>
  BY <1>1, <1>2, <1>6 DEF OnNewSwitch, TypeOK
<1>3. \A s \in SessionIds : Told(n, s)'
  BY <1>7 DEF FollowsInv, Told
<1>4. SendsKnown(n)'
  BY <1>7 DEF FollowsInv, SendsKnown
<1>5. QED
  BY <1>7, <1>3, <1>4 DEF FollowsInv

\* Every step keeps the invariant.
LEMMA NextFollows ==
  ASSUME SteadySwitch, TypeOK, SessionsInv, FollowsInv, [Next]_vars, Unspoilt'
  PROVE  FollowsInv'
<1>1. PICK n \in SwitchPorts : SwitchPorts = {n} /\ n \notin MayVanish
  BY DEF SteadySwitch
<1>2. ASSUME Terminate({}) PROVE FollowsInv'
  BY <1>1, <1>2, TerminateSilent
<1>3. ASSUME UNCHANGED <<sess, switchVars, spoilt, swErr, cmds>> PROVE FollowsInv'
  BY <1>3, NoNewStream
<1>4. ASSUME NEW c \in Clients, ClientStep(c) PROVE FollowsInv'
  <2>1. CASE OnClientOpen(c) \/ ClientVanishes(c)
    BY <1>3, <2>1 DEF OnClientOpen, ClientVanishes, writeVars
  <2>2. CASE OnClientClose(c)
    <3>1. \A s \in SessionIds :
             /\ sess'[s].ids \subseteq sess[s].ids
             /\ \A q \in sess'[s].ids : /\ sess'[s].out[q] = sess[s].out[q]
                                        /\ sess'[s].in[q] = sess[s].in[q]
      BY <2>2, CloseSignal
    <3>2. UNCHANGED <<switchVars, spoilt, swErr, cmds>>
      BY <2>2 DEF OnClientClose, writeVars
    <3>3. QED
      BY <3>1, <3>2, NoNewStream
  <2>3. CASE OnClientReadError(c)
    BY <1>2, <2>3 DEF OnClientReadError
  <2>4. ASSUME NEW s \in SessionIds, OnNewParticipant(c, s) \/ OnNewParticipantThrows(c, s)
        PROVE  FollowsInv'
    BY <1>1, <2>4, JoinFollows, JoinThrowsFollows
  <2>5. ASSUME NEW s \in SessionIds, NEW ice \in IceKinds, NEW media \in SUBSET Mids,
               OnClientOffer(c, s, media, ice) \/ OnClientOfferThrows(c, s, media, ice)
        PROVE  FollowsInv'
    BY <1>1, <2>5, OfferFollows, OfferThrowsFollows
  <2>6. ASSUME NEW s \in SessionIds, NEW ice \in IceKinds,
               OnClientAnswer(c, s, ice) \/ OnClientAnswerThrows(c, s, ice)
        PROVE  FollowsInv'
    BY <1>1, <2>6, AnswerFollows, AnswerThrowsFollows
  <2>7. QED
    BY <1>4, <2>1, <2>2, <2>3, <2>4, <2>5, <2>6 DEF ClientStep
<1>5. ASSUME NEW m \in SwitchPorts, SwitchStep(m) PROVE FollowsInv'
  <2>1. m = n /\ swSock[n] # "broken" /\ n \notin spoilt
    BY <1>1 DEF FollowsInv
  <2>2. ~SwitchVanishes(n) /\ ~OnSwitchClose(n)
    BY <1>1, <2>1 DEF SwitchVanishes, OnSwitchClose
  <2>3. CASE OnSwitchOpen(n)
    BY <1>1, <2>3, SwitchOpenFollows
  <2>4. CASE OnNewSwitch(n)
    BY <1>1, <2>4, NewSwitchFollows
  <2>5. CASE OnSwitchCloseThrows(n) \/ OnSwitchReadError(n)
    BY <1>2, <2>5 DEF OnSwitchCloseThrows, OnSwitchReadError
  <2>6. CASE OnSwitchWritten(n)
    BY <1>3, <2>6 DEF OnSwitchWritten
  <2>7. QED
    BY <1>5, <2>1, <2>2, <2>3, <2>4, <2>5, <2>6 DEF SwitchStep
<1>6. CASE OnSwitchWriteError
  BY <1>2, <1>6 DEF OnSwitchWriteError
<1>7. CASE UNCHANGED vars
  BY <1>3, <1>7 DEF vars, writeVars
<1>8. QED
  BY <1>4, <1>5, <1>6, <1>7 DEF Next

\* With one switch that stays, the invariant holds until something is spoilt.
LEMMA FollowsInvariant == Spec => [](SteadySwitch /\ Unspoilt => FollowsInv)
<1>1. Init => FollowsInv
  BY DEF Init, FollowsInv, Told, SendsKnown, NewSession
<1>2. /\ SteadySwitch /\ TypeOK /\ SessionsInv /\ (SteadySwitch /\ Unspoilt => FollowsInv)
      /\ [Next]_vars /\ Unspoilt'
      => FollowsInv'
  BY NextFollows, NextUnspoilt
<1>3. SteadySwitch <=> SteadySwitch'
  BY DEF SteadySwitch
<1>4. QED
  BY <1>1, <1>2, <1>3, TypeCorrect, SessionsInvariant, PTL DEF Spec

\* The switch was told of every send and receive stream the sessions believe to
\* be forwarded, however clients join, leave and vanish and however many tracks
\* each has: if the one switch keeps its connection, and until a command is started
\* while another write is under way, which WebSocketSession::write does not survive.
THEOREM SwitchFollowsSessionAlways == Spec => [](SteadySwitch => SwitchFollowsSession)
<1>1. TypeOK /\ (SteadySwitch /\ Unspoilt => FollowsInv) /\ SteadySwitch => SwitchFollowsSession
  <2> SUFFICES ASSUME TypeOK, SteadySwitch /\ Unspoilt => FollowsInv, SteadySwitch,
                      Connected # {}, behind[Switch0] = 0, NEW s \in SessionIds
               PROVE  SwitchHasSession(s)
    BY DEF SwitchFollowsSession
  <2>1. PICK n \in SwitchPorts : SwitchPorts = {n}
    BY DEF SteadySwitch
  <2>2. Switch0 = n
    BY <2>1, OnlySwitch
  <2>3. Told(n, s)
    BY <2>1, <2>2 DEF Unspoilt, FollowsInv
  <2> HIDE DEF Switch0
  <2>4. QED
    BY <2>2, <2>3 DEF SwitchHasSession, Told, SendCmds, RecvCmds
<1>2. QED
  BY <1>1, FollowsInvariant, TypeCorrect, PTL

\* Under the same conditions the agent knows the send stream of every receive
\* stream it is told of: _onAddStream never ignores one.
THEOREM SendStreamKnownFirstAlways == Spec => [](SteadySwitch => SendStreamKnownFirst)
<1>1. (SteadySwitch /\ Unspoilt => FollowsInv) /\ SteadySwitch => SendStreamKnownFirst
  <2> SUFFICES ASSUME SteadySwitch /\ Unspoilt => FollowsInv, SteadySwitch,
                      NEW n \in SwitchPorts, behind[n] = 0
               PROVE  SendsKnown(n)
    BY DEF SendsKnown, SendOf, SendStreamKnownFirst
  <2>1. Unspoilt
    BY DEF SteadySwitch, Unspoilt
  <2>2. QED
    BY <2>1 DEF FollowsInv
<1>2. QED
  BY <1>1, FollowsInvariant, PTL

=============================================================================
