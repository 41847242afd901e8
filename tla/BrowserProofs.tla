---------------------------- MODULE BrowserProofs ----------------------------
(***************************************************************************)
(* Theorems about BrowserClient: for any buttons, any number of clicks and *)
(* of offers of the controller, there is at most one offer under way and   *)
(* no offer of the controller is answered twice.                           *)
(***************************************************************************)
EXTENDS BrowserClient, SequenceTheorems, TLAPS

-----------------------------------------------------------------------------
(* Connections of type "recv" *)

\* Calls are to be made on a connection, or candidates to be gathered for an
\* answer that is ready.
Busy(c) == c.ops # <<>> \/ (c.answered /\ ~c.gathered)

\* The calls for an offer of the controller are made one after the other; when the
\* next offer comes the candidates of the connection have been gathered.
InTurn(c) ==
    \/ c.ops = <<>> /\ c.sig = "stable"
    \/ c.ops = <<"setRemote">> /\ c.sig = "stable" /\ (c.answered => c.gathered)
    \/ c.ops \in {<<"createAnswer">>, <<"setLocal">>}
         /\ c.sig = "have-remote-offer" /\ (c.answered => c.gathered)

\* The inductive invariant behind OneAnswerPerOffer: while the browser is connected,
\* an offer that is not answered keeps one connection busy, and nothing else does.
AnswerInv ==
    /\ answers \in [received : Nat, sent : Nat]
    /\ answers.sent <= answers.received
    /\ ws # "closed" =>
          /\ \A p \in DOMAIN recv : InTurn(recv[p])
          /\ \A p, q \in DOMAIN recv : Busy(recv[p]) /\ Busy(recv[q]) => p = q
          /\ answers.sent = answers.received => \A p \in DOMAIN recv : ~Busy(recv[p])

-----------------------------------------------------------------------------
(* The connection of type "send" *)

\* The calls in the chain that will send an offer or set its answer.
Marks(ops) == {i \in 1..Len(ops) : ops[i].op \in {"limit", "setRemote"}}

\* The inductive invariant behind OneOfferAtATime: a local offer that is set while
\* there is none is gathered for, or about to be sent, or sent, or about to be
\* answered, and only one of these; the next one waits for the answer.
OfferInv ==
    /\ Len(offers) <= 1
    /\ ws # "closed" =>
          /\ \A i, j \in Marks(send.ops) : i = j
          /\ Marks(send.ops) # {} => /\ send.sig = "have-local-offer" /\ send.gathered
                                     /\ offers = <<>>
          /\ offers # <<>> => send.sig = "have-local-offer" /\ send.gathered
          /\ send.sig # "have-local-offer" => send.local = {} \/ send.gathered

\* No more requests for media are under way than there were clicks.
ClicksInv == \A k \in Kinds : media[k] <= clicks

(* OneAnswerPerOffer *)

\* Sequences of one element.
LEMMA Singletons == \A x : Tail(<<x>>) = <<>> /\ Append(<<>>, x) = <<x>> /\ Len(<<x>>) = 1
OBVIOUS

\* A change of a receive connection that sends no answer and does not end what is
\* to be done, and one that ends it.
LEMMA RecvChange ==
    ASSUME AnswerInv, ws # "closed", NEW p \in DOMAIN recv, NEW c,
           SetRecv(p, c), Busy(recv[p]), InTurn(c),
           \/ UNCHANGED answers
           \/ ~Busy(c) /\ answers' = [answers EXCEPT !.sent = @ + 1],
           ws' = ws
    PROVE  AnswerInv'
<1>1. DOMAIN recv' = DOMAIN recv
  BY DEF SetRecv
<1>2. \A q \in DOMAIN recv : recv'[q] = IF q = p THEN c ELSE recv[q]
  BY DEF SetRecv
<1>3. answers.sent < answers.received
  BY DEF AnswerInv
<1>4. /\ answers' \in [received : Nat, sent : Nat]
      /\ answers'.sent <= answers'.received
  BY <1>3 DEF AnswerInv
<1>5. \A q \in DOMAIN recv : q # p => ~Busy(recv[q])
  BY DEF AnswerInv
<1>6. \A q \in DOMAIN recv' : InTurn(recv'[q])
  BY <1>1, <1>2 DEF AnswerInv
<1>7. \A q \in DOMAIN recv' : Busy(recv'[q]) => q = p
  BY <1>1, <1>2, <1>5
<1>8. answers'.sent = answers'.received => \A q \in DOMAIN recv' : ~Busy(recv'[q])
  BY <1>1, <1>2, <1>3, <1>5 DEF AnswerInv
<1> QED BY <1>4, <1>6, <1>7, <1>8 DEF AnswerInv, Busy, InTurn

\* What an event of a receive connection does to the answers.
LEMMA RecvEvent ==
    ASSUME AnswerInv, ws # "closed", NEW p \in DOMAIN recv, NEW c,
           OnRecvStateChange(p, c), Busy(recv[p]), InTurn(c),
           answerAvailableForSignaling(c) => ~Busy(c), ws' = ws
    PROVE  AnswerInv'
<1>1. SetRecv(p, c)
  BY DEF OnRecvStateChange
<1>2. CASE answerAvailableForSignaling(c) /\ ws = "established"
  BY <1>1, <1>2, RecvChange DEF OnRecvStateChange, sendAnswer
<1>3. CASE ~(answerAvailableForSignaling(c) /\ ws = "established")
  <2>1. UNCHANGED answers
    BY <1>3 DEF OnRecvStateChange, sendAnswer
  <2> QED BY <1>1, <2>1, RecvChange
<1> QED BY <1>2, <1>3

\* When the connection to the controller is gone no answer is sent.
LEMMA ClosedAnswers ==
    ASSUME AnswerInv, ws' = "closed", UNCHANGED answers
    PROVE  AnswerInv'
BY DEF AnswerInv

\* The calls of a receive connection.
LEMMA RunRecvOpAnswers ==
    ASSUME TypeOK, AnswerInv, NEW p \in DOMAIN recv, RunRecvOp(p)
    PROVE  AnswerInv'
<1> DEFINE o == Head(recv[p].ops)
           c == [recv[p] EXCEPT !.ops = Tail(@)]
<1>1. ws' = ws
  BY DEF RunRecvOp
<1>2. CASE ws = "closed"
  <2>1. UNCHANGED answers
    BY <1>2 DEF RunRecvOp, OnRecvStateChange, sendAnswer
  <2> QED BY <1>1, <1>2, <2>1, ClosedAnswers
<1>3. CASE ws # "closed"
  <2>1. recv[p].ops # <<>>
    BY DEF RunRecvOp
  <2>2. Busy(recv[p])
    BY <2>1 DEF Busy
  <2>3. InTurn(recv[p])
    BY <1>3 DEF AnswerInv
  <2>0. recv[p] \in RecvConnection
    BY DEF TypeOK
  <2>a. Tail(recv[p].ops) = <<>> /\ recv[p].sig # "closed"
    BY <2>1, <2>3, Singletons DEF InTurn
  <2>4. /\ c.sig # "closed" /\ c.sig = recv[p].sig /\ c.ops = <<>>
        /\ c.answered = recv[p].answered /\ c.gathered = recv[p].gathered
    BY <2>0, <2>a DEF RecvConnection
  <2>b. c \in RecvConnection
    <3>1. Tail(recv[p].ops) \in Seq({"setRemote", "createAnswer", "setLocal"})
      BY <2>a, EmptySeq
    <3> QED BY <2>0, <3>1 DEF RecvConnection
  <2>5. \/ /\ o = "setRemote"
           /\ OnRecvStateChange(p, [c EXCEPT !.sig = "have-remote-offer",
                                             !.ops = Append(@, "createAnswer")])
        \/ /\ o = "createAnswer"
           /\ SetRecv(p, [c EXCEPT !.ops = Append(@, "setLocal")]) /\ UNCHANGED answers
        \/ /\ o = "setLocal"
           /\ OnRecvStateChange(p, [c EXCEPT !.sig = "stable", !.answered = TRUE])
    BY <2>4 DEF RunRecvOp
  <2>6. CASE o = "setRemote"
    <3> DEFINE d == [c EXCEPT !.sig = "have-remote-offer", !.ops = Append(@, "createAnswer")]
    <3>1. d.ops = <<"createAnswer">> /\ d.sig = "have-remote-offer"
            /\ d.answered = recv[p].answered /\ d.gathered = recv[p].gathered
      <4> HIDE DEF c
      <4> QED BY <2>b, <2>4, Singletons DEF RecvConnection
    <3>2. recv[p].answered => recv[p].gathered
      BY <2>1, <2>3, <2>6 DEF InTurn
    <3>3. OnRecvStateChange(p, d)
      BY <2>5, <2>6
    <3> HIDE DEF d
    <3>4. InTurn(d) /\ ~answerAvailableForSignaling(d)
      BY <3>1, <3>2 DEF InTurn, answerAvailableForSignaling
    <3> QED BY <1>1, <1>3, <2>2, <3>3, <3>4, RecvEvent
  <2>7. CASE o = "createAnswer"
    <3> DEFINE d == [c EXCEPT !.ops = Append(@, "setLocal")]
    <3>1. d.ops = <<"setLocal">> /\ d.sig = recv[p].sig
            /\ d.answered = recv[p].answered /\ d.gathered = recv[p].gathered
      <4> HIDE DEF c
      <4> QED BY <2>b, <2>4, Singletons DEF RecvConnection
    <3>2. /\ recv[p].answered => recv[p].gathered
          /\ recv[p].sig = "have-remote-offer"
      BY <2>1, <2>3, <2>7 DEF InTurn
    <3>3. SetRecv(p, d) /\ UNCHANGED answers
      BY <2>5, <2>7
    <3> HIDE DEF d
    <3>4. InTurn(d)
      BY <3>1, <3>2 DEF InTurn
    <3> QED BY <1>1, <1>3, <2>2, <3>3, <3>4, RecvChange
  <2>8. CASE o = "setLocal"
    <3> DEFINE d == [c EXCEPT !.sig = "stable", !.answered = TRUE]
    <3>1. d.ops = <<>> /\ d.sig = "stable" /\ d.gathered = recv[p].gathered
      <4> HIDE DEF c
      <4> QED BY <2>b, <2>4, Singletons DEF RecvConnection
    <3>2. OnRecvStateChange(p, d)
      BY <2>5, <2>8
    <3> HIDE DEF d
    <3>3. InTurn(d) /\ (answerAvailableForSignaling(d) => ~Busy(d))
      BY <3>1 DEF InTurn, answerAvailableForSignaling, Busy
    <3> QED BY <1>1, <1>3, <2>2, <3>2, <3>3, RecvEvent
  <2> QED BY <2>5, <2>6, <2>7, <2>8
<1> QED BY <1>2, <1>3

\* The end of gathering on a receive connection.
LEMMA OnRecvGatheredAnswers ==
    ASSUME TypeOK, AnswerInv, NEW p \in DOMAIN recv, OnRecvGathered(p)
    PROVE  AnswerInv'
<1> DEFINE d == [recv[p] EXCEPT !.gathered = TRUE]
<1>1. ws' = ws /\ OnRecvStateChange(p, d) /\ recv[p].answered /\ ~recv[p].gathered
  BY DEF OnRecvGathered
<1>2. CASE ws = "closed"
  <2>1. UNCHANGED answers
    BY <1>1, <1>2 DEF OnRecvStateChange, sendAnswer
  <2> QED BY <1>1, <1>2, <2>1, ClosedAnswers
<1>3. CASE ws # "closed"
  <2>1. Busy(recv[p])
    BY <1>1 DEF Busy
  <2>2. InTurn(recv[p])
    BY <1>3 DEF AnswerInv
  <2>3. recv[p].ops = <<>> /\ recv[p].sig = "stable"
    BY <1>1, <2>2 DEF InTurn
  <2>4. d.ops = recv[p].ops /\ d.sig = recv[p].sig
    BY <2>3
  <2>5. d.answered = recv[p].answered
    OBVIOUS
  <2>6. InTurn(d) /\ (d.gathered => ~Busy(d))
    <3> HIDE DEF d
    <3> QED BY <2>3, <2>4 DEF InTurn, Busy
  <2>7. answerAvailableForSignaling(d) => ~Busy(d)
    <3> HIDE DEF d
    <3> QED BY <2>6 DEF answerAvailableForSignaling
  <2> HIDE DEF d
  <2> QED BY <1>1, <1>3, <2>1, <2>6, <2>7, RecvEvent
<1> QED BY <1>2, <1>3

\* An offer of the controller: it comes only when the one before is answered, so
\* nothing else is under way.
LEMMA OnRemoteOfferAnswers ==
    ASSUME TypeOK, AnswerInv, NEW p \in Senders, OnRemoteOffer(p)
    PROVE  AnswerInv'
<1> DEFINE c == IF p \in DOMAIN recv THEN recv[p] ELSE NewRecv
           d == [c EXCEPT !.ops = Append(@, "setRemote")]
<1>1. /\ ws = "established" /\ ws' = ws /\ SetRecv(p, d)
      /\ answers' = [answers EXCEPT !.received = @ + 1]
      /\ answers.sent >= answers.received
  BY DEF OnRemoteOffer
<1>2. answers.sent = answers.received /\ \A q \in DOMAIN recv : ~Busy(recv[q])
  BY <1>1 DEF AnswerInv
<1>3. /\ answers' \in [received : Nat, sent : Nat]
      /\ answers'.sent < answers'.received
  BY <1>1, <1>2 DEF AnswerInv
<1>4. c.ops = <<>> /\ c.sig = "stable" /\ (c.answered => c.gathered)
  <2>1. CASE p \in DOMAIN recv
    <3>1. ~Busy(recv[p]) /\ InTurn(recv[p])
      BY <1>1, <1>2, <2>1 DEF AnswerInv
    <3> QED BY <2>1, <3>1 DEF Busy, InTurn
  <2>2. CASE p \notin DOMAIN recv
    BY <2>2 DEF NewRecv
  <2> QED BY <2>1, <2>2
<1>5. d.ops = <<"setRemote">> /\ d.sig = "stable" /\ (d.answered => d.gathered)
  <2>1. c \in RecvConnection
    BY DEF TypeOK, NewRecv, RecvConnection
  <2> HIDE DEF c
  <2> QED BY <1>4, <2>1 DEF RecvConnection
<1> HIDE DEF d, c
<1>6. InTurn(d)
  BY <1>5 DEF InTurn
<1>7. /\ DOMAIN recv' = DOMAIN recv \cup {p}
      /\ \A q \in DOMAIN recv' : recv'[q] = IF q = p THEN d ELSE recv[q]
  BY <1>1 DEF SetRecv
<1>8. \A q \in DOMAIN recv' : InTurn(recv'[q]) /\ (Busy(recv'[q]) => q = p)
  BY <1>1, <1>2, <1>6, <1>7 DEF AnswerInv
<1> QED BY <1>3, <1>8 DEF AnswerInv, Busy, InTurn

-----------------------------------------------------------------------------
(* OneOfferAtATime *)

\* The calls of the send connection.
Ops == [op : {"createOffer", "setLocal", "limit", "setRemote"}, media : SUBSET Kinds]

\* Calls that are added to a chain at its end, or taken off at its head.
LEMMA MarksLater ==
    ASSUME NEW ops \in Seq(Ops), NEW o \in Ops
    PROVE  Marks(Append(ops, o)) = IF o.op \in {"limit", "setRemote"}
                                   THEN Marks(ops) \cup {Len(ops) + 1} ELSE Marks(ops)
BY AppendProperties, LenProperties DEF Marks

\* The marks of the rest of a chain are those of the chain, one place nearer.
LEMMA MarksTail ==
    ASSUME NEW ops \in Seq(Ops), ops # <<>>
    PROVE  Marks(Tail(ops)) = {i \in 1..Len(ops) - 1 : i + 1 \in Marks(ops)}
BY HeadTailProperties, LenProperties DEF Marks

\* The call at the head of a chain is marked if its place is.
LEMMA MarksHead ==
    ASSUME NEW ops \in Seq(Ops), ops # <<>>
    PROVE  Head(ops).op \in {"limit", "setRemote"} <=> 1 \in Marks(ops)
BY LenProperties, EmptySeq DEF Marks

\* What OfferInv says of the chain, the connection and the offers while the browser
\* is connected.
OneOffer(c, os) ==
    /\ Len(os) <= 1
    /\ \A i, j \in Marks(c.ops) : i = j
    /\ Marks(c.ops) # {} => c.sig = "have-local-offer" /\ c.gathered /\ os = <<>>
    /\ os # <<>> => c.sig = "have-local-offer" /\ c.gathered
    /\ c.sig # "have-local-offer" => c.local = {} \/ c.gathered

\* Nothing is to be sent or answered.
Quiet(c, os) == Marks(c.ops) = {} /\ os = <<>>

\* OfferInv in terms of OneOffer, in the state before a step and after it.
LEMMA OneOfferInv ==
    /\ OfferInv <=> Len(offers) <= 1 /\ (ws # "closed" => OneOffer(send, offers))
    /\ OfferInv' <=> Len(offers') <= 1 /\ (ws' # "closed" => OneOffer(send', offers'))
BY DEF OfferInv, OneOffer

\* A call added to the chain.
LEMMA LaterType ==
    ASSUME NEW c \in SendConnection, NEW o \in {"createOffer", "setLocal", "limit", "setRemote"},
           NEW m \in SUBSET Kinds
    PROVE  Later(c, o, m) \in SendConnection
<1>1. Op(o, m) \in Ops
  BY DEF Op, Ops
<1>2. c.ops \in Seq(Ops)
  BY DEF SendConnection, Ops
<1>3. Append(c.ops, Op(o, m)) \in Seq(Ops)
  BY <1>1, <1>2, AppendProperties
<1> QED BY <1>3 DEF Later, SendConnection, Ops

\* Adding a call that neither sends nor answers.
LEMMA LaterOneOffer ==
    ASSUME NEW c \in SendConnection, NEW os, OneOffer(c, os),
           NEW o \in {"createOffer", "setLocal"}, NEW m \in SUBSET Kinds
    PROVE  Later(c, o, m) \in SendConnection /\ OneOffer(Later(c, o, m), os)
<1> DEFINE d == Later(c, o, m)
<1>1. Op(o, m) \in Ops /\ Op(o, m).op = o
  BY DEF Op, Ops
<1>2. c.ops \in Seq(Ops)
  BY DEF SendConnection, Ops
<1>3. Append(c.ops, Op(o, m)) \in Seq(Ops)
  BY <1>1, <1>2, AppendProperties
<1>4. d \in SendConnection /\ d.ops = Append(c.ops, Op(o, m))
        /\ d.sig = c.sig /\ d.gathered = c.gathered /\ d.local = c.local
  BY <1>3 DEF Later, SendConnection, Ops
<1>5. Marks(d.ops) = Marks(c.ops)
  BY <1>1, <1>2, <1>4, MarksLater
<1>6. OneOffer(d, os)
  <2> HIDE DEF d
  <2> QED BY <1>4, <1>5 DEF OneOffer
<1> QED BY <1>4, <1>6

\* An event on a connection for which nothing is to be sent or answered.
LEMMA EventOneOffer ==
    ASSUME NEW c \in SendConnection, c.sig # "closed", ws # "closed", OnStateChange(c),
           Quiet(c, offers), c.sig # "have-local-offer" => c.local = {} \/ c.gathered
    PROVE  send' \in SendConnection /\ OneOffer(send', offers')
<1>1. CASE offerAvailableForSignaling(c) /\ limitip
  <2>1. send' = Later(c, "limit", c.local) /\ offers' = offers
    BY <1>1 DEF OnStateChange
  <2>2. Op("limit", c.local) \in Ops /\ Op("limit", c.local).op = "limit"
    BY DEF Op, Ops, SendConnection
  <2>3. c.ops \in Seq(Ops)
    BY DEF SendConnection, Ops
  <2>4. Append(c.ops, Op("limit", c.local)) \in Seq(Ops)
    BY <2>2, <2>3, AppendProperties
  <2>5. send' \in SendConnection /\ send'.ops = Append(c.ops, Op("limit", c.local))
          /\ send'.sig = c.sig /\ send'.gathered = c.gathered
    BY <2>1, <2>4 DEF Later, SendConnection, Ops
  <2>6. Marks(send'.ops) = {Len(c.ops) + 1}
    BY <2>2, <2>3, <2>5, MarksLater DEF Quiet
  <2>7. Len(offers') <= 1 /\ offers' = <<>>
    BY <2>1, EmptySeq DEF Quiet
  <2> QED BY <1>1, <2>5, <2>6, <2>7 DEF OneOffer, offerAvailableForSignaling
<1>2. CASE offerAvailableForSignaling(c) /\ ~limitip
  <2>1. send' = c /\ (offers' = offers \/ offers' = Append(offers, c.local))
    BY <1>2 DEF OnStateChange, sendOffer
  <2>2. Len(offers') <= 1
    <3>1. Len(<<>>) = 0 /\ Len(Append(<<>>, c.local)) = 1
      BY EmptySeq, Singletons
    <3>2. offers = <<>>
      BY DEF Quiet
    <3>3. offers' = <<>> \/ offers' = Append(<<>>, c.local)
      BY <2>1, <3>2
    <3>4. Len(offers') = 0 \/ Len(offers') = 1
      BY <3>1, <3>3, Zenon
    <3>5. \A n : n = 0 \/ n = 1 => n <= 1
      OBVIOUS
    <3> QED BY <3>4, <3>5, Zenon
  <2> QED BY <1>2, <2>1, <2>2 DEF OneOffer, Quiet, offerAvailableForSignaling
<1>3. CASE ~offerAvailableForSignaling(c)
  <2>1. send' = c /\ offers' = offers
    BY <1>3 DEF OnStateChange
  <2> QED BY <2>1 DEF OneOffer, Quiet
<1> QED BY <1>1, <1>2, <1>3

\* The calls of the send connection.  Setting a local offer is an event only when
\* there is none, and then nothing is to be sent; the call that sends or answers is
\* the only one of its kind, and nothing is left when it is through.
LEMMA RunSendOpOffers ==
    ASSUME TypeOK, OfferInv, RunSendOp
    PROVE  send' \in SendConnection /\ OfferInv'
<1> DEFINE c == [send EXCEPT !.ops = Tail(@)]
           o == Head(send.ops)
<1>1. /\ ws' = ws /\ send \in SendConnection /\ send.ops # <<>> /\ send.ops \in Seq(Ops)
      /\ offers \in Seq(SUBSET Kinds)
  BY DEF RunSendOp, TypeOK, SendConnection, Ops
<1>2. Tail(send.ops) \in Seq(Ops) /\ o \in Ops
  BY <1>1, HeadTailProperties
<1>3. /\ c \in SendConnection /\ c.ops = Tail(send.ops)
      /\ c.sig = send.sig /\ c.gathered = send.gathered /\ c.local = send.local
      /\ c.added = send.added /\ c.agreed = send.agreed
  BY <1>1, <1>2 DEF SendConnection, Ops
<1>4. /\ \A i \in Marks(c.ops) : i \in Nat /\ i > 0 /\ i + 1 \in Marks(send.ops)
      /\ o.op \in {"limit", "setRemote"} <=> 1 \in Marks(send.ops)
  <2>1. Marks(c.ops) = {i \in 1..Len(send.ops) - 1 : i + 1 \in Marks(send.ops)}
    BY <1>1, <1>3, MarksTail
  <2>2. Len(send.ops) \in Nat
    BY <1>1, LenProperties
  <2> QED BY <1>1, <2>1, <2>2, MarksHead
<1>5. o.media \in SUBSET Kinds
  BY <1>2 DEF Ops
<1>6. \/ c.sig = "closed" /\ send' = c /\ UNCHANGED offers
      \/ c.sig # "closed" /\ o.op = "createOffer"
           /\ send' = Later(c, "setLocal", c.added) /\ UNCHANGED offers
      \/ c.sig # "closed" /\ o.op = "setLocal" /\ setLocalDescription(c, o.media)
      \/ c.sig # "closed" /\ o.op = "limit"
           /\ send' = [c EXCEPT !.local = o.media] /\ sendOffer(o.media)
      \/ c.sig # "closed" /\ o.op = "setRemote" /\ setRemoteDescription(c, o.media)
  BY DEF RunSendOp
<1> HIDE DEF c, o
<1>7. ASSUME ws # "closed"
      PROVE  send' \in SendConnection /\ OneOffer(send', offers')
  <2>1. OneOffer(send, offers)
    BY <1>7, OneOfferInv
  <2>2. OneOffer(c, offers)
    BY <1>3, <1>4, <2>1 DEF OneOffer
  <2>3. c.sig # "have-local-offer" => Quiet(c, offers)
    BY <2>2 DEF OneOffer, Quiet
  <2>4. o.op \in {"limit", "setRemote"} =>
           Quiet(c, offers) /\ c.sig = "have-local-offer" /\ c.gathered
    BY <1>3, <1>4, <2>1 DEF OneOffer, Quiet
  <2>5. CASE send' = c /\ UNCHANGED offers
    BY <1>3, <2>2, <2>5
  <2>6. CASE send' = Later(c, "setLocal", c.added) /\ UNCHANGED offers
    <3>1. c.added \in SUBSET Kinds
      BY <1>3 DEF SendConnection
    <3> QED BY <1>3, <2>2, <2>6, <3>1, LaterOneOffer
  <2>7. CASE c.sig # "closed" /\ setLocalDescription(c, o.media)
    <3> DEFINE d == [c EXCEPT !.local = o.media, !.sig = "have-local-offer"]
    <3>1. d \in SendConnection /\ d.ops = c.ops /\ d.sig = "have-local-offer"
            /\ d.gathered = c.gathered
      BY <1>3, <1>5 DEF SendConnection
    <3>2. IF c.sig = "stable" THEN OnStateChange(d) ELSE send' = d /\ UNCHANGED offers
      BY <2>7 DEF setLocalDescription
    <3> HIDE DEF d
    <3>3. CASE c.sig = "stable"
      <4>1. Quiet(d, offers)
        BY <2>3, <3>1, <3>3 DEF Quiet
      <4> QED BY <1>7, <3>1, <3>2, <3>3, <4>1, EventOneOffer
    <3>4. CASE c.sig # "stable"
      <4>1. OneOffer(d, offers)
        BY <2>2, <3>1 DEF OneOffer
      <4> QED BY <3>1, <3>2, <3>4, <4>1
    <3> QED BY <3>3, <3>4
  <2>8. CASE o.op = "limit" /\ send' = [c EXCEPT !.local = o.media] /\ sendOffer(o.media)
    <3>1. send' \in SendConnection /\ send'.ops = c.ops /\ send'.sig = c.sig
            /\ send'.gathered = c.gathered
      BY <1>3, <1>5, <2>8 DEF SendConnection
    <3>2. Len(offers') <= 1
      <4>1. Len(<<>>) = 0 /\ Len(Append(<<>>, o.media)) = 1
        BY EmptySeq, Singletons
      <4> QED BY <2>4, <2>8, <4>1 DEF Quiet, sendOffer
    <3> QED BY <2>4, <2>8, <3>1, <3>2 DEF OneOffer, Quiet
  <2>9. CASE o.op = "setRemote" /\ c.sig # "closed" /\ setRemoteDescription(c, o.media)
    <3> DEFINE d == [c EXCEPT !.sig = "stable", !.agreed = o.media]
    <3>1. d \in SendConnection /\ d.ops = c.ops /\ d.sig = "stable" /\ d.gathered = c.gathered
      BY <1>3, <1>5 DEF SendConnection
    <3>2. \/ OnStateChange(d)
          \/ send' = c /\ UNCHANGED offers
      BY <2>9 DEF setRemoteDescription
    <3> HIDE DEF d
    <3>3. Quiet(d, offers) /\ d.gathered
      BY <2>4, <2>9, <3>1 DEF Quiet
    <3>4. CASE OnStateChange(d)
      BY <1>7, <3>1, <3>3, <3>4, EventOneOffer
    <3>5. CASE send' = c /\ UNCHANGED offers
      BY <1>3, <2>2, <3>5
    <3> QED BY <3>2, <3>4, <3>5
  <2> QED BY <1>6, <2>5, <2>6, <2>7, <2>8, <2>9
<1>8. ASSUME ws = "closed"
      PROVE  send' \in SendConnection /\ offers' = offers
  <2>1. \A d : OnStateChange(d) /\ d \in SendConnection => send' \in SendConnection /\ offers' = offers
    <3> SUFFICES ASSUME NEW d \in SendConnection, OnStateChange(d)
                 PROVE  send' \in SendConnection /\ offers' = offers
      OBVIOUS
    <3>1. d.local \in SUBSET Kinds
      BY DEF SendConnection
    <3>2. Later(d, "limit", d.local) \in SendConnection
      BY <3>1, LaterType
    <3> QED BY <1>8, <3>2 DEF OnStateChange, sendOffer
  <2>2. c.added \in SUBSET Kinds
    BY <1>3 DEF SendConnection
  <2>3. Later(c, "setLocal", c.added) \in SendConnection
    BY <1>3, <2>2, LaterType
  <2>4. /\ [c EXCEPT !.local = o.media] \in SendConnection
        /\ [c EXCEPT !.local = o.media, !.sig = "have-local-offer"] \in SendConnection
        /\ [c EXCEPT !.sig = "stable", !.agreed = o.media] \in SendConnection
    BY <1>3, <1>5 DEF SendConnection
  <2> QED BY <1>3, <1>6, <1>8, <2>1, <2>3, <2>4 DEF setLocalDescription, setRemoteDescription, sendOffer
<1>9. CASE ws # "closed"
  <2>1. Len(offers') <= 1
    BY <1>7, <1>9 DEF OneOffer
  <2> QED BY <1>1, <1>7, <1>9, <2>1, OneOfferInv
<1>10. CASE ws = "closed"
  BY <1>1, <1>8, <1>10, OneOfferInv
<1> QED BY <1>9, <1>10

\* The end of gathering on the send connection: it is waited for, or there is no
\* local offer yet.
LEMMA OnSendGatheredOffers ==
    ASSUME TypeOK, OfferInv, OnSendGathered
    PROVE  send' \in SendConnection /\ OfferInv'
<1> DEFINE d == [send EXCEPT !.gathered = TRUE]
<1>1. /\ ws' = ws /\ send \in SendConnection /\ send.sig # "closed"
      /\ ~send.gathered /\ OnStateChange(d)
  BY DEF OnSendGathered, TypeOK
<1>2. d \in SendConnection /\ d.ops = send.ops /\ d.sig = send.sig /\ d.gathered
        /\ d.local = send.local
  BY <1>1 DEF SendConnection
<1> HIDE DEF d
<1>3. CASE ws # "closed"
  <2>1. OneOffer(send, offers)
    BY <1>3, OneOfferInv
  <2>2. Quiet(d, offers)
    BY <1>1, <1>2, <2>1 DEF OneOffer, Quiet
  <2>3. send' \in SendConnection /\ OneOffer(send', offers')
    BY <1>1, <1>2, <1>3, <2>2, EventOneOffer
  <2>4. Len(offers') <= 1
    BY <2>3 DEF OneOffer
  <2> QED BY <2>3, <2>4, OneOfferInv
<1>4. CASE ws = "closed"
  <2>1. d.local \in SUBSET Kinds
    BY <1>2 DEF SendConnection
  <2>2. Later(d, "limit", d.local) \in SendConnection
    BY <1>2, <2>1, LaterType
  <2>3. send' \in SendConnection /\ offers' = offers
    BY <1>1, <1>2, <1>4, <2>2 DEF OnStateChange, sendOffer
  <2> QED BY <1>1, <1>4, <2>3, OneOfferInv
<1> QED BY <1>3, <1>4

\* Clicks and media change neither what is to be sent nor what is to be answered.
LEMMA SharingOffers ==
    ASSUME TypeOK, OfferInv, NEW k \in Kinds, Click(k) \/ GotMedia(k) \/ NoMedia(k)
    PROVE  send' \in SendConnection /\ OfferInv'
<1>1. send \in SendConnection /\ UNCHANGED <<ws, offers>>
  BY DEF TypeOK, Click, GotMedia, NoMedia
<1>2. CASE Click(k)
  <2>1. NewSend \in SendConnection /\ NewSend.ops = <<>> /\ NewSend.local = {}
          /\ NewSend.sig = "stable"
    BY EmptySeq DEF NewSend, NoSend, SendConnection
  <2>2. Marks(NewSend.ops) = {}
    BY <2>1, EmptySeq DEF Marks
  <2>3. send' = IF send.sig = "none" THEN NewSend ELSE send
    BY <1>2 DEF Click
  <2>4. ws # "closed" /\ send.sig = "none" => OneOffer(NewSend, offers)
    BY <2>1, <2>2, OneOfferInv DEF OneOffer
  <2> QED BY <1>1, <2>1, <2>3, <2>4, OneOfferInv
<1>3. CASE GotMedia(k)
  <2> DEFINE d == [send EXCEPT !.added = @ \cup {k}]
  <2>1. d \in SendConnection /\ d.ops = send.ops /\ d.sig = send.sig
          /\ d.gathered = send.gathered /\ d.local = send.local
    BY <1>1 DEF SendConnection
  <2>2. send' = IF send.sig = "closed" THEN send ELSE Later(d, "createOffer", {})
    BY <1>3 DEF GotMedia
  <2> HIDE DEF d
  <2>3. Later(d, "createOffer", {}) \in SendConnection
    BY <2>1, LaterType
  <2>4. ws # "closed" => OneOffer(d, offers)
    BY <2>1, OneOfferInv DEF OneOffer
  <2>5. ws # "closed" => OneOffer(Later(d, "createOffer", {}), offers)
    BY <2>1, <2>4, LaterOneOffer
  <2> QED BY <1>1, <2>2, <2>3, <2>5, OneOfferInv
<1>4. CASE NoMedia(k)
  BY <1>1, <1>4, OneOfferInv DEF NoMedia
<1> QED BY <1>2, <1>3, <1>4

\* The answer of the controller takes the place of the offer.
LEMMA OnRemoteAnswerOffers ==
    ASSUME TypeOK, OfferInv, OnRemoteAnswer
    PROVE  send' \in SendConnection /\ OfferInv' /\ offers' \in Seq(SUBSET Kinds)
<1> DEFINE o == Op("setRemote", Head(offers))
<1>1. /\ ws = "established" /\ ws' = ws /\ send \in SendConnection
      /\ offers \in Seq(SUBSET Kinds) /\ offers # <<>> /\ offers' = Tail(offers)
      /\ send' = Later(send, "setRemote", Head(offers))
  BY DEF OnRemoteAnswer, TypeOK
<1>2. OneOffer(send, offers)
  BY <1>1, OneOfferInv
<1>3. Head(offers) \in SUBSET Kinds /\ Tail(offers) \in Seq(SUBSET Kinds)
        /\ Len(Tail(offers)) = Len(offers) - 1
  BY <1>1, HeadTailProperties
<1>4. offers' = <<>> /\ Len(offers') = 0
  <2>1. Len(offers) \in Nat /\ Len(offers) <= 1 /\ Len(offers') \in Nat
    BY <1>1, <1>2, <1>3, LenProperties DEF OneOffer
  <2>2. Len(offers') = 0
    BY <1>1, <1>3, <2>1
  <2> QED BY <1>1, <1>3, <2>2, EmptySeq
<1>5. send' \in SendConnection
  BY <1>1, <1>3, LaterType
<1>6. o \in Ops /\ o.op = "setRemote" /\ send.ops \in Seq(Ops)
  BY <1>1, <1>3 DEF Op, Ops, SendConnection
<1>7. send'.ops = Append(send.ops, o) /\ send'.sig = send.sig /\ send'.gathered = send.gathered
        /\ send'.local = send.local
  BY <1>1 DEF Later, SendConnection
<1> HIDE DEF o
<1>8. Marks(send'.ops) = Marks(send.ops) \cup {Len(send.ops) + 1}
  BY <1>6, <1>7, MarksLater
<1>9. Marks(send.ops) = {} /\ send.sig = "have-local-offer" /\ send.gathered
  BY <1>1, <1>2 DEF OneOffer
<1>10. OneOffer(send', offers')
  BY <1>4, <1>7, <1>8, <1>9 DEF OneOffer
<1> QED BY <1>1, <1>3, <1>4, <1>5, <1>10, OneOfferInv

-----------------------------------------------------------------------------
(* Types *)

\* Whatever is sent, offers are sets of media.
LEMMA SendStepsOffers ==
    ASSUME TypeOK, RunSendOp \/ OnSendGathered
    PROVE  offers' \in Seq(SUBSET Kinds)
<1>1. /\ send \in SendConnection /\ offers \in Seq(SUBSET Kinds) /\ send.ops \in Seq(Ops)
  BY DEF TypeOK, SendConnection, Ops
<1>2. \A m \in SUBSET Kinds : sendOffer(m) => offers' \in Seq(SUBSET Kinds)
  BY <1>1, AppendProperties DEF sendOffer
<1>3. \A d \in SendConnection : OnStateChange(d) => offers' \in Seq(SUBSET Kinds)
  <2> SUFFICES ASSUME NEW d \in SendConnection, OnStateChange(d)
               PROVE  offers' \in Seq(SUBSET Kinds)
    OBVIOUS
  <2>1. d.local \in SUBSET Kinds
    BY DEF SendConnection
  <2>2. sendOffer(d.local) \/ offers' = offers
    BY DEF OnStateChange
  <2> QED BY <1>1, <1>2, <2>1, <2>2
<1>4. CASE RunSendOp
  <2> DEFINE c == [send EXCEPT !.ops = Tail(@)]
             o == Head(send.ops)
  <2>1. send.ops # <<>>
    BY <1>4 DEF RunSendOp
  <2>2. Tail(send.ops) \in Seq(Ops) /\ o \in Ops
    BY <1>1, <2>1, HeadTailProperties
  <2>3. c \in SendConnection /\ o.media \in SUBSET Kinds
    BY <1>1, <2>2 DEF SendConnection, Ops
  <2>4. \/ UNCHANGED offers
        \/ setLocalDescription(c, o.media)
        \/ sendOffer(o.media)
        \/ setRemoteDescription(c, o.media)
    BY <1>4 DEF RunSendOp
  <2> HIDE DEF c, o
  <2>5. /\ [c EXCEPT !.local = o.media, !.sig = "have-local-offer"] \in SendConnection
        /\ [c EXCEPT !.sig = "stable", !.agreed = o.media] \in SendConnection
    BY <2>3 DEF SendConnection
  <2> QED BY <1>1, <1>2, <1>3, <2>3, <2>4, <2>5 DEF setLocalDescription, setRemoteDescription
<1>5. CASE OnSendGathered
  <2>1. [send EXCEPT !.gathered = TRUE] \in SendConnection
    BY <1>1 DEF SendConnection
  <2> QED BY <1>3, <1>5, <2>1 DEF OnSendGathered
<1> QED BY <1>4, <1>5

\* The part of TypeOK about receive connections.
RecvType == DOMAIN recv \subseteq Senders /\ \A p \in DOMAIN recv : recv[p] \in RecvConnection

\* A receive connection that is changed or added.
LEMMA SetRecvType ==
    ASSUME RecvType, NEW p \in Senders, NEW c \in RecvConnection, SetRecv(p, c)
    PROVE  RecvType'
<1>1. /\ DOMAIN recv' = DOMAIN recv \cup {p}
      /\ \A q \in DOMAIN recv' : recv'[q] = IF q = p THEN c ELSE recv[q]
  BY DEF SetRecv
<1> QED BY <1>1 DEF RecvType

\* The calls and events of a receive connection keep its type.
LEMMA RecvStepsType ==
    ASSUME TypeOK, NEW p \in DOMAIN recv, RunRecvOp(p) \/ OnRecvGathered(p)
    PROVE  RecvType'
<1> DEFINE RecvOps == {"setRemote", "createAnswer", "setLocal"}
<1>1. RecvType /\ p \in Senders /\ recv[p] \in RecvConnection /\ recv[p].ops \in Seq(RecvOps)
  BY DEF TypeOK, RecvType, RecvConnection
<1>2. CASE RunRecvOp(p)
  <2> DEFINE c == [recv[p] EXCEPT !.ops = Tail(@)]
  <2>1. Tail(recv[p].ops) \in Seq(RecvOps)
    BY <1>1, <1>2, HeadTailProperties DEF RunRecvOp
  <2>2. c \in RecvConnection
    BY <1>1, <2>1 DEF RecvConnection
  <2>3. c.ops \in Seq(RecvOps)
    <3> HIDE DEF c
    <3> QED BY <2>2 DEF RecvConnection
  <2>4. \A x \in RecvOps : Append(c.ops, x) \in Seq(RecvOps)
    <3> HIDE DEF c, RecvOps
    <3> QED BY <2>3, AppendProperties
  <2>5. \/ SetRecv(p, c)
        \/ SetRecv(p, [c EXCEPT !.sig = "have-remote-offer", !.ops = Append(@, "createAnswer")])
        \/ SetRecv(p, [c EXCEPT !.ops = Append(@, "setLocal")])
        \/ SetRecv(p, [c EXCEPT !.sig = "stable", !.answered = TRUE])
    BY <1>2 DEF RunRecvOp, OnRecvStateChange
  <2>6. /\ [c EXCEPT !.sig = "have-remote-offer", !.ops = Append(@, "createAnswer")] \in RecvConnection
        /\ [c EXCEPT !.ops = Append(@, "setLocal")] \in RecvConnection
        /\ [c EXCEPT !.sig = "stable", !.answered = TRUE] \in RecvConnection
    <3> HIDE DEF c
    <3> QED BY <2>2, <2>4 DEF RecvConnection
  <2> HIDE DEF c
  <2> QED BY <1>1, <2>2, <2>5, <2>6, SetRecvType
<1>3. CASE OnRecvGathered(p)
  <2>1. [recv[p] EXCEPT !.gathered = TRUE] \in RecvConnection
    BY <1>1 DEF RecvConnection
  <2> QED BY <1>1, <1>3, <2>1, SetRecvType DEF OnRecvGathered, OnRecvStateChange
<1> QED BY <1>2, <1>3

\* An offer of the controller adds a receive connection or a call to one.
LEMMA OnRemoteOfferType ==
    ASSUME TypeOK, NEW p \in Senders, OnRemoteOffer(p)
    PROVE  RecvType'
<1> DEFINE RecvOps == {"setRemote", "createAnswer", "setLocal"}
           c == IF p \in DOMAIN recv THEN recv[p] ELSE NewRecv
<1>1. RecvType
  BY DEF TypeOK, RecvType
<1>2. NewRecv \in RecvConnection
  BY EmptySeq DEF NewRecv, RecvConnection
<1>3. c \in RecvConnection
  BY <1>1, <1>2 DEF RecvType
<1>4. SetRecv(p, [c EXCEPT !.ops = Append(@, "setRemote")])
  BY DEF OnRemoteOffer
<1> HIDE DEF c
<1>5. c.ops \in Seq(RecvOps) /\ "setRemote" \in RecvOps
  BY <1>3 DEF RecvConnection
<1>6. Append(c.ops, "setRemote") \in Seq(RecvOps)
  <2> HIDE DEF RecvOps
  <2> QED BY <1>5, AppendProperties
<1>7. [c EXCEPT !.ops = Append(@, "setRemote")] \in RecvConnection
  BY <1>3, <1>6 DEF RecvConnection
<1> QED BY <1>1, <1>4, <1>7, SetRecvType

-----------------------------------------------------------------------------
(* The invariant *)

\* The inductive invariant of the browser client.
BrowserInv == TypeOK /\ AnswerInv /\ OfferInv /\ ClicksInv

\* The invariant holds when the page is loaded: nothing was offered or clicked.
LEMMA InitBrowserInv == Init => BrowserInv
<1> SUFFICES ASSUME Init PROVE BrowserInv
  OBVIOUS
<1>1. DOMAIN recv = {}
  BY DEF Init
<1>2. NoSend \in SendConnection /\ NoSend.ops = <<>> /\ NoSend.local = {}
  BY EmptySeq DEF NoSend, SendConnection
<1>3. TypeOK
  <2>1. offers \in Seq(SUBSET Kinds)
    BY EmptySeq DEF Init
  <2>2. answers \in [received : 0..MaxOffers, sent : 0..MaxOffers]
    BY BrowserAssumption DEF Init
  <2>3. media \in [Kinds -> 0..MaxClicks] /\ clicks \in 0..MaxClicks
    BY BrowserAssumption DEF Init
  <2> QED BY <1>1, <1>2, <2>1, <2>2, <2>3 DEF Init, TypeOK
<1>4. AnswerInv
  BY <1>1 DEF Init, AnswerInv
<1>5. OfferInv
  <2>1. Marks(send.ops) = {} /\ Len(offers) = 0
    BY <1>2, EmptySeq DEF Init, Marks
  <2> QED BY <1>2, <2>1 DEF Init, OfferInv
<1>6. ClicksInv
  BY DEF Init, ClicksInv
<1> QED BY <1>3, <1>4, <1>5, <1>6 DEF BrowserInv

\* A step that leaves receive connections and answers alone keeps AnswerInv.
LEMMA AnswersKept ==
    ASSUME AnswerInv, UNCHANGED <<recv, answers>>, ws # "closed" \/ ws' = ws
    PROVE  AnswerInv'
BY DEF AnswerInv, InTurn, Busy

\* A step that leaves the send connection and its offers alone keeps OfferInv.
LEMMA OffersKept ==
    ASSUME OfferInv, UNCHANGED <<send, offers>>, ws # "closed" \/ ws' = ws
    PROVE  OfferInv'
BY DEF OfferInv, Marks

\* The numbers of offers and answers stay within the bound on offers.
LEMMA AnswersType ==
    ASSUME AnswerInv', answers'.received \in 0..MaxOffers
    PROVE  answers' \in [received : 0..MaxOffers, sent : 0..MaxOffers]
BY BrowserAssumption DEF AnswerInv

\* Every step of the browser, the user and the controller keeps the invariant.
LEMMA NextBrowserInv == BrowserInv /\ [Next]_vars => BrowserInv'
<1> SUFFICES ASSUME BrowserInv, [Next]_vars PROVE BrowserInv'
  OBVIOUS
<1>1. TypeOK /\ AnswerInv /\ OfferInv /\ ClicksInv
  BY DEF BrowserInv
<1>2. CASE OnOpen \/ OnHello
  <2>1. /\ UNCHANGED <<limitip, joiner, media, send, recv, offers, answers, clicks, overlapped>>
        /\ ws # "closed" /\ ws' \in {"open", "established"}
    BY <1>2 DEF OnOpen, OnHello
  <2>2. TypeOK' /\ ClicksInv'
    BY <1>1, <2>1 DEF TypeOK, ClicksInv
  <2> QED BY <1>1, <2>1, <2>2, AnswersKept, OffersKept DEF BrowserInv
<1>3. CASE OnClose
  <2>1. ws' = "closed" /\ UNCHANGED <<limitip, joiner, media, offers, answers, clicks, overlapped>>
    BY <1>3 DEF OnClose
  <2>2. send' \in SendConnection
    BY <1>1, <1>3 DEF OnClose, TypeOK, SendConnection
  <2>3. RecvType'
    <3>1. /\ DOMAIN recv' = DOMAIN recv
          /\ \A p \in DOMAIN recv : recv'[p] = [recv[p] EXCEPT !.sig = "closed"]
      BY <1>3 DEF OnClose
    <3>2. \A c \in RecvConnection : [c EXCEPT !.sig = "closed"] \in RecvConnection
      BY DEF RecvConnection
    <3> QED BY <1>1, <3>1, <3>2 DEF RecvType, TypeOK
  <2>4. TypeOK' /\ ClicksInv'
    BY <1>1, <2>1, <2>2, <2>3 DEF TypeOK, RecvType, ClicksInv
  <2>5. AnswerInv'
    BY <1>1, <2>1, ClosedAnswers
  <2>6. OfferInv'
    BY <1>1, <2>1 DEF OfferInv
  <2> QED BY <2>4, <2>5, <2>6 DEF BrowserInv
<1>4. CASE RunSendOp \/ OnSendGathered
  <2>1. UNCHANGED <<limitip, joiner, ws, media, recv, answers, clicks, overlapped>>
    BY <1>4 DEF RunSendOp, OnSendGathered
  <2>2. send' \in SendConnection /\ OfferInv'
    BY <1>1, <1>4, RunSendOpOffers, OnSendGatheredOffers
  <2>3. offers' \in Seq(SUBSET Kinds)
    BY <1>1, <1>4, SendStepsOffers
  <2>4. TypeOK' /\ ClicksInv'
    BY <1>1, <2>1, <2>2, <2>3 DEF TypeOK, ClicksInv
  <2> QED BY <1>1, <2>1, <2>2, <2>4, AnswersKept DEF BrowserInv
<1>5. ASSUME NEW k \in Kinds, Click(k) \/ GotMedia(k) \/ NoMedia(k)
      PROVE  BrowserInv'
  <2>1. UNCHANGED <<limitip, joiner, ws, recv, offers, answers>>
    BY <1>5 DEF Click, GotMedia, NoMedia
  <2>2. send' \in SendConnection /\ OfferInv'
    BY <1>1, <1>5, SharingOffers
  <2>3. media \in [Kinds -> Nat] /\ clicks \in 0..MaxClicks
    BY <1>1, BrowserAssumption DEF TypeOK
  <2>4. /\ clicks' \in 0..MaxClicks /\ media' \in [Kinds -> Nat]
        /\ \A j \in Kinds : media'[j] <= clicks'
    <3>1. CASE Click(k)
      <4>1. clicks' = clicks + 1 /\ clicks < MaxClicks /\ media' = [media EXCEPT ![k] = @ + 1]
        BY <3>1 DEF Click
      <4> QED BY <1>1, <2>3, <4>1, BrowserAssumption DEF ClicksInv
    <3>2. CASE GotMedia(k) \/ NoMedia(k)
      <4>1. clicks' = clicks /\ media[k] > 0 /\ media' = [media EXCEPT ![k] = @ - 1]
        BY <3>2 DEF GotMedia, NoMedia
      <4> QED BY <1>1, <2>3, <4>1, BrowserAssumption DEF ClicksInv
    <3> QED BY <1>5, <3>1, <3>2
  <2>5. media' \in [Kinds -> 0..MaxClicks]
    BY <2>4, BrowserAssumption
  <2>6. overlapped' \in BOOLEAN
    BY <1>1, <1>5 DEF TypeOK, Click, GotMedia, NoMedia, Sharing
  <2>7. TypeOK' /\ ClicksInv'
    BY <1>1, <2>1, <2>2, <2>4, <2>5, <2>6 DEF TypeOK, ClicksInv
  <2> QED BY <1>1, <2>1, <2>2, <2>7, AnswersKept DEF BrowserInv
<1>6. CASE OnRemoteAnswer
  <2>1. UNCHANGED <<limitip, joiner, ws, media, recv, answers, clicks, overlapped>>
    BY <1>6 DEF OnRemoteAnswer
  <2>2. send' \in SendConnection /\ OfferInv' /\ offers' \in Seq(SUBSET Kinds)
    BY <1>1, <1>6, OnRemoteAnswerOffers
  <2>3. TypeOK' /\ ClicksInv'
    BY <1>1, <2>1, <2>2 DEF TypeOK, ClicksInv
  <2> QED BY <1>1, <2>1, <2>2, <2>3, AnswersKept DEF BrowserInv
<1>7. CASE OnJoinerOffer
  <2>1. /\ UNCHANGED <<limitip, ws, media, send, recv, offers, answers, clicks, overlapped>>
        /\ joiner' = "dropped"
    BY <1>7 DEF OnJoinerOffer
  <2>2. TypeOK' /\ ClicksInv'
    BY <1>1, <2>1 DEF TypeOK, ClicksInv
  <2> QED BY <1>1, <2>1, <2>2, AnswersKept, OffersKept DEF BrowserInv
<1>8. ASSUME NEW p \in Senders, OnRemoteOffer(p)
      PROVE  BrowserInv'
  <2>1. UNCHANGED <<limitip, joiner, ws, media, send, offers, clicks, overlapped>>
    BY <1>8 DEF OnRemoteOffer
  <2>2. AnswerInv'
    BY <1>1, <1>8, OnRemoteOfferAnswers
  <2>3. answers'.received \in 0..MaxOffers
    BY <1>1, <1>8, BrowserAssumption DEF OnRemoteOffer, TypeOK
  <2>4. RecvType'
    BY <1>1, <1>8, OnRemoteOfferType
  <2>5. TypeOK' /\ ClicksInv'
    BY <1>1, <2>1, <2>2, <2>3, <2>4, AnswersType DEF TypeOK, RecvType, ClicksInv
  <2> QED BY <1>1, <2>1, <2>2, <2>5, OffersKept DEF BrowserInv
<1>9. ASSUME NEW p \in DOMAIN recv, RunRecvOp(p) \/ OnRecvGathered(p)
      PROVE  BrowserInv'
  <2>1. UNCHANGED <<limitip, joiner, ws, media, send, offers, clicks, overlapped>>
    BY <1>9 DEF RunRecvOp, OnRecvGathered
  <2>2. AnswerInv'
    BY <1>1, <1>9, RunRecvOpAnswers, OnRecvGatheredAnswers
  <2>3. answers'.received = answers.received
    <3>1. answers' = answers \/ answers' = [answers EXCEPT !.sent = @ + 1]
      BY <1>9 DEF RunRecvOp, OnRecvGathered, OnRecvStateChange, sendAnswer
    <3> QED BY <1>1, <3>1 DEF TypeOK
  <2>4. RecvType'
    BY <1>1, <1>9, RecvStepsType
  <2>5. answers'.received \in 0..MaxOffers
    BY <1>1, <2>3 DEF TypeOK
  <2>6. TypeOK' /\ ClicksInv'
    BY <1>1, <2>1, <2>2, <2>4, <2>5, AnswersType DEF TypeOK, RecvType, ClicksInv
  <2> QED BY <1>1, <2>1, <2>2, <2>6, OffersKept DEF BrowserInv
<1>10. CASE UNCHANGED vars
  <2>1. /\ UNCHANGED <<limitip, joiner, ws, media, send, recv, offers, answers, clicks, overlapped>>
    BY <1>10 DEF vars
  <2>2. TypeOK' /\ ClicksInv'
    BY <1>1, <2>1 DEF TypeOK, ClicksInv
  <2> QED BY <1>1, <2>1, <2>2, AnswersKept, OffersKept DEF BrowserInv
<1> QED BY <1>2, <1>3, <1>4, <1>5, <1>6, <1>7, <1>8, <1>9, <1>10 DEF Next, RecvSteps

\* The invariant of the browser client holds in every state it reaches.
THEOREM BrowserInvariant == Spec => []BrowserInv
BY InitBrowserInv, NextBrowserInv, PTL DEF Spec

\* Type correctness: the chains of calls hold calls of RTCPeerConnection, and the
\* numbers of requests for media, of offers and of answers stay within bounds.
THEOREM BrowserTypeCorrect == Spec => []TypeOK
<1>1. BrowserInv => TypeOK
  BY DEF BrowserInv
<1> QED BY <1>1, BrowserInvariant, PTL

\* No offer of the controller gets two answers, whichever of the two events makes
\* an answer available (MediaConnection of type "recv").
THEOREM OneAnswerPerOfferAlways == Spec => []OneAnswerPerOffer
<1>1. BrowserInv => OneAnswerPerOffer
  BY DEF BrowserInv, AnswerInv, OneAnswerPerOffer
<1> QED BY <1>1, BrowserInvariant, PTL

\* The browser never has two offers under way, however clicks, gathered candidates
\* and the second setLocalDescription of limitip fall together.
THEOREM OneOfferAtATimeAlways == Spec => []OneOfferAtATime
<1>1. BrowserInv => OneOfferAtATime
  BY DEF BrowserInv, OfferInv, OneOfferAtATime
<1> QED BY <1>1, BrowserInvariant, PTL

=============================================================================
