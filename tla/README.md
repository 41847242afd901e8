# Scallop in TLA+

Scallop is a selective forwarding unit (SFU) for WebRTC conferences that is split
in two: a control plane (a signalling controller and a switch agent) and a data
plane that forwards, drops and renumbers packets, in software
(`lib/data_plane_model.cc`), on a Tofino switch or on a BlueField NIC.  This
directory holds TLA+ models of its core, the TLC runs that check them and proofs
that TLAPS checks.  Paths are relative to the repository.

    tlc -config MCController_signalling.cfg MCController
    tlc -config MCTofinoSwitch_rules.cfg MCTofinoSwitch
    tlc -config MCNegotiation_descriptions.cfg MCNegotiation
    tlapm ConnectionProofs.tla
    tlapm TofinoRuleProofs.tla

Modules with theorems: ControllerProofs, ConnectionProofs, ForwardingProofs,
SwitchAgentProofs, TofinoProofs, TofinoRuleProofs, BrowserProofs and LoopLemmas.

Contents: [1 Inventory](#1-inventory), [2 Modules](#2-modules),
[3 Runs](#3-runs), [4 Bounds](#4-bounds), [5 Fairness](#5-fairness),
[6 Proofs](#6-proofs), [7 What is not modelled](#7-what-is-not-modelled),
[8 Plan](#8-plan).

## 1 Inventory

### Parts and how they interact

    browser --(wss: hello, offer, answer)--> controller
    controller --(ws: hello, add_participant, add_stream)--> switch agent
    switch agent --(calls or JSON)--> data plane:  addStream, adjustDecodeTarget
    data plane --(STUN and RTCP packets)--> switch agent
    browsers --(RTP, RTCP)--> data plane --> browsers
    command line tools --(API)--> controller, switch agent

| part | state | operations | hard behaviour |
|---|---|---|---|
| Controller (`controller/controller.cc`) | session manager, two connection tables | new participant, offer, answer, close; new switch, switch close | handlers of several clients in any order; an exception in any handler ends the process |
| Session, Participant (`lib/session.cc`, `lib/participant.cc`) | participants, next id, signalling state, outgoing and incoming streams, ICE candidates | addParticipant, removeParticipant, addOffer, getOffer, addAnswer, getAnswer | a signalling transaction over all participants while some join and leave |
| Client connections (`lib/controller_client_interface.cc`) | entry per endpoint, never erased | open, hello, message, close | stale entries, endpoints that come back, synchronous writes to peers that are gone |
| Switch connections (`lib/controller_switch_interface.cc`) | entry per endpoint | open, hello, close | look-up by id matches entries that are not registered; asynchronous writes of temporaries |
| Switch agent (`lib/switch_agent.h`, `lib/switch_agent_state.h`) | send and receive streams, decode targets | add stream, binding request, receiver report, API request | order and loss of commands, SSRC collisions, two sources of decode targets |
| Descriptions and messages (`lib/proto/sdp.cc`, `lib/stream.cc`, `lib/rpc.cc`) | descriptions kept by the session for each stream | parse, filter candidates, put the SFU in place of the sender, format; write and read messages | three programs have to agree on what a description or message says |
| STUN agent (`lib/stun_agent.cc`) | peers with credentials, validated or not | add peer, binding request | first credentials of a peer are kept |
| Data plane (`lib/data_plane_model.cc`, `lib/sfu_table.cc`) | table from (address, SSRC) to actions, each with a decode target and a rewriter | add stream, adjust target, RTP, RTCP, STUN packets | one packet buffer for all receivers, the loop ends at the first drop |
| Sequence rewriter (`lib/sequence_rewriter.cc`) | current, last and dropped frames, drop count | one packet | loss, reordering, wrap-around, targets changing in between |
| Browser client (`client/src`) | signalling connection, a send connection, a receive connection for each participant id | click, media granted or refused, candidates gathered, promise resolved, offer, answer, close | promises and events in any order, clicks that overlap |
| Tofino control plane (`hardware/tofino/control_plane`) | agent: meetings, participants, send and receive streams; process: dictionaries from meetings and participants to groups, nodes, replication ids, and the tables of the switch | add stream, remove stream, set quality; one message at a time | early returns and exceptions after part of the state was changed, lost messages, reconnects and restarts |
| Tofino data plane (`hardware/tofino/data_plane`) | tables | one packet: classify, replicate, exclude, rewrite | which copies leave the switch follows from five tables that are filled step by step |
| Tofino adapter (`lib/tofino_data_plane.cc`) | one connection | add stream, adjust target, inject a packet | messages the other side does not understand |
| everything else | none that matters | text, bytes, sockets, printing | see section 7 |

### What makes each part correct

* Session and controller: one initiator at a time; the signalling states agree
  with the offers the clients hold; an initiator is answered only when everybody
  receives what it sends, and eventually is; nobody receives what is not sent;
  the connection of a participant is found; the switch is told of every stream, a
  send stream before its receive streams, as long as its writes do not overlap.
* Descriptions: what a browser is offered is what the senders share, answers match
  their offers line by line, the switch is told the addresses and SSRCs that the
  descriptions name, and every message is understood by whom it is sent to.
* Switch agent and table: media and feedback of every stream have their way and
  stay inside the session; destinations can complete connectivity checks; the
  decode target that is shown is the one in force; the agent survives lost
  commands.
* Tofino switch: identifiers stay distinct; every packet of a stream reaches each
  receiver once and nobody else; what was lost with a connection is asked for
  again without harm; the process that fills the tables ends only on what it
  cannot do.
* Browser: at most one offer under way, exactly one answer for each offer that names
  a participant, and what the user shares is agreed on in the end if offers are
  answered.
* Sequence rewriter and fan-out: the numbers a receiver gets leave no gap where
  packets were dropped on purpose and keep the gap where packets were lost; no
  number is used twice; what one receiver drops is not withheld from others.

`hazards` in `PROJECT.json` lists at which line each of these could go wrong.

## 2 Modules

    Session <-- Controller <-- MCController
                           <-- ControllerProofs <-- ConnectionProofs
    Session, SDP, RPC <-- Negotiation <-- MCNegotiation
    SequenceRewriter <-- Forwarding <-- MCForwarding
    Forwarding, LoopLemmas <-- ForwardingProofs
    DataPlaneModel <-- SwitchAgent <-- MCSwitchAgent
    SwitchAgent, LoopLemmas <-- SwitchAgentProofs
    TofinoPRE <-- TofinoPipeline <-- TofinoSwitch <-- MCTofinoSwitch
                                                  <-- TofinoProofs
    TofinoProofs, LoopLemmas <-- TofinoRuleProofs
    BrowserClient <-- MCBrowserClient, BrowserProofs
    MediaRouter: implemented by SwitchAgent and by TofinoSwitch

**Session** models `Session`, `Participant`, and the exceptions of `Stream`'s
constructor.  A session is a record (`next` id given last, `ids` present, control
address `addr`, signalling state `sig`, outgoing media ids `out`, incoming ones
`in[p][q]`, kind of first ICE candidate) and each C++ method an operator from
session to session.  `...Refused`, `...BadStream` and `...Throws` are the
conditions under which the method throws.  Descriptions are abstracted to the set of
media ids, and a list of ICE candidates to one of four kinds: none, the first one
usable, only a later one usable, or all outside the configured subnet
(`usableCandidate`).  Negotiation has the descriptions themselves.

**Controller** has an action for each handler.  The controller runs a single
event loop, so a handler is atomic; an exception leaves `io_context::run` and ends
the process, which the actions ending in `Throws` model, `Terminate` keeping only
the commands that had already been written.  Connections have phases: a client
may vanish while the controller has not read the error, and a write in between
may or may not fail (`WriteMayFail`, `WriteMaySucceed`).  Entries of clients are
never erased, so the second socket of an endpoint meets the entry of the first.
The table of switches is looked up by id 0, which every entry has from the start,
registered or not, so that the close of one connection may remove the entry of
another; an endpoint that comes back while its old entry is there keeps the entry of
the dead socket (`swOld`), and a command for it fails and ends the process.

`WebSocketSession::write` starts an asynchronous write on a temporary string and
waits for nothing.  `writing` are the sockets on which a write is under way, from the
handler that starts it to `OnSwitchWritten`, the completion that the event loop reads
later; other handlers may run in between.  A command is a short message, which a
socket without a write under way takes at once.  One that is started while another is
under way, of the same handler or of an earlier one, is queued and sent when that is
done, from a string that is gone by then: nothing says what arrives (`Arrives`), and
the agent may end over what it reads (`SwitchVanishes` of a `spoilt` socket).  `behind` counts
these writes, which MaxBehind bounds.  (The build is the Release build of the
`README.md`; in a Debug build an assertion of beast ends the process instead.)

**SDP** models parser and formatter of `lib/proto/sdp.cc` as functions between
sequences of lines and descriptions: a line is the kind that the regular
expressions tell apart and the value they extract, so that what is lost, merged or
reordered between parsing and formatting is in the model and the layout is not.

**RPC** models `lib/rpc.cc`: for each message the fields its constructor writes, and
for each reader (controller, switch agent, browser) the fields it asks for, what it
makes of those that are missing, and whether it drops the message or throws.

**Negotiation** is about what the messages of signalling say.  Three browsers
gather candidates, share tracks and answer offers; the controller parses what they
send, filters the candidates, keeps the streams, puts the SFU in place of the
sender (`lib/stream.cc`), offers the result to the others and derives the commands
for the switch.  The control is that of Session.  Browsers are numbered by the
participant id they are given; `streams`, `known` and `rknown` are what the session
keeps, `recv`, `todo` and `answer` what the browsers have, `agent` what the switch
was told and whether it lives.  No reader is a guard: a handler has changed the
session when the agent reads the commands, and a message it cannot read ends it
(`SendToAgent`); a browser drops what it cannot read (`Dropped`), and so does the controller
(`Ignore`), unless it throws (`Terminate`).  `ignored` keeps what was dropped.

**SequenceRewriter** models every branch of `SequenceRewriter::operator()` as
functions from a rewriter (record of its members) and a packet to a rewriter and
a new number, modulo `SeqMod`.  The `lost` flag, which only simulations use, and
`_dropWhenUnsure`, which nothing sets, are left out.

**Forwarding** is one video stream on its way: a sender of numbered frames, a
network that loses and reorders, and `_handleRTP` with its loop over the actions.
The loop writes each action's number into the one packet buffer (`BufferSeq`) and
returns at the first action that drops the packet (`Reached`).  A `path`, chosen
at the start, says what may happen to the stream.  Frame numbers have the width of
`FrameMod` and wrap around like sequence numbers, but the rewriter compares them as
plain integers.  `due`, `lost` and `fwd` are
history: which packets a receiver is due, which of them never reached the SFU,
and what was sent to it.

**DataPlaneModel** is the table as a function from (address, SSRC) to a list of
actions, with `addStream` and `adjustDecodeTarget`, and what becomes of each kind
of RTCP packet: whom it is sent to and whether the agent gets a copy.

**SwitchAgent** is the agent of the model configuration over that table: stream
announcements, loss of an announcement, compound RTCP packets, API requests,
binding requests.  Agent handlers are atomic for the same reason as the
controller's.  The controller is its environment: it announces each stream once.
A `setting`, chosen at the start, says what the agent is used for.

**MediaRouter** is the abstract data plane, what `DataPlane` (`lib/data_plane.h`)
promises to whoever calls `addStream`: media goes only where it was asked for, a
stream and its retransmissions at once, and stays forwarded until the tables are
flushed; a program that fails may leave one request half done.  Its state is
whether the program runs, the requests made and the flows forwarded.  Both data
planes are shown to implement it.  For SwitchAgent the flows are the rules
of the table for media, and a request is what the controller asked for, with the
sender found by its SSRC; for TofinoSwitch the flows are computed by sending a
packet of each stream through the modelled pipeline.

**TofinoPRE** models `tofino_interface.py`.  Its state is one record of the
dictionaries of class PRE and the five tables it fills, and `add_stream` is the
composition of the numbered steps of the method, `exit` saying whether one of them
has returned or raised.  `addEntry` models the sets in which the class remembers
what it has installed together with the switch, which refuses an entry whose key
is there or that does not fit.

**TofinoPipeline** models `scallop_tofino.p4` with `consumer.p4` as a function from
the tables and a packet to the set of its copies: first match in
`packet_consumer`, kind of packet, copy to the CPU, replication by group with the
exclusion rule of `docs/tofino_multicast.txt`, and the route in egress.  Of the
header extensions it keeps what decides whether the parser finds the AV1
descriptor: which element lengths it can step over.  `PipelineAssumption` states two
facts of the deployment that the rules rely on: the hosts and ports of
`EGRESS_PORTS` (`tofino_interface.py:28`), and that no client has the SFU's address.

**TofinoSwitch** joins these to a server: `sfu_switch_agent.py` (class
SFUSwitchAgent), or `tofino_data_plane.cc`, whose messages have other fields.  The
connection may break and lose what was not read, and the process may stop and
start again; then it flushes the tables.  The list comprehensions of the server are
`Only(s, S)`, the elements of s that are in S in order, written as a recursive
function, which proofs can follow.

**BrowserClient** is one browser.  RTCPeerConnection is external and modelled by
what the code relies on: a chain of asynchronous calls, signalling states, and
gathering that ends some time after the first local description.  The controller
is the environment: it need not answer an offer, and the offer it may send to a joiner
names no participant and is dropped (`OnJoinerOffer`).  It sends no other offer while it
waits for the answer to that one (`joiner`).  `overlapped` is history: a click came while an earlier one
was not through.

The modules ending in **Proofs**, and **LoopLemmas**, hold theorems, see section 6.

## 3 Runs

| run | states | what it shows |
|---|---|---|
| `controller_signalling` | 163,820 | three clients that join, offer, answer, vanish and come back: `OneInitiator`, `OneConnectionPerParticipant`, `AwaitedOfferOutstanding`, `ReceivesOnlyWhatIsSent`, `InitiatorAnsweredWhenComplete`, `SwitchFollowsSession`, `SendStreamKnownFirst` |
| `controller_switches` | 355,065 | two switch endpoints that come and go, writes that overlap: `SwitchEntriesBacked` |
| `controller_liveness` | 26,701 | as long as nobody vanishes each transaction ends, or waits for a joiner: `TransactionEnds` |
| `controller_joiner` | violated | `JoinerIsOffered` |
| `controller_stuck` | violated | `InitiatorWaitsForSomeone` |
| `controller_overlap` | violated | `ParticipantOnSwitch` |
| `negotiation_descriptions` | 6,519 | three browsers with two tracks each and all candidate lists: `OffersConveyStreams`, `AnswerMatchesOffer`, `AgentTold`, `ReadsItsOwn`, `MessagesUnderstood`, `MLinesOnlyAppended`, `EndsOnlyIf` |
| `forwarding_fanout` | 671,435 | loss, reordering, wrap-around, adaptation: `GapFree`, `NothingStarved`, `StrictlyIncreasing` |
| `forwarding_starved` | violated | `StrictlyIncreasing` when the first of two receivers adapts |
| `agent_streams` | 131,463 | lost announcements, SSRC collisions, two sources of targets, two sessions with the same SSRCs: `StoredTargetInForce`, `ForwardingComplete`, `DestinationsArePeers`, `StopsOnlyOnCollision`, `ImplementsMediaRouter` |
| `tofino_rules` | 162,805 | two meetings with a common participant, both servers, lost connections, restarts, resources that run out: `IdsDistinct`, `RoutesInMeeting`, `ReceiversReached`, `NothingForgotten`, `EndsOnlyIf`, `ChecksAnswered`, `RulesKept`, `ImplementsMediaRouter` |
| `client_sharing` | 146,962 | clicks, promises and events in any order: `OneOfferAtATime`, `OneAnswerPerOffer`, `OffersAnswered`, `SharesTakeEffect` |

All runs say `CHECK_DEADLOCK FALSE`: a process that was ended by an exception
stays ended, clients may do nothing, and the bounds end a stream.

The four violations are disagreements between code and comments:

* `JoinerIsOffered`: a participant who joins a session in which a participant sends
  a stream while no transaction is active is not offered it.
  `Controller::_onNewParticipant` calls `getOffer`, which finds nobody in
  gotOffer and throws; the exception ends the controller.  One client that shares
  alone, and is answered at once, and a second one that joins are enough.
  `controller/controller.cc:182` says "send offer to new participant if there is
  more than one participant".
* `ParticipantOnSwitch`: a hello that is handled while another write to the switch is
  under way adds its participant to the session, but the command "add participant on
  switch" (`controller/controller.cc:175`) is written from a string that is gone, and
  need not arrive.
* `InitiatorWaitsForSomeone`: `_onClientClose` removes the participant and does
  not look at the transaction, so when the last one to answer leaves, the
  initiator stays in gotOffer and the next offer in the session throws.
* `StrictlyIncreasing`: the loop over receivers returns at the first one that
  drops a packet, so the receivers after it lose the packet too, and their
  rewriters are fed with the numbers of the first.

Within a transaction the joiner is sent an offer, but with the participant id 0
(`controller/controller.cc:186`, "TODO: set correct participant id").
`rpc::Offer::to_json` leaves that out and the browser drops an offer without
participant (`client/src/SignalClient.ts:170`), so the joiner is offered nothing and
the transaction waits for its answer.  `MessagesUnderstood` says that this is the only
message anybody drops.

What the passing run of Forwarding assumes is where the heuristic of the
rewriter works.  Frame numbers are 16 bits wide but compared as plain integers
(`lib/sequence_rewriter.cc:148`): once they have gone round every packet is taken for
one of a past frame, and frames that are dropped are no longer taken out of the
numbers.  A path of `forwarding_fanout` has them go round with nothing dropped, which
does no harm; with `adaptive |-> {1}` on a path that reaches `FrameMod`, `GapFree`
fails.  Also outside of the assumptions
`StrictlyIncreasing` fails: a lost frame of a single
packet is counted as two dropped packets (`lens |-> {1}` where the last packet of a frame may be lost); a target
that changes within a frame makes the last packet add the whole frame to the drop
count (`MidFrame = TRUE`); a packet that comes after a later frame was dropped, or
after a frame of one packet overtook another (`window |-> 2` with `adaptive |-> {1}`
or `lens |-> {1}`); and a second receiver when the last packets of
frames are lost, even if nobody adapts, because its rewriter reads the number that
the first one wrote.  These are limits of a heuristic that documents itself as one,
and the runs stay inside them.  The theorems of section 6 say exactly how far it
works: they name the conditions (`LastAdapts`, `InOrder`, `Whole`, `Unwrapped`) and hold
for all streams that satisfy them.

`SwitchFollowsSession` and `SendStreamKnownFirst` are about a switch to which no
command was started while another write was under way (`behind[n] = 0`), by the same
handler or by the one before.  After that they do not hold, as `ParticipantOnSwitch`
shows for the simplest command: the lost one is never repeated.  `behind` never
decreases while the switch stays, so `controller_signalling`, which stops before the
first such write (`MaxBehind = 0`), reaches the very states that the properties are
about; in these clients vanish and come back, handlers throw, and other handlers run
between the start and the completion of a write.
The switch stays connected there; with a switch that restarts
`SwitchFollowsSession` does not hold, as the controller never repeats what it told a
switch.  In `controller_switches` switches come and go and writes overlap.  For a
switch that stays (`SteadySwitch`) both properties are proved for any number of clients
and tracks and any `MaxBehind`.

`StoredTargetInForce` and `ForwardingComplete` are about sessions whose streams have
SSRCs of their own (`~Collision(s)`).  Without that condition the first is false as
well: if two video streams of a sender have the same SSRC and the announcement of
one is lost, two receive streams share one entry of the table, and a target set for
one is applied to the other while the agent still stores the old one.

Every property of a passing run has a mutant, a variant of a definition with a
plausible mistake under which TLC reports the property violated.

## 4 Bounds

* `Clients`, `MaxParticipants`: three clients are the least with which somebody
  joins or leaves while two others are in a transaction.  Participant ids are
  never reused, so `MaxParticipants` bounds all that ever join a session: a client
  that comes back uses up another.
* `Mids`: one track in the runs of Controller; a second one would make a handler write
  two commands, one behind the other.  In `negotiation_descriptions` an audio and a
  video track each, so that offers grow and repeat.
* `IceKinds`: "later" in `controller_signalling`, so that what a session keeps, the first
  candidate, is not what a description is accepted for; "ok" in the others.  In
  `negotiation_descriptions` lists may be empty as well, and handlers throw.
* `MaxBehind`: how often a write to a switch endpoint is started behind another: once in
  `controller_switches` and `controller_overlap`, not at all in `controller_signalling`,
  where nothing is said of what comes after, nor in `controller_liveness`: what
  arrives has no effect on a session, and if the process ends its transactions do too.
* `CandidateLists`: the better candidate second; the first one outside the subnet;
  none.  Three browsers: the third joins while a transaction is under way.
* `SwitchPorts`: two endpoints, since a close may remove the other's entry.
* `SeqMod` stands for 2^16.  It is larger than the number of packets sent, so
  that distinct numbers stay distinct, and `FirstSeq` is close to it, so that they
  wrap around.  `FrameMod` stands for 2^16 as well; the frames of one path start close
  to it.
* `frames`, `lens` of a path: three or four frames of up to three packets have a
  first, an inner and a last packet, and frames before, in and after a drop.
  `Templates` 1, 2, 3 are kept by all targets, dropped by lo, dropped by lo and mid.
* `MaxRetargets`: down and up again.
* `pids` of a setting: three where one stream needs two receivers, otherwise two.
* `ssrcs`: as many as force a collision or avoid it; `bitrates` one for each
  target, on both sides of a threshold; `maxReport`: two SSRCs, for an estimate that
  ends at an unknown one.  `checkers`: whose browser sends connectivity checks;
  the validated flags have no effect on anything else.
* `MaxGroups`, `MaxNodes`, `MaxRids`, `TableSize` stand for 64000, 2^32 - 1, 2^16 - 1
  and 256.  They are small enough for replication ids and table entries to run out
  after some streams work, and large enough for two meetings.  `Addrs` has three
  participants on the host of the clients, one on the controller's and one on a
  host the switch does not know.
* `MaxQueue`: a call is made only when fewer messages are under way, so that
  streams are read, sent and lost in between; `MaxFaults`: one lost connection or
  one restart.
* `MaxClicks`: three, so that both buttons overlap and one is clicked twice;
  `MaxOffers`: two offers of the controller, to the same connection or to two.

Clients are symmetric in Controller; the symmetry is used in `controller_signalling`
and `controller_switches`, which check no liveness.

## 5 Fairness

`FairSpec` assumes weak fairness of the answer of each client: a browser that was
sent an offer that names a participant answers it (`P4SFUClient._onRemoteOffer` only awaits
local promises and then sends), and the event loop reads it; and of the completion of
each write to a switch, which the event loop reads as well.  The offer a joiner is sent names
nobody (section 3), so nothing is assumed of its answer, and
`TransactionEnds` excludes a session that waits for it.  Nothing is assumed of offers,
hellos or closes.  In `controller_liveness` nobody vanishes: `controller_stuck` shows that
otherwise the property is false.  A transaction also ends when the process does.

`BrowserClient!Spec` assumes weak fairness of the browser's event loop (the next
call in the chain of each connection, the end of gathering) and of the answer of
getUserMedia, which may be a refusal.  Nothing is assumed of the controller, which may
wait for others for ever (`InitiatorWaitsForSomeone`, and the joiner of section 3): `SharesTakeEffect`
says that shared media is agreed on unless an offer is never answered.  Nothing is
assumed of clicks or of the connection, which may close.

## 6 Proofs

All theorems hold for every value of the constants that satisfies the assumptions
named here; TLC evaluates those on each run.  Every theorem `Spec => []P` is proved
by an inductive invariant: it holds initially, each action has a lemma that it
preserves it, and P follows.

| module | theorem | proves |
|---|---|---|
| ControllerProofs | `TypeCorrect`, `OneInitiatorAlways`, `ReceivesOnlyWhatIsSentAlways` | `TypeOK`, `OneInitiator`, `ReceivesOnlyWhatIsSent` |
| ConnectionProofs | `OneConnectionPerParticipantAlways`, `AwaitedOfferOutstandingAlways`, `InitiatorAnsweredWhenCompleteAlways`, `SwitchEntriesBackedAlways` | the properties of these names; the third is an action property |
| | `SwitchFollowsSessionAlways`, `SendStreamKnownFirstAlways` | `SteadySwitch => ...`, the properties of these names |
| ForwardingProofs | `ForwardingTypeCorrect` | `TypeOK` |
| | `NothingStarvedAlways` | `LastAdapts => NothingStarved` |
| | `GapFreeInOrder` | `LastAdapts /\ InOrder /\ Unwrapped => GapFree` |
| | `StrictlyIncreasingInOrder` | the same for `StrictlyIncreasing`, up to `SeqMod` packets |
| | `NumbersSurviveReordering` | `Whole /\ Unwrapped => GapFree`, and `StrictlyIncreasing` up to `SeqMod` packets |
| TofinoProofs | `IdsDistinctAlways` | `IdsDistinct` |
| TofinoRuleProofs | `RoutesInMeetingAlways`, `ReceiversReachedAlways`, `NothingForgottenAlways`, `EndsOnlyIfAlways`, `ChecksAlwaysAnswered` | `RoutesInMeeting`, `ReceiversReached`, `NothingForgotten`, `EndsOnlyIf`, `ChecksAnswered` |
| | `RulesKeptAlways` | the action property `RulesKept` |
| | `SwitchImplementsMediaRouter` | the refinement of MediaRouter |
| BrowserProofs | `BrowserTypeCorrect`, `OneAnswerPerOfferAlways`, `OneOfferAtATimeAlways` | `TypeOK`, `OneAnswerPerOffer`, `OneOfferAtATime` |
| SwitchAgentProofs | `AgentTypeCorrect`, `StopsOnlyOnCollisionAlways`, `DestinationsArePeersAlways`, `StoredTargetInForceAlways`, `ForwardingCompleteAlways` | the properties of these names |
| | `ImplementsMediaRouterAlways` | the refinement of MediaRouter |

### Sessions (ControllerProofs)

Assumptions: `MaxParticipants` is a natural number, `IceKinds` are kinds that
`Session` knows, `SwitchPorts` is a finite set of natural numbers (std::map iterates
over endpoints in order), `None` is not an offer.

`OneInitiator` and `ReceivesOnlyWhatIsSent` are not inductive: `removeParticipant`
leaves what others received from the one who left, and `nextParticipantId` could, as
far as they say, hand out an id that is still mentioned somewhere.
`SessionInv` adds what rules that out, for every session:

* `IdsGiven`: ids in use were given out, so the next one is new;
* `AbsentBlank`: an id that is not in use is in stable and sends nothing;
* `NothingFromFuture`: nobody receives from an id that was not given out yet;
* `AtMostOneInitiator`, `InWhatIsOut`: the two properties for one session.

Each operator of `Session` has a lemma that it preserves the type of a session and
one that it preserves these; each action then changes one session by one or two of
these operators, or all of them by `NewSession` when the process ends.

### Sessions and connections (ConnectionProofs)

* `ConnInv` is behind `OneConnectionPerParticipant`.  `AllPlaced` says that the
  entry of a participant is the only one with its id and belongs to a socket whose
  close is still to come; since entries are never erased, `EntriesGiven` is needed:
  also stale entries name ids that were given out, so that the next id is in none
  of them.  `UnregisteredBlank`: a connection without hello names nobody.
* `AwaitedOfferOutstanding` is inductive together with `ConnInv` and `SessionInv`: an
  offer is written to the connection of a participant, and that there is only one
  such connection is what makes it the right one.
* `InitiatorAnsweredWhenComplete` rests on `AllServed`: whoever is neither the
  initiator nor still to answer has what the initiator sends.  Joiners and clients
  that leave within the transaction are the hard cases.
* `SwitchEntriesBacked` counts: a close removes one entry and one socket, though
  perhaps not of the same switch, so that only cardinalities can be compared.
* `SwitchFollowsSession` and `SendStreamKnownFirst` hold for a switch that stays
  (`SteadySwitch`, a condition on the constants: one endpoint, which does not vanish of
  itself), and they say themselves until when: `behind` of the endpoint is 0.  `Unspoilt`,
  that no command was started behind another on any endpoint, is their common condition;
  it cannot become true again (`NextUnspoilt`), and while it holds each handler writes at
  most one command, to a socket without a write under way (`StartedAlone`), which arrives
  (`CommandUnspoilt`).  `FollowsInv`, which is inductive as long as `Unspoilt` holds, adds
  that the socket is up exactly while the table has its entry, that the entry is that
  of the socket, and that no write failed (so a command is never lost and the agent
  never replaced), and that nobody is in a session before the switch connects (so its
  agent is told everything).  That the receive command finds its send stream follows
  from the check of `addAnswer`, which refuses media the initiator does not send, and from
  the agent having been told of all the initiator sends.

### Numbers of a stream (ForwardingProofs, LoopLemmas)

Assumption: `ForwardingAssumption` (numbers have the width of `SeqMod`, targets are at
most hi, paths are paths).  The theorems are about any number of receivers, frames
and packets; `BufferSeq`, the loop over the actions, is a recursive function and is
followed by an induction of LoopLemmas.  The conditions are on the constants, the
chosen path and how far the stream has come, and each is needed (section 3):

* `LastAdapts`: targets change between frames only, and only that of the last action,
  since the loop of `_handleRTP` returns at the first action that drops the packet;
* `InOrder`: packets arrive in the order sent; the last packet of a frame is not lost,
  since it tells the length of a dropped frame; where both the first packet and
  an inner one of a frame may be lost, a frame has at most three, since the
  rewriter takes the first packet of a frame that it sees for the first or second
  one; a frame does not use up all numbers;
* `Whole`: nobody adapts and nothing is lost, in any order in which no whole frame
  is overtaken, which the rewriter would take for dropped;
* `Unwrapped`: the number of the frame being sent is below `FrameMod`: frame numbers have
  not gone round.  Until then a packet bears the number of its frame (`FrameOfPacket`) and
  a later frame has a larger number, on which `Knows` and `Within` rest; afterwards the
  property is false of a stream that is adapted (section 3).

`StarvedInv`: all actions but the last keep the target hi (`OthersKeepAll`), so each
packet reaches every action that is due it, and what a receiver is due is in flight,
lost or forwarded (`Accounted`).  `GapFree` says nothing about the rewriter, and cannot
be inductive.  `GapInv` says what its members mean at each point of a frame
(`Waiting`, no packet in flight; `InFlight`, one): how much the number and the rank of
what was forwarded differ (`Agreed`), what the rewriter knows of the latest frame
and of a frame that is being dropped (`Knows`), and that differences stay below
`SeqMod` (`Dense`).  `WholeInv` is for reordering: packets in flight carry what the sender
counted (`Sound`), the rewriter has dropped nothing and handed each packet on
with its own number (`Passed`), and it has seen each frame or has packets of it still
coming (`Within`).

### Numbers and rules of the Tofino switch (TofinoProofs, TofinoRuleProofs)

Assumptions: `TofinoAssumption`, `TofinoSwitchAssumption` (limits are natural numbers,
an address is a pair, streams are streams of the meetings) and, for the theorems
that send packets through the pipeline, `PipelineAssumption` (section 2).

`IdsDistinct` alone does not say that a search finds a number.
`IdsHold` adds that the dictionaries are finite: a search is made when there are
fewer entries than numbers, so by counting some number is free
(`LowestFreeIsFree`), and an entry with a free number keeps a dictionary injective
(`WithNewValue`).  Every step of `add_stream` has a lemma; the exceptions and early
returns between the steps are covered since each lemma holds for a state in which
the process has already ended.

`RulesInv` says for every route by which meeting it is justified (`RouteIn`): its
sender replicates to the group of that meeting, its replication id is the
receiver's there, and both are participants; and for every group that its members
are nodes of participants (`GroupIn`).  The argument is monotonicity: every step
only adds (`Grows`), so a justification never disappears, and the steps before the
first route leave routes and groups alone (`Prepares`).  With an early return in
between, what was prepared is simply not used.  `RulesKept` is `Grows` for a whole
message.

`RulesInv` says that rules are justified, not that they are there.  `CallsHold` does,
with the history `served` of the messages taken: everything in the tables comes from an
`add_stream` that was taken (`Explained`); while the process runs each of them is
completely installed (`Installed`) or lacks an identifier for good, because the numbers
ran out before it came (`Stuck`), and every route is that of an installed one
(`Settled`); and when the process has ended, another message was taken or there is one
of the causes that `EndsOnlyIf` lists (`Excuse`).  Within one `add_stream`, between
whose steps the rules of the stream are incomplete, `Work` holds instead, and
each step has a lemma that what it is for is there afterwards and what was there
still is.  From `CallsHold` follow

* `EndsOnlyIf`: an entry is refused only if its key is there with another value or the
  table is full, and `Explained` excludes the first unless a participant is in two
  meetings;
* `ReceiversReached`: the steps of the pipeline are followed for a packet of an
  installed stream; that no other node of the group makes a second copy, or one for
  another port, rests on `IdsDistinct` and on each node being that of a participant
  (`Explained`);
* the refinement: while the process runs its flows are just its routes (`SettledFlows`),
  and the routes an `add_stream` adds are its own, all of them once it is installed; an
  ending process leaves one request half done, a restart is the flush, and every other
  step leaves the flows alone.

`NothingForgotten` has an invariant of its own: what the script has a receive stream
for is in the queue or was taken, since the connection last opened (`Asked`).

### The browser (BrowserProofs)

Assumption: `MaxClicks` and `MaxOffers` are natural numbers.  `BrowserInv` is `TypeOK`
with three parts.

* `AnswerInv`: the calls for an offer are in the chain one after the other (`InTurn`),
  an unanswered offer keeps one connection busy, nothing else keeps one busy, and
  none is when all are answered.  That an answer is sent at the end of
  gathering for one connection while another has calls in its chain is what has to
  be ruled out.
* `OfferInv`: at most one call in the chain of the send connection sends an offer or
  sets its answer (`Marks`); while there is one, or an offer is under way, the
  connection has a local offer whose candidates are gathered.
* `ClicksInv`: no more requests for media are under way than there were clicks.

### The switch agent (SwitchAgentProofs, LoopLemmas)

Assumption: `SwitchAgentAssumption` (sessions are natural numbers, `ZeroAddr`, where
the agent has no address to send to, is nobody's, main SSRCs are even and not the
one of feedback).

Loops over compound packets are recursive functions along a sequence of any
length.  Their induction does not need the library's induction theorems, which take
an operator as a parameter: LoopLemmas shows that a set which contains 0 and with
n - 1 also n contains all numbers up to N (`UpTo`), from the well-founded order of
Nat, and that such a recursive function exists.

`AgentInv` has the types of the variables and of the table, where send streams come
from (`SendsAnnounced`, `RtxAdded`), that receivers are asked for only after the
sender (`AskedAnnounced`), that senders and destinations are peers, and
`StopsOnlyOnCollision`: the exceptions of the agent are ruled out case by case from
the others.

The refinement is proved step by step: under `AgentInv` each action of the agent is a
step of MediaRouter on the flows of the table, or leaves them unchanged.

`WaysInv` is behind `StoredTargetInForce` and `ForwardingComplete`.  The first is not
inductive: an action of the table may be shared by receive streams that the agent
tells apart, and a bandwidth estimate finds the stream by SSRC and the data plane by
address.  `WaysInv` says that send streams are told apart by session and SSRC
(`SendsAgree`), that receive streams come from them (`RecvsSent`), and, of each
session in which no two streams have the same SSRC, that receive streams have their
ways (`Placed`), are told apart by receiver and SSRC, that feedback has no other
way, that nothing else is forwarded, and that the targets agree (`TargetsIn`).  A
collision that comes later releases its session and does not touch the others.

### Only model-checked

* `TransactionEnds`, `OffersAnswered`, `SharesTakeEffect`: liveness under fairness is
  out of the prover's reach.
* The properties of Negotiation: they compare what parser and formatter compute from
  sequences of lines, by folds and filters of any length.  That printing and
  parsing are inverse needs an induction over data for each of those operators.
* `GapFree` and `StrictlyIncreasing` outside the conditions of their theorems: of the
  paths of the run, the one that may lose the last packets of frames of three
  (`GapFree` says nothing about it).

## 7 What is not modelled

* The layout of SDP and JSON text; STUN, RTP and RTCP formats, the AV1 descriptor
  parser, TLS and WebSocket framing: conversions without state.
* Servers, timers, logging, statistics, command line tools, the user interface,
  main programs and the tools for measurements.
* STUN credentials and message integrity.
* The repeated hello of a client that is registered: it only writes a hello.
* `rewrite_seqnos.p4`: the packet type whose packets it counts is set nowhere, so
  it subtracts 0.  `video_layer_suppression`: nothing fills it, and the exclusion
  id it would choose is overwritten.
* The BlueField program: a stateless parser and forwarding pipeline.
* In BrowserClient, the text of descriptions and the statistics.
* Which bytes a command started behind another is written with: it arrives or not,
  and the agent may end.  The memory of a temporary that is gone may also hold another
  message by then.

Things seen while modelling that no run is about: the agent of the Tofino switch asks for
the removal of rules ("API call to the PRE: Remove data plane rules",
`sfu_switch_agent.py:220`), but class PRE has no `remove_stream`, so the process ends with
an AttributeError (a cause that `EndsOnlyIf` lists) and the switch goes on forwarding; a session uses the first
candidate it kept, in the order of the description, where comments speak of the one
with the highest priority (`lib/session.cc:141`, `:148`); the comment at
`tofino_interface.py:143` and the value it describes disagree on the default
structure of a stream; a replication id is unique over all meetings, although the
egress table would allow one per meeting; copies for the sender itself are not
pruned, because rid and exclusion ids are overwritten before ingress ends, and
leave with the address of the SFU as destination; every routed copy has the MAC
address of the clients' host, so a receiver on the controller's host does not
accept it (`ReceiversReached` is about the former).

## 8 Plan

Done: the modules of section 2, their runs, and the proofs of section 6.  Next, in
this order:

1. **STUNAgent**: credentials, integrity and the use candidate flag, with a
   browser that restarts ICE.
2. **System**: Controller, BrowserClient and SwitchAgent composed over their
   channels, shown to implement an abstract conference.
3. **Descriptions**: that `MediaDescription` inverts `mediaLines`, with the folds of SDP
   as recursive functions, from which `ReadsItsOwn` and `OffersConveyStreams` follow.
