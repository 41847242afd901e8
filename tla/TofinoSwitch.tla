---------------------------- MODULE TofinoSwitch ----------------------------
(***************************************************************************)
(* The Tofino switch with its control plane: a server that keeps streams   *)
(* and asks for rules, the process that fills the tables (TofinoPRE), the  *)
(* WebSocket between them, and the pipeline (TofinoPipeline).              *)
(*                                                                         *)
(* There are two servers: class SFUSwitchAgent of sfu_switch_agent.py, and *)
(* TofinoDataPlane (lib/tofino_data_plane.cc) in the agent written in C++. *)
(*                                                                         *)
(* The process reads one message at a time.  The connection may break, and *)
(* what was not read is lost; the process keeps its state and connects     *)
(* again, to a new SFUSwitchAgent.  The process may stop and be started    *)
(* again, and then flushes the tables.                                     *)
(***************************************************************************)
EXTENDS TofinoPipeline

CONSTANTS
    Servers,        \* "script", "adapter" or both
    Streams,        \* send streams [mid, src, ssrc, rtx] there may be
    MaxQueue,       \* bound on messages under way when the next call is made
    MaxFaults       \* bound on connections lost and restarts of the process

ASSUME TofinoSwitchAssumption ==
    /\ Servers \subseteq {"script", "adapter"}
    /\ Streams \subseteq [mid : Meetings, src : Addrs, ssrc : SSRCs, rtx : SSRCs \cup {NoRtx}]
    /\ {MaxQueue, MaxFaults} \subseteq Nat

VARIABLES
    server,   \* which of the servers it is
    conn,     \* none (never connected), open, closed
    snd,      \* SFUSwitchAgent.snd_streams, in order of insertion
    parts,    \* SFUSwitchAgent.participants <<mid, addr>>, in order of insertion
    rcv,      \* SFUSwitchAgent.rcv_streams, in order of insertion
    queue,    \* messages sent and not read
    served,   \* messages the process has taken since it flushed the tables
    faults    \* connections lost and restarts of the process

agentVars == <<snd, parts, rcv>>
vars == <<server, conn, snd, parts, rcv, queue, served, faults, pre>>

SwitchInit ==
    /\ Init
    /\ server \in Servers
    /\ conn = "none"
    /\ snd = <<>> /\ parts = <<>> /\ rcv = <<>>
    /\ queue = <<>>
    /\ served = {}
    /\ faults = 0

-----------------------------------------------------------------------------
(* class SFUSwitchAgent.  meetings holds the meetings of the participants. *)

In(x, s) == x \in Values(s)

\* The elements of s that are in S, in order (SelectSeq, in a form that can be
\* reasoned about).
Only(s, S) ==
    LET kept[n \in 0..Len(s)] ==
            IF n = 0 THEN <<>>
            ELSE IF s[n] \in S THEN Append(kept[n - 1], s[n]) ELSE kept[n - 1]
    IN kept[Len(s)]

\* active_rcv_stream_keys: every stream to the other participants of its meeting.
active(snds, ps) ==
    LET n == Len(ps)
        pairs == [i \in 1..Len(snds) * n |-> <<snds[1 + ((i - 1) \div n)], ps[1 + ((i - 1) % n)]>>]
        heard == Only(pairs, {x \in Values(pairs) : x[1].mid = x[2][1] /\ x[1].src # x[2][2]})
    IN [i \in DOMAIN heard |-> [mid |-> heard[i][1].mid, src |-> heard[i][1].src,
                                ssrc |-> heard[i][1].ssrc, rtx |-> heard[i][1].rtx,
                                dst |-> heard[i][2][2]]]

\* get_api_message.  Of the calls that class PRE does not have, only the name
\* matters.
Message(api, r) ==
    IF api # "add_stream" THEN [api |-> api]
    ELSE [api |-> api, mid |-> r.mid, src |-> r.src, ssrc |-> r.ssrc, rtx |-> r.rtx, dst |-> r.dst]

\* Mutant: one call, one message.
Messages_first(api, rs) == IF rs = <<>> THEN <<>> ELSE <<Message(api, rs[1])>>

Messages(api, rs) == [i \in DOMAIN rs |-> Message(api, rs[i])]

\* recompose_receive_streams: what has become inactive is removed, then what is
\* new is added, one message each.
recompose_receive_streams(snds, ps) ==
    LET now  == active(snds, ps)
        kept == Only(rcv, Values(now))
        gone == Only(rcv, Values(rcv) \ Values(now))
        new  == Only(now, Values(now) \ Values(rcv))
    IN /\ snd' = snds
       /\ parts' = ps
       /\ rcv' = kept \o new
       /\ queue' = queue \o Messages("remove_stream", gone) \o Messages("add_stream", new)

Serving(kind) == server = kind /\ conn = "open" /\ Len(queue) < MaxQueue

AgentAddStream(s) ==
    /\ Serving("script")
    /\ ~\E i \in DOMAIN snd : snd[i].mid = s.mid /\ snd[i].src = s.src /\ snd[i].ssrc = s.ssrc
    /\ recompose_receive_streams(
          Append(snd, s),
          IF In(<<s.mid, s.src>>, parts) THEN parts ELSE Append(parts, <<s.mid, s.src>>))
    /\ UNCHANGED <<server, conn, served, faults, pre>>

\* A participant without streams leaves the meeting.
AgentRemoveStream(s) ==
    LET left == Only(snd, Values(snd) \ {s})
        stays == \E i \in DOMAIN left : left[i].mid = s.mid /\ left[i].src = s.src
    IN /\ Serving("script")
       /\ In(s, snd)
       /\ recompose_receive_streams(
             left, IF stays THEN parts ELSE Only(parts, Values(parts) \ {<<s.mid, s.src>>}))
       /\ UNCHANGED <<server, conn, served, faults, pre>>

\* The quality itself is only stored and passed on.
AgentSetQuality(r) ==
    /\ Serving("script")
    /\ In(r, rcv)
    /\ queue' = Append(queue, Message("set_quality", r))
    /\ UNCHANGED <<server, conn, agentVars, served, faults, pre>>

-----------------------------------------------------------------------------
(* class TofinoDataPlane.  Without a connection it only writes to the log; a *)
(* connection that was closed is kept and written to in vain.                *)

AdapterSends(api) ==
    /\ Serving("adapter")
    /\ queue' = Append(queue, [api |-> api])
    /\ UNCHANGED <<server, conn, agentVars, served, faults, pre>>

\* The message of addStream has no mid, and has ssrc_retx for ssrc_rtx.
\* removeStream sends none.
AdapterAddStream == AdapterSends("add_stream without mid")

AdapterAdjustDecodeTarget == AdapterSends("disable_av1_enhancement_layer")

-----------------------------------------------------------------------------
(* tofino_client_agent and the connection *)

\* The script makes a new SFUSwitchAgent, the adapter replaces its connection.
Connect ==
    /\ Running(pre)
    /\ conn # "open"
    /\ conn' = "open"
    /\ snd' = <<>> /\ parts' = <<>> /\ rcv' = <<>>
    /\ UNCHANGED <<server, queue, served, faults, pre>>

Disconnect ==
    /\ conn = "open" /\ Running(pre)
    /\ faults < MaxFaults
    /\ conn' = "closed"
    /\ queue' = <<>>
    /\ faults' = faults + 1
    /\ UNCHANGED <<server, agentVars, served, pre>>

\* One message.  An exception ends the process, and the connection with it.
Recv ==
    /\ conn = "open" /\ queue # <<>>
    /\ pre' = OnMessage(pre, Head(queue))
    /\ served' = served \cup {Head(queue)}
    /\ IF Running(pre') THEN conn' = conn /\ queue' = Tail(queue)
       ELSE conn' = "closed" /\ queue' = <<>>
    /\ UNCHANGED <<server, agentVars, faults>>

\* The process stops, if it has not ended, and is started again.  It also stops when
\* the server says goodbye (ConnectionClosedOK), which the loop does not catch.
RestartProcess ==
    /\ faults < MaxFaults
    /\ Restart
    /\ faults' = faults + 1
    /\ conn' = IF conn = "none" THEN "none" ELSE "closed"
    /\ queue' = <<>>
    /\ served' = {}
    /\ UNCHANGED <<server, agentVars>>

SwitchNext ==
    \/ \E s \in Streams : AgentAddStream(s) \/ AgentRemoveStream(s)
    \/ \E i \in DOMAIN rcv : AgentSetQuality(rcv[i])
    \/ AdapterAddStream
    \/ AdapterAdjustDecodeTarget
    \/ Connect
    \/ Disconnect
    \/ Recv
    \/ RestartProcess

SwitchSpec == SwitchInit /\ [][SwitchNext]_vars

-----------------------------------------------------------------------------
(* Properties *)

SSRCsOf(m) == {m.ssrc, m.rtx} \ {NoRtx}

AddsServed == {m \in served : m.api = "add_stream"}

\* Extensions a media packet may come with: the descriptor is behind an element
\* that the parser can step over, or behind one that it cannot.
Exts ==
    LET av1 == [id |-> AV1_ID, len |-> 2]
    IN {[format |-> "one", template |-> id, elems |-> e] :
          id \in {0, 1},
          e \in {<<[id |-> 1, len |-> 2], av1>>, <<[id |-> 1, len |-> 5], av1>>}}

ToSFU(a, kind, ssrc, ext) ==
    [port |-> Eport(a), eth |-> "ip", src |-> a[1], sport |-> a[2], dst |-> SFU_IP,
     dport |-> SFU_UDP_PORT, kind |-> kind, ssrc |-> ssrc, ext |-> ext]

\* Packets of a stream: media and sender reports.
PacketsOf(a, ssrc) == {ToSFU(a, kind, ssrc, ext) : kind \in {"rtp", "sr"}, ext \in Exts}

\* Addresses of participants that copies of a packet of the stream are sent to.
Routed(t, a, ssrc) ==
    LET pkt == ToSFU(a, "rtp", ssrc, CHOOSE e \in Exts : TRUE)
    IN {Egress(t, pkt, n).to : n \in Replicas(t, pkt)} \cap Addrs

Flows(t) == UNION {{<<k[1], k[2], to>> : to \in Routed(t, k[1], k[2])} : k \in DOMAIN t.repl}

\* The ids a stream and its receiver need were given out.
HasIds(m) == {<<m.mid, m.src>>, <<m.mid, m.dst>>} \subseteq DOMAIN pre.rid

\* Every packet of a stream that the process took an add_stream for reaches the
\* receiver, if that is on the host of the clients: one copy, by its port and
\* with its MAC address, whichever streams and participants came before or after
\* it, what was lost and asked for again, and whatever the parser finds.
ReceiversReached ==
    Running(pre) =>
        \A m \in AddsServed :
            HasIds(m) /\ m.dst[1] = CABMEATY02_IP =>
                \A ssrc \in SSRCsOf(m) : \A pkt \in PacketsOf(m.src, ssrc) :
                    {c \in Switch(pre, pkt) : c.to = m.dst}
                        = {[port |-> Eport(m.dst), mac |-> MacOf(m.dst[1]), to |-> m.dst]}

\* All the agent has streams for is asked for: when nothing is under way, the
\* process has taken an add_stream for every receive stream.
NothingForgotten ==
    conn = "open" /\ server = "script" /\ queue = <<>> =>
        \A i \in DOMAIN rcv : Message("add_stream", rcv[i]) \in served

\* The process ends only on a call that class PRE does not have or cannot read,
\* on a host it does not know, on a participant in two meetings, or after it ran
\* out of ids or table entries.  Asking again for what is installed, after a lost
\* connection, does no harm.
EndsOnlyIf ==
    ~Running(pre) =>
        \/ served # AddsServed
        \/ \E m \in AddsServed : ~{m.src[1], m.dst[1]} \subseteq DOMAIN EgressPorts
        \/ \E m, n \in AddsServed : m.mid # n.mid /\ {m.src, m.dst} \cap {n.src, n.dst} # {}
        \/ \E m \in AddsServed : ~HasIds(m)
        \/ Cardinality(DOMAIN pre.repl) = TableSize
        \/ Cardinality(DOMAIN pre.route) = TableSize

\* q has all the rules of p, as they are there, and all members of its groups.
Keeps(p, q) ==
    /\ \A t \in {"repl", "node", "prune", "route"} : \A k \in DOMAIN p[t] :
          k \in DOMAIN q[t] /\ q[t][k] = p[t][k]
    /\ \A g \in DOMAIN p.group : g \in DOMAIN q.group /\ p.group[g] \subseteq q.group[g]

\* A rule that is installed stays as it is until the process is started again, and
\* nobody is taken out of a group: no call, asked for twice, refused or failing
\* half way, changes what an earlier one has set up for another stream.
RulesKept == [][RestartProcess \/ Keeps(pre, pre')]_vars

\* A connectivity check of a client reaches the agent, and the answer the agent
\* injects (TofinoDataPlane::sendPacket) reaches the client, wherever the client
\* is: the two ways pass through different rules of packet_consumer.
ChecksAnswered ==
    \A a \in {x \in Addrs : x[1] \in DOMAIN EgressPorts} :
        LET check  == ToSFU(a, "stun", NoRtx, CHOOSE e \in Exts : TRUE)
            answer == [check EXCEPT !.port = CPU_PORT, !.src = SFU_IP, !.sport = SFU_UDP_PORT,
                                    !.dst = a[1], !.dport = a[2]]
        IN /\ {c.port : c \in Switch(pre, check)} = {CPU_PORT}
           /\ Switch(pre, answer) = {[port |-> Eport(a), mac |-> MacOf(a[1]), to |-> a]}

\* The switch implements the abstract data plane.
RequestOf(m) == {<<m.src, ssrc, m.dst>> : ssrc \in SSRCsOf(m)}

Router == INSTANCE MediaRouter WITH
    Requests  <- SUBSET (Addrs \X SSRCs \X Addrs),
    alive     <- Running(pre),
    requested <- {RequestOf(m) : m \in AddsServed},
    forwarded <- Flows(pre)

\* Media goes only where it was asked for, with one request at a time, and stays
\* forwarded until the process is started again: no request, refusal or failure
\* takes away or redirects what another one installed.
ImplementsMediaRouter == Router!Spec

=============================================================================
