------------------------------ MODULE TofinoPRE ------------------------------
(***************************************************************************)
(* The control plane of the Tofino switch (tofino_interface.py): class PRE *)
(* gives meetings multicast groups and participants node and replication   *)
(* ids, and fills the tables of the packet replication engine and of       *)
(* scallop_tofino.p4.  tofino_client_agent hands it one message at a time. *)
(*                                                                         *)
(* The state is one record, and add_stream a composition of its numbered   *)
(* steps.  A step may return from the method early or raise: exit says so, *)
(* and the steps after it do nothing.  An exception ends the process; the  *)
(* switch keeps the tables as they are then.                               *)
(*                                                                         *)
(* sender_meeting_map is written and never read.  The tofino_* sets hold   *)
(* what was installed, which is what the tables hold.                      *)
(***************************************************************************)
EXTENDS Naturals, FiniteSets

CONSTANTS
    Meetings,     \* meeting ids
    Addrs,        \* <<host, port>> of participants
    SSRCs,        \* SSRCs of their streams, without NoRtx
    EgressPorts,  \* EGRESS_PORTS: the switch port of each known host
    MaxGroups,    \* 64000 multicast groups
    MaxNodes,     \* 2^32 - 1 node ids
    MaxRids,      \* 2^16 - 1 replication ids
    TableSize     \* 256 entries in packet_replication and in ipv4_route

ASSUME TofinoAssumption ==
    /\ MaxGroups \in Nat /\ MaxNodes \in Nat /\ MaxRids \in Nat /\ TableSize \in Nat
    /\ SSRCs \subseteq Nat \ {0}
    /\ \A a \in Addrs : a = <<a[1], a[2]>>
    /\ \A h \in DOMAIN EgressPorts : EgressPorts[h] \in Nat

NoRtx == 0        \* NO_RTX_SSRC

VARIABLE pre

-----------------------------------------------------------------------------
(* Dictionaries and tables *)

With(f, k, v) == [x \in DOMAIN f \cup {k} |-> IF x = k THEN v ELSE f[x]]

Values(f) == {f[x] : x \in DOMAIN f}

Empty == [x \in {} |-> 0]

\* PRE.__init__ flushes the tables.
NewPRE ==
    [exit  |-> "no",                   \* no, returned, raised
     parts |-> Empty,                  \* meeting_participants
     mgid  |-> Empty,                  \* meeting_mgid_map
     nid   |-> Empty,                  \* participant_nodeid_map
     rid   |-> Empty,                  \* meetingparticipant_replicationid_map
     l1    |-> {},                     \* keys of meetingparticipant_l1exclusionid_map
     repl  |-> Empty,                  \* packet_replication: <<addr, ssrc>>
     node  |-> Empty,                  \* $pre.node: node id
     group |-> Empty,                  \* $pre.mgid: group id
     prune |-> Empty,                  \* $pre.prune: exclusion id
     route |-> Empty]                  \* ipv4_route: <<addr, ssrc, rid>>

Running(p) == p.exit = "no"

\* BFRuntimeAgent.add_entry on a table of the switch: an entry that is there, and
\* one too many, are refused with an exception.
Refused(p, t, k) ==
    \/ k \in DOMAIN p[t]
    \/ t \in {"repl", "route"} /\ Cardinality(DOMAIN p[t]) >= TableSize

\* Mutant: an entry that is installed is added again.
addEntry_again(p, t, k, v) ==
    IF ~Running(p) THEN p
    ELSE IF Refused(p, t, k) THEN [p EXCEPT !.exit = "raised"]
    ELSE [p EXCEPT ![t] = With(@, k, v)]

\* Mutant: an entry that is installed is modified.
addEntry_modify(p, t, k, v) == IF ~Running(p) THEN p ELSE [p EXCEPT ![t] = With(@, k, v)]

\* Skipped if installed with this value.
addEntry(p, t, k, v) ==
    IF ~Running(p) \/ (k \in DOMAIN p[t] /\ p[t][k] = v) THEN p
    ELSE IF Refused(p, t, k) THEN [p EXCEPT !.exit = "raised"]
    ELSE [p EXCEPT ![t] = With(@, k, v)]

-----------------------------------------------------------------------------
(* 1. Local state *)

\* A host that is not in EGRESS_PORTS is a KeyError, after both have joined.
joinMeeting(p, m) ==
    LET members == IF m.mid \in DOMAIN p.parts THEN p.parts[m.mid] ELSE {}
    IN [p EXCEPT !.parts = With(@, m.mid, members \cup {m.src, m.dst}),
                 !.exit = IF {m.src[1], m.dst[1]} \subseteq DOMAIN EgressPorts THEN @ ELSE "raised"]

-----------------------------------------------------------------------------
(* 2. Identifiers *)

\* The first number from 1 that is not a value of the dictionary.
lowestFree(used, max) == CHOOSE i \in 1..max : i \notin used /\ \A j \in 1..i - 1 : j \in used

\* A dictionary that is full makes add_stream return; what the steps before it
\* have stored stays.
assignGroup(p, mid) ==
    IF ~Running(p) \/ mid \in DOMAIN p.mgid THEN p
    ELSE IF Cardinality(DOMAIN p.mgid) >= MaxGroups THEN [p EXCEPT !.exit = "returned"]
    ELSE [p EXCEPT !.mgid = With(@, mid, lowestFree(Values(@), MaxGroups))]

\* One node per participant, whatever meetings it is in.
assignNode(p, a) ==
    IF ~Running(p) \/ a \in DOMAIN p.nid THEN p
    ELSE IF Cardinality(DOMAIN p.nid) >= MaxNodes THEN [p EXCEPT !.exit = "returned"]
    ELSE [p EXCEPT !.nid = With(@, a, lowestFree(Values(@), MaxNodes))]

\* Mutant: replication ids are those of the meeting only.
assignRid_meeting(p, k) ==
    LET used == {p.rid[x] : x \in {y \in DOMAIN p.rid : y[1] = k[1]}}
    IN IF ~Running(p) \/ k \in DOMAIN p.rid THEN p
       ELSE IF Cardinality(DOMAIN p.rid) >= MaxRids THEN [p EXCEPT !.exit = "returned"]
       ELSE [p EXCEPT !.rid = With(@, k, lowestFree(used, MaxRids))]

\* One replication id per meeting and participant, k = <<mid, addr>>.
assignRid(p, k) ==
    IF ~Running(p) \/ k \in DOMAIN p.rid THEN p
    ELSE IF Cardinality(DOMAIN p.rid) >= MaxRids THEN [p EXCEPT !.exit = "returned"]
    ELSE [p EXCEPT !.rid = With(@, k, lowestFree(Values(@), MaxRids))]

\* The L1 exclusion id is the replication id, the L2 exclusion id the port.
assignXids(p, m) ==
    IF ~Running(p) THEN p
    ELSE [p EXCEPT !.l1 = @ \cup {<<m.mid, m.src>>, <<m.mid, m.dst>>}]

assignIds(p, m) ==
    LET grouped == assignGroup(joinMeeting(p, m), m.mid)
        nodes   == assignNode(assignNode(grouped, m.src), m.dst)
        rids    == assignRid(assignRid(nodes, <<m.mid, m.src>>), <<m.mid, m.dst>>)
    IN assignXids(rids, m)

-----------------------------------------------------------------------------
(* 3. Rules *)

Eport(a) == EgressPorts[a[1]]

\* add_sender_to_replication_setup, if there is such a stream.
addSender(p, m, ssrc) ==
    IF ~Running(p) \/ ssrc = NoRtx THEN p
    ELSE addEntry(p, "repl", <<m.src, ssrc>>,
                  [mgid |-> p.mgid[m.mid], rid |-> p.rid[<<m.mid, m.src>>], l2 |-> Eport(m.src)])

\* add_multicast_node
addNode(p, mid, a) ==
    IF ~Running(p) THEN p
    ELSE addEntry(p, "node", p.nid[a], [rid |-> p.rid[<<mid, a>>], eport |-> Eport(a)])

\* Mutant: a group that exists is left as it is.
updateGroup_once(p, mid) ==
    IF ~Running(p) \/ p.mgid[mid] \in DOMAIN p.group THEN p
    ELSE IF \E a \in p.parts[mid] : a \notin DOMAIN p.nid \/ <<mid, a>> \notin p.l1
    THEN [p EXCEPT !.exit = "raised"]
    ELSE [p EXCEPT !.group = With(@, p.mgid[mid], {p.nid[a] : a \in p.parts[mid]})]

\* update_multicast_group with all participants of the meeting.  One that was
\* left without an id by an earlier call is a KeyError.
updateGroup(p, mid) ==
    IF ~Running(p) THEN p
    ELSE IF \E a \in p.parts[mid] : a \notin DOMAIN p.nid \/ <<mid, a>> \notin p.l1
    THEN [p EXCEPT !.exit = "raised"]
    ELSE [p EXCEPT !.group = With(@, p.mgid[mid], {p.nid[a] : a \in p.parts[mid]})]

\* add_l2_exclusion_port
addExclusion(p, a) ==
    IF ~Running(p) THEN p ELSE addEntry(p, "prune", Eport(a), {Eport(a)})

\* Mutant: the replication id of the sender.
addRoute_sender(p, m, ssrc) ==
    IF ~Running(p) \/ ssrc = NoRtx THEN p
    ELSE addEntry(p, "route", <<m.src, ssrc, p.rid[<<m.mid, m.src>>]>>, m.dst)

\* add_ipv4_route
addRoute(p, m, ssrc) ==
    IF ~Running(p) \/ ssrc = NoRtx THEN p
    ELSE addEntry(p, "route", <<m.src, ssrc, p.rid[<<m.mid, m.dst>>]>>, m.dst)

installRules(p, m) ==
    LET senders == addSender(addSender(p, m, m.ssrc), m, m.rtx)
        nodes   == addNode(addNode(senders, m.mid, m.src), m.mid, m.dst)
        groups  == addExclusion(updateGroup(nodes, m.mid), m.src)
    IN addRoute(addRoute(groups, m, m.ssrc), m, m.rtx)

-----------------------------------------------------------------------------
(* tofino_client_agent *)

\* A call that returned early is over like any other.
Returned(p) == IF p.exit = "returned" THEN [p EXCEPT !.exit = "no"] ELSE p

add_stream(p, m) == Returned(installRules(assignIds(p, m), m))

\* Class PRE has only add_stream and update_av1_svc_structure: the other calls
\* are an AttributeError, a message without mid or ssrc_rtx is a KeyError, and
\* a message that names no known call is ignored.
OnMessage(p, m) ==
    CASE m.api = "add_stream" -> add_stream(p, m)
      [] m.api \in {"remove_stream", "set_quality", "add_stream without mid"} ->
            [p EXCEPT !.exit = "raised"]
      [] OTHER -> p

-----------------------------------------------------------------------------

Init == pre = NewPRE

\* The process is started again.
Restart == pre' = NewPRE

-----------------------------------------------------------------------------
(* Properties *)

Injective(f) == \A x, y \in DOMAIN f : f[x] = f[y] => x = y

\* Meetings, participants and participants of a meeting never share a group, a
\* node or a replication id, whatever calls returned early: a replication id is
\* what the egress pipeline tells receivers apart by.
IdsDistinct == Injective(pre.mgid) /\ Injective(pre.nid) /\ Injective(pre.rid)

\* Every route leads from a stream to a participant of the meeting whose group
\* the stream is replicated to, by the replication id of that participant there:
\* no rule takes media out of its meeting, though a route is keyed by stream and
\* replication id alone and a participant may be in several meetings.
RoutesInMeeting ==
    \A k \in DOMAIN pre.route : \E mid \in DOMAIN pre.mgid :
        /\ <<k[1], k[2]>> \in DOMAIN pre.repl
        /\ pre.repl[<<k[1], k[2]>>].mgid = pre.mgid[mid]
        /\ {k[1], pre.route[k]} \subseteq pre.parts[mid]
        /\ <<mid, pre.route[k]>> \in DOMAIN pre.rid
        /\ pre.rid[<<mid, pre.route[k]>>] = k[3]

=============================================================================
