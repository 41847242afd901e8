--------------------------- MODULE TofinoPipeline ---------------------------
(***************************************************************************)
(* The data plane of the Tofino switch (scallop_tofino.p4, consumer.p4):   *)
(* which copies of a packet leave the switch, given the tables TofinoPRE   *)
(* fills.  The pipeline keeps no state that matters: rewrite_seqnos.p4     *)
(* subtracts a count that only grows on a packet type that nothing sets.   *)
(*                                                                         *)
(* A packet is [port, eth, src, sport, dst, dport, kind, ssrc, ext], a     *)
(* copy of it [port, mac, to].  ext is the RTP header extension.           *)
(***************************************************************************)
EXTENDS TofinoPRE, Sequences

CPU_PORT           == 192
CABERNET802_PORT   == 4     \* the controller
CABMEATY02_PORT    == 44    \* the host of the clients
BLUEFIELD3_PORT_P0 == 20
BLUEFIELD3_PORT_P1 == 36

CABERNET802_IP == "10.0.211.1"
CABMEATY02_IP  == "10.0.211.2"
SFU_IP         == "10.0.211.111"
BF3_SFU_IP     == "10.0.211.222"

SFU_UDP_PORT          == 3000
BF3_LOOPBACK_UDP_PORT == 3005

\* The hosts and ports that the tables and EGRESS_PORTS of the control plane know.
ASSUME PipelineAssumption ==
    /\ \A h \in DOMAIN EgressPorts :
          \/ h = CABERNET802_IP /\ EgressPorts[h] = CABERNET802_PORT
          \/ h = CABMEATY02_IP /\ EgressPorts[h] = CABMEATY02_PORT
    /\ <<SFU_IP, SFU_UDP_PORT>> \notin Addrs

UDP == {"stun", "rtp", "sr", "rr", "nack", "pli", "udp"}

\* MAC addresses are named after the machine they belong to.
MacOf(ip) ==
    CASE ip = CABERNET802_IP -> "cabernet802" [] ip = CABMEATY02_IP -> "cabmeaty02"
      [] OTHER -> "sfu"

-----------------------------------------------------------------------------
(* consumer.p4 *)

Wild == "*"

\* packet_consumer: ingress port, kind of frame, source, destination (of an ARP
\* packet the address it asks for), consumer.  The first match counts.
ConsumerTable ==
    << <<CABERNET802_PORT,   "ip",          CABERNET802_IP, BF3_SFU_IP,     "bf_p0">>,
       <<CABMEATY02_PORT,    "ip",          CABMEATY02_IP,  BF3_SFU_IP,     "bf_p0">>,
       <<BLUEFIELD3_PORT_P0, "ip",          BF3_SFU_IP,     CABMEATY02_IP,  "clients">>,
       <<BLUEFIELD3_PORT_P0, "ip",          BF3_SFU_IP,     CABERNET802_IP, "controller">>,
       <<BLUEFIELD3_PORT_P1, "ip",          BF3_SFU_IP,     CABMEATY02_IP,  "clients">>,
       <<BLUEFIELD3_PORT_P1, "ip",          BF3_SFU_IP,     CABERNET802_IP, "controller">>,
       <<CABERNET802_PORT,   "arp_request", Wild,            SFU_IP,         "sfu">>,
       <<CABMEATY02_PORT,    "arp_request", Wild,            SFU_IP,         "sfu">>,
       <<CABERNET802_PORT,   "arp",         Wild,            Wild,            "clients">>,
       <<CABMEATY02_PORT,    "arp",         Wild,            Wild,            "controller">>,
       <<CABERNET802_PORT,   "ip",          CABERNET802_IP, SFU_IP,         "sfu">>,
       <<CABMEATY02_PORT,    "ip",          CABMEATY02_IP,  SFU_IP,         "sfu">>,
       <<CABERNET802_PORT,   "ip",          CABERNET802_IP, CABMEATY02_IP,  "clients">>,
       <<CABMEATY02_PORT,    "ip",          CABMEATY02_IP,  CABERNET802_IP, "controller">>,
       <<CPU_PORT,           "arp",         Wild,            Wild,            "null">>,
       <<CPU_PORT,           "ip",          SFU_IP,         CABMEATY02_IP,  "clients">>,
       <<CPU_PORT,           "ip",          SFU_IP,         CABERNET802_IP, "controller">>,
       <<CABERNET802_PORT,   "ip",          Wild,            Wild,            "clients">>,
       <<CABMEATY02_PORT,    "ip",          Wild,            Wild,            "controller">> >>

Matches(rule, pkt) ==
    /\ rule[1] = pkt.port
    /\ rule[2] = pkt.eth \/ (rule[2] = "arp" /\ pkt.eth = "arp_request")
    /\ rule[3] \in {Wild, pkt.src}
    /\ rule[4] \in {Wild, pkt.dst}

IsUDP(pkt) == pkt.eth = "ip" /\ pkt.kind \in UDP

\* Mutant: the last match counts.
Consumer_last(pkt) ==
    LET hits == {i \in DOMAIN ConsumerTable : Matches(ConsumerTable[i], pkt)}
    IN IF hits = {} THEN "null"
       ELSE ConsumerTable[CHOOSE i \in hits : \A j \in hits : i >= j][5]

\* packet_reflector, then packet_consumer.
Consumer(pkt) ==
    LET hits == {i \in DOMAIN ConsumerTable : Matches(ConsumerTable[i], pkt)}
    IN IF IsUDP(pkt) /\ pkt.dport = BF3_LOOPBACK_UDP_PORT
          /\ pkt.port \in {BLUEFIELD3_PORT_P0, BLUEFIELD3_PORT_P1}
       THEN IF pkt.port = BLUEFIELD3_PORT_P0 THEN "bf_p0" ELSE "bf_p1"
       ELSE IF hits = {} THEN "null"
       ELSE ConsumerTable[CHOOSE i \in hits : \A j \in hits : i <= j][5]

-----------------------------------------------------------------------------
(* SwitchIngress *)

\* The type of the packet after the first decision.
PacketType(pkt) ==
    LET consumer == Consumer(pkt)
    IN CASE consumer # "sfu" -> consumer
         [] consumer = "sfu" /\ pkt.eth = "arp_request" -> "arp"
         [] consumer = "sfu" /\ pkt.eth = "ip" /\ pkt.kind = "icmp" -> "icmp"
         [] consumer = "sfu" /\ IsUDP(pkt) /\ pkt.dst = SFU_IP /\ pkt.dport = SFU_UDP_PORT ->
               "sfu_udp"
         [] OTHER -> "drop"

\* Elements of an extension, in the format with one-byte headers and in the one
\* with two-byte headers, that the parser can step over: by their length field.
Skippable == [one |-> {0, 2, 14}, two |-> {1, 3, 20}]

\* The ids that end the extension.
EndIds == [one |-> {0, 15}, two |-> {0}]

AV1_ID == 12

\* The parser looks at three elements of [id, len] and knows a descriptor from a
\* length field of 2.
hdr_av1_isValid(ext) ==
    \E i \in DOMAIN ext.elems \cap 1..3 :
        /\ ext.elems[i].id = AV1_ID /\ ext.elems[i].len >= 2
        /\ \A j \in 1..i - 1 :
              /\ ext.elems[j].id \notin EndIds[ext.format] \cup {AV1_ID}
              /\ ext.elems[j].len \in Skippable[ext.format]

\* av1_template_id_mod_lookup as update_av1_svc_structure("L1T2") fills it.
template_id_mod(id) == id % 3

copy_to_cpu(pkt) ==
    \/ pkt.kind = "stun"
    \/ /\ pkt.kind = "rtp"
       /\ hdr_av1_isValid(pkt.ext)
       /\ template_id_mod(pkt.ext.template) = 0

\* Media and sender reports are replicated.  Receiver reports, NACKs and PLIs
\* look for a rule in tables that nothing fills, and are dropped.
Replicated(pkt) == pkt.kind \in {"rtp", "sr"}

\* What ingress leaves to the replication engine.  packet_replication chooses
\* rid and exclusion ids, and they are overwritten before ingress ends.
TM == [rid |-> 2, l1_xid |-> 1, l2_xid |-> 1]

\* The replication engine (data_plane/docs/tofino_multicast.txt) for a multicast
\* group.  No node of a group has a valid L1 exclusion id.
Excluded(t, n) ==
    /\ TM.rid = t.node[n].rid
    /\ TM.l2_xid \in DOMAIN t.prune
    /\ t.node[n].eport \in t.prune[TM.l2_xid]

Replicas(t, pkt) ==
    LET k == <<<<pkt.src, pkt.sport>>, pkt.ssrc>>
        group == IF k \in DOMAIN t.repl /\ t.repl[k].mgid \in DOMAIN t.group
                 THEN t.group[t.repl[k].mgid] ELSE {}
    IN IF Replicated(pkt)
       THEN {t.node[n] : n \in {x \in group \cap DOMAIN t.node : ~Excluded(t, x)}}
       ELSE {}

-----------------------------------------------------------------------------
(* SwitchEgress *)

SFU == <<SFU_IP, SFU_UDP_PORT>>

\* Mutant: the destination is looked up by replication id only.
Egress_rid(t, pkt, node) ==
    LET ks == {k \in DOMAIN t.route : k[3] = node.rid}
    IN IF ks # {} THEN [port |-> node.eport, mac |-> "cabmeaty02",
                        to |-> t.route[CHOOSE k \in ks : TRUE]]
       ELSE [port |-> node.eport, mac |-> "sfu", to |-> SFU]

\* ipv4_route.  A copy without a route keeps its destination: the SFU.
Egress(t, pkt, node) ==
    LET k == <<<<pkt.src, pkt.sport>>, pkt.ssrc, node.rid>>
    IN IF k \in DOMAIN t.route
       THEN [port |-> node.eport, mac |-> "cabmeaty02", to |-> t.route[k]]
       ELSE [port |-> node.eport, mac |-> "sfu", to |-> SFU]

\* All copies of a packet.
Switch(t, pkt) ==
    LET out(port, mac) == {[port |-> port, mac |-> mac, to |-> <<pkt.dst, pkt.dport>>]}
        type == PacketType(pkt)
    IN CASE type = "bf_p0"         -> out(BLUEFIELD3_PORT_P0, "bf3")
         [] type = "bf_p1"         -> out(BLUEFIELD3_PORT_P1, "bf3")
         [] type = "clients"       -> out(CABMEATY02_PORT, "cabmeaty02")
         [] type = "controller"    -> out(CABERNET802_PORT, "cabernet802")
         [] type \in {"arp", "icmp"} ->
               {[port |-> pkt.port, mac |-> MacOf(pkt.src), to |-> <<pkt.src, pkt.sport>>]}
         [] type = "sfu_udp"       ->
               {Egress(t, pkt, n) : n \in Replicas(t, pkt)}
                 \cup (IF copy_to_cpu(pkt) THEN out(CPU_PORT, "sfu") ELSE {})
         [] OTHER                  -> {}

=============================================================================
