---------------------------- MODULE TofinoProofs ----------------------------
(***************************************************************************)
(* Identifiers of the Tofino switch stay distinct, for any meetings,       *)
(* participants, streams and limits, whatever is lost, refused or asked    *)
(* for twice.                                                              *)
(*                                                                         *)
(* Each step of add_stream gets a lemma.  What has to be shown besides the *)
(* property is that the dictionaries stay finite: a search for a free      *)
(* number is made only when there are fewer entries than numbers, and      *)
(* finds one for that reason.                                              *)
(***************************************************************************)
EXTENDS TofinoSwitch, FiniteSetTheorems, WellFoundedInduction, TLAPS

\* The state of class PRE, and a dictionary that may have been filled by it.
IsPRE(p) ==
    p = [exit |-> p.exit, parts |-> p.parts, mgid |-> p.mgid, nid |-> p.nid, rid |-> p.rid,
         l1 |-> p.l1, repl |-> p.repl, node |-> p.node, group |-> p.group, prune |-> p.prune,
         route |-> p.route]

IsDict(f) == IsFiniteSet(DOMAIN f) /\ Injective(f)

\* The inductive invariant, for any record p.
IdsInv(p) == IsPRE(p) /\ IsDict(p.mgid) /\ IsDict(p.nid) /\ IsDict(p.rid)

\* q has the dictionaries of p.
SameIds(p, q) == IsPRE(q) /\ q.mgid = p.mgid /\ q.nid = p.nid /\ q.rid = p.rid

-----------------------------------------------------------------------------
(* Dictionaries *)

\* Every non-empty set of natural numbers has a least element.
LEMMA LeastNumber ==
    ASSUME NEW S \in SUBSET Nat, S # {}
    PROVE  \E i \in S : \A j \in S : i <= j
<1> DEFINE R == OpToRel(<, Nat)
<1>1. IsWellFoundedOn(R, Nat)
  BY NatLessThanWellFounded
<1>2. PICK i \in S : \A j \in S : ~(<<j, i>> \in R)
  <2> HIDE DEF R
  <2> QED BY <1>1, WFMin
<1>3. \A j \in S : ~(j < i)
  BY <1>2 DEF OpToRel
<1> QED BY <1>3

\* With fewer entries than numbers, the search for a free one finds one that no
\* entry has.
LEMMA LowestFreeIsFree ==
    ASSUME NEW f, IsFiniteSet(DOMAIN f), NEW max \in Nat, Cardinality(DOMAIN f) < max
    PROVE  lowestFree(Values(f), max) \notin Values(f)
<1> DEFINE free == {i \in 1..max : i \notin Values(f)}
<1>1. free # {}
  <2>1. SUFFICES ASSUME \A i \in 1..max : i \in Values(f)
                 PROVE  FALSE
    OBVIOUS
  <2> DEFINE g == [i \in 1..max |-> CHOOSE x \in DOMAIN f : f[x] = i]
  <2>2. \A i \in 1..max : g[i] \in DOMAIN f /\ f[g[i]] = i
    BY <2>1 DEF Values
  <2>3. g \in [1..max -> DOMAIN f]
    BY <2>2
  <2>4. IsFiniteSet(1..max) /\ Cardinality(1..max) = max
    BY FS_Interval, FS_CardinalityType
  <2>5. PICK x, y \in 1..max : x # y /\ g[x] = g[y]
    <3> HIDE DEF g
    <3> QED BY <2>3, <2>4, FS_PigeonHole
  <2> QED BY <2>2, <2>5
<1>2. PICK i \in free : \A j \in free : i <= j
  <2>1. free \in SUBSET Nat
    OBVIOUS
  <2> QED BY <1>1, <2>1, LeastNumber
<1>3. \E k \in 1..max : k \notin Values(f) /\ \A j \in 1..k - 1 : j \in Values(f)
  BY <1>2
<1> QED BY <1>3 DEF lowestFree

\* An entry with a new value keeps a dictionary finite and injective.
LEMMA WithNewValue ==
    ASSUME NEW f, IsDict(f), NEW k, NEW v, k \notin DOMAIN f, v \notin Values(f)
    PROVE  IsDict(With(f, k, v))
<1>1. IsFiniteSet(DOMAIN f \cup {k})
  BY FS_AddElement DEF IsDict
<1>2. DOMAIN With(f, k, v) = DOMAIN f \cup {k}
  BY DEF With
<1>3. Injective(With(f, k, v))
  BY DEF Injective, With, IsDict, Values
<1> QED BY <1>1, <1>2, <1>3 DEF IsDict

-----------------------------------------------------------------------------
(* The steps of add_stream *)

\* A change of the other fields keeps the invariant.
LEMMA SameIdsInv ==
    ASSUME NEW p, NEW q, IdsInv(p), SameIds(p, q)
    PROVE  IdsInv(q)
BY DEF IdsInv, SameIds

\* An early return or an exception keeps the invariant.
LEMMA ExitIds ==
    ASSUME NEW p, NEW e, IdsInv(p)
    PROVE  IdsInv([p EXCEPT !.exit = e])
<1>1. SameIds(p, [p EXCEPT !.exit = e])
  BY DEF IdsInv, IsPRE, SameIds
<1> QED BY <1>1, SameIdsInv

\* Entering the participants of a stream into their meeting gives out no number.
LEMMA JoinMeetingIds ==
    ASSUME NEW p, NEW m, IdsInv(p)
    PROVE  IdsInv(joinMeeting(p, m))
<1> DEFINE members == IF m.mid \in DOMAIN p.parts THEN p.parts[m.mid] ELSE {}
           together == With(p.parts, m.mid, members \cup {m.src, m.dst})
           known == {m.src[1], m.dst[1]} \subseteq DOMAIN EgressPorts
           q == [p EXCEPT !.parts = together]
<1>1. joinMeeting(p, m) = [q EXCEPT !.exit = IF known THEN p.exit ELSE "raised"]
  BY DEF joinMeeting, IdsInv, IsPRE
<1>2. SameIds(p, q)
  <2> HIDE DEF together
  <2> QED BY DEF SameIds, IdsInv, IsPRE
<1> HIDE DEF q
<1>3. IdsInv(q)
  BY <1>2, SameIdsInv
<1>4. IdsInv([q EXCEPT !.exit = IF known THEN p.exit ELSE "raised"])
  BY <1>3, ExitIds
<1> QED BY <1>1, <1>4

\* A free number is given only if there is one.
LEMMA AssignGroupIds ==
    ASSUME NEW p, NEW mid, IdsInv(p)
    PROVE  IdsInv(assignGroup(p, mid))
<1>1. CASE ~Running(p) \/ mid \in DOMAIN p.mgid
  BY <1>1 DEF assignGroup
<1>2. CASE Running(p) /\ mid \notin DOMAIN p.mgid /\ Cardinality(DOMAIN p.mgid) >= MaxGroups
  BY <1>2, ExitIds DEF assignGroup
<1>3. CASE Running(p) /\ mid \notin DOMAIN p.mgid /\ ~(Cardinality(DOMAIN p.mgid) >= MaxGroups)
  <2> DEFINE v == lowestFree(Values(p.mgid), MaxGroups)
             q == [p EXCEPT !.mgid = With(p.mgid, mid, v)]
  <2>1. v \notin Values(p.mgid)
    BY <1>3, LowestFreeIsFree, FS_CardinalityType, TofinoAssumption DEF IdsInv, IsDict
  <2>2. IsDict(With(p.mgid, mid, v))
    <3> HIDE DEF v
    <3> QED BY <1>3, <2>1, WithNewValue DEF IdsInv
  <2>3. IdsInv(q)
    <3> HIDE DEF v
    <3> QED BY <2>2 DEF IdsInv, IsPRE
  <2>4. assignGroup(p, mid) = q
    BY <1>3 DEF assignGroup
  <2> QED BY <2>3, <2>4
<1> QED BY <1>1, <1>2, <1>3

\* The search for a multicast node keeps the nodes distinct.
LEMMA AssignNodeIds ==
    ASSUME NEW p, NEW a, IdsInv(p)
    PROVE  IdsInv(assignNode(p, a))
<1>1. CASE ~Running(p) \/ a \in DOMAIN p.nid
  BY <1>1 DEF assignNode
<1>2. CASE Running(p) /\ a \notin DOMAIN p.nid /\ Cardinality(DOMAIN p.nid) >= MaxNodes
  BY <1>2, ExitIds DEF assignNode
<1>3. CASE Running(p) /\ a \notin DOMAIN p.nid /\ ~(Cardinality(DOMAIN p.nid) >= MaxNodes)
  <2> DEFINE v == lowestFree(Values(p.nid), MaxNodes)
             q == [p EXCEPT !.nid = With(p.nid, a, v)]
  <2>1. v \notin Values(p.nid)
    BY <1>3, LowestFreeIsFree, FS_CardinalityType, TofinoAssumption DEF IdsInv, IsDict
  <2>2. IsDict(With(p.nid, a, v))
    <3> HIDE DEF v
    <3> QED BY <1>3, <2>1, WithNewValue DEF IdsInv
  <2>3. IdsInv(q)
    <3> HIDE DEF v
    <3> QED BY <2>2 DEF IdsInv, IsPRE
  <2>4. assignNode(p, a) = q
    BY <1>3 DEF assignNode
  <2> QED BY <2>3, <2>4
<1> QED BY <1>1, <1>2, <1>3

\* The search for a replication id keeps the ids distinct over all meetings.
LEMMA AssignRidIds ==
    ASSUME NEW p, NEW k, IdsInv(p)
    PROVE  IdsInv(assignRid(p, k))
<1>1. CASE ~Running(p) \/ k \in DOMAIN p.rid
  BY <1>1 DEF assignRid
<1>2. CASE Running(p) /\ k \notin DOMAIN p.rid /\ Cardinality(DOMAIN p.rid) >= MaxRids
  BY <1>2, ExitIds DEF assignRid
<1>3. CASE Running(p) /\ k \notin DOMAIN p.rid /\ ~(Cardinality(DOMAIN p.rid) >= MaxRids)
  <2> DEFINE v == lowestFree(Values(p.rid), MaxRids)
             q == [p EXCEPT !.rid = With(p.rid, k, v)]
  <2>1. v \notin Values(p.rid)
    BY <1>3, LowestFreeIsFree, FS_CardinalityType, TofinoAssumption DEF IdsInv, IsDict
  <2>2. IsDict(With(p.rid, k, v))
    <3> HIDE DEF v
    <3> QED BY <1>3, <2>1, WithNewValue DEF IdsInv
  <2>3. IdsInv(q)
    <3> HIDE DEF v
    <3> QED BY <2>2 DEF IdsInv, IsPRE
  <2>4. assignRid(p, k) = q
    BY <1>3 DEF assignRid
  <2> QED BY <2>3, <2>4
<1> QED BY <1>1, <1>2, <1>3

\* The first part of add_stream, which looks for every number it needs.
LEMMA AssignIdsIds ==
    ASSUME NEW p, NEW m, IdsInv(p)
    PROVE  IdsInv(assignIds(p, m))
<1> DEFINE grouped == assignGroup(joinMeeting(p, m), m.mid)
           nodes   == assignNode(assignNode(grouped, m.src), m.dst)
           rids    == assignRid(assignRid(nodes, <<m.mid, m.src>>), <<m.mid, m.dst>>)
<1>1. IdsInv(grouped)
  BY JoinMeetingIds, AssignGroupIds
<1>2. IdsInv(nodes)
  <2> HIDE DEF grouped
  <2> QED BY <1>1, AssignNodeIds
<1>3. IdsInv(rids)
  <2> HIDE DEF nodes
  <2> QED BY <1>2, AssignRidIds
<1>4. IdsInv(assignXids(rids, m))
  <2> HIDE DEF rids
  <2>1. SameIds(rids, assignXids(rids, m))
    BY <1>3 DEF SameIds, IdsInv, IsPRE, assignXids
  <2> QED BY <1>3, <2>1, SameIdsInv
<1> QED BY <1>4 DEF assignIds

\* Rules change no dictionary.
LEMMA AddEntryIds ==
    ASSUME NEW p, NEW t \in {"repl", "node", "prune", "route"}, NEW k, NEW v, IdsInv(p)
    PROVE  IdsInv(addEntry(p, t, k, v))
<1>1. CASE ~Running(p) \/ (k \in DOMAIN p[t] /\ p[t][k] = v)
  BY <1>1 DEF addEntry
<1>2. CASE ~(~Running(p) \/ (k \in DOMAIN p[t] /\ p[t][k] = v)) /\ Refused(p, t, k)
  BY <1>2, ExitIds DEF addEntry
<1>3. CASE ~(~Running(p) \/ (k \in DOMAIN p[t] /\ p[t][k] = v)) /\ ~Refused(p, t, k)
  <2> DEFINE table == With(p[t], k, v)
  <2>1. addEntry(p, t, k, v) = [p EXCEPT ![t] = table]
    BY <1>3 DEF addEntry
  <2> HIDE DEF table
  <2>2. SameIds(p, [p EXCEPT ![t] = table])
    <3>1. CASE t = "repl"
      <4>1. [p EXCEPT ![t] = table] = [p EXCEPT !.repl = table]
        BY ONLY <3>1
      <4>2. SameIds(p, [p EXCEPT !.repl = table])
        BY ONLY IdsInv(p) DEF SameIds, IdsInv, IsPRE
      <4> QED BY ONLY <4>1, <4>2
    <3>2. CASE t = "node"
      <4>1. [p EXCEPT ![t] = table] = [p EXCEPT !.node = table]
        BY ONLY <3>2
      <4>2. SameIds(p, [p EXCEPT !.node = table])
        BY ONLY IdsInv(p) DEF SameIds, IdsInv, IsPRE
      <4> QED BY ONLY <4>1, <4>2
    <3>3. CASE t = "prune"
      <4>1. [p EXCEPT ![t] = table] = [p EXCEPT !.prune = table]
        BY ONLY <3>3
      <4>2. SameIds(p, [p EXCEPT !.prune = table])
        BY ONLY IdsInv(p) DEF SameIds, IdsInv, IsPRE
      <4> QED BY ONLY <4>1, <4>2
    <3>4. CASE t = "route"
      <4>1. [p EXCEPT ![t] = table] = [p EXCEPT !.route = table]
        BY ONLY <3>4
      <4>2. SameIds(p, [p EXCEPT !.route = table])
        BY ONLY IdsInv(p) DEF SameIds, IdsInv, IsPRE
      <4> QED BY ONLY <4>1, <4>2
    <3> QED BY <3>1, <3>2, <3>3, <3>4
  <2> QED BY <2>1, <2>2, SameIdsInv
<1> QED BY <1>1, <1>2, <1>3

\* A new list of members of a multicast group changes no dictionary.
LEMMA UpdateGroupIds ==
    ASSUME NEW p, NEW mid, IdsInv(p)
    PROVE  IdsInv(updateGroup(p, mid))
<1> DEFINE lacking == \E a \in p.parts[mid] : a \notin DOMAIN p.nid \/ <<mid, a>> \notin p.l1
           groups  == With(p.group, p.mgid[mid], {p.nid[a] : a \in p.parts[mid]})
<1>1. CASE ~Running(p)
  BY <1>1 DEF updateGroup
<1>2. CASE Running(p) /\ lacking
  BY <1>2, ExitIds DEF updateGroup
<1>3. CASE Running(p) /\ ~lacking
  <2>1. updateGroup(p, mid) = [p EXCEPT !.group = groups]
    BY <1>3 DEF updateGroup
  <2>2. SameIds(p, [p EXCEPT !.group = groups])
    <3> HIDE DEF groups
    <3> QED BY DEF SameIds, IdsInv, IsPRE
  <2> QED BY <2>1, <2>2, SameIdsInv
<1> QED BY <1>1, <1>2, <1>3

\* The second part of add_stream, which fills the tables.
LEMMA InstallRulesIds ==
    ASSUME NEW p, NEW m, IdsInv(p)
    PROVE  IdsInv(installRules(p, m))
<1>1. ASSUME NEW q, NEW ssrc, IdsInv(q)
      PROVE  IdsInv(addSender(q, m, ssrc)) /\ IdsInv(addRoute(q, m, ssrc))
  BY <1>1, AddEntryIds DEF addSender, addRoute
<1>2. ASSUME NEW q, NEW a, IdsInv(q)
      PROVE  IdsInv(addNode(q, m.mid, a)) /\ IdsInv(addExclusion(q, a))
  BY <1>2, AddEntryIds DEF addNode, addExclusion
<1> DEFINE senders == addSender(addSender(p, m, m.ssrc), m, m.rtx)
           nodes   == addNode(addNode(senders, m.mid, m.src), m.mid, m.dst)
           groups  == addExclusion(updateGroup(nodes, m.mid), m.src)
<1>3. IdsInv(senders)
  BY <1>1
<1>4. IdsInv(nodes)
  <2> HIDE DEF senders
  <2> QED BY <1>2, <1>3
<1>5. IdsInv(groups)
  <2> HIDE DEF nodes
  <2> QED BY <1>2, <1>4, UpdateGroupIds
<1>6. IdsInv(addRoute(addRoute(groups, m, m.ssrc), m, m.rtx))
  <2> HIDE DEF groups
  <2> QED BY <1>1, <1>5
<1> QED BY <1>6 DEF installRules

\* Any message, known or not, leaves the dictionaries finite and injective.
LEMMA OnMessageIds ==
    ASSUME NEW p, NEW m, IdsInv(p)
    PROVE  IdsInv(OnMessage(p, m))
<1> DEFINE q == installRules(assignIds(p, m), m)
<1>1. IdsInv(q)
  BY AssignIdsIds, InstallRulesIds
<1>2. IdsInv(add_stream(p, m))
  <2>1. add_stream(p, m) = Returned(q)
    BY DEF add_stream
  <2> HIDE DEF q
  <2> QED BY <1>1, <2>1, ExitIds DEF Returned
<1>3. IdsInv([p EXCEPT !.exit = "raised"])
  BY ExitIds
<1> QED BY <1>2, <1>3 DEF OnMessage

-----------------------------------------------------------------------------

\* The dictionaries of a new process are empty.
LEMMA NewPREIds == IdsInv(NewPRE)
<1>1. IsPRE(NewPRE)
  BY DEF IsPRE, NewPRE
<1>2. IsDict(Empty)
  BY FS_EmptySet DEF IsDict, Injective, Empty
<1> QED BY <1>1, <1>2 DEF IdsInv, NewPRE

\* The same of the state of the process.
IdsHold == IdsInv(pre)

\* The invariant of the switch: it holds at the start, no message that the process
\* reads breaks it, and a restart begins afresh.
THEOREM IdsInvariant == SwitchSpec => []IdsHold
<1>1. SwitchInit => IdsHold
  BY NewPREIds DEF SwitchInit, Init, IdsHold
<1>2. IdsHold /\ [SwitchNext]_vars => IdsHold'
  <2> SUFFICES ASSUME IdsInv(pre), [SwitchNext]_vars
               PROVE  IdsInv(pre')
    BY DEF IdsHold
  <2>1. CASE Recv
    BY <2>1, OnMessageIds DEF Recv
  <2>2. CASE RestartProcess
    BY <2>2, NewPREIds DEF RestartProcess, Restart
  <2>3. ASSUME NEW s \in Streams, AgentAddStream(s) \/ AgentRemoveStream(s)
        PROVE  IdsInv(pre')
    BY <2>3 DEF AgentAddStream, AgentRemoveStream
  <2>4. ASSUME NEW i \in DOMAIN rcv, AgentSetQuality(rcv[i])
        PROVE  IdsInv(pre')
    BY <2>4 DEF AgentSetQuality
  <2>5. CASE AdapterAddStream \/ AdapterAdjustDecodeTarget
    BY <2>5 DEF AdapterAddStream, AdapterAdjustDecodeTarget, AdapterSends
  <2>6. CASE Connect \/ Disconnect
    BY <2>6 DEF Connect, Disconnect
  <2>7. CASE UNCHANGED vars
    BY <2>7 DEF vars
  <2> QED BY <2>1, <2>2, <2>3, <2>4, <2>5, <2>6, <2>7 DEF SwitchNext
<1> QED BY <1>1, <1>2, PTL DEF SwitchSpec

\* Groups, nodes and replication ids are never shared, however many meetings and
\* participants there are, whatever limits are reached and calls return early:
\* the searches of PRE.add_stream never give out a number twice.
THEOREM IdsDistinctAlways == SwitchSpec => []IdsDistinct
<1>1. IdsHold => IdsDistinct
  BY DEF IdsHold, IdsInv, IsDict, IdsDistinct
<1> QED BY <1>1, IdsInvariant, PTL

=============================================================================
