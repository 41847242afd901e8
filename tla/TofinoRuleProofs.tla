-------------------------- MODULE TofinoRuleProofs --------------------------
(***************************************************************************)
(* The rules of the Tofino switch: no route leaves its meeting, what is    *)
(* installed stays, receivers are reached, the process ends for a reason,  *)
(* and the switch implements MediaRouter.                                  *)
(*                                                                         *)
(* Every step of add_stream only adds to the dictionaries and tables, so   *)
(* what one of them has made true of a route stays true, also when a later *)
(* step returns early or raises.  A step after an exit does nothing: what  *)
(* it was to make true is needed only while no step has exited.            *)
(*                                                                         *)
(* Between two messages, every call that was taken is installed, or lacks  *)
(* an identifier that will never be given out, and every rule comes from a *)
(* call (CallsHold).  Within a call, Work says the same of the others and  *)
(* of what an exception is due to.                                         *)
(***************************************************************************)
EXTENDS TofinoProofs, LoopLemmas

\* g has all entries of f.
Extends(f, g) == \A x \in DOMAIN f : x \in DOMAIN g /\ g[x] = f[x]

\* The same of dictionaries of sets, which may grow.
Covers(f, g) == \A x \in DOMAIN f : x \in DOMAIN g /\ f[x] \subseteq g[x]

\* A step from p to q only adds, and undoes no exit.
Grows(p, q) ==
    /\ IsPRE(q)
    /\ Running(q) => Running(p)
    /\ Covers(p.parts, q.parts) /\ p.l1 \subseteq q.l1
    /\ Extends(p.mgid, q.mgid) /\ Extends(p.nid, q.nid) /\ Extends(p.rid, q.rid)
    /\ Extends(p.repl, q.repl) /\ Extends(p.node, q.node)
    /\ Extends(p.prune, q.prune) /\ Extends(p.route, q.route)

\* The route with key k is one of meeting mid.
RouteIn(p, k, mid) ==
    /\ mid \in DOMAIN p.mgid /\ mid \in DOMAIN p.parts
    /\ <<k[1], k[2]>> \in DOMAIN p.repl
    /\ p.repl[<<k[1], k[2]>>].mgid = p.mgid[mid]
    /\ {k[1], p.route[k]} \subseteq p.parts[mid]
    /\ <<mid, p.route[k]>> \in DOMAIN p.rid
    /\ p.rid[<<mid, p.route[k]>>] = k[3]

RoutesInv(p) == \A k \in DOMAIN p.route : \E mid : RouteIn(p, k, mid)

\* The members of a group are participants of its meeting.
GroupIn(p, g, mid) ==
    /\ mid \in DOMAIN p.mgid /\ p.mgid[mid] = g /\ mid \in DOMAIN p.parts
    /\ \A n \in p.group[g] : \E a \in p.parts[mid] : a \in DOMAIN p.nid /\ p.nid[a] = n

GroupsInv(p) == \A g \in DOMAIN p.group : \E mid : GroupIn(p, g, mid)

RulesInv(p) == RoutesInv(p) /\ GroupsInv(p)

-----------------------------------------------------------------------------
(* Steps that only add *)

\* Every dictionary has its own entries.
LEMMA SameExtends == \A f : Extends(f, f) /\ Covers(f, f)
BY DEF Extends, Covers

\* A step that does nothing adds nothing.
LEMMA GrowsSame ==
    ASSUME NEW p, IsPRE(p)
    PROVE  Grows(p, p)
BY DEF Grows, Extends, Covers

\* One step after another.
LEMMA GrowsTransitive ==
    ASSUME NEW p, NEW q, NEW r, Grows(p, q), Grows(q, r)
    PROVE  Grows(p, r)
<1>1. ASSUME NEW f, NEW g, NEW h, Extends(f, g), Extends(g, h)
      PROVE  Extends(f, h)
  BY <1>1 DEF Extends
<1>2. ASSUME NEW f, NEW g, NEW h, Covers(f, g), Covers(g, h)
      PROVE  Covers(f, h)
  BY <1>2 DEF Covers
<1> QED BY <1>1, <1>2 DEF Grows

\* An early return or an exception adds nothing.
LEMMA ExitGrows ==
    ASSUME NEW p, NEW e, IsPRE(p), e # "no"
    PROVE  /\ Grows(p, [p EXCEPT !.exit = e])
           /\ ~Running([p EXCEPT !.exit = e])
           /\ [p EXCEPT !.exit = e].group = p.group
           /\ [p EXCEPT !.exit = e].route = p.route
<1> DEFINE q == [p EXCEPT !.exit = e]
<1>1. /\ IsPRE(q) /\ q.l1 = p.l1 /\ q.exit = e /\ q.parts = p.parts /\ q.mgid = p.mgid /\ q.nid = p.nid
      /\ q.rid = p.rid /\ q.repl = p.repl /\ q.node = p.node /\ q.prune = p.prune
      /\ q.route = p.route /\ q.group = p.group
  BY DEF IsPRE
<1> HIDE DEF q
<1>2. Grows(p, q) /\ ~Running(q)
  BY <1>1 DEF Grows, Extends, Covers, Running
<1> QED BY <1>1, <1>2 DEF q

\* The routes and groups of p are as good in q, if q has no others.
LEMMA GrowsRules ==
    ASSUME NEW p, NEW q, RulesInv(p), Grows(p, q), q.route = p.route, q.group = p.group
    PROVE  RulesInv(q)
<1>1. RoutesInv(q)
  <2> SUFFICES ASSUME NEW k \in DOMAIN q.route PROVE \E mid : RouteIn(q, k, mid)
    BY DEF RoutesInv
  <2>1. PICK mid : RouteIn(p, k, mid)
    BY DEF RulesInv, RoutesInv
  <2>2. RouteIn(q, k, mid)
    BY <2>1 DEF RouteIn, Grows, Extends, Covers
  <2> QED BY <2>2
<1>2. GroupsInv(q)
  <2> SUFFICES ASSUME NEW g \in DOMAIN q.group PROVE \E mid : GroupIn(q, g, mid)
    BY DEF GroupsInv
  <2>1. PICK mid : GroupIn(p, g, mid)
    BY DEF RulesInv, GroupsInv
  <2>2. GroupIn(q, g, mid)
    BY <2>1 DEF GroupIn, Grows, Extends, Covers
  <2> QED BY <2>2
<1> QED BY <1>1, <1>2 DEF RulesInv

\* What each step before the rules gives: it adds, and touches no route or group.
Prepares(p, q) == Grows(p, q) /\ q.route = p.route /\ q.group = p.group

\* One such step after another.
LEMMA PreparesTransitive ==
    ASSUME NEW p, NEW q, NEW r, Prepares(p, q), Prepares(q, r)
    PROVE  Prepares(p, r)
BY GrowsTransitive DEF Prepares

\* joinMeeting: both are in the meeting, with those who were there.
LEMMA JoinMeetingGrows ==
    ASSUME NEW p, NEW m, IsPRE(p)
    PROVE  LET q == joinMeeting(p, m)
           IN /\ Prepares(p, q)
              /\ m.mid \in DOMAIN q.parts /\ {m.src, m.dst} \subseteq q.parts[m.mid]
<1> DEFINE members == IF m.mid \in DOMAIN p.parts THEN p.parts[m.mid] ELSE {}
           together == With(p.parts, m.mid, members \cup {m.src, m.dst})
           e == IF {m.src[1], m.dst[1]} \subseteq DOMAIN EgressPorts THEN p.exit ELSE "raised"
           q == joinMeeting(p, m)
<1>1. q = [p EXCEPT !.parts = together, !.exit = e]
  BY DEF joinMeeting
<1>2. Covers(p.parts, together) /\ m.mid \in DOMAIN together /\ {m.src, m.dst} \subseteq together[m.mid]
  BY DEF Covers, With
<1>3. e = "no" => p.exit = "no"
  OBVIOUS
<1> HIDE DEF together, e, q
<1>4. /\ IsPRE(q) /\ q.l1 = p.l1 /\ q.exit = e /\ q.parts = together /\ q.mgid = p.mgid /\ q.nid = p.nid
      /\ q.rid = p.rid /\ q.repl = p.repl /\ q.node = p.node /\ q.prune = p.prune
      /\ q.route = p.route /\ q.group = p.group
  BY <1>1 DEF IsPRE
<1>5. Prepares(p, q)
  BY <1>2, <1>3, <1>4 DEF Prepares, Grows, Extends, Running
<1> QED BY <1>2, <1>4, <1>5 DEF q

\* The search for a group: if it did not exit, the meeting has one.
LEMMA AssignGroupGrows ==
    ASSUME NEW p, NEW mid, IsPRE(p)
    PROVE  LET q == assignGroup(p, mid)
           IN Prepares(p, q) /\ (Running(q) => mid \in DOMAIN q.mgid)
<1>1. CASE ~Running(p) \/ mid \in DOMAIN p.mgid
  BY <1>1, GrowsSame DEF assignGroup, Prepares
<1>2. CASE Running(p) /\ mid \notin DOMAIN p.mgid /\ Cardinality(DOMAIN p.mgid) >= MaxGroups
  BY <1>2, ExitGrows DEF assignGroup, Prepares
<1>3. CASE Running(p) /\ mid \notin DOMAIN p.mgid /\ ~(Cardinality(DOMAIN p.mgid) >= MaxGroups)
  <2> DEFINE v == lowestFree(Values(p.mgid), MaxGroups)
             d == With(p.mgid, mid, v)
             q == [p EXCEPT !.mgid = d]
  <2>1. assignGroup(p, mid) = q
    BY <1>3 DEF assignGroup
  <2> HIDE DEF v
  <2>2. Extends(p.mgid, d) /\ mid \in DOMAIN d
    BY <1>3 DEF Extends, With
  <2> HIDE DEF d
  <2>3. /\ IsPRE(q) /\ q.l1 = p.l1 /\ q.exit = p.exit /\ q.parts = p.parts /\ q.mgid = d /\ q.nid = p.nid
        /\ q.rid = p.rid /\ q.repl = p.repl /\ q.node = p.node /\ q.prune = p.prune
        /\ q.route = p.route /\ q.group = p.group
    BY DEF IsPRE
  <2> HIDE DEF q
  <2>4. Prepares(p, q)
    BY <2>2, <2>3, SameExtends DEF Prepares, Grows, Running
  <2> QED BY <2>1, <2>2, <2>3, <2>4
<1> QED BY <1>1, <1>2, <1>3

\* The search for a node: if it did not exit, the participant has one.
LEMMA AssignNodeGrows ==
    ASSUME NEW p, NEW a, IsPRE(p)
    PROVE  LET q == assignNode(p, a)
           IN Prepares(p, q) /\ (Running(q) => a \in DOMAIN q.nid)
<1>1. CASE ~Running(p) \/ a \in DOMAIN p.nid
  BY <1>1, GrowsSame DEF assignNode, Prepares
<1>2. CASE Running(p) /\ a \notin DOMAIN p.nid /\ Cardinality(DOMAIN p.nid) >= MaxNodes
  BY <1>2, ExitGrows DEF assignNode, Prepares
<1>3. CASE Running(p) /\ a \notin DOMAIN p.nid /\ ~(Cardinality(DOMAIN p.nid) >= MaxNodes)
  <2> DEFINE v == lowestFree(Values(p.nid), MaxNodes)
             d == With(p.nid, a, v)
             q == [p EXCEPT !.nid = d]
  <2>1. assignNode(p, a) = q
    BY <1>3 DEF assignNode
  <2> HIDE DEF v
  <2>2. Extends(p.nid, d) /\ a \in DOMAIN d
    BY <1>3 DEF Extends, With
  <2> HIDE DEF d
  <2>3. /\ IsPRE(q) /\ q.l1 = p.l1 /\ q.exit = p.exit /\ q.parts = p.parts /\ q.mgid = p.mgid /\ q.nid = d
        /\ q.rid = p.rid /\ q.repl = p.repl /\ q.node = p.node /\ q.prune = p.prune
        /\ q.route = p.route /\ q.group = p.group
    BY DEF IsPRE
  <2> HIDE DEF q
  <2>4. Prepares(p, q)
    BY <2>2, <2>3, SameExtends DEF Prepares, Grows, Running
  <2> QED BY <2>1, <2>2, <2>3, <2>4
<1> QED BY <1>1, <1>2, <1>3

\* The search for a replication id: if it did not exit, there is one.
LEMMA AssignRidGrows ==
    ASSUME NEW p, NEW k, IsPRE(p)
    PROVE  LET q == assignRid(p, k)
           IN Prepares(p, q) /\ (Running(q) => k \in DOMAIN q.rid)
<1>1. CASE ~Running(p) \/ k \in DOMAIN p.rid
  BY <1>1, GrowsSame DEF assignRid, Prepares
<1>2. CASE Running(p) /\ k \notin DOMAIN p.rid /\ Cardinality(DOMAIN p.rid) >= MaxRids
  BY <1>2, ExitGrows DEF assignRid, Prepares
<1>3. CASE Running(p) /\ k \notin DOMAIN p.rid /\ ~(Cardinality(DOMAIN p.rid) >= MaxRids)
  <2> DEFINE v == lowestFree(Values(p.rid), MaxRids)
             d == With(p.rid, k, v)
             q == [p EXCEPT !.rid = d]
  <2>1. assignRid(p, k) = q
    BY <1>3 DEF assignRid
  <2> HIDE DEF v
  <2>2. Extends(p.rid, d) /\ k \in DOMAIN d
    BY <1>3 DEF Extends, With
  <2> HIDE DEF d
  <2>3. /\ IsPRE(q) /\ q.l1 = p.l1 /\ q.exit = p.exit /\ q.parts = p.parts /\ q.mgid = p.mgid /\ q.nid = p.nid
        /\ q.rid = d /\ q.repl = p.repl /\ q.node = p.node /\ q.prune = p.prune
        /\ q.route = p.route /\ q.group = p.group
    BY DEF IsPRE
  <2> HIDE DEF q
  <2>4. Prepares(p, q)
    BY <2>2, <2>3, SameExtends DEF Prepares, Grows, Running
  <2> QED BY <2>1, <2>2, <2>3, <2>4
<1> QED BY <1>1, <1>2, <1>3

\* The exclusion ids are neither looked up nor changed otherwise.
LEMMA AssignXidsGrows ==
    ASSUME NEW p, NEW m, IsPRE(p)
    PROVE  Prepares(p, assignXids(p, m))
<1> DEFINE q == [p EXCEPT !.l1 = p.l1 \cup {<<m.mid, m.src>>, <<m.mid, m.dst>>}]
<1>1. /\ IsPRE(q) /\ p.l1 \subseteq q.l1 /\ q.exit = p.exit /\ q.parts = p.parts /\ q.mgid = p.mgid /\ q.nid = p.nid
      /\ q.rid = p.rid /\ q.repl = p.repl /\ q.node = p.node /\ q.prune = p.prune
      /\ q.route = p.route /\ q.group = p.group
  BY DEF IsPRE
<1>2. assignXids(p, m) \in {p, q}
  BY DEF assignXids
<1> HIDE DEF q
<1>3. Prepares(p, q)
  BY <1>1, SameExtends DEF Prepares, Grows, Running
<1> QED BY <1>2, <1>3, GrowsSame DEF Prepares

-----------------------------------------------------------------------------
(* 1. and 2.: the meeting and the identifiers *)

\* The ids the rules of a stream are made of are there.
HasPlace(p, m) ==
    /\ m.mid \in DOMAIN p.mgid
    /\ m.mid \in DOMAIN p.parts /\ {m.src, m.dst} \subseteq p.parts[m.mid]
    /\ <<m.mid, m.src>> \in DOMAIN p.rid /\ <<m.mid, m.dst>> \in DOMAIN p.rid

\* They stay.
LEMMA PlaceKept ==
    ASSUME NEW p, NEW q, NEW m, HasPlace(p, m), Grows(p, q)
    PROVE  HasPlace(q, m)
BY DEF HasPlace, Grows, Extends, Covers

\* The first part of add_stream only adds, and if it did not exit all is there.
LEMMA AssignIdsGrows ==
    ASSUME NEW p, NEW m, IsPRE(p)
    PROVE  LET q == assignIds(p, m) IN Prepares(p, q) /\ (Running(q) => HasPlace(q, m))
<1> DEFINE a == joinMeeting(p, m)
           b == assignGroup(a, m.mid)
           c == assignNode(b, m.src)
           d == assignNode(c, m.dst)
           e == assignRid(d, <<m.mid, m.src>>)
           f == assignRid(e, <<m.mid, m.dst>>)
           q == assignXids(f, m)
<1>1. Prepares(p, a) /\ m.mid \in DOMAIN a.parts /\ {m.src, m.dst} \subseteq a.parts[m.mid]
  BY JoinMeetingGrows
<1> HIDE DEF a
<1>2. Prepares(a, b) /\ (Running(b) => m.mid \in DOMAIN b.mgid)
  BY <1>1, AssignGroupGrows DEF Prepares, Grows
<1> HIDE DEF b
<1>3. Prepares(b, c)
  BY <1>2, AssignNodeGrows DEF Prepares, Grows
<1> HIDE DEF c
<1>4. Prepares(c, d)
  BY <1>3, AssignNodeGrows DEF Prepares, Grows
<1> HIDE DEF d
<1>5. Prepares(d, e) /\ (Running(e) => <<m.mid, m.src>> \in DOMAIN e.rid)
  BY <1>4, AssignRidGrows DEF Prepares, Grows
<1> HIDE DEF e
<1>6. Prepares(e, f) /\ (Running(f) => <<m.mid, m.dst>> \in DOMAIN f.rid)
  BY <1>5, AssignRidGrows DEF Prepares, Grows
<1> HIDE DEF f
<1>7. Prepares(f, q)
  BY <1>6, AssignXidsGrows DEF Prepares, Grows
<1> HIDE DEF q
<1>8. Prepares(e, q)
  BY <1>6, <1>7, PreparesTransitive
<1>9. Prepares(b, q)
  BY <1>3, <1>4, <1>5, <1>8, PreparesTransitive
<1>10. Prepares(a, q)
  BY <1>2, <1>9, PreparesTransitive
<1>11. Prepares(p, q)
  BY <1>1, <1>10, PreparesTransitive
<1>12. Running(q) => HasPlace(q, m)
  <2> SUFFICES ASSUME Running(q) PROVE HasPlace(q, m)
    OBVIOUS
  <2>1. m.mid \in DOMAIN q.parts /\ {m.src, m.dst} \subseteq q.parts[m.mid]
    BY <1>1, <1>10 DEF Prepares, Grows, Covers
  <2>2. m.mid \in DOMAIN q.mgid
    BY <1>2, <1>9 DEF Prepares, Grows, Extends
  <2>3. <<m.mid, m.src>> \in DOMAIN q.rid
    BY <1>5, <1>8 DEF Prepares, Grows, Extends
  <2>4. <<m.mid, m.dst>> \in DOMAIN q.rid
    BY <1>6, <1>7 DEF Prepares, Grows, Extends
  <2> QED BY <2>1, <2>2, <2>3, <2>4 DEF HasPlace
<1>13. assignIds(p, m) = q
  BY DEF assignIds, q, f, e, d, c, b, a
<1> QED BY <1>11, <1>12, <1>13

-----------------------------------------------------------------------------
(* 3.: the rules *)

\* A table with a new entry: the other fields are as they were.
LEMMA TableGrows ==
    ASSUME NEW p, NEW t \in {"repl", "node", "prune", "route"}, NEW d, IsPRE(p), Extends(p[t], d)
    PROVE  LET q == [p EXCEPT ![t] = d]
           IN /\ Grows(p, q) /\ q[t] = d /\ q.group = p.group
              /\ t # "route" => q.route = p.route
<1>1. CASE t = "repl"
  <2> DEFINE q == [p EXCEPT !.repl = d]
  <2>1. /\ IsPRE(q) /\ q.l1 = p.l1 /\ q.exit = p.exit /\ q.parts = p.parts /\ q.mgid = p.mgid /\ q.nid = p.nid
        /\ q.rid = p.rid /\ q.repl = d /\ q.node = p.node /\ q.prune = p.prune
        /\ q.route = p.route /\ q.group = p.group
    BY DEF IsPRE
  <2>2. [p EXCEPT ![t] = d] = q
    BY <1>1
  <2> HIDE DEF q
  <2>3. Grows(p, q)
    BY <1>1, <2>1, SameExtends DEF Grows, Running
  <2> QED BY <1>1, <2>1, <2>2, <2>3
<1>2. CASE t = "node"
  <2> DEFINE q == [p EXCEPT !.node = d]
  <2>1. /\ IsPRE(q) /\ q.l1 = p.l1 /\ q.exit = p.exit /\ q.parts = p.parts /\ q.mgid = p.mgid /\ q.nid = p.nid
        /\ q.rid = p.rid /\ q.repl = p.repl /\ q.node = d /\ q.prune = p.prune
        /\ q.route = p.route /\ q.group = p.group
    BY DEF IsPRE
  <2>2. [p EXCEPT ![t] = d] = q
    BY <1>2
  <2> HIDE DEF q
  <2>3. Grows(p, q)
    BY <1>2, <2>1, SameExtends DEF Grows, Running
  <2> QED BY <1>2, <2>1, <2>2, <2>3
<1>3. CASE t = "prune"
  <2> DEFINE q == [p EXCEPT !.prune = d]
  <2>1. /\ IsPRE(q) /\ q.l1 = p.l1 /\ q.exit = p.exit /\ q.parts = p.parts /\ q.mgid = p.mgid /\ q.nid = p.nid
        /\ q.rid = p.rid /\ q.repl = p.repl /\ q.node = p.node /\ q.prune = d
        /\ q.route = p.route /\ q.group = p.group
    BY DEF IsPRE
  <2>2. [p EXCEPT ![t] = d] = q
    BY <1>3
  <2> HIDE DEF q
  <2>3. Grows(p, q)
    BY <1>3, <2>1, SameExtends DEF Grows, Running
  <2> QED BY <1>3, <2>1, <2>2, <2>3
<1>4. CASE t = "route"
  <2> DEFINE q == [p EXCEPT !.route = d]
  <2>1. /\ IsPRE(q) /\ q.l1 = p.l1 /\ q.exit = p.exit /\ q.parts = p.parts /\ q.mgid = p.mgid /\ q.nid = p.nid
        /\ q.rid = p.rid /\ q.repl = p.repl /\ q.node = p.node /\ q.prune = p.prune
        /\ q.route = d /\ q.group = p.group
    BY DEF IsPRE
  <2>2. [p EXCEPT ![t] = d] = q
    BY <1>4
  <2> HIDE DEF q
  <2>3. Grows(p, q)
    BY <1>4, <2>1, SameExtends DEF Grows, Running
  <2> QED BY <1>4, <2>1, <2>2, <2>3
<1> QED BY <1>1, <1>2, <1>3, <1>4

\* add_entry: an entry is added, or was there as it is, or the call exits.
LEMMA AddEntryGrows ==
    ASSUME NEW p, NEW t \in {"repl", "node", "prune", "route"}, NEW k, NEW v, IsPRE(p)
    PROVE  LET q == addEntry(p, t, k, v)
           IN /\ Grows(p, q) /\ q.group = p.group
              /\ Running(q) => k \in DOMAIN q[t] /\ q[t][k] = v
              /\ \/ q.route = p.route
                 \/ /\ t = "route" /\ Running(p)
                    /\ DOMAIN q.route = DOMAIN p.route \cup {k} /\ q.route[k] = v
<1>1. CASE ~Running(p) \/ (k \in DOMAIN p[t] /\ p[t][k] = v)
  BY <1>1, GrowsSame DEF addEntry
<1>2. CASE ~(~Running(p) \/ (k \in DOMAIN p[t] /\ p[t][k] = v)) /\ Refused(p, t, k)
  <2>1. addEntry(p, t, k, v) = [p EXCEPT !.exit = "raised"]
    BY <1>2 DEF addEntry
  <2> QED BY <2>1, ExitGrows
<1>3. CASE ~(~Running(p) \/ (k \in DOMAIN p[t] /\ p[t][k] = v)) /\ ~Refused(p, t, k)
  <2> DEFINE d == With(p[t], k, v)
             q == [p EXCEPT ![t] = d]
  <2>1. addEntry(p, t, k, v) = q
    BY <1>3 DEF addEntry
  <2>2. k \notin DOMAIN p[t]
    BY <1>3 DEF Refused
  <2>3. Extends(p[t], d) /\ DOMAIN d = DOMAIN p[t] \cup {k} /\ d[k] = v
    BY <2>2 DEF Extends, With
  <2> HIDE DEF d
  <2>4. /\ Grows(p, q) /\ q[t] = d /\ q.group = p.group
        /\ t # "route" => q.route = p.route
    BY <2>3, TableGrows
  <2> HIDE DEF q
  <2> QED BY <1>3, <2>1, <2>3, <2>4
<1> QED BY <1>1, <1>2, <1>3

\* The stream is replicated to the group of its meeting.
InGroup(p, m, ssrc) ==
    ssrc # NoRtx => /\ <<m.src, ssrc>> \in DOMAIN p.repl
                    /\ p.repl[<<m.src, ssrc>>].mgid = p.mgid[m.mid]

\* It stays so.
LEMMA ReplicatedKept ==
    ASSUME NEW p, NEW q, NEW m, NEW ssrc, HasPlace(p, m), InGroup(p, m, ssrc), Grows(p, q)
    PROVE  InGroup(q, m, ssrc)
BY DEF HasPlace, InGroup, Grows, Extends

\* add_sender_to_replication_setup: if it did not exit, the stream is replicated.
LEMMA AddSenderGrows ==
    ASSUME NEW p, NEW m, NEW ssrc, IsPRE(p), Running(p) => HasPlace(p, m)
    PROVE  LET q == addSender(p, m, ssrc)
           IN Prepares(p, q) /\ (Running(q) => InGroup(q, m, ssrc))
<1>1. CASE ~Running(p) \/ ssrc = NoRtx
  BY <1>1, GrowsSame DEF addSender, Prepares, InGroup
<1>2. CASE Running(p) /\ ssrc # NoRtx
  <2> DEFINE k == <<m.src, ssrc>>
             v == [mgid |-> p.mgid[m.mid], rid |-> p.rid[<<m.mid, m.src>>], l2 |-> Eport(m.src)]
             q == addEntry(p, "repl", k, v)
  <2>1. addSender(p, m, ssrc) = q
    BY <1>2 DEF addSender
  <2>2. v.mgid = p.mgid[m.mid]
    OBVIOUS
  <2> HIDE DEF v
  <2>3. Prepares(p, q) /\ (Running(q) => k \in DOMAIN q.repl /\ q.repl[k] = v)
    BY AddEntryGrows DEF Prepares
  <2> HIDE DEF q
  <2>4. Running(q) => q.mgid[m.mid] = p.mgid[m.mid]
    BY <1>2, <2>3 DEF Prepares, Grows, Extends, HasPlace
  <2>5. Running(q) => InGroup(q, m, ssrc)
    BY <2>2, <2>3, <2>4 DEF InGroup
  <2> QED BY <2>1, <2>3, <2>5
<1> QED BY <1>1, <1>2

\* add_multicast_node and add_l2_exclusion_port
LEMMA AddNodeGrows ==
    ASSUME NEW p, NEW mid, NEW a, IsPRE(p)
    PROVE  Prepares(p, addNode(p, mid, a)) /\ Prepares(p, addExclusion(p, a))
<1> DEFINE v == [rid |-> p.rid[<<mid, a>>], eport |-> Eport(a)]
<1>1. addNode(p, mid, a) = p \/ addNode(p, mid, a) = addEntry(p, "node", p.nid[a], v)
  BY DEF addNode
<1>2. addExclusion(p, a) = p \/ addExclusion(p, a) = addEntry(p, "prune", Eport(a), {Eport(a)})
  BY DEF addExclusion
<1> HIDE DEF v
<1>3. Prepares(p, p)
  BY GrowsSame DEF Prepares
<1>4. Prepares(p, addEntry(p, "node", p.nid[a], v))
  BY AddEntryGrows DEF Prepares
<1>5. Prepares(p, addEntry(p, "prune", Eport(a), {Eport(a)}))
  BY AddEntryGrows DEF Prepares
<1> QED BY <1>1, <1>2, <1>3, <1>4, <1>5

\* update_multicast_group: a group that is written again is that of the same
\* meeting, for no two have one, and has lost no member.
LEMMA UpdateGroupRules ==
    ASSUME NEW p, NEW m, IdsInv(p), RulesInv(p), Running(p) => HasPlace(p, m)
    PROVE  LET q == updateGroup(p, m.mid)
           IN Grows(p, q) /\ RulesInv(q) /\ Covers(p.group, q.group) /\ q.repl = p.repl
<1> DEFINE lacking == \E a \in p.parts[m.mid] : a \notin DOMAIN p.nid \/ <<m.mid, a>> \notin p.l1
           g == p.mgid[m.mid]
           S == {p.nid[a] : a \in p.parts[m.mid]}
           d == With(p.group, g, S)
           q == updateGroup(p, m.mid)
<1>0. IsPRE(p)
  BY DEF IdsInv
<1>1. CASE ~Running(p)
  <2>1. q = p
    BY <1>1 DEF updateGroup
  <2> QED BY <1>0, <2>1, GrowsSame, SameExtends
<1>2. CASE Running(p) /\ lacking
  <2>1. q = [p EXCEPT !.exit = "raised"]
    BY <1>2 DEF updateGroup
  <2>2. Grows(p, q) /\ q.group = p.group /\ q.route = p.route
    BY <1>0, <2>1, ExitGrows
  <2>3. q.repl = p.repl
    BY <1>0, <2>1 DEF IsPRE
  <2> HIDE DEF q
  <2> QED BY <2>2, <2>3, GrowsRules, SameExtends DEF q
<1>3. CASE Running(p) /\ ~lacking
  <2>1. q = [p EXCEPT !.group = d]
    BY <1>3 DEF updateGroup
  <2>2. \A n \in S : \E a \in p.parts[m.mid] : a \in DOMAIN p.nid /\ p.nid[a] = n
    BY <1>3
  <2>3. DOMAIN d = DOMAIN p.group \cup {g} /\ d[g] = S /\ \A x \in DOMAIN p.group \ {g} : d[x] = p.group[x]
    BY DEF With
  <2>4. g \in DOMAIN p.group => p.group[g] \subseteq S
    <3> SUFFICES ASSUME g \in DOMAIN p.group, NEW n \in p.group[g] PROVE n \in S
      OBVIOUS
    <3>1. PICK mid : GroupIn(p, g, mid)
      BY DEF RulesInv, GroupsInv
    <3>2. mid = m.mid
      BY <1>3, <3>1 DEF GroupIn, HasPlace, IdsInv, IsDict, Injective
    <3> QED BY <3>1, <3>2 DEF GroupIn
  <2> HIDE DEF d
  <2>5. /\ IsPRE(q) /\ q.l1 = p.l1 /\ q.exit = p.exit /\ q.parts = p.parts /\ q.mgid = p.mgid /\ q.nid = p.nid
        /\ q.rid = p.rid /\ q.repl = p.repl /\ q.node = p.node /\ q.prune = p.prune
        /\ q.route = p.route /\ q.group = d
    BY <1>0, <2>1 DEF IsPRE
  <2> HIDE DEF q, S, g
  <2>6. Grows(p, q)
    BY <2>5, SameExtends DEF Grows, Running
  <2>7. Covers(p.group, q.group)
    BY <2>3, <2>4, <2>5 DEF Covers
  <2>8. RoutesInv(q)
    BY <2>5 DEF RulesInv, RoutesInv, RouteIn
  <2>9. GroupsInv(q)
    <3> SUFFICES ASSUME NEW x \in DOMAIN q.group PROVE \E mid : GroupIn(q, x, mid)
      BY DEF GroupsInv
    <3>1. CASE x = g
      <4>1. GroupIn(q, x, m.mid)
        BY <1>3, <2>2, <2>3, <2>5, <3>1 DEF GroupIn, HasPlace, g
      <4> QED BY <4>1
    <3>2. CASE x # g
      <4>1. PICK mid : GroupIn(p, x, mid)
        BY <2>3, <2>5, <3>2 DEF RulesInv, GroupsInv
      <4>2. GroupIn(q, x, mid)
        BY <2>3, <2>5, <3>2, <4>1 DEF GroupIn
      <4> QED BY <4>2
    <3> QED BY <3>1, <3>2
  <2> QED BY <2>5, <2>6, <2>7, <2>8, <2>9 DEF RulesInv, q
<1> QED BY <1>1, <1>2, <1>3

\* add_ipv4_route: the new route leads to a participant of the stream's meeting.
LEMMA AddRouteRules ==
    ASSUME NEW p, NEW m, NEW ssrc, IsPRE(p), RulesInv(p),
           Running(p) => HasPlace(p, m) /\ InGroup(p, m, ssrc)
    PROVE  LET q == addRoute(p, m, ssrc)
           IN Grows(p, q) /\ RulesInv(q) /\ q.group = p.group
<1>1. CASE ~Running(p) \/ ssrc = NoRtx
  BY <1>1, GrowsSame DEF addRoute
<1>2. CASE Running(p) /\ ssrc # NoRtx
  <2> DEFINE r == p.rid[<<m.mid, m.dst>>]
             k == <<m.src, ssrc, r>>
             q == addEntry(p, "route", k, m.dst)
  <2>1. addRoute(p, m, ssrc) = q
    BY <1>2 DEF addRoute
  <2>2. k[1] = m.src /\ k[2] = ssrc /\ k[3] = r
    OBVIOUS
  <2> HIDE DEF k
  <2>3. /\ Grows(p, q) /\ q.group = p.group
        /\ \/ q.route = p.route
           \/ DOMAIN q.route = DOMAIN p.route \cup {k} /\ q.route[k] = m.dst
    BY AddEntryGrows
  <2> HIDE DEF q
  <2>4. CASE q.route = p.route
    BY <2>1, <2>3, <2>4, GrowsRules
  <2>5. CASE DOMAIN q.route = DOMAIN p.route \cup {k} /\ q.route[k] = m.dst
    <3>1. RoutesInv(q)
      <4> SUFFICES ASSUME NEW x \in DOMAIN q.route PROVE \E mid : RouteIn(q, x, mid)
        BY DEF RoutesInv
      <4>1. CASE x = k
        <5>1. HasPlace(q, m) /\ InGroup(q, m, ssrc)
          BY <1>2, <2>3, PlaceKept, ReplicatedKept
        <5>2. q.rid[<<m.mid, m.dst>>] = r
          BY <1>2, <2>3 DEF Grows, Extends, HasPlace
        <5>3. RouteIn(q, x, m.mid)
          BY <1>2, <2>2, <2>5, <4>1, <5>1, <5>2 DEF RouteIn, HasPlace, InGroup
        <5> QED BY <5>3
      <4>2. CASE x # k
        <5>1. PICK mid : RouteIn(p, x, mid)
          BY <2>5, <4>2 DEF RulesInv, RoutesInv
        <5>2. q.route[x] = p.route[x]
          BY <2>3, <2>5, <4>2 DEF Grows, Extends
        <5>3. RouteIn(q, x, mid)
          BY <2>3, <5>1, <5>2 DEF RouteIn, Grows, Extends, Covers
        <5> QED BY <5>3
      <4> QED BY <4>1, <4>2
    <3>2. GroupsInv(q)
      <4> SUFFICES ASSUME NEW x \in DOMAIN q.group PROVE \E mid : GroupIn(q, x, mid)
        BY DEF GroupsInv
      <4>1. PICK mid : GroupIn(p, x, mid)
        BY <2>3 DEF RulesInv, GroupsInv
      <4>2. GroupIn(q, x, mid)
        BY <2>3, <4>1 DEF GroupIn, Grows, Extends, Covers
      <4> QED BY <4>2
    <3> QED BY <2>1, <2>3, <3>1, <3>2 DEF RulesInv
  <2> QED BY <2>3, <2>4, <2>5
<1> QED BY <1>1, <1>2

\* The second part of add_stream.
LEMMA InstallRulesRules ==
    ASSUME NEW p, NEW m, IdsInv(p), RulesInv(p), Running(p) => HasPlace(p, m)
    PROVE  LET q == installRules(p, m)
           IN Grows(p, q) /\ RulesInv(q) /\ Covers(p.group, q.group)
<1> DEFINE a == addSender(p, m, m.ssrc)
           b == addSender(a, m, m.rtx)
           c == addNode(b, m.mid, m.src)
           d == addNode(c, m.mid, m.dst)
           e == updateGroup(d, m.mid)
           f == addExclusion(e, m.src)
           g == addRoute(f, m, m.ssrc)
           q == addRoute(g, m, m.rtx)
<1>1. IsPRE(p)
  BY DEF IdsInv
<1>2. IdsInv(a) /\ Prepares(p, a) /\ (Running(a) => InGroup(a, m, m.ssrc))
  BY <1>1, AddSenderGrows, AddEntryIds DEF addSender
<1>3. Running(a) => HasPlace(a, m)
  BY <1>2, PlaceKept DEF Prepares, Grows
<1> HIDE DEF a
<1>4. IdsInv(b) /\ Prepares(a, b) /\ (Running(b) => InGroup(b, m, m.rtx))
  BY <1>2, <1>3, AddSenderGrows, AddEntryIds DEF addSender, IdsInv
<1> HIDE DEF b
<1>5. IdsInv(c) /\ Prepares(b, c)
  BY <1>4, AddNodeGrows, AddEntryIds DEF addNode, IdsInv
<1> HIDE DEF c
<1>6. IdsInv(d) /\ Prepares(c, d)
  BY <1>5, AddNodeGrows, AddEntryIds DEF addNode, IdsInv
<1> HIDE DEF d
<1>7. Prepares(b, d) /\ Prepares(a, d) /\ Prepares(p, d)
  BY <1>2, <1>4, <1>5, <1>6, PreparesTransitive
<1>8. RulesInv(d) /\ Covers(p.group, d.group)
  BY <1>7, GrowsRules, SameExtends DEF Prepares
<1>9. Running(d) => HasPlace(d, m) /\ InGroup(d, m, m.ssrc) /\ InGroup(d, m, m.rtx)
  <2> SUFFICES ASSUME Running(d)
               PROVE  HasPlace(d, m) /\ InGroup(d, m, m.ssrc) /\ InGroup(d, m, m.rtx)
    OBVIOUS
  <2>1. Running(a) /\ Running(b)
    BY <1>7 DEF Prepares, Grows
  <2>2. HasPlace(a, m) /\ HasPlace(b, m) /\ HasPlace(d, m)
    BY <1>3, <1>4, <1>7, <2>1, PlaceKept DEF Prepares
  <2> QED BY <1>2, <1>4, <1>7, <2>1, <2>2, ReplicatedKept DEF Prepares
<1>10. Grows(d, e) /\ RulesInv(e) /\ Covers(d.group, e.group)
  BY <1>6, <1>8, <1>9, UpdateGroupRules
<1> HIDE DEF e
<1>11. Prepares(e, f)
  BY <1>10, AddNodeGrows DEF Grows
<1> HIDE DEF f
<1>12. Grows(d, f) /\ RulesInv(f) /\ Covers(d.group, f.group)
  BY <1>10, <1>11, GrowsTransitive, GrowsRules DEF Prepares
<1>13. Running(f) => HasPlace(f, m) /\ InGroup(f, m, m.ssrc) /\ InGroup(f, m, m.rtx)
  <2>1. Running(f) => Running(d)
    BY <1>12 DEF Grows
  <2> QED BY <1>9, <1>12, <2>1, PlaceKept, ReplicatedKept
<1>14. Grows(f, g) /\ RulesInv(g) /\ g.group = f.group
  BY <1>12, <1>13, AddRouteRules DEF Grows
<1> HIDE DEF g
<1>15. Running(g) => HasPlace(g, m) /\ InGroup(g, m, m.rtx)
  <2>1. Running(g) => Running(f)
    BY <1>14 DEF Grows
  <2> QED BY <1>13, <1>14, <2>1, PlaceKept, ReplicatedKept
<1>16. Grows(g, q) /\ RulesInv(q) /\ q.group = g.group
  BY <1>14, <1>15, AddRouteRules DEF Grows
<1> HIDE DEF q
<1>17. Grows(p, q)
  BY <1>7, <1>12, <1>14, <1>16, GrowsTransitive DEF Prepares
<1>18. Covers(p.group, q.group)
  BY <1>8, <1>12, <1>14, <1>16 DEF Covers
<1>19. installRules(p, m) = q
  BY DEF installRules, q, g, f, e, d, c, b, a
<1> QED BY <1>16, <1>17, <1>18, <1>19

-----------------------------------------------------------------------------

\* The exit of a record says nothing about its rules.
LEMMA ExitRules ==
    ASSUME NEW p, NEW e, IsPRE(p), RulesInv(p)
    PROVE  LET q == [p EXCEPT !.exit = e] IN RulesInv(q) /\ Keeps(p, q)
<1> DEFINE q == [p EXCEPT !.exit = e]
<1>1. /\ q.parts = p.parts /\ q.mgid = p.mgid /\ q.nid = p.nid
      /\ q.rid = p.rid /\ q.repl = p.repl /\ q.node = p.node /\ q.prune = p.prune
      /\ q.route = p.route /\ q.group = p.group
  BY DEF IsPRE
<1> HIDE DEF q
<1>2. RulesInv(q)
  BY <1>1 DEF RulesInv, RoutesInv, RouteIn, GroupsInv, GroupIn
<1>3. Keeps(p, q)
  BY <1>1 DEF Keeps
<1> QED BY <1>2, <1>3 DEF q

\* What only grows is kept.
LEMMA GrowsKeeps ==
    ASSUME NEW p, NEW q, Grows(p, q), Covers(p.group, q.group)
    PROVE  Keeps(p, q)
BY DEF Keeps, Grows, Extends, Covers

\* Keeping is transitive.
LEMMA KeepsTransitive ==
    ASSUME NEW p, NEW q, NEW r, Keeps(p, q), Keeps(q, r)
    PROVE  Keeps(p, r)
BY DEF Keeps

\* Any message keeps the rules in their meetings, and those that are there.
LEMMA OnMessageRules ==
    ASSUME NEW p, NEW m, IdsInv(p), RulesInv(p)
    PROVE  RulesInv(OnMessage(p, m)) /\ Keeps(p, OnMessage(p, m))
<1> DEFINE a == assignIds(p, m)
           b == installRules(a, m)
<1>0. IsPRE(p)
  BY DEF IdsInv
<1>1. IdsInv(a) /\ Prepares(p, a) /\ (Running(a) => HasPlace(a, m))
  BY <1>0, AssignIdsIds, AssignIdsGrows
<1> HIDE DEF a
<1>2. RulesInv(a) /\ Covers(p.group, a.group)
  BY <1>1, GrowsRules, SameExtends DEF Prepares
<1>3. Grows(a, b) /\ RulesInv(b) /\ Covers(a.group, b.group)
  BY <1>1, <1>2, InstallRulesRules
<1> HIDE DEF b
<1>4. Grows(p, b) /\ Covers(p.group, b.group)
  BY <1>1, <1>2, <1>3, GrowsTransitive DEF Prepares, Covers
<1>5. Keeps(p, b) /\ IsPRE(b)
  BY <1>4, GrowsKeeps DEF Grows
<1>6. RulesInv(Returned(b)) /\ Keeps(p, Returned(b))
  <2>1. CASE b.exit = "returned"
    <3>1. Returned(b) = [b EXCEPT !.exit = "no"]
      BY <2>1 DEF Returned
    <3> QED BY <1>3, <1>5, <3>1, ExitRules, KeepsTransitive
  <2>2. CASE b.exit # "returned"
    BY <1>3, <1>5, <2>2 DEF Returned
  <2> QED BY <2>1, <2>2
<1>7. add_stream(p, m) = Returned(b)
  BY DEF add_stream, a, b
<1>8. Keeps(p, p)
  BY DEF Keeps
<1>9. RulesInv([p EXCEPT !.exit = "raised"]) /\ Keeps(p, [p EXCEPT !.exit = "raised"])
  BY <1>0, ExitRules
<1>10. OnMessage(p, m) \in {Returned(b), [p EXCEPT !.exit = "raised"], p}
  BY <1>7 DEF OnMessage
<1> QED BY <1>6, <1>8, <1>9, <1>10

\* The same of the state of the process.
RulesHold == RulesInv(pre)

\* What a step of the switch does to the rules.
LEMMA NextRules ==
    ASSUME IdsHold, RulesHold, [SwitchNext]_vars
    PROVE  RulesHold' /\ (RestartProcess \/ Keeps(pre, pre'))
<1>1. ASSUME UNCHANGED pre PROVE RulesHold' /\ Keeps(pre, pre')
  BY <1>1 DEF RulesHold, Keeps
<1>2. CASE Recv
  <2>1. pre' = OnMessage(pre, Head(queue))
    BY <1>2 DEF Recv
  <2> QED BY <2>1, OnMessageRules DEF IdsHold, RulesHold
<1>3. CASE RestartProcess
  <2>1. pre' = NewPRE
    BY <1>3 DEF RestartProcess, Restart
  <2>2. RulesInv(NewPRE)
    BY DEF NewPRE, Empty, RulesInv, RoutesInv, GroupsInv
  <2> QED BY <1>3, <2>1, <2>2 DEF RulesHold
<1>4. ASSUME NEW s \in Streams, AgentAddStream(s) \/ AgentRemoveStream(s)
      PROVE  UNCHANGED pre
  BY <1>4 DEF AgentAddStream, AgentRemoveStream
<1>5. ASSUME NEW i \in DOMAIN rcv, AgentSetQuality(rcv[i])
      PROVE  UNCHANGED pre
  BY <1>5 DEF AgentSetQuality
<1>6. CASE AdapterAddStream \/ AdapterAdjustDecodeTarget \/ Connect \/ Disconnect
  BY <1>1, <1>6 DEF AdapterAddStream, AdapterAdjustDecodeTarget, AdapterSends, Connect, Disconnect
<1>7. CASE UNCHANGED vars
  BY <1>1, <1>7 DEF vars
<1> QED BY <1>1, <1>2, <1>3, <1>4, <1>5, <1>6, <1>7 DEF SwitchNext

\* Routes and groups stay in their meetings.
THEOREM RulesInvariant == SwitchSpec => []RulesHold
<1>1. SwitchInit => RulesHold
  BY DEF SwitchInit, Init, NewPRE, Empty, RulesHold, RulesInv, RoutesInv, GroupsInv
<1>2. IdsHold /\ RulesHold /\ [SwitchNext]_vars => RulesHold'
  BY NextRules
<1> QED BY <1>1, <1>2, IdsInvariant, PTL DEF SwitchSpec

\* Every route leads from a stream to a participant of the meeting whose group
\* the stream is replicated to, by that participant's replication id: no rule
\* that PRE.add_stream installs takes media out of its meeting.
THEOREM RoutesInMeetingAlways == SwitchSpec => []RoutesInMeeting
<1>1. RulesHold => RoutesInMeeting
  BY DEF RulesHold, RulesInv, RoutesInv, RouteIn, RoutesInMeeting
<1> QED BY <1>1, RulesInvariant, PTL

\* A rule stays as it was installed, and nobody is taken out of a group, until the
\* process is started again, whatever is asked for, refused or fails half way.
THEOREM RulesKeptAlways == SwitchSpec => RulesKept
<1>1. IdsHold /\ RulesHold /\ [SwitchNext]_vars => [RestartProcess \/ Keeps(pre, pre')]_vars
  BY NextRules
<1>2. SwitchSpec => [][RestartProcess \/ Keeps(pre, pre')]_vars
  BY <1>1, IdsInvariant, RulesInvariant, PTL DEF SwitchSpec
<1> QED BY <1>2 DEF RulesKept


-----------------------------------------------------------------------------
(* The pipeline *)

\* The number of rules.
LEMMA RuleCount == DOMAIN ConsumerTable = 1..19
BY DEF ConsumerTable

\* The first rule that matches decides.
LEMMA FirstRule ==
    ASSUME NEW pkt, NEW i \in DOMAIN ConsumerTable, Matches(ConsumerTable[i], pkt),
           \A j \in DOMAIN ConsumerTable : j < i => ~Matches(ConsumerTable[j], pkt),
           pkt.port \notin {BLUEFIELD3_PORT_P0, BLUEFIELD3_PORT_P1}
    PROVE  Consumer(pkt) = ConsumerTable[i][5]
<1> DEFINE hits == {n \in DOMAIN ConsumerTable : Matches(ConsumerTable[n], pkt)}
           first == CHOOSE n \in hits : \A j \in hits : n <= j
<1>0. DOMAIN ConsumerTable = 1..19
  BY RuleCount
<1>1. i \in hits /\ \A j \in hits : i <= j
  BY <1>0
<1>2. first \in hits /\ \A j \in hits : first <= j
  <2> HIDE DEF hits
  <2> QED BY <1>1
<1>3. first = i
  <2>1. hits \subseteq Nat
    BY <1>0
  <2> HIDE DEF hits, first
  <2> QED BY <1>1, <1>2, <2>1
<1>4. Consumer(pkt) = IF hits = {} THEN "null" ELSE ConsumerTable[first][5]
  BY DEF Consumer
<1> QED BY <1>1, <1>3, <1>4

\* What a client sends to the SFU is for the SFU.
LEMMA ClientPackets ==
    ASSUME NEW a, a[1] \in DOMAIN EgressPorts, NEW kind \in {"stun", "rtp", "sr"},
           NEW ssrc, NEW ext
    PROVE  PacketType(ToSFU(a, kind, ssrc, ext)) = "sfu_udp"
<1> DEFINE pkt == ToSFU(a, kind, ssrc, ext)
<1>1. /\ pkt.eth = "ip" /\ pkt.src = a[1] /\ pkt.port = EgressPorts[a[1]] /\ pkt.kind = kind
      /\ pkt.dst = SFU_IP /\ pkt.dport = SFU_UDP_PORT
  BY DEF ToSFU, Eport
<1> HIDE DEF pkt
<1>2. Consumer(pkt) = "sfu"
  <2>1. CASE a[1] = CABERNET802_IP /\ EgressPorts[a[1]] = CABERNET802_PORT
    <3>1. Matches(ConsumerTable[11], pkt) /\ ConsumerTable[11][5] = "sfu" /\ 11 \in DOMAIN ConsumerTable
      BY <1>1, <2>1 DEF ConsumerTable, Matches
    <3>2. ASSUME NEW j \in DOMAIN ConsumerTable, j < 11, Matches(ConsumerTable[j], pkt) PROVE FALSE
      <4>1. /\ ConsumerTable[j][1] = pkt.port /\ ConsumerTable[j][2] \in {"ip", "arp"}
            /\ ConsumerTable[j][2] = "arp" => pkt.eth = "arp_request"
            /\ ConsumerTable[j][3] \in {Wild, pkt.src} /\ ConsumerTable[j][4] \in {Wild, pkt.dst}
        BY <3>2, <1>1 DEF Matches
      <4>2. j \in 1..10
        BY <3>2, RuleCount
      <4> QED BY <4>1, <4>2, <1>1, <2>1 DEF ConsumerTable, CABERNET802_PORT, CABMEATY02_PORT, CPU_PORT,
             BLUEFIELD3_PORT_P0, BLUEFIELD3_PORT_P1, CABERNET802_IP, CABMEATY02_IP, SFU_IP, BF3_SFU_IP, Wild
    <3> QED BY <1>1, <2>1, <3>1, <3>2, FirstRule DEF CABERNET802_PORT, BLUEFIELD3_PORT_P0, BLUEFIELD3_PORT_P1
  <2>2. CASE a[1] = CABMEATY02_IP /\ EgressPorts[a[1]] = CABMEATY02_PORT
    <3>1. Matches(ConsumerTable[12], pkt) /\ ConsumerTable[12][5] = "sfu" /\ 12 \in DOMAIN ConsumerTable
      BY <1>1, <2>2 DEF ConsumerTable, Matches
    <3>2. ASSUME NEW j \in DOMAIN ConsumerTable, j < 12, Matches(ConsumerTable[j], pkt) PROVE FALSE
      <4>1. /\ ConsumerTable[j][1] = pkt.port /\ ConsumerTable[j][2] \in {"ip", "arp"}
            /\ ConsumerTable[j][2] = "arp" => pkt.eth = "arp_request"
            /\ ConsumerTable[j][3] \in {Wild, pkt.src} /\ ConsumerTable[j][4] \in {Wild, pkt.dst}
        BY <3>2, <1>1 DEF Matches
      <4>2. j \in 1..11
        BY <3>2, RuleCount
      <4> QED BY <4>1, <4>2, <1>1, <2>2 DEF ConsumerTable, CABERNET802_PORT, CABMEATY02_PORT, CPU_PORT,
             BLUEFIELD3_PORT_P0, BLUEFIELD3_PORT_P1, CABERNET802_IP, CABMEATY02_IP, SFU_IP, BF3_SFU_IP, Wild
    <3> QED BY <1>1, <2>2, <3>1, <3>2, FirstRule DEF CABMEATY02_PORT, BLUEFIELD3_PORT_P0, BLUEFIELD3_PORT_P1
  <2> QED BY <2>1, <2>2, PipelineAssumption
<1>3. IsUDP(pkt)
  BY <1>1 DEF IsUDP, UDP
<1> QED BY <1>1, <1>2, <1>3 DEF PacketType, pkt

\* The two ways of a connectivity check do not depend on any rule of PRE.
LEMMA ChecksPass == ChecksAnswered
<1> SUFFICES ASSUME NEW a \in Addrs, a[1] \in DOMAIN EgressPorts
             PROVE  LET check  == ToSFU(a, "stun", NoRtx, CHOOSE e \in Exts : TRUE)
                        answer == [check EXCEPT !.port = CPU_PORT, !.src = SFU_IP, !.sport = SFU_UDP_PORT,
                                                !.dst = a[1], !.dport = a[2]]
                    IN /\ {c.port : c \in Switch(pre, check)} = {CPU_PORT}
                       /\ Switch(pre, answer) = {[port |-> Eport(a), mac |-> MacOf(a[1]), to |-> a]}
  BY DEF ChecksAnswered
<1>1. PICK ext : ext = CHOOSE e \in Exts : TRUE
  OBVIOUS
<1> DEFINE check  == ToSFU(a, "stun", NoRtx, ext)
           answer == [check EXCEPT !.port = CPU_PORT, !.src = SFU_IP, !.sport = SFU_UDP_PORT,
                                   !.dst = a[1], !.dport = a[2]]
<1>2. {c.port : c \in Switch(pre, check)} = {CPU_PORT}
  <2>1. PacketType(check) = "sfu_udp"
    BY ClientPackets
  <2>2. check.kind = "stun"
    BY DEF ToSFU
  <2> HIDE DEF check
  <2>3. Replicas(pre, check) = {}
    BY <2>2 DEF Replicas, Replicated
  <2>4. Switch(pre, check) = {[port |-> CPU_PORT, mac |-> "sfu", to |-> <<check.dst, check.dport>>]}
    BY <2>1, <2>2, <2>3 DEF Switch, copy_to_cpu
  <2> QED BY <2>4
<1>3. Switch(pre, answer) = {[port |-> Eport(a), mac |-> MacOf(a[1]), to |-> a]}
  <2>1. /\ answer.port = CPU_PORT /\ answer.eth = "ip" /\ answer.src = SFU_IP
        /\ answer.dst = a[1] /\ answer.dport = a[2]
    BY DEF ToSFU
  <2>2. a = <<a[1], a[2]>>
    BY TofinoAssumption
  <2> HIDE DEF answer
  <2>3. CASE a[1] = CABMEATY02_IP /\ EgressPorts[a[1]] = CABMEATY02_PORT
    <3>1. Matches(ConsumerTable[16], answer) /\ ConsumerTable[16][5] = "clients" /\ 16 \in DOMAIN ConsumerTable
      BY <2>1, <2>3 DEF ConsumerTable, Matches
    <3>2. ASSUME NEW j \in DOMAIN ConsumerTable, j < 16, Matches(ConsumerTable[j], answer) PROVE FALSE
      <4>1. ConsumerTable[j][1] = CPU_PORT /\ ConsumerTable[j][2] \in {"ip", "arp"}
            /\ ConsumerTable[j][2] # "arp"
        <5>1. /\ ConsumerTable[j][1] = CPU_PORT
              /\ ConsumerTable[j][2] = "ip" \/ (ConsumerTable[j][2] = "arp" /\ "ip" = "arp_request")
          BY <3>2, <2>1 DEF Matches
        <5> QED BY <5>1
      <4>2. j \in 1..15
        BY <3>2, RuleCount
      <4> QED BY <4>1, <4>2 DEF ConsumerTable, CABERNET802_PORT, CABMEATY02_PORT, CPU_PORT,
             BLUEFIELD3_PORT_P0, BLUEFIELD3_PORT_P1
    <3>3. Consumer(answer) = "clients"
      BY <2>1, <3>1, <3>2, FirstRule DEF CPU_PORT, BLUEFIELD3_PORT_P0, BLUEFIELD3_PORT_P1
    <3>4. PacketType(answer) = "clients"
      BY <3>3 DEF PacketType
    <3>5. MacOf(a[1]) = "cabmeaty02"
      BY <2>3 DEF MacOf, CABMEATY02_IP, CABERNET802_IP
    <3> QED BY <2>1, <2>2, <2>3, <3>4, <3>5 DEF Switch, Eport
  <2>4. CASE a[1] = CABERNET802_IP /\ EgressPorts[a[1]] = CABERNET802_PORT
    <3>1. Matches(ConsumerTable[17], answer) /\ ConsumerTable[17][5] = "controller" /\ 17 \in DOMAIN ConsumerTable
      BY <2>1, <2>4 DEF ConsumerTable, Matches
    <3>2. ASSUME NEW j \in DOMAIN ConsumerTable, j < 17, Matches(ConsumerTable[j], answer) PROVE FALSE
      <4>1. /\ ConsumerTable[j][1] = answer.port /\ ConsumerTable[j][2] \in {"ip", "arp"}
            /\ ConsumerTable[j][2] = "arp" => answer.eth = "arp_request"
            /\ ConsumerTable[j][3] \in {Wild, answer.src} /\ ConsumerTable[j][4] \in {Wild, answer.dst}
        BY <3>2, <2>1 DEF Matches
      <4>2. j \in 1..16
        BY <3>2, RuleCount
      <4> QED BY <4>1, <4>2, <2>1, <2>4 DEF ConsumerTable, CABERNET802_PORT, CABMEATY02_PORT, CPU_PORT,
             BLUEFIELD3_PORT_P0, BLUEFIELD3_PORT_P1, CABERNET802_IP, CABMEATY02_IP, SFU_IP, BF3_SFU_IP, Wild
    <3>3. Consumer(answer) = "controller"
      BY <2>1, <3>1, <3>2, FirstRule DEF CPU_PORT, BLUEFIELD3_PORT_P0, BLUEFIELD3_PORT_P1
    <3>4. PacketType(answer) = "controller"
      BY <3>3 DEF PacketType
    <3>5. MacOf(a[1]) = "cabernet802"
      BY <2>4 DEF MacOf, CABMEATY02_IP, CABERNET802_IP
    <3>6. Switch(pre, answer) = {[port |-> CABERNET802_PORT, mac |-> "cabernet802",
                                   to |-> <<answer.dst, answer.dport>>]}
      <4>1. PacketType(answer) \notin {"bf_p0", "bf_p1", "clients", "arp", "icmp", "sfu_udp"}
        BY <3>4
      <4> HIDE DEF PacketType
      <4> QED BY <3>4, <4>1, Zenon DEF Switch
    <3> QED BY <2>1, <2>2, <2>4, <3>5, <3>6 DEF Eport
  <2> QED BY <2>3, <2>4, PipelineAssumption
<1> QED BY <1>1, <1>2, <1>3

\* A connectivity check of any client reaches the agent, and the answer the agent
\* injects reaches the client, whatever rules are installed or missing.
THEOREM ChecksAlwaysAnswered == SwitchSpec => []ChecksAnswered
BY ChecksPass, PTL

-----------------------------------------------------------------------------
(* The script *)

\* Only leaves a sequence of elements that were there and that it is to keep.
LEMMA OnlyTyped ==
    ASSUME NEW T, NEW s \in Seq(T), NEW S
    PROVE  Only(s, S) \in Seq(Values(s) \cap S)
<1> DEFINE U == Values(s) \cap S
           N == Len(s)
           F == [n \in 1..N |-> [q \in Seq(U) |-> IF s[n] \in S THEN Append(q, s[n]) ELSE q]]
           Kept(f) == f = [n \in 0..N |-> IF n = 0 THEN <<>>
                                          ELSE IF s[n] \in S THEN Append(f[n - 1], s[n]) ELSE f[n - 1]]
<1>1. N \in Nat /\ DOMAIN s = 1..N
  OBVIOUS
<1>2. \A n \in 1..N : s[n] \in S => s[n] \in U
  BY <1>1 DEF Values
<1> HIDE DEF U
<1>3. F \in [1..N -> [Seq(U) -> Seq(U)]]
  BY <1>2
<1>4. PICK f \in [0..N -> Seq(U)] : IsLoop(f, N, <<>>, F)
  <2>1. <<>> \in Seq(U)
    OBVIOUS
  <2> HIDE DEF F, N
  <2> QED BY <1>1, <1>3, <2>1, LoopExists
<1>5. Kept(f)
  <2>1. \A n \in 1..N : n - 1 \in 0..N /\ f[n - 1] \in Seq(U)
    BY <1>1
  <2>2. \A n \in 1..N : F[n][f[n - 1]] = IF s[n] \in S THEN Append(f[n - 1], s[n]) ELSE f[n - 1]
    BY <2>1
  <2> HIDE DEF F
  <2> QED BY <1>4, <2>2 DEF IsLoop
<1> DEFINE kept == CHOOSE g : Kept(g)
<1>6. Kept(kept)
  <2> HIDE DEF Kept
  <2> QED BY <1>5
<1>7. Only(s, S) = kept[N]
  BY DEF Only
<1> HIDE DEF kept
<1> DEFINE Good == {n \in 0..N : kept[n] \in Seq(U)}
<1>8. 0 \in Good
  BY <1>1, <1>6
<1>9. ASSUME NEW n \in 1..N, n - 1 \in Good PROVE n \in Good
  <2>1. kept[n] = IF s[n] \in S THEN Append(kept[n - 1], s[n]) ELSE kept[n - 1]
    <3>1. n \in 0..N /\ n # 0
      BY <1>1
    <3> HIDE DEF N, Good
    <3> QED BY <1>6, <3>1
  <2> HIDE DEF Kept
  <2>2. kept[n - 1] \in Seq(U)
    BY <1>9
  <2>3. kept[n] \in Seq(U)
    BY <1>2, <2>1, <2>2
  <2> QED BY <1>1, <2>3
<1> HIDE DEF Good, N
<1>10. 0..N \subseteq Good
  BY <1>1, <1>8, <1>9, UpTo
<1> QED BY <1>1, <1>7, <1>10 DEF Good, U

\* Calls to the process, and receive streams of the script.
Rcvs == [mid : Meetings, src : Addrs, ssrc : SSRCs, rtx : SSRCs \cup {NoRtx}, dst : Addrs]

Adds == [api : {"add_stream"}, mid : Meetings, src : Addrs, ssrc : SSRCs,
         rtx : SSRCs \cup {NoRtx}, dst : Addrs]

Others == {"remove_stream", "set_quality", "add_stream without mid", "disable_av1_enhancement_layer"}

Calls == Adds \cup [api : Others]

\* The place of a pair among all pairs.
LEMMA PairPlace ==
    ASSUME NEW L \in Nat, NEW n \in Nat, NEW i \in 1..L * n
    PROVE  1 + ((i - 1) \div n) \in 1..L /\ 1 + ((i - 1) % n) \in 1..n
<1>1. n # 0
  BY SMT
<1>2. PICK q, r \in Int : q = (i - 1) \div n /\ r = (i - 1) % n
  BY <1>1
<1>3. i - 1 = q * n + r /\ r \in 0..n - 1
  BY <1>1, <1>2
<1>4. q >= 0 /\ q < L
  BY <1>1, <1>3
<1> QED BY <1>2, <1>3, <1>4

\* Every receive stream the script wants has its type.
LEMMA ActiveTyped ==
    ASSUME NEW snds \in Seq(Streams), NEW ps \in Seq(Meetings \X Addrs)
    PROVE  active(snds, ps) \in Seq(Rcvs)
<1> DEFINE n == Len(ps)
           pairs == [i \in 1..Len(snds) * n |-> <<snds[1 + ((i - 1) \div n)], ps[1 + ((i - 1) % n)]>>]
           S == {x \in Values(pairs) : x[1].mid = x[2][1] /\ x[1].src # x[2][2]}
           heard == Only(pairs, S)
           P == Streams \X (Meetings \X Addrs)
<1>1. pairs \in Seq(P)
  <2>1. Len(snds) * n \in Nat
    OBVIOUS
  <2>2. \A i \in 1..Len(snds) * n : <<snds[1 + ((i - 1) \div n)], ps[1 + ((i - 1) % n)]>> \in P
    BY PairPlace
  <2> QED BY <2>1, <2>2
<1>2. heard \in Seq(P)
  <2> HIDE DEF pairs, P, S
  <2>1. heard \in Seq(Values(pairs) \cap S)
    BY <1>1, OnlyTyped
  <2>2. Values(pairs) \cap S \subseteq P
    BY <1>1 DEF Values
  <2> QED BY <2>1, <2>2
<1> HIDE DEF heard
<1>3. \A i \in DOMAIN heard : /\ heard[i][1] \in Streams /\ heard[i][2][2] \in Addrs
  BY <1>2
<1> DEFINE m(i) == [mid |-> heard[i][1].mid, src |-> heard[i][1].src,
                    ssrc |-> heard[i][1].ssrc, rtx |-> heard[i][1].rtx,
                    dst |-> heard[i][2][2]]
<1>4. \A i \in DOMAIN heard : m(i) \in Rcvs
  BY <1>3, TofinoSwitchAssumption DEF Rcvs
<1>5. active(snds, ps) = [i \in DOMAIN heard |-> m(i)]
  BY DEF active, heard
<1> HIDE DEF m
<1>6. DOMAIN heard = 1..Len(heard) /\ Len(heard) \in Nat
  BY <1>2
<1> QED BY <1>4, <1>5, <1>6

\* Messages about a list of receive streams.
LEMMA MessagesTyped ==
    ASSUME NEW api, NEW rs \in Seq(Rcvs), api = "add_stream" \/ api \in Others
    PROVE  /\ Messages(api, rs) \in Seq(Calls)
           /\ DOMAIN Messages(api, rs) = DOMAIN rs
           /\ \A i \in DOMAIN rs : Messages(api, rs)[i] = Message(api, rs[i])
<1>1. \A r \in Rcvs : Message(api, r) \in Calls
  <2> SUFFICES ASSUME NEW r \in Rcvs PROVE Message(api, r) \in Calls
    OBVIOUS
  <2>1. CASE api = "add_stream"
    BY <2>1 DEF Message, Calls, Adds, Rcvs
  <2>2. CASE api # "add_stream"
    BY <2>2 DEF Message, Calls
  <2> QED BY <2>1, <2>2
<1>2. DOMAIN rs = 1..Len(rs) /\ Len(rs) \in Nat /\ \A i \in 1..Len(rs) : rs[i] \in Rcvs
  OBVIOUS
<1> QED BY <1>1, <1>2 DEF Messages

\* The elements of two sequences in a row.
LEMMA ValuesOfConcat ==
    ASSUME NEW T, NEW s \in Seq(T), NEW t \in Seq(T)
    PROVE  Values(s \o t) = Values(s) \cup Values(t)
<1>1. /\ Len(s) \in Nat /\ Len(t) \in Nat /\ s \o t \in Seq(T)
      /\ DOMAIN s = 1..Len(s) /\ DOMAIN t = 1..Len(t) /\ DOMAIN (s \o t) = 1..Len(s) + Len(t)
      /\ \A i \in 1..Len(s) : (s \o t)[i] = s[i]
      /\ \A i \in 1..Len(t) : Len(s) + i \in 1..Len(s) + Len(t) /\ (s \o t)[Len(s) + i] = t[i]
      /\ \A i \in 1..Len(s) + Len(t) :
            i \in 1..Len(s) \/ (i - Len(s) \in 1..Len(t) /\ i = Len(s) + (i - Len(s)))
  OBVIOUS
<1>2. ASSUME NEW x \in Values(s \o t) PROVE x \in Values(s) \cup Values(t)
  BY <1>1 DEF Values
<1>3. ASSUME NEW x \in Values(s) \cup Values(t) PROVE x \in Values(s \o t)
  <2>1. CASE x \in Values(s)
    BY <1>1, <2>1 DEF Values
  <2>2. CASE x \in Values(t)
    <3>1. PICK i \in 1..Len(t) : x = t[i]
      BY <1>1, <2>2 DEF Values
    <3>2. Len(s) + i \in DOMAIN (s \o t) /\ (s \o t)[Len(s) + i] = x
      BY <1>1, <3>1
    <3> QED BY <3>2 DEF Values
  <2> QED BY <1>3, <2>1, <2>2
<1> QED BY <1>2, <1>3

\* The state of the script has its type.
ScriptTyped ==
    /\ snd \in Seq(Streams) /\ parts \in Seq(Meetings \X Addrs) /\ rcv \in Seq(Rcvs)
    /\ queue \in Seq(Calls) /\ served \subseteq Calls

\* What the script has a receive stream for was asked for, on this connection, and
\* is on its way or was taken.
Asked ==
    conn = "open" /\ server = "script" =>
        \A r \in Values(rcv) : Message("add_stream", r) \in served \cup Values(queue)

\* What a change of streams and participants makes of receive streams and queue.
LEMMA Recomposed ==
    ASSUME ScriptTyped, NEW snds \in Seq(Streams), NEW ps \in Seq(Meetings \X Addrs),
           recompose_receive_streams(snds, ps)
    PROVE  /\ snd' = snds /\ parts' = ps /\ rcv' \in Seq(Rcvs) /\ queue' \in Seq(Calls)
           /\ Values(queue) \subseteq Values(queue')
           /\ \A r \in Values(rcv') : r \in Values(rcv) \/ Message("add_stream", r) \in Values(queue')
<1> DEFINE now  == active(snds, ps)
           kept == Only(rcv, Values(now))
           gone == Only(rcv, Values(rcv) \ Values(now))
           new  == Only(now, Values(now) \ Values(rcv))
           told == Messages("remove_stream", gone)
           asks == Messages("add_stream", new)
<1>1. snd' = snds /\ parts' = ps /\ rcv' = kept \o new /\ queue' = queue \o told \o asks
  BY DEF recompose_receive_streams
<1>2. rcv \in Seq(Rcvs) /\ now \in Seq(Rcvs) /\ queue \in Seq(Calls)
  BY ActiveTyped DEF ScriptTyped
<1>3. Values(rcv) \subseteq Rcvs /\ Values(now) \subseteq Rcvs
  <2> HIDE DEF now
  <2> QED BY <1>2 DEF Values
<1> HIDE DEF now
<1>4. kept \in Seq(Values(rcv)) /\ gone \in Seq(Rcvs) /\ new \in Seq(Rcvs) /\ kept \in Seq(Rcvs)
  <2>1. kept \in Seq(Values(rcv) \cap Values(now)) /\ gone \in Seq(Values(rcv) \cap (Values(rcv) \ Values(now)))
        /\ new \in Seq(Values(now) \cap (Values(now) \ Values(rcv)))
    BY <1>2, OnlyTyped
  <2> HIDE DEF kept, gone, new
  <2> QED BY <1>3, <2>1
<1> HIDE DEF kept, gone, new
<1>5. told \in Seq(Calls) /\ asks \in Seq(Calls)
  BY <1>4, MessagesTyped DEF Others
<1>6. \A r \in Values(new) : Message("add_stream", r) \in Values(asks)
  <2>1. DOMAIN asks = DOMAIN new /\ \A i \in DOMAIN new : asks[i] = Message("add_stream", new[i])
    BY <1>4, MessagesTyped
  <2> HIDE DEF asks
  <2> QED BY <2>1 DEF Values
<1> HIDE DEF told, asks
<1>7. queue \o told \in Seq(Calls) /\ queue' \in Seq(Calls) /\ rcv' \in Seq(Rcvs)
  BY <1>1, <1>2, <1>4, <1>5
<1>8. Values(queue') = Values(queue \o told) \cup Values(asks)
      /\ Values(queue \o told) = Values(queue) \cup Values(told)
  <2>1. PICK u \in Seq(Calls) : u = queue \o told
    BY <1>7
  <2>2. queue' = u \o asks
    BY <1>1, <2>1
  <2>3. Values(u \o asks) = Values(u) \cup Values(asks)
    BY <1>5, ValuesOfConcat
  <2>4. Values(u) = Values(queue) \cup Values(told)
    BY <1>2, <1>5, <2>1, ValuesOfConcat
  <2> QED BY <2>1, <2>2, <2>3, <2>4
<1>9. Values(rcv') = Values(kept) \cup Values(new)
  BY <1>1, <1>4, ValuesOfConcat
<1>10. Values(kept) \subseteq Values(rcv)
  <2>1. \A i \in DOMAIN kept : kept[i] \in Values(rcv)
    BY <1>4
  <2> QED BY <2>1 DEF Values
<1> QED BY <1>1, <1>6, <1>7, <1>8, <1>9, <1>10

\* A step of the script that changes its streams and participants.
LEMMA RecomposedAsked ==
    ASSUME ScriptTyped, Asked, NEW snds \in Seq(Streams), NEW ps \in Seq(Meetings \X Addrs),
           recompose_receive_streams(snds, ps), conn' = conn, server' = server, served' = served
    PROVE  ScriptTyped' /\ Asked'
<1>1. ScriptTyped'
  BY Recomposed DEF ScriptTyped
<1>2. Asked'
  BY Recomposed DEF Asked
<1> QED BY <1>1, <1>2

\* Streams come.
LEMMA AddStreamAsked ==
    ASSUME ScriptTyped, Asked, NEW s \in Streams, AgentAddStream(s)
    PROVE  ScriptTyped' /\ Asked'
<1> DEFINE ps == IF In(<<s.mid, s.src>>, parts) THEN parts ELSE Append(parts, <<s.mid, s.src>>)
<1>1. recompose_receive_streams(Append(snd, s), ps) /\ conn' = conn /\ server' = server /\ served' = served
  BY DEF AgentAddStream
<1>2. Append(snd, s) \in Seq(Streams) /\ ps \in Seq(Meetings \X Addrs)
  BY TofinoSwitchAssumption DEF ScriptTyped
<1> HIDE DEF ps
<1> QED BY <1>1, <1>2, RecomposedAsked

\* Streams go.
LEMMA RemoveStreamAsked ==
    ASSUME ScriptTyped, Asked, NEW s \in Streams, AgentRemoveStream(s)
    PROVE  ScriptTyped' /\ Asked'
<1> DEFINE left == Only(snd, Values(snd) \ {s})
           stays == \E i \in DOMAIN left : left[i].mid = s.mid /\ left[i].src = s.src
           fewer == Only(parts, Values(parts) \ {<<s.mid, s.src>>})
           ps == IF stays THEN parts ELSE fewer
<1>1. recompose_receive_streams(left, ps) /\ conn' = conn /\ server' = server /\ served' = served
  BY DEF AgentRemoveStream
<1>2. snd \in Seq(Streams) /\ parts \in Seq(Meetings \X Addrs)
  BY DEF ScriptTyped
<1>3. Values(snd) \subseteq Streams /\ Values(parts) \subseteq Meetings \X Addrs
  BY <1>2 DEF Values
<1>4. left \in Seq(Streams) /\ fewer \in Seq(Meetings \X Addrs)
  <2>1. left \in Seq(Values(snd) \cap (Values(snd) \ {s}))
        /\ fewer \in Seq(Values(parts) \cap (Values(parts) \ {<<s.mid, s.src>>}))
    BY <1>2, OnlyTyped
  <2> HIDE DEF left, fewer
  <2> QED BY <1>3, <2>1
<1>5. ps \in Seq(Meetings \X Addrs)
  BY <1>2, <1>4
<1> HIDE DEF left, ps
<1> QED BY <1>1, <1>4, <1>5, RecomposedAsked

\* One message joins the queue.
LEMMA OneMoreAsked ==
    ASSUME ScriptTyped, Asked, NEW m \in Calls, queue' = Append(queue, m),
           UNCHANGED <<server, conn, agentVars, served>>
    PROVE  ScriptTyped' /\ Asked'
<1>1. snd' = snd /\ parts' = parts /\ rcv' = rcv /\ served' = served /\ conn' = conn /\ server' = server
  BY DEF agentVars
<1>2. queue' \in Seq(Calls) /\ Values(queue) \subseteq Values(queue')
  <2>1. queue \in Seq(Calls)
    BY DEF ScriptTyped
  <2>2. /\ queue' \in Seq(Calls) /\ DOMAIN queue \subseteq DOMAIN queue'
        /\ \A i \in DOMAIN queue : queue'[i] = queue[i]
    BY <2>1
  <2> QED BY <2>2 DEF Values
<1> QED BY <1>1, <1>2 DEF ScriptTyped, Asked

\* Any step.
LEMMA NextAsked ==
    ASSUME ScriptTyped, Asked, [SwitchNext]_vars
    PROVE  ScriptTyped' /\ Asked'
<1>1. ASSUME NEW s \in Streams, AgentAddStream(s) \/ AgentRemoveStream(s)
      PROVE  ScriptTyped' /\ Asked'
  BY <1>1, AddStreamAsked, RemoveStreamAsked
<1>2. ASSUME NEW i \in DOMAIN rcv, AgentSetQuality(rcv[i])
      PROVE  ScriptTyped' /\ Asked'
  <2>1. Message("set_quality", rcv[i]) \in Calls
    BY DEF Message, Calls, Others
  <2> QED BY <1>2, <2>1, OneMoreAsked DEF AgentSetQuality
<1>3. CASE AdapterAddStream \/ AdapterAdjustDecodeTarget
  <2>1. PICK api \in Others : queue' = Append(queue, [api |-> api])
    BY <1>3 DEF AdapterAddStream, AdapterAdjustDecodeTarget, AdapterSends, Others
  <2>2. [api |-> api] \in Calls
    BY DEF Calls
  <2> QED BY <1>3, <2>1, <2>2, OneMoreAsked DEF AdapterAddStream, AdapterAdjustDecodeTarget, AdapterSends
<1>4. CASE Connect
  BY <1>4 DEF Connect, ScriptTyped, Asked, Values
<1>5. CASE Disconnect
  BY <1>5 DEF Disconnect, ScriptTyped, Asked, agentVars
<1>6. CASE Recv
  <2>1. queue \in Seq(Calls) /\ queue # <<>>
    BY <1>6 DEF Recv, ScriptTyped
  <2>2. Head(queue) \in Calls /\ Tail(queue) \in Seq(Calls)
        /\ Values(queue) \subseteq {Head(queue)} \cup Values(Tail(queue))
    <3>1. Head(queue) \in Calls /\ Tail(queue) \in Seq(Calls) /\ Head(queue) = queue[1]
      BY <2>1
    <3>2. DOMAIN queue = 1..Len(queue) /\ Len(queue) \in Nat /\ DOMAIN Tail(queue) = 1..Len(queue) - 1
      BY <2>1
    <3>3. \A i \in 1..Len(queue) : i # 1 => i - 1 \in DOMAIN Tail(queue) /\ Tail(queue)[i - 1] = queue[i]
      BY <2>1, <3>2
    <3> QED BY <3>1, <3>2, <3>3 DEF Values
  <2>3. /\ served' = served \cup {Head(queue)} /\ snd' = snd /\ parts' = parts /\ rcv' = rcv
        /\ server' = server
        /\ (conn' = conn /\ queue' = Tail(queue)) \/ (conn' = "closed" /\ queue' = <<>>)
    BY <1>6 DEF Recv, agentVars
  <2>4. ScriptTyped'
    <3>1. <<>> \in Seq(Calls)
      OBVIOUS
    <3>2. queue' \in Seq(Calls)
      BY <2>2, <2>3, <3>1
    <3> QED BY <2>2, <2>3, <3>2 DEF ScriptTyped
  <2>5. Asked'
    BY <2>2, <2>3 DEF Asked
  <2> QED BY <2>4, <2>5
<1>7. CASE RestartProcess
  BY <1>7 DEF RestartProcess, ScriptTyped, Asked, agentVars
<1>8. CASE UNCHANGED vars
  BY <1>8 DEF vars, agentVars, ScriptTyped, Asked
<1> QED BY <1>1, <1>2, <1>3, <1>4, <1>5, <1>6, <1>7, <1>8 DEF SwitchNext

\* Calls, streams and participants have their types, and what the script has is
\* asked for.
THEOREM AskedInvariant == SwitchSpec => [](ScriptTyped /\ Asked)
<1>1. SwitchInit => ScriptTyped /\ Asked
  BY DEF SwitchInit, ScriptTyped, Asked
<1>2. ScriptTyped /\ Asked /\ [SwitchNext]_vars => (ScriptTyped /\ Asked)'
  BY NextAsked
<1> QED BY <1>1, <1>2, PTL DEF SwitchSpec

\* When nothing is under way, the process has taken an add_stream for every receive
\* stream of the script, for any meetings and streams and however often the
\* connection broke.
THEOREM NothingForgottenAlways == SwitchSpec => []NothingForgotten
<1>1. ScriptTyped /\ Asked => NothingForgotten
  BY DEF Asked, NothingForgotten, Values
<1> QED BY <1>1, AskedInvariant, PTL

-----------------------------------------------------------------------------
(* What a call leaves: its rules, or the reason why there are none *)

\* A dictionary that is full stays as it is.
Fills(p, q) ==
    /\ Cardinality(DOMAIN p.mgid) >= MaxGroups => q.mgid = p.mgid
    /\ Cardinality(DOMAIN p.nid) >= MaxNodes => q.nid = p.nid
    /\ Cardinality(DOMAIN p.rid) >= MaxRids => q.rid = p.rid

\* A group, a node or a replication id that the stream m needs is missing, and will
\* be missing for good.
Stuck(p, m) ==
    \/ m.mid \notin DOMAIN p.mgid /\ Cardinality(DOMAIN p.mgid) >= MaxGroups
    \/ \E a \in {m.src, m.dst} : a \notin DOMAIN p.nid /\ Cardinality(DOMAIN p.nid) >= MaxNodes
    \/ \E a \in {m.src, m.dst} :
          <<m.mid, a>> \notin DOMAIN p.rid /\ Cardinality(DOMAIN p.rid) >= MaxRids

\* A replication id is given out after the group and the node.
RidsPlaced(p) == \A k \in DOMAIN p.rid : k[1] \in DOMAIN p.mgid /\ k[2] \in DOMAIN p.nid

\* All identifiers of m are there, and the hosts are known.
Ready(p, m) ==
    /\ HasPlace(p, m)
    /\ \A a \in {m.src, m.dst} :
          a \in DOMAIN p.nid /\ <<m.mid, a>> \in p.l1 /\ a[1] \in DOMAIN EgressPorts

\* The same tables, and the same identifiers.
SameTables(p, q) ==
    /\ q.repl = p.repl /\ q.node = p.node /\ q.prune = p.prune /\ q.route = p.route
    /\ q.group = p.group

SameMaps(p, q) == q.parts = p.parts /\ q.mgid = p.mgid /\ q.nid = p.nid /\ q.rid = p.rid /\ q.l1 = p.l1

\* One step that fills, after another.
LEMMA FillsTransitive ==
    ASSUME NEW p, NEW q, NEW r, Fills(p, q), Fills(q, r)
    PROVE  Fills(p, r)
BY DEF Fills

\* What is missing for good stays missing.
LEMMA StuckKept ==
    ASSUME NEW p, NEW q, NEW m, Stuck(p, m), Fills(p, q)
    PROVE  Stuck(q, m)
BY DEF Stuck, Fills

\* What is there stays.
LEMMA ReadyKept ==
    ASSUME NEW p, NEW q, NEW m, Ready(p, m), Grows(p, q)
    PROVE  Ready(q, m)
<1>1. HasPlace(q, m)
  BY PlaceKept DEF Ready
<1>2. \A a \in {m.src, m.dst} : a \in DOMAIN q.nid /\ <<m.mid, a>> \in q.l1
  BY DEF Ready, Grows, Extends
<1> QED BY <1>1, <1>2 DEF Ready

\* A stream that lacks something has not all of its replication ids.
LEMMA StuckHasNoIds ==
    ASSUME NEW p, NEW m, RidsPlaced(p), Stuck(p, m)
    PROVE  ~({<<m.mid, m.src>>, <<m.mid, m.dst>>} \subseteq DOMAIN p.rid)
<1> SUFFICES ASSUME \A a \in {m.src, m.dst} : <<m.mid, a>> \in DOMAIN p.rid PROVE FALSE
  OBVIOUS
<1>1. \A a \in {m.src, m.dst} : <<m.mid, a>>[1] \in DOMAIN p.mgid /\ <<m.mid, a>>[2] \in DOMAIN p.nid
  BY DEF RidsPlaced
<1> QED BY <1>1 DEF Stuck

\* What a search for a number does: it finds one or there is one, or it returns
\* because there is none left.
Searches(p, q, e) ==
    /\ SameTables(p, q) /\ q.parts = p.parts /\ q.l1 = p.l1 /\ Fills(p, q)
    /\ RidsPlaced(p) => RidsPlaced(q)
    /\ q.exit = p.exit \/ (Running(p) /\ q.exit = "returned" /\ e)

\* An early return, with all its fields.
LEMMA ExitFields ==
    ASSUME NEW p, NEW e, IsPRE(p)
    PROVE  LET q == [p EXCEPT !.exit = e]
           IN q.exit = e /\ SameTables(p, q) /\ SameMaps(p, q) /\ IsPRE(q)
BY DEF IsPRE, SameTables, SameMaps

\* The same maps are as full.
LEMMA SameMapsFills ==
    ASSUME NEW p, NEW q, SameMaps(p, q)
    PROVE  Fills(p, q) /\ (RidsPlaced(p) => RidsPlaced(q))
BY DEF SameMaps, Fills, RidsPlaced

\* The search for a group.
LEMMA AssignGroupSearches ==
    ASSUME NEW p, NEW mid, IsPRE(p)
    PROVE  LET q == assignGroup(p, mid)
           IN Searches(p, q, mid \notin DOMAIN q.mgid /\ Cardinality(DOMAIN q.mgid) >= MaxGroups)
<1>1. CASE ~Running(p) \/ mid \in DOMAIN p.mgid
  <2>1. assignGroup(p, mid) = p
    BY <1>1 DEF assignGroup
  <2> QED BY <2>1 DEF Searches, SameTables, Fills
<1>2. CASE Running(p) /\ mid \notin DOMAIN p.mgid /\ Cardinality(DOMAIN p.mgid) >= MaxGroups
  <2>1. assignGroup(p, mid) = [p EXCEPT !.exit = "returned"]
    BY <1>2 DEF assignGroup
  <2> DEFINE q == [p EXCEPT !.exit = "returned"]
  <2>2. q.exit = "returned" /\ SameTables(p, q) /\ SameMaps(p, q)
    BY ExitFields
  <2> HIDE DEF q
  <2>3. Searches(p, q, mid \notin DOMAIN q.mgid /\ Cardinality(DOMAIN q.mgid) >= MaxGroups)
    BY <1>2, <2>2, SameMapsFills DEF Searches, SameMaps
  <2> QED BY <2>1, <2>3 DEF q
<1>3. CASE Running(p) /\ mid \notin DOMAIN p.mgid /\ ~(Cardinality(DOMAIN p.mgid) >= MaxGroups)
  <2> DEFINE v == lowestFree(Values(p.mgid), MaxGroups)
             d == With(p.mgid, mid, v)
             q == [p EXCEPT !.mgid = d]
  <2>1. assignGroup(p, mid) = q
    BY <1>3 DEF assignGroup
  <2> HIDE DEF v
  <2>2. DOMAIN p.mgid \subseteq DOMAIN d
    BY DEF With
  <2> HIDE DEF d
  <2>3. /\ q.exit = p.exit /\ q.parts = p.parts /\ q.l1 = p.l1 /\ SameTables(p, q)
        /\ q.mgid = d /\ q.nid = p.nid /\ q.rid = p.rid
    BY DEF IsPRE, SameTables
  <2> HIDE DEF q
  <2>4. Fills(p, q) /\ (RidsPlaced(p) => RidsPlaced(q))
    BY <1>3, <2>2, <2>3 DEF Fills, RidsPlaced
  <2> QED BY <2>1, <2>3, <2>4 DEF Searches
<1> QED BY <1>1, <1>2, <1>3

\* The search for a node.
LEMMA AssignNodeSearches ==
    ASSUME NEW p, NEW a, IsPRE(p)
    PROVE  LET q == assignNode(p, a)
           IN Searches(p, q, a \notin DOMAIN q.nid /\ Cardinality(DOMAIN q.nid) >= MaxNodes)
<1>1. CASE ~Running(p) \/ a \in DOMAIN p.nid
  <2>1. assignNode(p, a) = p
    BY <1>1 DEF assignNode
  <2> QED BY <2>1 DEF Searches, SameTables, Fills
<1>2. CASE Running(p) /\ a \notin DOMAIN p.nid /\ Cardinality(DOMAIN p.nid) >= MaxNodes
  <2>1. assignNode(p, a) = [p EXCEPT !.exit = "returned"]
    BY <1>2 DEF assignNode
  <2> DEFINE q == [p EXCEPT !.exit = "returned"]
  <2>2. q.exit = "returned" /\ SameTables(p, q) /\ SameMaps(p, q)
    BY ExitFields
  <2> HIDE DEF q
  <2>3. Searches(p, q, a \notin DOMAIN q.nid /\ Cardinality(DOMAIN q.nid) >= MaxNodes)
    BY <1>2, <2>2, SameMapsFills DEF Searches, SameMaps
  <2> QED BY <2>1, <2>3 DEF q
<1>3. CASE Running(p) /\ a \notin DOMAIN p.nid /\ ~(Cardinality(DOMAIN p.nid) >= MaxNodes)
  <2> DEFINE v == lowestFree(Values(p.nid), MaxNodes)
             d == With(p.nid, a, v)
             q == [p EXCEPT !.nid = d]
  <2>1. assignNode(p, a) = q
    BY <1>3 DEF assignNode
  <2> HIDE DEF v
  <2>2. DOMAIN p.nid \subseteq DOMAIN d
    BY DEF With
  <2> HIDE DEF d
  <2>3. /\ q.exit = p.exit /\ q.parts = p.parts /\ q.l1 = p.l1 /\ SameTables(p, q)
        /\ q.mgid = p.mgid /\ q.nid = d /\ q.rid = p.rid
    BY DEF IsPRE, SameTables
  <2> HIDE DEF q
  <2>4. Fills(p, q) /\ (RidsPlaced(p) => RidsPlaced(q))
    BY <1>3, <2>2, <2>3 DEF Fills, RidsPlaced
  <2> QED BY <2>1, <2>3, <2>4 DEF Searches
<1> QED BY <1>1, <1>2, <1>3

\* The search for a replication id, once there are a group and a node.
LEMMA AssignRidSearches ==
    ASSUME NEW p, NEW mid, NEW a, IsPRE(p),
           Running(p) => mid \in DOMAIN p.mgid /\ a \in DOMAIN p.nid
    PROVE  LET q == assignRid(p, <<mid, a>>)
           IN Searches(p, q, <<mid, a>> \notin DOMAIN q.rid /\ Cardinality(DOMAIN q.rid) >= MaxRids)
<1> DEFINE k == <<mid, a>>
<1>0. k[1] = mid /\ k[2] = a
  OBVIOUS
<1> HIDE DEF k
<1>1. CASE ~Running(p) \/ k \in DOMAIN p.rid
  <2>1. assignRid(p, k) = p
    BY <1>1 DEF assignRid
  <2> QED BY <2>1 DEF Searches, SameTables, Fills, k
<1>2. CASE Running(p) /\ k \notin DOMAIN p.rid /\ Cardinality(DOMAIN p.rid) >= MaxRids
  <2>1. assignRid(p, k) = [p EXCEPT !.exit = "returned"]
    BY <1>2 DEF assignRid
  <2> DEFINE q == [p EXCEPT !.exit = "returned"]
  <2>2. q.exit = "returned" /\ SameTables(p, q) /\ SameMaps(p, q)
    BY ExitFields
  <2> HIDE DEF q
  <2>3. Searches(p, q, k \notin DOMAIN q.rid /\ Cardinality(DOMAIN q.rid) >= MaxRids)
    BY <1>2, <2>2, SameMapsFills DEF Searches, SameMaps
  <2> QED BY <2>1, <2>3 DEF q, k
<1>3. CASE Running(p) /\ k \notin DOMAIN p.rid /\ ~(Cardinality(DOMAIN p.rid) >= MaxRids)
  <2> DEFINE v == lowestFree(Values(p.rid), MaxRids)
             d == With(p.rid, k, v)
             q == [p EXCEPT !.rid = d]
  <2>1. assignRid(p, k) = q
    BY <1>3 DEF assignRid
  <2> HIDE DEF v
  <2>2. DOMAIN d = DOMAIN p.rid \cup {k}
    BY DEF With
  <2> HIDE DEF d
  <2>3. /\ q.exit = p.exit /\ q.parts = p.parts /\ q.l1 = p.l1 /\ SameTables(p, q)
        /\ q.mgid = p.mgid /\ q.nid = p.nid /\ q.rid = d
    BY DEF IsPRE, SameTables
  <2> HIDE DEF q
  <2>4. Fills(p, q) /\ (RidsPlaced(p) => RidsPlaced(q))
    BY <1>0, <1>3, <2>2, <2>3 DEF Fills, RidsPlaced
  <2> QED BY <2>1, <2>3, <2>4 DEF Searches, k
<1> QED BY <1>1, <1>2, <1>3 DEF k

\* joinMeeting adds two participants to their meeting, and raises if one of them is
\* on a host that EGRESS_PORTS does not have.
LEMMA JoinMeetingFields ==
    ASSUME NEW p, NEW m, IsPRE(p), Running(p)
    PROVE  LET q == joinMeeting(p, m)
           IN /\ IsPRE(q) /\ SameTables(p, q) /\ q.l1 = p.l1
              /\ q.mgid = p.mgid /\ q.nid = p.nid /\ q.rid = p.rid
              /\ \A mid \in DOMAIN q.parts : \A a \in q.parts[mid] :
                    \/ mid \in DOMAIN p.parts /\ a \in p.parts[mid]
                    \/ mid = m.mid /\ a \in {m.src, m.dst}
              /\ q.exit = IF {m.src[1], m.dst[1]} \subseteq DOMAIN EgressPorts THEN "no" ELSE "raised"
<1> DEFINE members == IF m.mid \in DOMAIN p.parts THEN p.parts[m.mid] ELSE {}
           together == With(p.parts, m.mid, members \cup {m.src, m.dst})
           e == IF {m.src[1], m.dst[1]} \subseteq DOMAIN EgressPorts THEN p.exit ELSE "raised"
           q == joinMeeting(p, m)
<1>1. q = [p EXCEPT !.parts = together, !.exit = e]
  BY DEF joinMeeting
<1>2. \A mid \in DOMAIN together : \A a \in together[mid] :
         \/ mid \in DOMAIN p.parts /\ a \in p.parts[mid]
         \/ mid = m.mid /\ a \in {m.src, m.dst}
  BY DEF With
<1> HIDE DEF together
<1>3. e = IF {m.src[1], m.dst[1]} \subseteq DOMAIN EgressPorts THEN "no" ELSE "raised"
  BY DEF Running
<1> HIDE DEF e, q
<1>4. /\ IsPRE(q) /\ q.exit = e /\ q.parts = together /\ q.l1 = p.l1 /\ q.mgid = p.mgid
      /\ q.nid = p.nid /\ q.rid = p.rid /\ SameTables(p, q)
  BY <1>1 DEF IsPRE, SameTables
<1> QED BY <1>2, <1>3, <1>4 DEF q

\* The first part of add_stream: all identifiers are there, or a host is not known,
\* or a number is missing for good.
LEMMA AssignIdsEnds ==
    ASSUME NEW p, NEW m, IdsInv(p), Running(p), RidsPlaced(p)
    PROVE  LET q == assignIds(p, m)
           IN /\ SameTables(p, q) /\ Fills(p, q) /\ RidsPlaced(q)
              /\ \A mid \in DOMAIN q.parts : \A a \in q.parts[mid] :
                    \/ mid \in DOMAIN p.parts /\ a \in p.parts[mid]
                    \/ mid = m.mid /\ a \in {m.src, m.dst}
              /\ Running(q) => Ready(q, m)
              /\ \/ Running(q)
                 \/ q.exit = "raised" /\ ~({m.src[1], m.dst[1]} \subseteq DOMAIN EgressPorts)
                 \/ q.exit = "returned" /\ Stuck(q, m)
<1> DEFINE a == joinMeeting(p, m)
           b == assignGroup(a, m.mid)
           c == assignNode(b, m.src)
           d == assignNode(c, m.dst)
           e == assignRid(d, <<m.mid, m.src>>)
           f == assignRid(e, <<m.mid, m.dst>>)
           q == assignXids(f, m)
           known == {m.src[1], m.dst[1]} \subseteq DOMAIN EgressPorts
           groupless(s) == m.mid \notin DOMAIN s.mgid /\ Cardinality(DOMAIN s.mgid) >= MaxGroups
           nodeless(s, x) == x \notin DOMAIN s.nid /\ Cardinality(DOMAIN s.nid) >= MaxNodes
           ridless(s, x) == <<m.mid, x>> \notin DOMAIN s.rid /\ Cardinality(DOMAIN s.rid) >= MaxRids
<1>0. assignIds(p, m) = q
  BY DEF assignIds
<1>1. /\ IsPRE(a) /\ SameTables(p, a) /\ a.l1 = p.l1 /\ a.mgid = p.mgid /\ a.nid = p.nid /\ a.rid = p.rid
      /\ a.exit = IF known THEN "no" ELSE "raised"
  BY JoinMeetingFields DEF IdsInv
<1>2. \A mid \in DOMAIN a.parts : \A x \in a.parts[mid] :
         \/ mid \in DOMAIN p.parts /\ x \in p.parts[mid]
         \/ mid = m.mid /\ x \in {m.src, m.dst}
  BY JoinMeetingFields DEF IdsInv
<1> HIDE DEF a
<1>3. Fills(p, a) /\ RidsPlaced(a)
  BY <1>1 DEF Fills, RidsPlaced
<1>4. IsPRE(b) /\ Grows(a, b) /\ (Running(b) => m.mid \in DOMAIN b.mgid) /\ Searches(a, b, groupless(b))
  BY <1>1, AssignGroupGrows, AssignGroupSearches DEF Prepares, Grows
<1> HIDE DEF b, groupless
<1>5. IsPRE(c) /\ Grows(b, c) /\ (Running(c) => m.src \in DOMAIN c.nid) /\ Searches(b, c, nodeless(c, m.src))
  BY <1>4, AssignNodeGrows, AssignNodeSearches DEF Prepares, Grows
<1> HIDE DEF c
<1>6. IsPRE(d) /\ Grows(c, d) /\ (Running(d) => m.dst \in DOMAIN d.nid) /\ Searches(c, d, nodeless(d, m.dst))
  BY <1>5, AssignNodeGrows, AssignNodeSearches DEF Prepares, Grows
<1> HIDE DEF d, nodeless
<1>7. Running(d) => m.mid \in DOMAIN d.mgid /\ m.src \in DOMAIN d.nid /\ m.dst \in DOMAIN d.nid
  BY <1>4, <1>5, <1>6 DEF Grows, Extends
<1>8. IsPRE(e) /\ Grows(d, e) /\ Searches(d, e, ridless(e, m.src))
  BY <1>6, <1>7, AssignRidGrows, AssignRidSearches DEF Prepares, Grows
<1> HIDE DEF e
<1>9. Running(e) => m.mid \in DOMAIN e.mgid /\ m.src \in DOMAIN e.nid /\ m.dst \in DOMAIN e.nid
  BY <1>7, <1>8 DEF Grows, Extends
<1>10. IsPRE(f) /\ Grows(e, f) /\ Searches(e, f, ridless(f, m.dst))
  BY <1>8, <1>9, AssignRidGrows, AssignRidSearches DEF Prepares, Grows
<1> HIDE DEF f, ridless
<1>11. /\ q.exit = f.exit /\ q.parts = f.parts /\ q.mgid = f.mgid /\ q.nid = f.nid /\ q.rid = f.rid
       /\ SameTables(f, q) /\ Grows(f, q)
       /\ Running(f) => \A x \in {m.src, m.dst} : <<m.mid, x>> \in q.l1
  <2> DEFINE l == f.l1 \cup {<<m.mid, m.src>>, <<m.mid, m.dst>>}
  <2>1. Grows(f, q)
    BY <1>10, AssignXidsGrows DEF Prepares
  <2>2. CASE ~Running(f)
    BY <2>1, <2>2 DEF assignXids, SameTables
  <2>3. CASE Running(f)
    <3>1. q = [f EXCEPT !.l1 = l]
      BY <2>3 DEF assignXids
    <3>2. \A x \in {m.src, m.dst} : <<m.mid, x>> \in l
      OBVIOUS
    <3> HIDE DEF q, l
    <3>3. /\ q.exit = f.exit /\ q.parts = f.parts /\ q.mgid = f.mgid /\ q.nid = f.nid /\ q.rid = f.rid
          /\ SameTables(f, q) /\ q.l1 = l
      BY <1>10, <3>1 DEF IsPRE, SameTables
    <3> QED BY <2>1, <3>2, <3>3 DEF q
  <2> QED BY <2>2, <2>3
<1> HIDE DEF q
<1>12. Fills(f, q) /\ (RidsPlaced(f) => RidsPlaced(q))
  BY <1>11 DEF Fills, RidsPlaced
<1>13. /\ SameTables(p, q) /\ RidsPlaced(q) /\ q.parts = a.parts
  BY <1>1, <1>3, <1>4, <1>5, <1>6, <1>8, <1>10, <1>11, <1>12 DEF Searches, SameTables
<1>14. Fills(e, q) /\ Fills(d, q) /\ Fills(c, q) /\ Fills(b, q) /\ Fills(p, q)
  BY <1>3, <1>4, <1>5, <1>6, <1>8, <1>10, <1>12, FillsTransitive DEF Searches
<1>15. Running(q) => Ready(q, m)
  <2> SUFFICES ASSUME Running(q) PROVE Ready(q, m)
    OBVIOUS
  <2>1. HasPlace(q, m)
    BY <1>0, AssignIdsGrows DEF IdsInv
  <2>2. Running(f) /\ Running(e) /\ Running(d) /\ Running(c) /\ Running(b) /\ Running(a)
    BY <1>4, <1>5, <1>6, <1>8, <1>10, <1>11 DEF Grows
  <2>3. m.src \in DOMAIN q.nid /\ m.dst \in DOMAIN q.nid
    BY <1>7, <1>8, <1>10, <1>11, <2>2 DEF Grows, Extends
  <2>4. known
    BY <1>1, <2>2 DEF Running
  <2> QED BY <1>11, <2>1, <2>2, <2>3, <2>4 DEF Ready
<1>16. \/ Running(q)
       \/ q.exit = "raised" /\ ~known
       \/ q.exit = "returned" /\ Stuck(q, m)
  <2>1. CASE ~known
    <3>1. a.exit = "raised" /\ b.exit = "raised" /\ c.exit = "raised" /\ d.exit = "raised"
      BY <1>1, <1>4, <1>5, <1>6, <2>1 DEF Searches, Running
    <3>2. e.exit = "raised" /\ f.exit = "raised" /\ q.exit = "raised"
      BY <1>8, <1>10, <1>11, <3>1 DEF Searches, Running
    <3> QED BY <2>1, <3>2
  <2>2. CASE known
    <3>1. a.exit = "no"
      BY <1>1, <2>2
    <3>2. b.exit = "no" \/ (b.exit = "returned" /\ Stuck(q, m))
      <4>1. groupless(b) => Stuck(b, m)
        BY DEF groupless, Stuck
      <4> QED BY <1>4, <1>14, <3>1, <4>1, StuckKept DEF Searches
    <3>3. c.exit = "no" \/ (c.exit = "returned" /\ Stuck(q, m))
      <4>1. nodeless(c, m.src) => Stuck(c, m)
        BY DEF nodeless, Stuck
      <4> QED BY <1>5, <1>14, <3>2, <4>1, StuckKept DEF Searches
    <3>4. d.exit = "no" \/ (d.exit = "returned" /\ Stuck(q, m))
      <4>1. nodeless(d, m.dst) => Stuck(d, m)
        BY DEF nodeless, Stuck
      <4> QED BY <1>6, <1>14, <3>3, <4>1, StuckKept DEF Searches
    <3>5. e.exit = "no" \/ (e.exit = "returned" /\ Stuck(q, m))
      <4>1. ridless(e, m.src) => Stuck(e, m)
        BY DEF ridless, Stuck
      <4> QED BY <1>8, <1>14, <3>4, <4>1, StuckKept DEF Searches
    <3>6. f.exit = "no" \/ (f.exit = "returned" /\ Stuck(q, m))
      <4>1. ridless(f, m.dst) => Stuck(f, m)
        BY DEF ridless, Stuck
      <4> QED BY <1>10, <1>12, <3>5, <4>1, StuckKept DEF Searches
    <3> QED BY <1>11, <3>6 DEF Running
  <2> QED BY <2>1, <2>2
<1> QED BY <1>0, <1>2, <1>13, <1>14, <1>15, <1>16

-----------------------------------------------------------------------------
(* Where the rules come from *)

\* The entry of a table is that of the stream m.
ReplOf(p, k, v, m) ==
    /\ k[1] = m.src /\ m.mid \in DOMAIN p.mgid /\ <<m.mid, m.src>> \in DOMAIN p.rid
    /\ v = [mgid |-> p.mgid[m.mid], rid |-> p.rid[<<m.mid, m.src>>], l2 |-> Eport(m.src)]

NodeOf(p, n, v, m, a) ==
    /\ a \in {m.src, m.dst} /\ a \in DOMAIN p.nid /\ p.nid[a] = n
    /\ <<m.mid, a>> \in DOMAIN p.rid
    /\ v = [rid |-> p.rid[<<m.mid, a>>], eport |-> Eport(a)]

\* The tables are not longer than they may be.
Fits(f) == IsFiniteSet(DOMAIN f) /\ Cardinality(DOMAIN f) <= TableSize

\* All there is comes from the calls A.
Explained(p, A) ==
    /\ \A k \in DOMAIN p.repl : \E m \in A : ReplOf(p, k, p.repl[k], m)
    /\ \A n \in DOMAIN p.node : \E m \in A : \E a \in {m.src, m.dst} : NodeOf(p, n, p.node[n], m, a)
    /\ \A k \in DOMAIN p.prune : k \in Values(EgressPorts) /\ p.prune[k] = {k}
    /\ \A mid \in DOMAIN p.parts : \A a \in p.parts[mid] :
          \E m \in A : m.mid = mid /\ a \in {m.src, m.dst}
    /\ RidsPlaced(p)
    /\ Fits(p.repl) /\ Fits(p.route)

\* What makes the process end.
TwoMeetings(A) ==
    \E m, n \in A : m.mid # n.mid /\ {m.src, m.dst} \cap {n.src, n.dst} # {}

Excuse(p, A) ==
    \/ \E m \in A : ~({m.src[1], m.dst[1]} \subseteq DOMAIN EgressPorts)
    \/ TwoMeetings(A)
    \/ \E m \in A : Stuck(p, m)
    \/ Cardinality(DOMAIN p.repl) = TableSize
    \/ Cardinality(DOMAIN p.route) = TableSize

\* The process is busy with the rules of m, one of the calls A, or has raised.
Work(p, A, m) ==
    /\ IdsInv(p) /\ RulesInv(p) /\ Explained(p, A)
    /\ \A x \in A : Stuck(p, x) \/ Ready(p, x)
    /\ m \in A /\ Ready(p, m)
    /\ Running(p) \/ (p.exit = "raised" /\ Excuse(p, A))

\* add_entry, with all its fields.
LEMMA AddEntryFields ==
    ASSUME NEW p, NEW t \in {"repl", "node", "prune", "route"}, NEW k, NEW v, IsPRE(p)
    PROVE  LET q == addEntry(p, t, k, v)
           IN /\ SameMaps(p, q)
              /\ \A u \in {"repl", "node", "prune", "route"} : u # t => q[u] = p[u]
              /\ \/ q[t] = p[t]
                 \/ /\ k \notin DOMAIN p[t] /\ q[t] = With(p[t], k, v) /\ q.exit = p.exit
                    /\ t \in {"repl", "route"} => ~(Cardinality(DOMAIN p[t]) >= TableSize)
              /\ \/ q.exit = p.exit
                 \/ /\ q.exit = "raised" /\ q[t] = p[t]
                    /\ \/ k \in DOMAIN p[t] /\ p[t][k] # v
                       \/ t \in {"repl", "route"} /\ Cardinality(DOMAIN p[t]) >= TableSize
<1> DEFINE q == addEntry(p, t, k, v)
<1>1. CASE ~Running(p) \/ (k \in DOMAIN p[t] /\ p[t][k] = v)
  <2>1. q = p
    BY <1>1 DEF addEntry
  <2> QED BY <2>1 DEF SameMaps
<1>2. CASE ~(~Running(p) \/ (k \in DOMAIN p[t] /\ p[t][k] = v)) /\ Refused(p, t, k)
  <2>1. q = [p EXCEPT !.exit = "raised"]
    BY <1>2 DEF addEntry
  <2>2. (k \in DOMAIN p[t] /\ p[t][k] # v) \/ (t \in {"repl", "route"} /\ Cardinality(DOMAIN p[t]) >= TableSize)
    BY <1>2 DEF Refused
  <2>3. SameTables(p, q) /\ SameMaps(p, q) /\ q.exit = "raised"
    BY <2>1, ExitFields
  <2> HIDE DEF q
  <2>4. \A u \in {"repl", "node", "prune", "route"} : q[u] = p[u]
    BY <2>3 DEF SameTables
  <2> QED BY <2>2, <2>3, <2>4 DEF q
<1>3. CASE ~(~Running(p) \/ (k \in DOMAIN p[t] /\ p[t][k] = v)) /\ ~Refused(p, t, k)
  <2> DEFINE d == With(p[t], k, v)
  <2>1. q = [p EXCEPT ![t] = d]
    BY <1>3 DEF addEntry
  <2>2. k \notin DOMAIN p[t] /\ (t \in {"repl", "route"} => ~(Cardinality(DOMAIN p[t]) >= TableSize))
    BY <1>3 DEF Refused
  <2> HIDE DEF d, q
  <2>3. /\ SameMaps(p, q) /\ q.exit = p.exit /\ q[t] = d
        /\ \A u \in {"repl", "node", "prune", "route"} : u # t => q[u] = p[u]
    <3>1. CASE t = "repl"
      <4>1. q = [p EXCEPT !.repl = d]
        BY <2>1, <3>1
      <4> QED BY <3>1, <4>1 DEF IsPRE, SameMaps
    <3>2. CASE t = "node"
      <4>1. q = [p EXCEPT !.node = d]
        BY <2>1, <3>2
      <4> QED BY <3>2, <4>1 DEF IsPRE, SameMaps
    <3>3. CASE t = "prune"
      <4>1. q = [p EXCEPT !.prune = d]
        BY <2>1, <3>3
      <4> QED BY <3>3, <4>1 DEF IsPRE, SameMaps
    <3>4. CASE t = "route"
      <4>1. q = [p EXCEPT !.route = d]
        BY <2>1, <3>4
      <4> QED BY <3>4, <4>1 DEF IsPRE, SameMaps
    <3> QED BY <3>1, <3>2, <3>3, <3>4
  <2> QED BY <2>2, <2>3 DEF q, d
<1> QED BY <1>1, <1>2, <1>3

\* A table with one entry more still fits.
LEMMA FitsWith ==
    ASSUME NEW f, Fits(f), NEW k, NEW v, k \notin DOMAIN f, ~(Cardinality(DOMAIN f) >= TableSize)
    PROVE  Fits(With(f, k, v))
<1>1. DOMAIN With(f, k, v) = DOMAIN f \cup {k}
  BY DEF With
<1>2. IsFiniteSet(DOMAIN f \cup {k}) /\ Cardinality(DOMAIN f \cup {k}) = Cardinality(DOMAIN f) + 1
      /\ Cardinality(DOMAIN f) \in Nat
  BY FS_AddElement, FS_CardinalityType DEF Fits
<1> QED BY <1>1, <1>2, TofinoAssumption DEF Fits

\* The entry k |-> v of the table t comes from one of the calls.
ComesFrom(p, A, t, k, v) ==
    /\ t = "repl" => \E x \in A : ReplOf(p, k, v, x)
    /\ t = "node" => \E x \in A : \E a \in {x.src, x.dst} : NodeOf(p, k, v, x, a)
    /\ t = "prune" => k \in Values(EgressPorts) /\ v = {k}

\* With the same maps, an entry is explained as well.
LEMMA SameOrigin ==
    ASSUME NEW p, NEW q, SameMaps(p, q), NEW k, NEW v, NEW m
    PROVE  /\ ReplOf(p, k, v, m) => ReplOf(q, k, v, m)
           /\ \A a : NodeOf(p, k, v, m, a) => NodeOf(q, k, v, m, a)
BY DEF SameMaps, ReplOf, NodeOf

\* A new entry with an explanation leaves everything explained.
LEMMA AddEntryExplained ==
    ASSUME NEW p, NEW A, Explained(p, A), NEW t \in {"repl", "node", "prune", "route"},
           NEW k, NEW v, IsPRE(p), ComesFrom(p, A, t, k, v)
    PROVE  Explained(addEntry(p, t, k, v), A)
<1> DEFINE q == addEntry(p, t, k, v)
<1>1. /\ SameMaps(p, q)
      /\ \A u \in {"repl", "node", "prune", "route"} : u # t => q[u] = p[u]
      /\ \/ q[t] = p[t]
         \/ /\ k \notin DOMAIN p[t] /\ q[t] = With(p[t], k, v)
            /\ t \in {"repl", "route"} => ~(Cardinality(DOMAIN p[t]) >= TableSize)
  BY AddEntryFields
<1> HIDE DEF q
<1>2. \A u \in {"repl", "node", "prune", "route"} : \A x \in DOMAIN q[u] :
         (x \in DOMAIN p[u] /\ q[u][x] = p[u][x]) \/ (u = t /\ x = k /\ q[u][x] = v)
  BY <1>1 DEF With
<1>3. \A x \in DOMAIN q.repl : \E m \in A : ReplOf(q, x, q.repl[x], m)
  <2> SUFFICES ASSUME NEW x \in DOMAIN q.repl PROVE \E m \in A : ReplOf(q, x, q.repl[x], m)
    OBVIOUS
  <2>1. (x \in DOMAIN p.repl /\ q.repl[x] = p.repl[x]) \/ (t = "repl" /\ x = k /\ q.repl[x] = v)
    BY <1>2
  <2>2. PICK m \in A : ReplOf(p, x, q.repl[x], m)
    BY <2>1 DEF Explained, ComesFrom
  <2> QED BY <1>1, <2>2, SameOrigin
<1>4. \A x \in DOMAIN q.node : \E m \in A : \E a \in {m.src, m.dst} : NodeOf(q, x, q.node[x], m, a)
  <2> SUFFICES ASSUME NEW x \in DOMAIN q.node
               PROVE  \E m \in A : \E a \in {m.src, m.dst} : NodeOf(q, x, q.node[x], m, a)
    OBVIOUS
  <2>1. (x \in DOMAIN p.node /\ q.node[x] = p.node[x]) \/ (t = "node" /\ x = k /\ q.node[x] = v)
    BY <1>2
  <2>2. PICK m \in A : \E a \in {m.src, m.dst} : NodeOf(p, x, q.node[x], m, a)
    BY <2>1 DEF Explained, ComesFrom
  <2> QED BY <1>1, <2>2, SameOrigin
<1>5. \A x \in DOMAIN q.prune : x \in Values(EgressPorts) /\ q.prune[x] = {x}
  <2> SUFFICES ASSUME NEW x \in DOMAIN q.prune PROVE x \in Values(EgressPorts) /\ q.prune[x] = {x}
    OBVIOUS
  <2>1. (x \in DOMAIN p.prune /\ q.prune[x] = p.prune[x]) \/ (t = "prune" /\ x = k /\ q.prune[x] = v)
    BY <1>2
  <2> QED BY <2>1 DEF Explained, ComesFrom
<1>6. RidsPlaced(q) /\ q.parts = p.parts
  BY <1>1, SameMapsFills DEF Explained, SameMaps
<1>7. Fits(q.repl)
  <2>1. q.repl = p.repl \/ (k \notin DOMAIN p.repl /\ q.repl = With(p.repl, k, v)
                              /\ ~(Cardinality(DOMAIN p.repl) >= TableSize))
    BY <1>1
  <2> QED BY <2>1, FitsWith DEF Explained
<1>8. Fits(q.route)
  <2>1. q.route = p.route \/ (k \notin DOMAIN p.route /\ q.route = With(p.route, k, v)
                                /\ ~(Cardinality(DOMAIN p.route) >= TableSize))
    BY <1>1
  <2> QED BY <2>1, FitsWith DEF Explained
<1> QED BY <1>3, <1>4, <1>5, <1>6, <1>7, <1>8 DEF Explained, q

\* A table that is too full for an entry is full.
LEMMA FullTable ==
    ASSUME NEW f, Fits(f), Cardinality(DOMAIN f) >= TableSize
    PROVE  Cardinality(DOMAIN f) = TableSize
BY FS_CardinalityType, TofinoAssumption DEF Fits

\* While m is worked on, a new entry that comes from a call, or an exception that
\* has its reason, leaves all in order.
LEMMA AddEntryWork ==
    ASSUME NEW p, NEW A, NEW m, Work(p, A, m), NEW t \in {"repl", "node", "prune", "route"},
           NEW k, NEW v, ComesFrom(p, A, t, k, v),
           k \in DOMAIN p[t] /\ p[t][k] # v => TwoMeetings(A),
           RulesInv(addEntry(p, t, k, v))
    PROVE  Work(addEntry(p, t, k, v), A, m)
<1> DEFINE q == addEntry(p, t, k, v)
<1>0. IsPRE(p) /\ IdsInv(p) /\ Explained(p, A)
  BY DEF Work, IdsInv
<1>1. IdsInv(q) /\ Explained(q, A) /\ Grows(p, q) /\ SameMaps(p, q)
  BY <1>0, AddEntryIds, AddEntryExplained, AddEntryGrows, AddEntryFields
<1>2. \/ q.exit = p.exit
      \/ /\ q.exit = "raised" /\ q[t] = p[t]
         /\ \/ k \in DOMAIN p[t] /\ p[t][k] # v
            \/ t \in {"repl", "route"} /\ Cardinality(DOMAIN p[t]) >= TableSize
  BY <1>0, AddEntryFields
<1>3. RulesInv(q)
  OBVIOUS
<1> HIDE DEF q
<1>4. Fills(p, q)
  BY <1>1, SameMapsFills
<1>5. \A x \in A : Stuck(q, x) \/ Ready(q, x)
  BY <1>1, <1>4, StuckKept, ReadyKept DEF Work
<1>6. Ready(q, m) /\ m \in A
  BY <1>1, ReadyKept DEF Work
<1>7. Running(q) \/ (q.exit = "raised" /\ Excuse(q, A))
  <2>1. CASE q.exit = p.exit /\ Running(p)
    BY <2>1 DEF Running
  <2>2. CASE q.exit = p.exit /\ ~Running(p)
    <3>1. q = p
      BY <2>2 DEF addEntry, q
    <3> QED BY <3>1 DEF Work
  <2>3. CASE q.exit = "raised" /\ k \in DOMAIN p[t] /\ p[t][k] # v
    BY <2>3 DEF Excuse
  <2>4. CASE /\ q.exit = "raised" /\ q[t] = p[t]
             /\ t \in {"repl", "route"} /\ Cardinality(DOMAIN p[t]) >= TableSize
    <3>1. CASE t = "repl"
      <4>1. Cardinality(DOMAIN q.repl) = TableSize
        BY <1>0, <2>4, <3>1, FullTable DEF Explained
      <4> QED BY <2>4, <4>1 DEF Excuse
    <3>2. CASE t = "route"
      <4>1. Cardinality(DOMAIN q.route) = TableSize
        BY <1>0, <2>4, <3>2, FullTable DEF Explained
      <4> QED BY <2>4, <4>1 DEF Excuse
    <3> QED BY <2>4, <3>1, <3>2
  <2> QED BY <1>2, <2>1, <2>2, <2>3, <2>4
<1> QED BY <1>1, <1>3, <1>5, <1>6, <1>7 DEF Work, q

\* Two calls for one participant, of two meetings.
LEMMA InTwoMeetings ==
    ASSUME NEW A, NEW m \in A, NEW x \in A, NEW a, a \in {m.src, m.dst}, a \in {x.src, x.dst},
           m.mid # x.mid
    PROVE  TwoMeetings(A)
BY DEF TwoMeetings

\* add_sender_to_replication_setup: a stream that has another entry is one of a
\* participant of two meetings.
LEMMA AddSenderWork ==
    ASSUME NEW p, NEW A, NEW m, Work(p, A, m), NEW ssrc
    PROVE  Work(addSender(p, m, ssrc), A, m)
<1> DEFINE k == <<m.src, ssrc>>
           v == [mgid |-> p.mgid[m.mid], rid |-> p.rid[<<m.mid, m.src>>], l2 |-> Eport(m.src)]
           q == addEntry(p, "repl", k, v)
<1>1. CASE ~Running(p) \/ ssrc = NoRtx
  BY <1>1 DEF addSender
<1>2. CASE Running(p) /\ ssrc # NoRtx
  <2>1. addSender(p, m, ssrc) = q
    BY <1>2 DEF addSender
  <2>2. m \in A /\ HasPlace(p, m) /\ IsPRE(p) /\ RulesInv(p) /\ Explained(p, A)
    BY DEF Work, Ready, IdsInv
  <2>3. ReplOf(p, k, v, m)
    BY <2>2 DEF ReplOf, HasPlace
  <2>4. ComesFrom(p, A, "repl", k, v)
    BY <2>2, <2>3 DEF ComesFrom
  <2>5. k \in DOMAIN p.repl /\ p.repl[k] # v => TwoMeetings(A)
    <3> SUFFICES ASSUME k \in DOMAIN p.repl, p.repl[k] # v PROVE TwoMeetings(A)
      OBVIOUS
    <3>1. PICK x \in A : ReplOf(p, k, p.repl[k], x)
      BY <2>2 DEF Explained
    <3>2. x.src = m.src
      BY <3>1 DEF ReplOf
    <3>3. x.mid # m.mid
      BY <3>1, <3>2 DEF ReplOf
    <3> QED BY <2>2, <3>2, <3>3, InTwoMeetings
  <2> HIDE DEF k, v
  <2>6. Grows(p, q) /\ q.route = p.route /\ q.group = p.group
    BY <2>2, AddEntryGrows
  <2>7. RulesInv(q)
    BY <2>2, <2>6, GrowsRules
  <2> QED BY <2>1, <2>4, <2>5, <2>7, AddEntryWork
<1> QED BY <1>1, <1>2

\* add_multicast_node: so is a participant that has another node.
LEMMA AddNodeWork ==
    ASSUME NEW p, NEW A, NEW m, Work(p, A, m), NEW a \in {m.src, m.dst}
    PROVE  Work(addNode(p, m.mid, a), A, m)
<1> DEFINE k == p.nid[a]
           v == [rid |-> p.rid[<<m.mid, a>>], eport |-> Eport(a)]
           q == addEntry(p, "node", k, v)
<1>1. CASE ~Running(p)
  BY <1>1 DEF addNode
<1>2. CASE Running(p)
  <2>1. addNode(p, m.mid, a) = q
    BY <1>2 DEF addNode
  <2>2. /\ m \in A /\ HasPlace(p, m) /\ IsPRE(p) /\ RulesInv(p) /\ Explained(p, A)
        /\ a \in DOMAIN p.nid /\ <<m.mid, a>> \in DOMAIN p.rid /\ Injective(p.nid)
    BY DEF Work, Ready, IdsInv, IsDict, HasPlace
  <2>3. NodeOf(p, k, v, m, a)
    BY <2>2 DEF NodeOf
  <2>4. ComesFrom(p, A, "node", k, v)
    BY <2>2, <2>3 DEF ComesFrom
  <2>5. k \in DOMAIN p.node /\ p.node[k] # v => TwoMeetings(A)
    <3> SUFFICES ASSUME k \in DOMAIN p.node, p.node[k] # v PROVE TwoMeetings(A)
      OBVIOUS
    <3>1. PICK x \in A : \E b \in {x.src, x.dst} : NodeOf(p, k, p.node[k], x, b)
      BY <2>2 DEF Explained
    <3>2. PICK b : NodeOf(p, k, p.node[k], x, b)
      BY <3>1
    <3>3. a = b
      BY <2>2, <3>2 DEF NodeOf, Injective
    <3>4. x.mid # m.mid /\ a \in {x.src, x.dst}
      BY <3>2, <3>3 DEF NodeOf
    <3> QED BY <2>2, <3>4, InTwoMeetings
  <2> HIDE DEF k, v
  <2>6. Grows(p, q) /\ q.route = p.route /\ q.group = p.group
    BY <2>2, AddEntryGrows
  <2>7. RulesInv(q)
    BY <2>2, <2>6, GrowsRules
  <2> QED BY <2>1, <2>4, <2>5, <2>7, AddEntryWork
<1> QED BY <1>1, <1>2

\* add_l2_exclusion_port: a port is excluded with itself.
LEMMA AddExclusionWork ==
    ASSUME NEW p, NEW A, NEW m, Work(p, A, m)
    PROVE  Work(addExclusion(p, m.src), A, m)
<1> DEFINE k == Eport(m.src)
           q == addEntry(p, "prune", k, {k})
<1>1. CASE ~Running(p)
  BY <1>1 DEF addExclusion
<1>2. CASE Running(p)
  <2>1. addExclusion(p, m.src) = q
    BY <1>2 DEF addExclusion
  <2>2. IsPRE(p) /\ RulesInv(p) /\ Explained(p, A) /\ m.src[1] \in DOMAIN EgressPorts
    BY DEF Work, Ready, IdsInv
  <2>3. k \in Values(EgressPorts)
    BY <2>2 DEF Eport, Values
  <2>4. ComesFrom(p, A, "prune", k, {k})
    BY <2>3 DEF ComesFrom
  <2> HIDE DEF k
  <2>5. k \in DOMAIN p.prune => p.prune[k] = {k}
    BY <2>2 DEF Explained
  <2>6. Grows(p, q) /\ q.route = p.route /\ q.group = p.group
    BY <2>2, AddEntryGrows
  <2>7. RulesInv(q)
    BY <2>2, <2>6, GrowsRules
  <2> QED BY <2>1, <2>4, <2>5, <2>7, AddEntryWork
<1> QED BY <1>1, <1>2

\* update_multicast_group: a participant without its identifiers is one that an
\* earlier call was left with, when a dictionary was full.
LEMMA UpdateGroupWork ==
    ASSUME NEW p, NEW A, NEW m, Work(p, A, m)
    PROVE  LET q == updateGroup(p, m.mid)
           IN /\ Work(q, A, m) /\ SameMaps(p, q)
              /\ Running(q) => /\ p.mgid[m.mid] \in DOMAIN q.group
                               /\ q.group[p.mgid[m.mid]] = {p.nid[a] : a \in p.parts[m.mid]}
<1> DEFINE lacking == \E a \in p.parts[m.mid] : a \notin DOMAIN p.nid \/ <<m.mid, a>> \notin p.l1
           g == p.mgid[m.mid]
           S == {p.nid[a] : a \in p.parts[m.mid]}
           d == With(p.group, g, S)
           q == updateGroup(p, m.mid)
<1>0. /\ IsPRE(p) /\ IdsInv(p) /\ RulesInv(p) /\ Explained(p, A) /\ m \in A /\ Ready(p, m)
      /\ \A x \in A : Stuck(p, x) \/ Ready(p, x)
  BY DEF Work, IdsInv
<1>1. CASE ~Running(p)
  <2>1. q = p
    BY <1>1 DEF updateGroup
  <2> QED BY <1>1, <2>1 DEF SameMaps
<1>2. CASE Running(p)
  <2>1. IdsInv(q) /\ RulesInv(q) /\ Grows(p, q)
    BY <1>0, UpdateGroupIds, UpdateGroupRules DEF Ready
  <2>2. /\ SameMaps(p, q) /\ q.repl = p.repl /\ q.node = p.node /\ q.prune = p.prune /\ q.route = p.route
        /\ q.exit = IF lacking THEN "raised" ELSE p.exit
        /\ ~lacking => q.group = d
    <3>1. CASE lacking
      <4>1. q = [p EXCEPT !.exit = "raised"]
        BY <1>2, <3>1 DEF updateGroup
      <4> HIDE DEF q, lacking
      <4> QED BY <1>0, <3>1, <4>1, ExitFields DEF SameTables
    <3>2. CASE ~lacking
      <4>1. q = [p EXCEPT !.group = d]
        BY <1>2, <3>2 DEF updateGroup
      <4> HIDE DEF q, lacking, d
      <4> QED BY <1>0, <3>2, <4>1 DEF IsPRE, SameMaps
    <3> QED BY <3>1, <3>2
  <2>3. g \in DOMAIN d /\ d[g] = S
    BY DEF With
  <2> HIDE DEF d, S, q
  <2>4. Fills(p, q) /\ RidsPlaced(q) /\ q.parts = p.parts
    BY <1>0, <2>2, SameMapsFills DEF Explained, SameMaps
  <2>5. Explained(q, A)
    BY <1>0, <2>2, <2>4, SameOrigin DEF Explained
  <2>6. (\A x \in A : Stuck(q, x) \/ Ready(q, x)) /\ Ready(q, m)
    BY <1>0, <2>1, <2>4, StuckKept, ReadyKept
  <2>7. lacking => \E x \in A : Stuck(q, x)
    <3> SUFFICES ASSUME NEW a \in p.parts[m.mid], a \notin DOMAIN p.nid \/ <<m.mid, a>> \notin p.l1
                 PROVE  \E x \in A : Stuck(q, x)
      OBVIOUS
    <3>1. PICK x \in A : x.mid = m.mid /\ a \in {x.src, x.dst}
      BY <1>0 DEF Explained, Ready, HasPlace
    <3>2. ~Ready(p, x)
      BY <3>1 DEF Ready
    <3> QED BY <1>0, <2>4, <3>2, StuckKept
  <2>8. Running(q) \/ (q.exit = "raised" /\ Excuse(q, A))
    BY <1>2, <2>2, <2>7 DEF Excuse, Running
  <2>9. Work(q, A, m)
    BY <1>0, <2>1, <2>5, <2>6, <2>8 DEF Work
  <2>10. Running(q) => ~lacking
    BY <2>2 DEF Running
  <2> QED BY <2>2, <2>3, <2>9, <2>10 DEF q, S
<1> QED BY <1>1, <1>2

\* add_ipv4_route: a route is never that of another receiver.
LEMMA AddRouteWork ==
    ASSUME NEW p, NEW A, NEW m, Work(p, A, m), NEW ssrc, Running(p) => InGroup(p, m, ssrc)
    PROVE  LET q == addRoute(p, m, ssrc)
           IN /\ Work(q, A, m) /\ Grows(p, q) /\ q.group = p.group
              /\ Running(q) /\ ssrc # NoRtx =>
                    /\ <<m.src, ssrc, p.rid[<<m.mid, m.dst>>]>> \in DOMAIN q.route
                    /\ q.route[<<m.src, ssrc, p.rid[<<m.mid, m.dst>>]>>] = m.dst
              /\ \A x \in DOMAIN q.route :
                    \/ x \in DOMAIN p.route
                    \/ ssrc # NoRtx /\ x = <<m.src, ssrc, p.rid[<<m.mid, m.dst>>]>> /\ q.route[x] = m.dst
<1> DEFINE r == p.rid[<<m.mid, m.dst>>]
           k == <<m.src, ssrc, r>>
           q == addEntry(p, "route", k, m.dst)
<1>0. /\ IsPRE(p) /\ IdsInv(p) /\ RulesInv(p) /\ Explained(p, A) /\ Ready(p, m) /\ HasPlace(p, m)
      /\ Injective(p.rid)
  BY DEF Work, Ready, IdsInv, IsDict
<1>1. CASE ~Running(p) \/ ssrc = NoRtx
  <2>1. addRoute(p, m, ssrc) = p
    BY <1>1 DEF addRoute
  <2> QED BY <1>0, <1>1, <2>1, GrowsSame
<1>2. CASE Running(p) /\ ssrc # NoRtx
  <2>1. addRoute(p, m, ssrc) = q
    BY <1>2 DEF addRoute
  <2>2. RulesInv(addRoute(p, m, ssrc))
    BY <1>0, AddRouteRules
  <2>3. k[3] = r
    OBVIOUS
  <2> HIDE DEF k
  <2>4. /\ Grows(p, q) /\ q.group = p.group
        /\ Running(q) => k \in DOMAIN q.route /\ q.route[k] = m.dst
        /\ q.route = p.route \/ (DOMAIN q.route = DOMAIN p.route \cup {k} /\ q.route[k] = m.dst)
    BY <1>0, AddEntryGrows
  <2>5. k \in DOMAIN p.route => p.route[k] = m.dst
    <3> SUFFICES ASSUME k \in DOMAIN p.route PROVE p.route[k] = m.dst
      OBVIOUS
    <3>1. PICK mid : RouteIn(p, k, mid)
      BY <1>0 DEF RulesInv, RoutesInv
    <3>2. <<mid, p.route[k]>> \in DOMAIN p.rid /\ p.rid[<<mid, p.route[k]>>] = r
      BY <2>3, <3>1 DEF RouteIn
    <3>3. <<m.mid, m.dst>> = <<mid, p.route[k]>>
      BY <1>0, <3>2 DEF HasPlace, Injective
    <3> QED BY <3>3
  <2>6. ComesFrom(p, A, "route", k, m.dst)
    BY DEF ComesFrom
  <2>7. Work(q, A, m)
    BY <2>1, <2>2, <2>5, <2>6, AddEntryWork
  <2> QED BY <1>2, <2>1, <2>4, <2>7 DEF k
<1> QED BY <1>1, <1>2

-----------------------------------------------------------------------------
(* The rules of a stream *)

NodeThere(p, m, a) ==
    /\ p.nid[a] \in DOMAIN p.node
    /\ p.node[p.nid[a]] = [rid |-> p.rid[<<m.mid, a>>], eport |-> Eport(a)]

GroupThere(p, m) ==
    /\ p.mgid[m.mid] \in DOMAIN p.group
    /\ {p.nid[m.src], p.nid[m.dst]} \subseteq p.group[p.mgid[m.mid]]

RouteKey(p, m, ssrc) == <<m.src, ssrc, p.rid[<<m.mid, m.dst>>]>>

RouteThere(p, m, ssrc) ==
    ssrc # NoRtx => /\ RouteKey(p, m, ssrc) \in DOMAIN p.route
                    /\ p.route[RouteKey(p, m, ssrc)] = m.dst

\* All that m asks for is installed.
Installed(p, m) ==
    /\ Ready(p, m)
    /\ NodeThere(p, m, m.src) /\ NodeThere(p, m, m.dst)
    /\ GroupThere(p, m)
    /\ \A ssrc \in {m.ssrc, m.rtx} : InGroup(p, m, ssrc) /\ RouteThere(p, m, ssrc)

\* Rules stay where they are, for the identifiers of a stream never change.
LEMMA ThereKept ==
    ASSUME NEW p, NEW q, NEW m, Ready(p, m), Grows(p, q)
    PROVE  /\ \A a \in {m.src, m.dst} : NodeThere(p, m, a) => NodeThere(q, m, a)
           /\ GroupThere(p, m) /\ Covers(p.group, q.group) => GroupThere(q, m)
           /\ \A ssrc : InGroup(p, m, ssrc) => InGroup(q, m, ssrc)
           /\ \A ssrc : RouteThere(p, m, ssrc) => RouteThere(q, m, ssrc)
           /\ \A ssrc : RouteKey(q, m, ssrc) = RouteKey(p, m, ssrc)
<1>1. /\ q.mgid[m.mid] = p.mgid[m.mid]
      /\ \A a \in {m.src, m.dst} : q.nid[a] = p.nid[a] /\ q.rid[<<m.mid, a>>] = p.rid[<<m.mid, a>>]
  BY DEF Ready, HasPlace, Grows, Extends
<1>2. \A a \in {m.src, m.dst} : NodeThere(p, m, a) => NodeThere(q, m, a)
  BY <1>1 DEF NodeThere, Grows, Extends
<1>3. GroupThere(p, m) /\ Covers(p.group, q.group) => GroupThere(q, m)
  BY <1>1 DEF GroupThere, Covers
<1>4. \A ssrc : InGroup(p, m, ssrc) => InGroup(q, m, ssrc)
  BY ReplicatedKept DEF Ready
<1>5. \A ssrc : RouteKey(q, m, ssrc) = RouteKey(p, m, ssrc)
  BY <1>1 DEF RouteKey
<1>6. \A ssrc : RouteThere(p, m, ssrc) => RouteThere(q, m, ssrc)
  BY <1>5 DEF RouteThere, Grows, Extends
<1> QED BY <1>2, <1>3, <1>4, <1>5, <1>6

\* What is installed stays installed.
LEMMA InstalledKept ==
    ASSUME NEW p, NEW q, NEW m, Installed(p, m), Grows(p, q), Covers(p.group, q.group)
    PROVE  Installed(q, m)
BY ThereKept, ReadyKept DEF Installed

\* add_multicast_node, if it did not exit.
LEMMA AddNodeThere ==
    ASSUME NEW p, NEW A, NEW m, Work(p, A, m), NEW a \in {m.src, m.dst}
    PROVE  LET q == addNode(p, m.mid, a)
           IN Work(q, A, m) /\ Prepares(p, q) /\ (Running(q) => NodeThere(q, m, a))
<1> DEFINE k == p.nid[a]
           v == [rid |-> p.rid[<<m.mid, a>>], eport |-> Eport(a)]
           q == addNode(p, m.mid, a)
<1>1. IsPRE(p) /\ Ready(p, m) /\ Work(q, A, m)
  BY AddNodeWork DEF Work, IdsInv
<1>2. Prepares(p, q)
  BY <1>1, AddNodeGrows
<1>3. Running(q) => k \in DOMAIN q.node /\ q.node[k] = v
  <2>1. Running(p) => q = addEntry(p, "node", k, v)
    BY DEF addNode
  <2>2. Running(addEntry(p, "node", k, v)) =>
           k \in DOMAIN addEntry(p, "node", k, v).node /\ addEntry(p, "node", k, v).node[k] = v
    <3> HIDE DEF k, v
    <3> QED BY <1>1, AddEntryGrows
  <2>3. Running(q) => Running(p)
    BY <1>2 DEF Prepares, Grows
  <2> HIDE DEF k, v, q
  <2> QED BY <2>1, <2>2, <2>3
<1>4. q.nid[a] = p.nid[a] /\ q.rid[<<m.mid, a>>] = p.rid[<<m.mid, a>>]
  BY <1>1, <1>2 DEF Prepares, Ready, HasPlace, Grows, Extends
<1> HIDE DEF q
<1> QED BY <1>1, <1>2, <1>3, <1>4 DEF NodeThere, q

\* update_multicast_group, if it did not exit.
LEMMA UpdateGroupThere ==
    ASSUME NEW p, NEW A, NEW m, Work(p, A, m)
    PROVE  LET q == updateGroup(p, m.mid)
           IN /\ Work(q, A, m) /\ Grows(p, q) /\ Covers(p.group, q.group) /\ q.route = p.route
              /\ Running(q) => GroupThere(q, m)
<1> DEFINE q == updateGroup(p, m.mid)
<1>1. IdsInv(p) /\ RulesInv(p) /\ Ready(p, m) /\ HasPlace(p, m)
  BY DEF Work, Ready
<1>2. Work(q, A, m) /\ SameMaps(p, q) /\ Grows(p, q) /\ Covers(p.group, q.group)
  BY <1>1, UpdateGroupWork, UpdateGroupRules
<1>3. Running(q) => /\ p.mgid[m.mid] \in DOMAIN q.group
                    /\ q.group[p.mgid[m.mid]] = {p.nid[a] : a \in p.parts[m.mid]}
  BY UpdateGroupWork
<1>4. q.route = p.route
  <2>1. q.route = p.route
    <3>1. \/ q = p \/ q = [p EXCEPT !.exit = "raised"]
          \/ \E d : q = [p EXCEPT !.group = d]
      BY DEF updateGroup
    <3> HIDE DEF q
    <3> QED BY <1>1, <3>1 DEF IdsInv, IsPRE
  <2> QED BY <2>1
<1> HIDE DEF q
<1>5. Running(q) => GroupThere(q, m)
  BY <1>1, <1>2, <1>3 DEF GroupThere, SameMaps, HasPlace
<1> QED BY <1>2, <1>4, <1>5 DEF q

\* A route that is there now was there or is the one of m.
Leads(p, q, m) ==
    \A x \in DOMAIN q.route :
        \/ x \in DOMAIN p.route
        \/ \E ssrc \in SSRCsOf(m) : x = RouteKey(q, m, ssrc) /\ q.route[x] = m.dst

\* The second part of add_stream: all rules of m are there, or there is a reason.
LEMMA InstallRulesEnds ==
    ASSUME NEW p, NEW A, NEW m, Work(p, A, m)
    PROVE  LET q == installRules(p, m)
           IN /\ Work(q, A, m) /\ Grows(p, q) /\ Covers(p.group, q.group) /\ Leads(p, q, m)
              /\ Running(q) => Installed(q, m)
<1> DEFINE a == addSender(p, m, m.ssrc)
           b == addSender(a, m, m.rtx)
           c == addNode(b, m.mid, m.src)
           d == addNode(c, m.mid, m.dst)
           e == updateGroup(d, m.mid)
           f == addExclusion(e, m.src)
           g == addRoute(f, m, m.ssrc)
           q == addRoute(g, m, m.rtx)
<1>0. installRules(p, m) = q
  BY DEF installRules
<1>1. \A s : Work(s, A, m) => IsPRE(s) /\ HasPlace(s, m) /\ Ready(s, m)
  BY DEF Work, IdsInv, Ready
<1>2. Work(a, A, m) /\ Prepares(p, a) /\ (Running(a) => InGroup(a, m, m.ssrc))
  BY <1>1, AddSenderWork, AddSenderGrows
<1> HIDE DEF a
<1>3. Work(b, A, m) /\ Prepares(a, b) /\ (Running(b) => InGroup(b, m, m.rtx))
  BY <1>1, <1>2, AddSenderWork, AddSenderGrows
<1> HIDE DEF b
<1>4. Work(c, A, m) /\ Prepares(b, c) /\ (Running(c) => NodeThere(c, m, m.src))
  BY <1>3, AddNodeThere
<1> HIDE DEF c
<1>5. Work(d, A, m) /\ Prepares(c, d) /\ (Running(d) => NodeThere(d, m, m.dst))
  BY <1>4, AddNodeThere
<1> HIDE DEF d
<1>6. /\ Work(e, A, m) /\ Grows(d, e) /\ Covers(d.group, e.group) /\ e.route = d.route
      /\ Running(e) => GroupThere(e, m)
  BY <1>5, UpdateGroupThere
<1> HIDE DEF e
<1>7. Work(f, A, m) /\ Prepares(e, f)
  BY <1>1, <1>6, AddExclusionWork, AddNodeGrows
<1> HIDE DEF f
<1>8. Running(f) => /\ InGroup(f, m, m.ssrc) /\ InGroup(f, m, m.rtx)
                    /\ NodeThere(f, m, m.src) /\ NodeThere(f, m, m.dst) /\ GroupThere(f, m)
  <2> SUFFICES ASSUME Running(f)
               PROVE  /\ InGroup(f, m, m.ssrc) /\ InGroup(f, m, m.rtx)
                      /\ NodeThere(f, m, m.src) /\ NodeThere(f, m, m.dst) /\ GroupThere(f, m)
    OBVIOUS
  <2>1. Grows(e, f) /\ Grows(d, f) /\ Grows(c, f) /\ Grows(b, f) /\ Grows(a, f)
    BY <1>3, <1>4, <1>5, <1>6, <1>7, GrowsTransitive DEF Prepares
  <2>2. Running(e) /\ Running(d) /\ Running(c) /\ Running(b) /\ Running(a)
    BY <2>1 DEF Grows
  <2>3. InGroup(f, m, m.ssrc) /\ InGroup(f, m, m.rtx)
    BY <1>1, <1>2, <1>3, <2>1, <2>2, ThereKept
  <2>4. NodeThere(f, m, m.src) /\ NodeThere(f, m, m.dst)
    BY <1>1, <1>4, <1>5, <2>1, <2>2, ThereKept
  <2>5. GroupThere(f, m)
    BY <1>1, <1>6, <1>7, <2>1, <2>2, ThereKept, SameExtends DEF Prepares
  <2> QED BY <2>3, <2>4, <2>5
<1>9. /\ Work(g, A, m) /\ Grows(f, g) /\ g.group = f.group
      /\ Running(g) => RouteThere(g, m, m.ssrc)
      /\ \A x \in DOMAIN g.route :
            \/ x \in DOMAIN f.route
            \/ m.ssrc # NoRtx /\ x = RouteKey(g, m, m.ssrc) /\ g.route[x] = m.dst
  <2>1. /\ Work(g, A, m) /\ Grows(f, g) /\ g.group = f.group
        /\ Running(g) /\ m.ssrc # NoRtx => /\ RouteKey(f, m, m.ssrc) \in DOMAIN g.route
                                           /\ g.route[RouteKey(f, m, m.ssrc)] = m.dst
        /\ \A x \in DOMAIN g.route :
              \/ x \in DOMAIN f.route
              \/ m.ssrc # NoRtx /\ x = RouteKey(f, m, m.ssrc) /\ g.route[x] = m.dst
    BY <1>7, <1>8, AddRouteWork DEF RouteKey
  <2> HIDE DEF g
  <2>2. RouteKey(g, m, m.ssrc) = RouteKey(f, m, m.ssrc)
    BY <1>1, <1>7, <2>1, ThereKept
  <2> QED BY <2>1, <2>2 DEF RouteThere
<1> HIDE DEF g
<1>10. Running(g) => Running(f)
  BY <1>9 DEF Grows
<1>11. Running(g) => InGroup(g, m, m.rtx)
  BY <1>1, <1>7, <1>8, <1>9, <1>10, ThereKept
<1>12. /\ Work(q, A, m) /\ Grows(g, q) /\ q.group = g.group
       /\ Running(q) => RouteThere(q, m, m.rtx)
       /\ \A x \in DOMAIN q.route :
             \/ x \in DOMAIN g.route
             \/ m.rtx # NoRtx /\ x = RouteKey(q, m, m.rtx) /\ q.route[x] = m.dst
  <2>1. /\ Work(q, A, m) /\ Grows(g, q) /\ q.group = g.group
        /\ Running(q) /\ m.rtx # NoRtx => /\ RouteKey(g, m, m.rtx) \in DOMAIN q.route
                                          /\ q.route[RouteKey(g, m, m.rtx)] = m.dst
        /\ \A x \in DOMAIN q.route :
              \/ x \in DOMAIN g.route
              \/ m.rtx # NoRtx /\ x = RouteKey(g, m, m.rtx) /\ q.route[x] = m.dst
    BY <1>9, <1>11, AddRouteWork DEF RouteKey
  <2> HIDE DEF q
  <2>2. RouteKey(q, m, m.rtx) = RouteKey(g, m, m.rtx)
    BY <1>1, <1>9, <2>1, ThereKept
  <2> QED BY <2>1, <2>2 DEF RouteThere
<1> HIDE DEF q
<1>13. Grows(f, q) /\ Grows(e, q) /\ Grows(p, q)
  BY <1>2, <1>3, <1>4, <1>5, <1>6, <1>7, <1>9, <1>12, GrowsTransitive DEF Prepares
<1>14. Covers(p.group, q.group)
  <2>1. d.group = p.group /\ q.group = e.group
    BY <1>2, <1>3, <1>4, <1>5, <1>7, <1>9, <1>12 DEF Prepares
  <2> QED BY <1>6, <2>1
<1>15. Leads(p, q, m)
  <2> SUFFICES ASSUME NEW x \in DOMAIN q.route, x \notin DOMAIN p.route
               PROVE  \E ssrc \in SSRCsOf(m) : x = RouteKey(q, m, ssrc) /\ q.route[x] = m.dst
    BY DEF Leads
  <2>1. f.route = p.route
    BY <1>2, <1>3, <1>4, <1>5, <1>6, <1>7 DEF Prepares
  <2>2. CASE x \in DOMAIN g.route
    <3>1. m.ssrc # NoRtx /\ x = RouteKey(g, m, m.ssrc) /\ g.route[x] = m.dst
      BY <1>9, <2>1, <2>2
    <3>2. RouteKey(q, m, m.ssrc) = x /\ q.route[x] = m.dst
      BY <1>1, <1>9, <1>12, <2>2, <3>1, ThereKept DEF Grows, Extends
    <3> QED BY <3>1, <3>2 DEF SSRCsOf
  <2>3. CASE x \notin DOMAIN g.route
    BY <1>12, <2>3 DEF SSRCsOf
  <2> QED BY <2>2, <2>3
<1>16. Running(q) => Installed(q, m)
  <2> SUFFICES ASSUME Running(q) PROVE Installed(q, m)
    OBVIOUS
  <2>1. Running(g) /\ Running(f)
    BY <1>10, <1>12 DEF Grows
  <2>2. q.group = f.group /\ Covers(f.group, q.group)
    BY <1>9, <1>12, SameExtends
  <2>3. NodeThere(q, m, m.src) /\ NodeThere(q, m, m.dst) /\ GroupThere(q, m)
    BY <1>1, <1>7, <1>8, <1>13, <2>1, <2>2, ThereKept
  <2>4. InGroup(q, m, m.ssrc) /\ InGroup(q, m, m.rtx)
    BY <1>1, <1>7, <1>8, <1>13, <2>1, ThereKept
  <2>5. RouteThere(q, m, m.ssrc) /\ RouteThere(q, m, m.rtx)
    BY <1>1, <1>9, <1>12, <2>1, ThereKept
  <2> QED BY <1>1, <1>12, <2>3, <2>4, <2>5 DEF Installed
<1> QED BY <1>0, <1>12, <1>13, <1>14, <1>15, <1>16

-----------------------------------------------------------------------------
(* add_stream as a whole *)

\* The rules of a stream change no identifier.
LEMMA InstallRulesMaps ==
    ASSUME NEW p, NEW m, IsPRE(p)
    PROVE  SameMaps(p, installRules(p, m))
<1> DEFINE Keep(s, t) == IsPRE(t) /\ SameMaps(s, t)
<1>1. ASSUME NEW s, NEW t, NEW u, Keep(s, t), Keep(t, u) PROVE Keep(s, u)
  BY <1>1 DEF SameMaps
<1>2. ASSUME NEW s, IsPRE(s), NEW t \in {"repl", "node", "prune", "route"}, NEW k, NEW v
      PROVE  Keep(s, s) /\ Keep(s, addEntry(s, t, k, v))
  BY <1>2, AddEntryFields, AddEntryGrows DEF SameMaps, Grows
<1>3. ASSUME NEW s, IsPRE(s), NEW ssrc
      PROVE  Keep(s, addSender(s, m, ssrc)) /\ Keep(s, addRoute(s, m, ssrc))
  BY <1>2, <1>3 DEF addSender, addRoute
<1>4. ASSUME NEW s, IsPRE(s), NEW a
      PROVE  Keep(s, addNode(s, m.mid, a)) /\ Keep(s, addExclusion(s, a))
  BY <1>2, <1>4 DEF addNode, addExclusion
<1>5. ASSUME NEW s, IsPRE(s) PROVE Keep(s, updateGroup(s, m.mid))
  <2> DEFINE q == updateGroup(s, m.mid)
  <2>1. q = s \/ q = [s EXCEPT !.exit = "raised"] \/ \E d : q = [s EXCEPT !.group = d]
    BY DEF updateGroup
  <2> HIDE DEF q
  <2> QED BY <1>5, <2>1 DEF IsPRE, SameMaps, q
<1> DEFINE a == addSender(p, m, m.ssrc)
           b == addSender(a, m, m.rtx)
           c == addNode(b, m.mid, m.src)
           d == addNode(c, m.mid, m.dst)
           e == updateGroup(d, m.mid)
           f == addExclusion(e, m.src)
           g == addRoute(f, m, m.ssrc)
           q == addRoute(g, m, m.rtx)
<1>6. installRules(p, m) = q
  BY DEF installRules
<1>7. Keep(p, p)
  BY <1>2
<1> HIDE DEF Keep
<1>8. Keep(p, a)
  BY <1>3
<1>9. ASSUME NEW s PROVE Keep(p, s) => IsPRE(s)
  BY DEF Keep
<1> HIDE DEF a
<1>10. Keep(p, b)
  BY <1>1, <1>3, <1>8, <1>9
<1> HIDE DEF b
<1>11. Keep(p, c)
  BY <1>1, <1>4, <1>10, <1>9
<1> HIDE DEF c
<1>12. Keep(p, d)
  BY <1>1, <1>4, <1>11, <1>9
<1> HIDE DEF d
<1>13. Keep(p, e)
  BY <1>1, <1>5, <1>12, <1>9
<1> HIDE DEF e
<1>14. Keep(p, f)
  BY <1>1, <1>4, <1>13, <1>9
<1> HIDE DEF f
<1>15. Keep(p, g)
  BY <1>1, <1>3, <1>14, <1>9
<1> HIDE DEF g
<1>16. Keep(p, q)
  BY <1>1, <1>3, <1>15, <1>9
<1> QED BY <1>6, <1>16 DEF Keep

\* While the process runs, every call it took is installed or lacks an identifier
\* for good, and every route is that of a call.
Settled(p, A) ==
    /\ \A m \in A : Stuck(p, m) \/ Installed(p, m)
    /\ \A k \in DOMAIN p.route : \E m \in A : \E ssrc \in SSRCsOf(m) :
          Installed(p, m) /\ k = RouteKey(p, m, ssrc) /\ p.route[k] = m.dst

\* The identifiers of one more call leave everything explained.
LEMMA ExplainedMore ==
    ASSUME NEW p, NEW q, NEW A, NEW m, Explained(p, A), SameTables(p, q), Grows(p, q), RidsPlaced(q),
           \A mid \in DOMAIN q.parts : \A a \in q.parts[mid] :
              \/ mid \in DOMAIN p.parts /\ a \in p.parts[mid]
              \/ mid = m.mid /\ a \in {m.src, m.dst}
    PROVE  Explained(q, A \cup {m})
<1>1. \A k, v, x : ReplOf(p, k, v, x) => ReplOf(q, k, v, x)
  BY DEF ReplOf, Grows, Extends
<1>2. \A n, v, x, a : NodeOf(p, n, v, x, a) => NodeOf(q, n, v, x, a)
  BY DEF NodeOf, Grows, Extends
<1>3. \A k \in DOMAIN q.repl : \E x \in A \cup {m} : ReplOf(q, k, q.repl[k], x)
  BY <1>1 DEF Explained, SameTables
<1>4. \A n \in DOMAIN q.node : \E x \in A \cup {m} : \E a \in {x.src, x.dst} : NodeOf(q, n, q.node[n], x, a)
  <2> SUFFICES ASSUME NEW n \in DOMAIN q.node
               PROVE  \E x \in A \cup {m} : \E a \in {x.src, x.dst} : NodeOf(q, n, q.node[n], x, a)
    OBVIOUS
  <2>1. n \in DOMAIN p.node /\ q.node[n] = p.node[n]
    BY DEF SameTables
  <2>2. PICK x \in A : \E a \in {x.src, x.dst} : NodeOf(p, n, p.node[n], x, a)
    BY <2>1 DEF Explained
  <2> QED BY <1>2, <2>1, <2>2
<1>5. \A mid \in DOMAIN q.parts : \A a \in q.parts[mid] :
         \E x \in A \cup {m} : x.mid = mid /\ a \in {x.src, x.dst}
  <2> SUFFICES ASSUME NEW mid \in DOMAIN q.parts, NEW a \in q.parts[mid]
               PROVE  \E x \in A \cup {m} : x.mid = mid /\ a \in {x.src, x.dst}
    OBVIOUS
  <2> QED BY DEF Explained
<1>6. \A k \in DOMAIN q.prune : k \in Values(EgressPorts) /\ q.prune[k] = {k}
  BY DEF Explained, SameTables
<1>7. Fits(q.repl) /\ Fits(q.route)
  BY DEF Explained, SameTables
<1> QED BY <1>3, <1>4, <1>5, <1>6, <1>7 DEF Explained

\* The exit of a record says nothing about the rest, and a process that runs may go on.
LEMMA ExitOnly ==
    ASSUME NEW p, NEW q, NEW e, Grows(p, q), Running(p)
    PROVE  LET r == [q EXCEPT !.exit = e] IN Grows(p, r) /\ SameTables(q, r) /\ SameMaps(q, r)
<1> DEFINE r == [q EXCEPT !.exit = e]
<1>1. IsPRE(q)
  BY DEF Grows
<1>2. IsPRE(r) /\ SameTables(q, r) /\ SameMaps(q, r)
  BY <1>1, ExitFields
<1> HIDE DEF r
<1>3. Grows(p, r)
  BY <1>2 DEF Grows, SameTables, SameMaps
<1> QED BY <1>2, <1>3 DEF r

\* After an exit no rule is installed.
LEMMA NoRules ==
    ASSUME NEW p, NEW m, ~Running(p)
    PROVE  installRules(p, m) = p
<1>1. \A ssrc : addSender(p, m, ssrc) = p /\ addRoute(p, m, ssrc) = p
  BY DEF addSender, addRoute
<1>2. \A a : addNode(p, m.mid, a) = p /\ addExclusion(p, a) = p
  BY DEF addNode, addExclusion
<1>3. updateGroup(p, m.mid) = p
  BY DEF updateGroup
<1> QED BY <1>1, <1>2, <1>3 DEF installRules

\* What is true of the calls stays true while there are only more identifiers and rules.
LEMMA SettledKept ==
    ASSUME NEW p, NEW q, NEW A, Settled(p, A), Grows(p, q), Fills(p, q), Covers(p.group, q.group)
    PROVE  /\ \A m \in A : Stuck(q, m) \/ Installed(q, m)
           /\ \A k \in DOMAIN p.route : \E m \in A : \E ssrc \in SSRCsOf(m) :
                 Installed(q, m) /\ k = RouteKey(q, m, ssrc) /\ q.route[k] = m.dst
<1>1. \A m \in A : Stuck(q, m) \/ Installed(q, m)
  BY StuckKept, InstalledKept DEF Settled
<1>2. ASSUME NEW k \in DOMAIN p.route
      PROVE  \E m \in A : \E ssrc \in SSRCsOf(m) :
                 Installed(q, m) /\ k = RouteKey(q, m, ssrc) /\ q.route[k] = m.dst
  <2>1. PICK m \in A : \E ssrc \in SSRCsOf(m) :
           Installed(p, m) /\ k = RouteKey(p, m, ssrc) /\ p.route[k] = m.dst
    BY DEF Settled
  <2>2. PICK ssrc \in SSRCsOf(m) : Installed(p, m) /\ k = RouteKey(p, m, ssrc) /\ p.route[k] = m.dst
    BY <2>1
  <2>3. Installed(q, m)
    BY <2>2, InstalledKept
  <2>4. RouteKey(q, m, ssrc) = k
    BY <2>2, ThereKept DEF Installed
  <2>5. q.route[k] = m.dst
    BY <2>2 DEF Grows, Extends
  <2> QED BY <2>3, <2>4, <2>5
<1> QED BY <1>1, <1>2

\* The whole of add_stream.  It leaves everything explained; while the process
\* runs, m is installed or nothing has changed in the tables, and if it does not,
\* there is a reason.
LEMMA AddStreamEnds ==
    ASSUME NEW p, NEW A, NEW m, IdsInv(p), RulesInv(p), Running(p), Explained(p, A), Settled(p, A)
    PROVE  LET q == add_stream(p, m)
               B == A \cup {m}
           IN /\ Explained(q, B) /\ Leads(p, q, m)
              /\ Running(q) => Settled(q, B) /\ (Installed(q, m) \/ q.route = p.route)
              /\ ~Running(q) => Excuse(q, B)
<1> DEFINE a == assignIds(p, m)
           b == installRules(a, m)
           q == Returned(b)
           B == A \cup {m}
<1>0. add_stream(p, m) = q
  BY DEF add_stream
<1>1. IsPRE(p) /\ RidsPlaced(p)
  BY DEF IdsInv, Explained
<1>2. IdsInv(a) /\ Prepares(p, a) /\ Grows(p, a) /\ Covers(p.group, a.group)
  BY <1>1, AssignIdsIds, AssignIdsGrows, SameExtends DEF Prepares
<1>3. /\ SameTables(p, a) /\ Fills(p, a) /\ RidsPlaced(a)
      /\ \A mid \in DOMAIN a.parts : \A x \in a.parts[mid] :
            \/ mid \in DOMAIN p.parts /\ x \in p.parts[mid]
            \/ mid = m.mid /\ x \in {m.src, m.dst}
      /\ Running(a) => Ready(a, m)
      /\ \/ Running(a)
         \/ a.exit = "raised" /\ ~({m.src[1], m.dst[1]} \subseteq DOMAIN EgressPorts)
         \/ a.exit = "returned" /\ Stuck(a, m)
  BY <1>1, AssignIdsEnds
<1> HIDE DEF a
<1>4. Explained(a, B)
  BY <1>2, <1>3, ExplainedMore
<1>5. RulesInv(a)
  BY <1>2, GrowsRules DEF Prepares
<1>6. /\ \A x \in A : Stuck(a, x) \/ Installed(a, x)
      /\ \A k \in DOMAIN p.route : \E x \in A : \E ssrc \in SSRCsOf(x) :
            Installed(a, x) /\ k = RouteKey(a, x, ssrc) /\ a.route[k] = x.dst
  BY <1>2, <1>3, SettledKept
<1>7. CASE a.exit = "raised"
  <2>1. b = a
    BY <1>7, NoRules DEF Running
  <2>2. q = a
    BY <1>7, <2>1 DEF Returned
  <2> HIDE DEF q
  <2>3. Leads(p, q, m) /\ ~Running(q)
    BY <1>3, <1>7, <2>2 DEF Leads, SameTables, Running
  <2>4. ~({m.src[1], m.dst[1]} \subseteq DOMAIN EgressPorts)
    BY <1>3, <1>7 DEF Running
  <2>5. Excuse(q, B)
    BY <2>4 DEF Excuse
  <2> QED BY <1>0, <1>4, <2>2, <2>3, <2>5
<1>8. CASE a.exit = "returned"
  <2>1. b = a
    BY <1>8, NoRules DEF Running
  <2>2. q = [a EXCEPT !.exit = "no"]
    BY <1>8, <2>1 DEF Returned
  <2>3. Grows(p, q) /\ SameTables(a, q) /\ SameMaps(a, q)
    BY <1>2, <2>2, ExitOnly
  <2>4. q.exit = "no"
    BY <1>2, <2>2 DEF IdsInv, IsPRE
  <2> HIDE DEF q
  <2>5. SameTables(p, q) /\ Fills(a, q) /\ RidsPlaced(q) /\ q.parts = a.parts
    BY <1>3, <2>3, SameMapsFills DEF SameTables, SameMaps
  <2>6. Fills(p, q)
    BY <1>3, <2>5, FillsTransitive
  <2>7. Explained(q, B)
    BY <1>3, <2>3, <2>5, ExplainedMore
  <2>8. Covers(p.group, q.group) /\ q.route = p.route
    BY <2>5, SameExtends DEF SameTables
  <2>9. /\ \A x \in A : Stuck(q, x) \/ Installed(q, x)
        /\ \A k \in DOMAIN p.route : \E x \in A : \E ssrc \in SSRCsOf(x) :
              Installed(q, x) /\ k = RouteKey(q, x, ssrc) /\ q.route[k] = x.dst
    BY <2>3, <2>6, <2>8, SettledKept
  <2>10. Stuck(a, m) /\ Stuck(q, m)
    BY <1>3, <1>8, <2>5, StuckKept DEF Running
  <2>11. Settled(q, B)
    BY <2>8, <2>9, <2>10 DEF Settled
  <2>12. Running(q) /\ Leads(p, q, m)
    BY <2>4, <2>8 DEF Running, Leads
  <2> QED BY <1>0, <2>7, <2>8, <2>11, <2>12
<1>9. CASE Running(a)
  <2>1. Work(a, B, m)
    <3>1. \A x \in B : Stuck(a, x) \/ Ready(a, x)
      BY <1>3, <1>6, <1>9 DEF Installed
    <3> QED BY <1>2, <1>3, <1>4, <1>5, <1>9, <3>1 DEF Work
  <2>2. /\ Work(b, B, m) /\ Grows(a, b) /\ Covers(a.group, b.group) /\ Leads(a, b, m)
        /\ Running(b) => Installed(b, m)
    BY <2>1, InstallRulesEnds
  <2>3. SameMaps(a, b)
    BY <1>2, InstallRulesMaps DEF IdsInv
  <2> HIDE DEF b
  <2>4. Running(b) \/ (b.exit = "raised" /\ Excuse(b, B))
    BY <2>2 DEF Work
  <2>5. q = b
    BY <2>4 DEF Returned, Running
  <2> HIDE DEF q
  <2>6. Grows(p, b) /\ Covers(p.group, b.group) /\ Fills(p, b)
    BY <1>2, <1>3, <2>2, <2>3, GrowsTransitive, FillsTransitive, SameMapsFills DEF Prepares
  <2>7. /\ \A x \in A : Stuck(b, x) \/ Installed(b, x)
        /\ \A k \in DOMAIN p.route : \E x \in A : \E ssrc \in SSRCsOf(x) :
              Installed(b, x) /\ k = RouteKey(b, x, ssrc) /\ b.route[k] = x.dst
    BY <2>6, SettledKept
  <2>8. Leads(p, b, m)
    BY <1>3, <2>2 DEF Leads, SameTables
  <2>9. Running(b) => Settled(b, B)
    BY <2>2, <2>7, <2>8 DEF Settled, Leads
  <2>10. Explained(b, B)
    BY <2>2 DEF Work
  <2>11. ~Running(b) => Excuse(b, B)
    BY <2>4
  <2> QED BY <1>0, <2>2, <2>5, <2>8, <2>9, <2>10, <2>11
<1> QED BY <1>3, <1>7, <1>8, <1>9

-----------------------------------------------------------------------------
(* The calls that were taken and the rules *)

CallsHold ==
    /\ conn = "open" => Running(pre)
    /\ Explained(pre, AddsServed)
    /\ Running(pre) => Settled(pre, AddsServed)
    /\ ~Running(pre) => served # AddsServed \/ Excuse(pre, AddsServed)

\* The four things a step may do to the process: nothing, start it again, let it take
\* an add_stream, or let it take another message.
Still    == UNCHANGED <<pre, served>> /\ (conn' = "open" => Running(pre) \/ conn = "open")
TakesAdd == \E m \in Adds : /\ conn = "open" /\ served' = served \cup {m} /\ AddsServed' = AddsServed \cup {m}
                            /\ pre' = add_stream(pre, m)
TakesOther ==
    /\ conn = "open" /\ AddsServed' = AddsServed
    /\ \/ pre' = pre
       \/ pre' = [pre EXCEPT !.exit = "raised"] /\ served' # AddsServed

\* What a message does depends on its name.
LEMMA MessageKinds ==
    /\ "add_stream" \notin Others
    /\ \A p, m : m.api = "add_stream" => OnMessage(p, m) = add_stream(p, m)
    /\ \A p, m : m.api # "add_stream" => OnMessage(p, m) \in {p, [p EXCEPT !.exit = "raised"]}
<1>1. "add_stream" \notin Others
  BY Zenon DEF Others
<1>2. "add_stream" \notin {"remove_stream", "set_quality", "add_stream without mid"}
  BY Zenon
<1>3. ASSUME NEW p, NEW m, m.api = "add_stream" PROVE OnMessage(p, m) = add_stream(p, m)
  BY <1>2, <1>3, Zenon DEF OnMessage
<1>4. ASSUME NEW p, NEW m, m.api # "add_stream"
      PROVE  OnMessage(p, m) \in {p, [p EXCEPT !.exit = "raised"]}
  BY <1>4, Zenon DEF OnMessage
<1> QED BY <1>1, <1>3, <1>4

\* Each step is one of them.
LEMMA StepOfProcess ==
    ASSUME ScriptTyped, [SwitchNext]_vars
    PROVE  \/ Still \/ RestartProcess
           \/ (TakesAdd \/ TakesOther) /\ (conn' = "open" => Running(pre'))
<1>1. ASSUME NEW s \in Streams, AgentAddStream(s) \/ AgentRemoveStream(s) PROVE Still
  BY <1>1 DEF AgentAddStream, AgentRemoveStream, Still
<1>2. ASSUME NEW i \in DOMAIN rcv, AgentSetQuality(rcv[i]) PROVE Still
  BY <1>2 DEF AgentSetQuality, Still
<1>3. CASE AdapterAddStream \/ AdapterAdjustDecodeTarget \/ Connect \/ Disconnect
  <2>1. ASSUME NEW api, AdapterSends(api) PROVE Still
    BY <2>1 DEF AdapterSends, Still
  <2>2. AdapterAddStream \/ AdapterAdjustDecodeTarget => \E api : AdapterSends(api)
    BY Zenon DEF AdapterAddStream, AdapterAdjustDecodeTarget
  <2>3. Connect \/ Disconnect => Still
    BY DEF Connect, Disconnect, Still
  <2> QED BY <1>3, <2>1, <2>2, <2>3
<1>4. CASE UNCHANGED vars
  BY <1>4 DEF vars, Still
<1>5. CASE Recv
  <2> DEFINE m == Head(queue)
  <2>1. m \in Calls
    BY <1>5 DEF Recv, ScriptTyped
  <2>2. /\ conn = "open" /\ pre' = OnMessage(pre, m) /\ served' = served \cup {m}
        /\ conn' = "open" => Running(pre')
    BY <1>5 DEF Recv
  <2>3. CASE m \in Adds
    <3>1. m.api = "add_stream"
      BY <2>3 DEF Adds
    <3>2. pre' = add_stream(pre, m)
      BY <2>2, <3>1, MessageKinds
    <3>3. AddsServed' = AddsServed \cup {m}
      BY <2>2, <3>1 DEF AddsServed
    <3> QED BY <2>2, <2>3, <3>2, <3>3 DEF TakesAdd
  <2>4. CASE m \in [api : Others]
    <3>1. m.api \in Others /\ m.api # "add_stream"
      BY <2>4, MessageKinds
    <3>2. pre' = pre \/ pre' = [pre EXCEPT !.exit = "raised"]
      BY <2>2, <3>1, MessageKinds
    <3>3. AddsServed' = AddsServed /\ m \in served' /\ m \notin AddsServed
      BY <2>2, <3>1 DEF AddsServed
    <3> QED BY <2>2, <3>2, <3>3 DEF TakesOther
  <2> QED BY <2>1, <2>2, <2>3, <2>4 DEF Calls
<1> QED BY <1>1, <1>2, <1>3, <1>4, <1>5 DEF SwitchNext

\* A new process has explained everything, and nothing is missing.
LEMMA NewPRESettled == Explained(NewPRE, {}) /\ Settled(NewPRE, {}) /\ Running(NewPRE)
<1>1. Fits(Empty)
  <2>1. DOMAIN Empty = {}
    BY DEF Empty
  <2>2. Cardinality({}) = 0 /\ IsFiniteSet({})
    BY FS_EmptySet
  <2> QED BY <2>1, <2>2, TofinoAssumption DEF Fits
<1>2. DOMAIN Empty = {}
  BY DEF Empty
<1>3. /\ NewPRE.repl = Empty /\ NewPRE.node = Empty /\ NewPRE.prune = Empty /\ NewPRE.parts = Empty
      /\ NewPRE.rid = Empty /\ NewPRE.route = Empty /\ NewPRE.exit = "no"
  BY DEF NewPRE
<1> QED BY <1>1, <1>2, <1>3 DEF Explained, Settled, Running, RidsPlaced

\* Another exit explains and excuses as much.
LEMMA ExitExplained ==
    ASSUME NEW p, NEW A, NEW e, IsPRE(p), Explained(p, A)
    PROVE  Explained([p EXCEPT !.exit = e], A)
<1> DEFINE q == [p EXCEPT !.exit = e]
<1>1. SameTables(p, q) /\ SameMaps(p, q)
  BY ExitFields
<1> HIDE DEF q
<1>2. \A k \in DOMAIN q.repl : \E m \in A : ReplOf(q, k, q.repl[k], m)
  BY <1>1, SameOrigin DEF Explained, SameTables
<1>3. \A n \in DOMAIN q.node : \E m \in A : \E a \in {m.src, m.dst} : NodeOf(q, n, q.node[n], m, a)
  <2> SUFFICES ASSUME NEW n \in DOMAIN q.node
               PROVE  \E m \in A : \E a \in {m.src, m.dst} : NodeOf(q, n, q.node[n], m, a)
    OBVIOUS
  <2>1. PICK m \in A : \E a \in {m.src, m.dst} : NodeOf(p, n, q.node[n], m, a)
    BY <1>1 DEF Explained, SameTables
  <2> QED BY <1>1, <2>1, SameOrigin
<1>4. RidsPlaced(q)
  BY <1>1, SameMapsFills DEF Explained
<1>5. Explained(q, A)
  BY <1>1, <1>2, <1>3, <1>4 DEF Explained, SameTables, SameMaps
<1> QED BY <1>5 DEF q

\* Any step keeps the rules in line with the calls.
LEMMA NextCalls ==
    ASSUME IdsHold, RulesHold, ScriptTyped, CallsHold, [SwitchNext]_vars
    PROVE  CallsHold'
<1>1. CASE Still
  <2>1. pre' = pre /\ served' = served /\ AddsServed' = AddsServed
    BY <1>1 DEF Still, AddsServed
  <2>2. conn' = "open" => Running(pre')
    BY <1>1, <2>1 DEF Still, CallsHold
  <2> QED BY <2>1, <2>2 DEF CallsHold
<1>2. CASE RestartProcess
  <2>1. pre' = NewPRE /\ served' = {} /\ conn' # "open"
    BY <1>2 DEF RestartProcess, Restart
  <2>2. AddsServed' = {}
    BY <2>1 DEF AddsServed
  <2> QED BY <2>1, <2>2, NewPRESettled DEF CallsHold
<1>3. ASSUME TakesAdd, conn' = "open" => Running(pre') PROVE CallsHold'
  <2>1. PICK m \in Adds : /\ conn = "open" /\ AddsServed' = AddsServed \cup {m}
                          /\ pre' = add_stream(pre, m)
    BY <1>3 DEF TakesAdd
  <2>2. Running(pre) /\ Explained(pre, AddsServed) /\ Settled(pre, AddsServed)
    BY <2>1 DEF CallsHold
  <2>3. /\ Explained(pre', AddsServed')
        /\ Running(pre') => Settled(pre', AddsServed')
        /\ ~Running(pre') => Excuse(pre', AddsServed')
    BY <2>1, <2>2, AddStreamEnds DEF IdsHold, RulesHold
  <2> QED BY <1>3, <2>3 DEF CallsHold
<1>4. ASSUME TakesOther, conn' = "open" => Running(pre') PROVE CallsHold'
  <2>1. Running(pre) /\ Explained(pre, AddsServed) /\ Settled(pre, AddsServed) /\ IsPRE(pre)
    BY <1>4 DEF TakesOther, CallsHold, IdsHold, IdsInv
  <2>2. CASE pre' = pre
    BY <1>4, <2>1, <2>2 DEF TakesOther, CallsHold
  <2>3. CASE pre' = [pre EXCEPT !.exit = "raised"] /\ served' # AddsServed
    <3>1. pre'.exit = "raised" /\ Explained(pre', AddsServed)
      BY <2>1, <2>3, ExitExplained, ExitFields
    <3> QED BY <1>4, <2>3, <3>1 DEF TakesOther, CallsHold, Running
  <2> QED BY <1>4, <2>2, <2>3 DEF TakesOther
<1> QED BY <1>1, <1>2, <1>3, <1>4, StepOfProcess

\* The rules are those of the calls that were taken.
THEOREM CallsInvariant == SwitchSpec => []CallsHold
<1>1. SwitchInit => CallsHold
  <2> SUFFICES ASSUME SwitchInit PROVE CallsHold
    OBVIOUS
  <2>1. pre = NewPRE /\ conn # "open" /\ AddsServed = {}
    BY DEF SwitchInit, Init, AddsServed
  <2> QED BY <2>1, NewPRESettled DEF CallsHold
<1>2. IdsHold /\ RulesHold /\ (ScriptTyped /\ Asked) /\ CallsHold /\ [SwitchNext]_vars => CallsHold'
  BY NextCalls
<1> QED BY <1>1, <1>2, IdsInvariant, RulesInvariant, AskedInvariant, PTL DEF SwitchSpec

\* The process ends only on a call that class PRE does not have or cannot read, on a
\* host it does not know, on a participant in two meetings, or after it ran out of
\* ids or table entries, for any limits and however often it is asked for the same.
THEOREM EndsOnlyIfAlways == SwitchSpec => []EndsOnlyIf
<1>1. CallsHold => EndsOnlyIf
  <2> SUFFICES ASSUME CallsHold, ~Running(pre), served = AddsServed
               PROVE  \/ \E m \in AddsServed : ~({m.src[1], m.dst[1]} \subseteq DOMAIN EgressPorts)
                      \/ \E m, n \in AddsServed : m.mid # n.mid /\ {m.src, m.dst} \cap {n.src, n.dst} # {}
                      \/ \E m \in AddsServed : ~HasIds(m)
                      \/ Cardinality(DOMAIN pre.repl) = TableSize
                      \/ Cardinality(DOMAIN pre.route) = TableSize
    BY DEF EndsOnlyIf
  <2>1. Excuse(pre, AddsServed) /\ RidsPlaced(pre)
    BY DEF CallsHold, Explained
  <2>2. ASSUME NEW m \in AddsServed, Stuck(pre, m) PROVE ~HasIds(m)
    BY <2>1, <2>2, StuckHasNoIds DEF HasIds
  <2> QED BY <2>1, <2>2 DEF Excuse, TwoMeetings
<1> QED BY <1>1, CallsInvariant, PTL

-----------------------------------------------------------------------------
(* The copies of a packet *)

\* The nodes a packet of stream ssrc of participant a is replicated to.
NodeFor(p, a, ssrc, n) ==
    /\ <<a, ssrc>> \in DOMAIN p.repl /\ p.repl[<<a, ssrc>>].mgid \in DOMAIN p.group
    /\ n \in p.group[p.repl[<<a, ssrc>>].mgid] /\ n \in DOMAIN p.node

\* No copy is taken out by an L2 exclusion id: the id that is set is no port.
LEMMA NothingExcluded ==
    ASSUME NEW p, NEW A, Explained(p, A), NEW n
    PROVE  ~Excluded(p, n)
<1>1. 1 \notin Values(EgressPorts)
  BY PipelineAssumption DEF Values, CABERNET802_PORT, CABMEATY02_PORT
<1>2. 1 \notin DOMAIN p.prune
  BY <1>1 DEF Explained
<1> QED BY <1>2 DEF Excluded, TM

\* What the replication engine makes of media and sender reports.
LEMMA ReplicasOf ==
    ASSUME NEW p, NEW A, Explained(p, A), NEW a \in Addrs, NEW kind \in {"rtp", "sr"}, NEW ssrc, NEW ext,
           NEW v
    PROVE  v \in Replicas(p, ToSFU(a, kind, ssrc, ext)) <=> \E n : NodeFor(p, a, ssrc, n) /\ v = p.node[n]
<1> DEFINE pkt == ToSFU(a, kind, ssrc, ext)
<1>1. a = <<a[1], a[2]>>
  BY TofinoAssumption
<1>2. <<pkt.src, pkt.sport>> = a /\ pkt.ssrc = ssrc /\ pkt.kind = kind
  BY <1>1 DEF ToSFU
<1> HIDE DEF pkt
<1>3. Replicated(pkt)
  BY <1>2 DEF Replicated
<1> DEFINE k == <<a, ssrc>>
           group == IF k \in DOMAIN p.repl /\ p.repl[k].mgid \in DOMAIN p.group
                    THEN p.group[p.repl[k].mgid] ELSE {}
<1>4. Replicas(p, pkt) = {p.node[n] : n \in {x \in group \cap DOMAIN p.node : ~Excluded(p, x)}}
  BY <1>2, <1>3 DEF Replicas
<1>5. {x \in group \cap DOMAIN p.node : ~Excluded(p, x)} = group \cap DOMAIN p.node
  BY NothingExcluded
<1>6. \A n : n \in group \cap DOMAIN p.node <=> NodeFor(p, a, ssrc, n)
  BY DEF NodeFor
<1> HIDE DEF group, k
<1> QED BY <1>4, <1>5, <1>6 DEF pkt

\* The route a copy takes.
LEMMA EgressOf ==
    ASSUME NEW p, NEW a \in Addrs, NEW kind, NEW ssrc, NEW ext, NEW v
    PROVE  LET k == <<a, ssrc, v.rid>>
               c == Egress(p, ToSFU(a, kind, ssrc, ext), v)
           IN /\ k \in DOMAIN p.route => c = [port |-> v.eport, mac |-> "cabmeaty02", to |-> p.route[k]]
              /\ k \notin DOMAIN p.route => c.to = SFU
<1> DEFINE pkt == ToSFU(a, kind, ssrc, ext)
<1>1. a = <<a[1], a[2]>>
  BY TofinoAssumption
<1>2. <<pkt.src, pkt.sport>> = a /\ pkt.ssrc = ssrc
  BY <1>1 DEF ToSFU
<1> HIDE DEF pkt
<1>3. Egress(p, pkt, v) = IF <<a, ssrc, v.rid>> \in DOMAIN p.route
                          THEN [port |-> v.eport, mac |-> "cabmeaty02", to |-> p.route[<<a, ssrc, v.rid>>]]
                          ELSE [port |-> v.eport, mac |-> "sfu", to |-> SFU]
  BY <1>2 DEF Egress
<1> QED BY <1>3 DEF pkt

\* The participants that media of stream ssrc of a is sent to.
LEMMA RoutedOf ==
    ASSUME NEW p, NEW A, Explained(p, A), NEW a \in Addrs, NEW ssrc, NEW to
    PROVE  to \in Routed(p, a, ssrc) <=>
              /\ to \in Addrs
              /\ \E n : /\ NodeFor(p, a, ssrc, n) /\ <<a, ssrc, p.node[n].rid>> \in DOMAIN p.route
                        /\ to = p.route[<<a, ssrc, p.node[n].rid>>]
<1>1. PICK pkt : pkt = ToSFU(a, "rtp", ssrc, CHOOSE e \in Exts : TRUE)
  OBVIOUS
<1>2. Routed(p, a, ssrc) = {Egress(p, pkt, n).to : n \in Replicas(p, pkt)} \cap Addrs
  BY <1>1 DEF Routed
<1>3. \A v : v \in Replicas(p, pkt) <=> \E n : NodeFor(p, a, ssrc, n) /\ v = p.node[n]
  BY <1>1, ReplicasOf
<1>4. ASSUME NEW v
      PROVE  LET k == <<a, ssrc, v.rid>>
             IN /\ k \in DOMAIN p.route => Egress(p, pkt, v).to = p.route[k]
                /\ k \notin DOMAIN p.route => Egress(p, pkt, v).to = SFU
  <2>1. /\ <<a, ssrc, v.rid>> \in DOMAIN p.route =>
              Egress(p, pkt, v) = [port |-> v.eport, mac |-> "cabmeaty02", to |-> p.route[<<a, ssrc, v.rid>>]]
        /\ <<a, ssrc, v.rid>> \notin DOMAIN p.route => Egress(p, pkt, v).to = SFU
    BY <1>1, EgressOf
  <2> QED BY <2>1
<1>5. SFU \notin Addrs
  BY PipelineAssumption DEF SFU
<1>6. ASSUME to \in Routed(p, a, ssrc)
      PROVE  \E n : /\ NodeFor(p, a, ssrc, n) /\ <<a, ssrc, p.node[n].rid>> \in DOMAIN p.route
                    /\ to = p.route[<<a, ssrc, p.node[n].rid>>]
  <2>1. PICK v \in Replicas(p, pkt) : to = Egress(p, pkt, v).to
    BY <1>2, <1>6
  <2>2. PICK n : NodeFor(p, a, ssrc, n) /\ v = p.node[n]
    BY <1>3, <2>1
  <2>3. <<a, ssrc, v.rid>> \in DOMAIN p.route
    BY <1>2, <1>4, <1>5, <1>6, <2>1
  <2>4. to = p.route[<<a, ssrc, v.rid>>]
    BY <1>4, <2>1, <2>3
  <2> QED BY <2>2, <2>3, <2>4
<1>7. ASSUME to \in Addrs, NEW n, NodeFor(p, a, ssrc, n), <<a, ssrc, p.node[n].rid>> \in DOMAIN p.route,
             to = p.route[<<a, ssrc, p.node[n].rid>>]
      PROVE  to \in Routed(p, a, ssrc)
  <2>1. p.node[n] \in Replicas(p, pkt)
    BY <1>3, <1>7
  <2>2. Egress(p, pkt, p.node[n]).to = to
    BY <1>4, <1>7
  <2> QED BY <1>2, <1>7, <2>1, <2>2
<1>8. Routed(p, a, ssrc) \subseteq Addrs
  BY <1>2
<1> QED BY <1>6, <1>7, <1>8

\* Every packet of an installed stream reaches its receiver: one copy, by the port of
\* the receiver and with the MAC address of the host of the clients.
LEMMA InstalledReached ==
    ASSUME NEW p, NEW A, Explained(p, A), IdsInv(p), RulesInv(p),
           NEW m \in Adds, Installed(p, m), m.dst[1] = CABMEATY02_IP,
           NEW ssrc \in SSRCsOf(m), NEW pkt \in PacketsOf(m.src, ssrc)
    PROVE  {c \in Switch(p, pkt) : c.to = m.dst}
              = {[port |-> Eport(m.dst), mac |-> MacOf(m.dst[1]), to |-> m.dst]}
<1> DEFINE copy == [port |-> Eport(m.dst), mac |-> "cabmeaty02", to |-> m.dst]
           rid  == p.rid[<<m.mid, m.dst>>]
<1>1. MacOf(m.dst[1]) = "cabmeaty02"
  BY DEF MacOf, CABMEATY02_IP, CABERNET802_IP
<1>2. m.src \in Addrs /\ m.dst \in Addrs /\ ssrc # NoRtx /\ ssrc \in {m.ssrc, m.rtx}
  BY DEF Adds, SSRCsOf
<1>3. PICK kind \in {"rtp", "sr"}, ext \in Exts : pkt = ToSFU(m.src, kind, ssrc, ext)
  BY DEF PacketsOf
<1>4. PacketType(pkt) = "sfu_udp"
  <2>1. m.src[1] \in DOMAIN EgressPorts
    BY DEF Installed, Ready
  <2> QED BY <1>3, <2>1, ClientPackets
<1>5. pkt.dst = SFU_IP /\ pkt.dport = SFU_UDP_PORT
  BY <1>3 DEF ToSFU
<1>6. \A c \in Switch(p, pkt) : c.to = m.dst => \E v \in Replicas(p, pkt) : c = Egress(p, pkt, v)
  <2>1. Switch(p, pkt) = {Egress(p, pkt, n) : n \in Replicas(p, pkt)}
           \cup (IF copy_to_cpu(pkt) THEN {[port |-> CPU_PORT, mac |-> "sfu", to |-> <<pkt.dst, pkt.dport>>]}
                 ELSE {})
    <3>1. PacketType(pkt) \notin {"bf_p0", "bf_p1", "clients", "controller", "arp", "icmp"}
      BY <1>4
    <3> HIDE DEF PacketType
    <3> QED BY <1>4, <3>1, Zenon DEF Switch
  <2>2. <<pkt.dst, pkt.dport>> # m.dst
    BY <1>2, <1>5, PipelineAssumption
  <2> QED BY <2>1, <2>2
<1>7. \A v \in Replicas(p, pkt) : Egress(p, pkt, v) \in Switch(p, pkt)
  <2>1. PacketType(pkt) \notin {"bf_p0", "bf_p1", "clients", "controller", "arp", "icmp"}
    BY <1>4
  <2> HIDE DEF PacketType
  <2>2. {Egress(p, pkt, n) : n \in Replicas(p, pkt)} \subseteq Switch(p, pkt)
    BY <1>4, <2>1, Zenon DEF Switch
  <2> QED BY <2>2
<1>8. \A v : v \in Replicas(p, pkt) <=> \E n : NodeFor(p, m.src, ssrc, n) /\ v = p.node[n]
  BY <1>2, <1>3, ReplicasOf
<1>9. \A v : /\ <<m.src, ssrc, v.rid>> \in DOMAIN p.route =>
                   Egress(p, pkt, v) = [port |-> v.eport, mac |-> "cabmeaty02",
                                        to |-> p.route[<<m.src, ssrc, v.rid>>]]
             /\ <<m.src, ssrc, v.rid>> \notin DOMAIN p.route => Egress(p, pkt, v).to = SFU
  BY <1>2, <1>3, EgressOf
<1>10. /\ <<m.src, ssrc>> \in DOMAIN p.repl /\ p.repl[<<m.src, ssrc>>].mgid = p.mgid[m.mid]
       /\ <<m.src, ssrc, rid>> \in DOMAIN p.route /\ p.route[<<m.src, ssrc, rid>>] = m.dst
  BY <1>2 DEF Installed, InGroup, RouteThere, RouteKey
<1>11. copy \in Switch(p, pkt)
  <2> DEFINE n == p.nid[m.dst]
  <2>1. n \in DOMAIN p.node /\ p.node[n] = [rid |-> rid, eport |-> Eport(m.dst)]
    BY DEF Installed, NodeThere
  <2>2. NodeFor(p, m.src, ssrc, n)
    BY <1>10, <2>1 DEF Installed, GroupThere, NodeFor
  <2>3. p.node[n] \in Replicas(p, pkt)
    BY <1>8, <2>2
  <2>4. p.node[n].rid = rid /\ p.node[n].eport = Eport(m.dst)
    BY <2>1
  <2> HIDE DEF n, rid
  <2>5. Egress(p, pkt, p.node[n]) = copy
    BY <1>9, <1>10, <2>4
  <2> QED BY <1>7, <2>3, <2>5
<1>12. ASSUME NEW c \in Switch(p, pkt), c.to = m.dst
       PROVE  c = copy
  <2>1. PICK v \in Replicas(p, pkt) : c = Egress(p, pkt, v)
    BY <1>6, <1>12
  <2>2. PICK n : NodeFor(p, m.src, ssrc, n) /\ v = p.node[n]
    BY <1>8, <2>1
  <2> DEFINE k == <<m.src, ssrc, v.rid>>
  <2>3. SFU \notin Addrs
    BY PipelineAssumption DEF SFU
  <2>4. k \in DOMAIN p.route
    BY <1>2, <1>9, <1>12, <2>1, <2>3
  <2>5. c = [port |-> v.eport, mac |-> "cabmeaty02", to |-> p.route[k]]
    BY <1>9, <2>1, <2>4
  <2>6. p.route[k] = m.dst
    BY <1>12, <2>5
  <2>7. PICK mid : RouteIn(p, k, mid)
    BY <2>4 DEF RulesInv, RoutesInv
  <2>8. /\ mid \in DOMAIN p.mgid /\ p.mgid[mid] = p.mgid[m.mid] /\ m.mid \in DOMAIN p.mgid
        /\ <<mid, m.dst>> \in DOMAIN p.rid /\ p.rid[<<mid, m.dst>>] = v.rid
    BY <1>10, <2>6, <2>7 DEF RouteIn, Installed, Ready, HasPlace
  <2>9. mid = m.mid
    BY <2>8 DEF IdsInv, IsDict, Injective
  <2>10. v.eport = Eport(m.dst)
    <3>1. PICK x \in A : \E a \in {x.src, x.dst} : NodeOf(p, n, v, x, a)
      BY <2>2 DEF Explained, NodeFor
    <3>2. PICK a : NodeOf(p, n, v, x, a)
      BY <3>1
    <3>3. <<x.mid, a>> \in DOMAIN p.rid /\ v = [rid |-> p.rid[<<x.mid, a>>], eport |-> Eport(a)]
      BY <3>2 DEF NodeOf
    <3>4. p.rid[<<x.mid, a>>] = p.rid[<<m.mid, m.dst>>]
      BY <2>8, <2>9, <3>3
    <3>5. <<x.mid, a>> = <<m.mid, m.dst>>
      BY <2>8, <2>9, <3>3, <3>4 DEF IdsInv, IsDict, Injective
    <3>6. a = m.dst
      BY <3>5
    <3> QED BY <3>3, <3>6
  <2> HIDE DEF k
  <2> QED BY <2>5, <2>6, <2>10
<1>13. copy.to = m.dst
  OBVIOUS
<1> HIDE DEF copy
<1>14. {c \in Switch(p, pkt) : c.to = m.dst} = {copy}
  BY <1>11, <1>12, <1>13
<1> QED BY <1>1, <1>14 DEF copy

\* Every add_stream that was taken has its type.
LEMMA ServedAdds ==
    ASSUME ScriptTyped
    PROVE  AddsServed \subseteq Adds
<1> SUFFICES ASSUME NEW m \in AddsServed PROVE m \in Adds
  OBVIOUS
<1>1. m \in Calls /\ m.api = "add_stream"
  BY DEF AddsServed, ScriptTyped
<1>2. m \in [api : Others] => m.api \in Others
  OBVIOUS
<1> QED BY <1>1, <1>2, MessageKinds DEF Calls

\* Every packet of a stream that the process took an add_stream for reaches the
\* receiver, as one copy, by its port and with its MAC address, for any streams,
\* participants and limits, whatever came before or after it.
THEOREM ReceiversReachedAlways == SwitchSpec => []ReceiversReached
<1>1. IdsHold /\ RulesHold /\ (ScriptTyped /\ Asked) /\ CallsHold => ReceiversReached
  <2> SUFFICES ASSUME IdsHold, RulesHold, ScriptTyped, CallsHold, Running(pre),
                      NEW m \in AddsServed, HasIds(m), m.dst[1] = CABMEATY02_IP,
                      NEW ssrc \in SSRCsOf(m), NEW pkt \in PacketsOf(m.src, ssrc)
               PROVE  {c \in Switch(pre, pkt) : c.to = m.dst}
                         = {[port |-> Eport(m.dst), mac |-> MacOf(m.dst[1]), to |-> m.dst]}
    BY DEF ReceiversReached
  <2>1. Explained(pre, AddsServed) /\ Settled(pre, AddsServed) /\ RidsPlaced(pre)
    BY DEF CallsHold, Explained
  <2>2. ~Stuck(pre, m)
    BY <2>1, StuckHasNoIds DEF HasIds
  <2>3. Installed(pre, m)
    BY <2>1, <2>2 DEF Settled
  <2>4. m \in Adds
    BY ServedAdds
  <2> QED BY <2>1, <2>3, <2>4, InstalledReached DEF IdsHold, RulesHold
<1> QED BY <1>1, IdsInvariant, RulesInvariant, AskedInvariant, CallsInvariant, PTL

-----------------------------------------------------------------------------
(* The flows of the abstract data plane *)

\* What the routes say alone.
RouteFlows(p) == {<<k[1], k[2], p.route[k]>> : k \in DOMAIN p.route}

\* The stream <<a, ssrc>> flows by node n.
FlowBy(p, f, a, ssrc, n) ==
    /\ a \in Addrs
    /\ NodeFor(p, a, ssrc, n) /\ <<a, ssrc, p.node[n].rid>> \in DOMAIN p.route
    /\ p.route[<<a, ssrc, p.node[n].rid>>] \in Addrs
    /\ f = <<a, ssrc, p.route[<<a, ssrc, p.node[n].rid>>]>>

\* A flow is a stream that a node of its group has a route for.
LEMMA FlowsOf ==
    ASSUME NEW p, NEW A \in SUBSET Adds, Explained(p, A), NEW f
    PROVE  f \in Flows(p) <=> \E a, ssrc, n : FlowBy(p, f, a, ssrc, n)
<1>1. \A k \in DOMAIN p.repl : k[1] \in Addrs
  BY DEF Explained, ReplOf, Adds
<1>2. ASSUME f \in Flows(p)
      PROVE  \E a, ssrc, n : FlowBy(p, f, a, ssrc, n)
  <2>1. PICK k \in DOMAIN p.repl : \E to \in Routed(p, k[1], k[2]) : f = <<k[1], k[2], to>>
    BY <1>2 DEF Flows
  <2>2. PICK to \in Routed(p, k[1], k[2]) : f = <<k[1], k[2], to>>
    BY <2>1
  <2>3. PICK a, ssrc : a \in Addrs /\ k[1] = a /\ k[2] = ssrc
    BY <1>1, <2>1
  <2>4. to \in Addrs /\ \E n : /\ NodeFor(p, a, ssrc, n) /\ <<a, ssrc, p.node[n].rid>> \in DOMAIN p.route
                               /\ to = p.route[<<a, ssrc, p.node[n].rid>>]
    BY <2>2, <2>3, RoutedOf
  <2>5. \E n : FlowBy(p, f, a, ssrc, n)
    BY <2>2, <2>3, <2>4 DEF FlowBy
  <2> QED BY <2>5
<1>3. ASSUME NEW a, NEW ssrc, NEW n, FlowBy(p, f, a, ssrc, n)
      PROVE  f \in Flows(p)
  <2> DEFINE k == <<a, ssrc>>
             to == p.route[<<a, ssrc, p.node[n].rid>>]
  <2>1. to \in Routed(p, a, ssrc)
    BY <1>3, RoutedOf DEF FlowBy
  <2>2. k \in DOMAIN p.repl /\ k[1] = a /\ k[2] = ssrc /\ f = <<a, ssrc, to>>
    BY <1>3 DEF NodeFor, FlowBy
  <2> HIDE DEF k, to
  <2>3. f = <<k[1], k[2], to>>
    BY <2>2
  <2> QED BY <2>1, <2>2, <2>3 DEF Flows
<1> QED BY <1>2, <1>3

\* Every flow has a route.
LEMMA FlowsRouted ==
    ASSUME NEW p, NEW A \in SUBSET Adds, Explained(p, A)
    PROVE  Flows(p) \subseteq RouteFlows(p)
<1> SUFFICES ASSUME NEW f \in Flows(p) PROVE f \in RouteFlows(p)
  OBVIOUS
<1>1. PICK a, ssrc, n : FlowBy(p, f, a, ssrc, n)
  BY FlowsOf
<1>2. PICK k \in DOMAIN p.route : k = <<a, ssrc, p.node[n].rid>>
  BY <1>1 DEF FlowBy
<1>3. k[1] = a /\ k[2] = ssrc /\ f = <<a, ssrc, p.route[k]>>
  BY <1>1, <1>2 DEF FlowBy
<1> QED BY <1>3 DEF RouteFlows

\* While the process runs, every route is of use.
LEMMA SettledFlows ==
    ASSUME NEW p, NEW A \in SUBSET Adds, Explained(p, A), Settled(p, A)
    PROVE  Flows(p) = RouteFlows(p)
<1> SUFFICES ASSUME NEW k \in DOMAIN p.route PROVE <<k[1], k[2], p.route[k]>> \in Flows(p)
  BY FlowsRouted DEF RouteFlows
<1>1. PICK m \in A : \E ssrc \in SSRCsOf(m) : Installed(p, m) /\ k = RouteKey(p, m, ssrc) /\ p.route[k] = m.dst
  BY DEF Settled
<1>2. PICK ssrc \in SSRCsOf(m) : Installed(p, m) /\ k = RouteKey(p, m, ssrc) /\ p.route[k] = m.dst
  BY <1>1
<1> DEFINE n == p.nid[m.dst]
<1>3. m.src \in Addrs /\ m.dst \in Addrs /\ ssrc # NoRtx /\ ssrc \in {m.ssrc, m.rtx}
  BY DEF Adds, SSRCsOf
<1>4. n \in DOMAIN p.node /\ p.node[n].rid = p.rid[<<m.mid, m.dst>>]
  BY <1>2 DEF Installed, NodeThere
<1>5. NodeFor(p, m.src, ssrc, n)
  BY <1>2, <1>3, <1>4 DEF Installed, InGroup, GroupThere, NodeFor
<1>6. k = <<m.src, ssrc, p.node[n].rid>>
  BY <1>2, <1>4 DEF RouteKey
<1>7. k[1] = m.src /\ k[2] = ssrc
  BY <1>6
<1> HIDE DEF n
<1>8. FlowBy(p, <<k[1], k[2], p.route[k]>>, m.src, ssrc, n)
  BY <1>2, <1>3, <1>5, <1>6, <1>7 DEF FlowBy
<1> QED BY <1>8, FlowsOf

\* Rules that are kept keep their flows.
LEMMA FlowsKept ==
    ASSUME NEW p, NEW q, NEW A \in SUBSET Adds, NEW B \in SUBSET Adds,
           Explained(p, A), Explained(q, B), Keeps(p, q)
    PROVE  Flows(p) \subseteq Flows(q)
<1> SUFFICES ASSUME NEW f \in Flows(p) PROVE f \in Flows(q)
  OBVIOUS
<1>1. PICK a, ssrc, n : FlowBy(p, f, a, ssrc, n)
  BY FlowsOf
<1>2. /\ \A k \in DOMAIN p.repl : k \in DOMAIN q.repl /\ q.repl[k] = p.repl[k]
      /\ \A k \in DOMAIN p.node : k \in DOMAIN q.node /\ q.node[k] = p.node[k]
      /\ \A k \in DOMAIN p.route : k \in DOMAIN q.route /\ q.route[k] = p.route[k]
      /\ \A g \in DOMAIN p.group : g \in DOMAIN q.group /\ p.group[g] \subseteq q.group[g]
  BY DEF Keeps
<1>3. NodeFor(q, a, ssrc, n) /\ q.node[n] = p.node[n]
  BY <1>1, <1>2 DEF NodeFor, FlowBy
<1>4. /\ <<a, ssrc, q.node[n].rid>> \in DOMAIN q.route
      /\ q.route[<<a, ssrc, q.node[n].rid>>] = p.route[<<a, ssrc, p.node[n].rid>>]
  BY <1>1, <1>2, <1>3 DEF FlowBy
<1>5. FlowBy(q, f, a, ssrc, n)
  BY <1>1, <1>3, <1>4 DEF FlowBy
<1> QED BY <1>5, FlowsOf

\* The new routes of a call are among its flows.
LEMMA LeadsFlows ==
    ASSUME NEW p, NEW q, NEW m, Keeps(p, q), Leads(p, q, m)
    PROVE  RouteFlows(q) \subseteq RouteFlows(p) \cup RequestOf(m)
<1> SUFFICES ASSUME NEW k \in DOMAIN q.route
             PROVE  <<k[1], k[2], q.route[k]>> \in RouteFlows(p) \cup RequestOf(m)
  BY DEF RouteFlows
<1>1. CASE k \in DOMAIN p.route
  BY <1>1 DEF Keeps, RouteFlows
<1>2. CASE k \notin DOMAIN p.route
  <2>1. PICK ssrc \in SSRCsOf(m) : k = RouteKey(q, m, ssrc) /\ q.route[k] = m.dst
    BY <1>2 DEF Leads
  <2>2. k[1] = m.src /\ k[2] = ssrc
    BY <2>1 DEF RouteKey
  <2> QED BY <2>1, <2>2 DEF RequestOf
<1> QED BY <1>1, <1>2

\* And all of them are there once it is installed.
LEMMA InstalledFlows ==
    ASSUME NEW q, NEW m, Installed(q, m)
    PROVE  RequestOf(m) \subseteq RouteFlows(q)
<1> SUFFICES ASSUME NEW ssrc \in SSRCsOf(m) PROVE <<m.src, ssrc, m.dst>> \in RouteFlows(q)
  BY DEF RequestOf
<1>1. PICK k : k = RouteKey(q, m, ssrc)
  OBVIOUS
<1>2. k \in DOMAIN q.route /\ q.route[k] = m.dst
  BY <1>1 DEF Installed, RouteThere, SSRCsOf
<1>3. k[1] = m.src /\ k[2] = ssrc
  BY <1>1 DEF RouteKey
<1> QED BY <1>2, <1>3 DEF RouteFlows

\* A new process forwards nothing.
LEMMA NewPREFlows == Flows(NewPRE) = {}
<1>1. DOMAIN NewPRE.route = {}
  BY DEF NewPRE, Empty
<1>2. RouteFlows(NewPRE) = {}
  BY <1>1 DEF RouteFlows
<1> QED BY <1>2, NewPRESettled, FlowsRouted

\* What add_stream makes of the flows: those of the call are added, or, if the
\* process ends, some of them, or nothing changes.
LEMMA AddStreamFlows ==
    ASSUME IdsHold, RulesHold, CallsHold, CallsHold', AddsServed \subseteq Adds, AddsServed' \subseteq Adds,
           Keeps(pre, pre'), conn = "open",
           NEW m \in Adds, AddsServed' = AddsServed \cup {m}, pre' = add_stream(pre, m)
    PROVE  /\ Running(pre') => Flows(pre') = Flows(pre) \/ Flows(pre') = Flows(pre) \cup RequestOf(m)
           /\ \E done \in SUBSET RequestOf(m) : Flows(pre') = Flows(pre) \cup done
<1> DEFINE p == pre
           q == add_stream(pre, m)
           A == AddsServed
           B == AddsServed \cup {m}
<1>1. IdsInv(p) /\ RulesInv(p) /\ Running(p) /\ Explained(p, A) /\ Settled(p, A)
  BY DEF IdsHold, RulesHold, CallsHold
<1>2. /\ Explained(q, B) /\ Leads(p, q, m)
      /\ Running(q) => Settled(q, B) /\ (Installed(q, m) \/ q.route = p.route)
  BY <1>1, AddStreamEnds
<1>3. A \in SUBSET Adds /\ B \in SUBSET Adds /\ Keeps(p, q) /\ pre' = q
  OBVIOUS
<1> HIDE DEF p, q, A, B
<1>4. Flows(p) = RouteFlows(p)
  BY <1>1, <1>3, SettledFlows
<1>5. Flows(p) \subseteq Flows(q) /\ Flows(q) \subseteq RouteFlows(q)
  BY <1>1, <1>2, <1>3, FlowsKept, FlowsRouted
<1>6. RouteFlows(q) \subseteq Flows(p) \cup RequestOf(m)
  BY <1>2, <1>3, <1>4, LeadsFlows
<1>7. Running(q) => Flows(q) = Flows(p) \/ Flows(q) = Flows(p) \cup RequestOf(m)
  <2> SUFFICES ASSUME Running(q) PROVE Flows(q) = Flows(p) \/ Flows(q) = Flows(p) \cup RequestOf(m)
    OBVIOUS
  <2>1. Flows(q) = RouteFlows(q)
    BY <1>2, <1>3, SettledFlows
  <2>2. CASE Installed(q, m)
    BY <1>5, <1>6, <2>1, <2>2, InstalledFlows
  <2>3. CASE q.route = p.route
    BY <1>4, <2>1, <2>3 DEF RouteFlows
  <2> QED BY <1>2, <2>2, <2>3
<1>8. Flows(q) = Flows(p) \cup (Flows(q) \cap RequestOf(m))
  BY <1>5, <1>6
<1> QED BY <1>3, <1>7, <1>8 DEF p

\* Every add_stream that was taken has its type.
TypedAdds == AddsServed \subseteq Adds

\* Every step of the switch is a step of the abstract data plane, or none.
LEMMA RouterStep ==
    ASSUME IdsHold, RulesHold, ScriptTyped, TypedAdds, TypedAdds', CallsHold, CallsHold', [SwitchNext]_vars
    PROVE  [Router!Next]_(Router!vars)
<1> DEFINE Asks == {RequestOf(m) : m \in AddsServed}
<1>1. AddsServed \subseteq Adds /\ AddsServed' \subseteq Adds
  BY DEF TypedAdds
<1>2. Asks' \in SUBSET SUBSET (Addrs \X SSRCs \X Addrs)
  <2> SUFFICES ASSUME NEW m \in AddsServed' PROVE RequestOf(m) \subseteq Addrs \X SSRCs \X Addrs
    OBVIOUS
  <2>1. m.src \in Addrs /\ m.dst \in Addrs /\ m.ssrc \in SSRCs /\ m.rtx \in SSRCs \cup {NoRtx}
    BY <1>1 DEF Adds
  <2> QED BY <2>1 DEF RequestOf, SSRCsOf
<1>3. RestartProcess \/ Keeps(pre, pre')
  BY NextRules
<1>4. CASE Still
  <2>1. Router!vars' = Router!vars
    BY <1>4 DEF Still, Router!vars, AddsServed
  <2> QED BY <2>1
<1>5. CASE RestartProcess
  <2>1. pre' = NewPRE /\ served' = {}
    BY <1>5 DEF RestartProcess, Restart
  <2>2. Running(pre') = TRUE /\ AddsServed' = {} /\ Flows(pre') = {}
    BY <2>1, NewPREFlows, NewPRESettled DEF AddsServed
  <2>3. Router!Restart
    BY <2>2 DEF Router!Restart
  <2> QED BY <2>3 DEF Router!Next
<1>6. ASSUME TakesAdd, ~RestartProcess PROVE Router!Next
  <2>1. PICK m \in Adds : /\ conn = "open" /\ AddsServed' = AddsServed \cup {m}
                          /\ pre' = add_stream(pre, m)
    BY <1>6 DEF TakesAdd
  <2>2. Running(pre)
    BY <2>1 DEF CallsHold
  <2>3. /\ Running(pre') => Flows(pre') = Flows(pre) \/ Flows(pre') = Flows(pre) \cup RequestOf(m)
        /\ \E done \in SUBSET RequestOf(m) : Flows(pre') = Flows(pre) \cup done
    BY <1>1, <1>3, <1>6, <2>1, AddStreamFlows
  <2>4. Asks' = Asks \cup {RequestOf(m)}
    BY <2>1
  <2>5. Router!Request
    BY <1>2, <2>2, <2>4 DEF Router!Request
  <2>6. CASE Running(pre')
    <3>1. Running(pre') = Running(pre)
      BY <2>2, <2>6 DEF Running
    <3>2. Router!AddStream
      BY <2>3, <2>4, <2>5, <2>6, <3>1 DEF Router!AddStream
    <3> QED BY <3>2 DEF Router!Next
  <2>7. CASE ~Running(pre')
    <3>1. Running(pre') = FALSE
      BY <2>7 DEF Running
    <3>2. Router!Fail
      BY <2>3, <2>4, <2>5, <3>1 DEF Router!Fail
    <3> QED BY <3>2 DEF Router!Next
  <2> QED BY <2>6, <2>7
<1>7. ASSUME TakesOther, ~RestartProcess PROVE [Router!Next]_(Router!vars)
  <2>1. Running(pre) /\ AddsServed' = AddsServed /\ IsPRE(pre)
    BY <1>7 DEF TakesOther, CallsHold, IdsHold, IdsInv
  <2>2. CASE pre' = pre
    <3>1. Router!vars' = Router!vars
      BY <2>1, <2>2 DEF Router!vars
    <3> QED BY <3>1
  <2>3. CASE pre' = [pre EXCEPT !.exit = "raised"]
    <3>1. SameTables(pre, pre') /\ pre'.exit = "raised"
      BY <2>1, <2>3, ExitFields
    <3>2. Keeps(pre, pre') /\ Keeps(pre', pre)
      BY <3>1 DEF Keeps, SameTables
    <3>3. Explained(pre, AddsServed) /\ Explained(pre', AddsServed)
      BY <2>1 DEF CallsHold
    <3>4. Flows(pre') = Flows(pre)
      <4>1. Flows(pre) \subseteq Flows(pre')
        BY <1>1, <3>2, <3>3, FlowsKept
      <4>2. Flows(pre') \subseteq Flows(pre)
        BY <1>1, <3>2, <3>3, FlowsKept
      <4> QED BY <4>1, <4>2
    <3>5. Running(pre') = FALSE /\ Asks' = Asks
      BY <2>1, <3>1 DEF Running
    <3>6. Router!Request
      BY <1>2, <2>1, <3>5 DEF Router!Request
    <3>7. Router!Fail
      BY <3>4, <3>5, <3>6 DEF Router!Fail
    <3> QED BY <3>7 DEF Router!Next
  <2> QED BY <1>7, <2>2, <2>3 DEF TakesOther
<1> QED BY <1>4, <1>5, <1>6, <1>7, StepOfProcess

\* The first state is that of the abstract data plane.
LEMMA RouterInit == SwitchInit => Router!Init
<1> SUFFICES ASSUME SwitchInit PROVE Router!Init
  OBVIOUS
<1>1. pre = NewPRE /\ AddsServed = {}
  BY DEF SwitchInit, Init, AddsServed
<1>2. Running(pre) = TRUE /\ Flows(pre) = {}
  BY <1>1, NewPREFlows, NewPRESettled
<1> QED BY <1>1, <1>2 DEF Router!Init

\* The switch implements the abstract data plane, for any meetings, participants,
\* streams and limits: media goes only where it was asked for, one request at a time
\* and all of it, and stays forwarded until the process is started again.
THEOREM SwitchImplementsMediaRouter == SwitchSpec => ImplementsMediaRouter
<1>1. ScriptTyped /\ Asked => TypedAdds
  BY ServedAdds DEF TypedAdds
<1>2. /\ IdsHold /\ RulesHold /\ (ScriptTyped /\ Asked) /\ TypedAdds /\ TypedAdds' /\ CallsHold /\ CallsHold'
      /\ [SwitchNext]_vars
      => [Router!Next]_(Router!vars)
  BY RouterStep
<1> QED BY <1>1, <1>2, RouterInit, IdsInvariant, RulesInvariant, AskedInvariant, CallsInvariant, PTL
       DEF SwitchSpec, ImplementsMediaRouter, Router!Spec

=============================================================================
