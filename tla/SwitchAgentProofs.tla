-------------------------- MODULE SwitchAgentProofs --------------------------
(***************************************************************************)
(* Theorems about SwitchAgent: for any sessions, participants, streams,    *)
(* SSRCs, estimates and targets, with announcements lost or not.           *)
(***************************************************************************)
EXTENDS SwitchAgent, LoopLemmas, SequenceTheorems

-----------------------------------------------------------------------------
(* The table of the data plane *)

\* The actions of a table whose addresses are in A.
Entry(A) == [to : A, svc : SUBSET DecodeTarget]

\* A table for addresses in A and SSRCs in X.
Table(t, A, X) == DOMAIN t \subseteq A \X X /\ t \in [DOMAIN t -> Seq(Entry(A))]

\* Where the packets of a match go.
Dests(t, m) == IF m \in DOMAIN t THEN {t[m][i].to : i \in DOMAIN t[m]} ELSE {}

\* Matches for addresses in A and SSRCs in X.
Within(ms, A, X) == ms \subseteq A \X X

\* The table u is t with the matches ms.
MatchesAdded(u, t, ms, A, X) ==
    /\ Table(u, A, X)
    /\ DOMAIN u = DOMAIN t \cup ms
    /\ \A m : Dests(u, m) = Dests(t, m)

\* Matches are added without actions.
LEMMA AddMatches ==
    ASSUME NEW A, NEW X, NEW t, Table(t, A, X), NEW ms, Within(ms, A, X)
    PROVE  MatchesAdded(addMatches(t, ms), t, ms, A, X)
<1> DEFINE u == addMatches(t, ms)
<1>1. DOMAIN u = DOMAIN t \cup ms
  BY DEF addMatches
<1>2. \A m \in DOMAIN u : u[m] = IF m \in DOMAIN t THEN t[m] ELSE <<>>
  BY DEF addMatches, hasMatch
<1>3. <<>> \in Seq(Entry(A)) /\ DOMAIN <<>> = {}
  BY EmptySeq
<1>6. u = [m \in DOMAIN u |-> u[m]]
  BY DEF addMatches
<1> HIDE DEF u
<1>7. \A m \in DOMAIN u : u[m] \in Seq(Entry(A))
  BY <1>1, <1>2, <1>3 DEF Table
<1>4. Table(u, A, X)
  BY <1>1, <1>6, <1>7 DEF Table, Within
<1>5. ASSUME NEW m PROVE Dests(u, m) = Dests(t, m)
  BY <1>1, <1>2, <1>3 DEF Dests
<1> QED BY <1>1, <1>4, <1>5 DEF u, MatchesAdded

\* The table u is t where the match m has an action for the address to.
ActionAdded(u, t, m, to, A, X) ==
    /\ Table(u, A, X)
    /\ DOMAIN u = DOMAIN t
    /\ \A n : Dests(u, n) = IF n = m THEN Dests(t, n) \cup {to} ELSE Dests(t, n)

\* An action is added to one match, unless it is there.
LEMMA AddAction ==
    ASSUME NEW A, NEW X, NEW t, Table(t, A, X), NEW m \in DOMAIN t, NEW to \in A
    PROVE  ActionAdded(addAction(t, m, to), t, m, to, A, X)
<1> DEFINE u == addAction(t, m, to)
           s == t[m]
<1>0. s \in Seq(Entry(A))
  BY DEF Table
<1>1. CASE hasAction(s, to)
  <2>1. u = t
    BY <1>1 DEF addAction
  <2>2. to \in Dests(t, m)
    BY <1>1 DEF hasAction, Dests
  <2> QED BY <2>1, <2>2 DEF ActionAdded
<1>2. CASE ~hasAction(s, to)
  <2>1. u = [t EXCEPT ![m] = Append(s, Action(to))]
    BY <1>2 DEF addAction
  <2>2. Action(to) \in Entry(A) /\ Action(to).to = to
    BY DEF Action, Entry
  <2> DEFINE a == Append(s, Action(to))
  <2>3. /\ a \in Seq(Entry(A)) /\ DOMAIN a = DOMAIN s \cup {Len(s) + 1}
        /\ a[Len(s) + 1] = Action(to)
        /\ \A i \in DOMAIN s : a[i] = s[i]
    <3> HIDE DEF s
    <3>1. Len(a) = Len(s) + 1 /\ a \in Seq(Entry(A)) /\ a[Len(s) + 1] = Action(to)
            /\ \A i \in 1..Len(s) : a[i] = s[i]
      BY <1>0, <2>2, AppendProperties
    <3>2. DOMAIN a = 1..Len(a) /\ DOMAIN s = 1..Len(s) /\ Len(s) \in Nat
      BY <1>0, <3>1, LenProperties
    <3> QED BY <3>1, <3>2
  <2> HIDE DEF a
  <2>4. DOMAIN u = DOMAIN t /\ u[m] = a /\ \A n \in DOMAIN t : n # m => u[n] = t[n]
    BY <2>1 DEF a
  <2>8. u = [n \in DOMAIN u |-> u[n]]
    BY <2>1, <2>4
  <2> HIDE DEF u
  <2>9. \A n \in DOMAIN u : u[n] \in Seq(Entry(A))
    BY <2>3, <2>4 DEF Table
  <2>5. Table(u, A, X)
    BY <2>4, <2>8, <2>9 DEF Table
  <2>6. {a[i].to : i \in DOMAIN a} = {s[i].to : i \in DOMAIN s} \cup {to}
    BY <2>2, <2>3
  <2>7. ASSUME NEW n
        PROVE  Dests(u, n) = IF n = m THEN Dests(t, n) \cup {to} ELSE Dests(t, n)
    <3>1. CASE n = m
      BY <2>4, <2>6, <3>1 DEF Dests
    <3>2. CASE n # m
      BY <2>4, <3>2 DEF Dests
    <3> QED BY <3>1, <3>2
  <2> QED BY <2>4, <2>5, <2>7 DEF u, ActionAdded
<1> QED BY <1>1, <1>2

\* The streams the agent adds: feedback on a send stream has no SSRC, feedback on a
\* receive stream the default one.
Added(s, A, X) ==
    /\ s.src \in A /\ s.dst \in A /\ s.dst # ZeroAddr
    /\ s.ssrc \in X /\ s.rtxSsrc \in X
    /\ s.rtcpSsrc \in X /\ s.rtcpRtxSsrc = s.rtcpSsrc
    /\ s.rtcpSsrc \in {NoSSRC, FeedbackSSRC}

\* The table u is t with the matches and actions of the stream s.
StreamAdded(u, t, s, A, X) ==
    /\ Table(u, A, X)
    /\ DOMAIN u = DOMAIN t \cup mediaMatches(s) \cup {<<s.dst, s.rtcpSsrc>>}
    /\ \A n : Dests(u, n) =
          Dests(t, n) \cup (IF n \in mediaMatches(s) THEN {s.dst} ELSE {})
                      \cup (IF n = <<s.dst, s.rtcpSsrc>> THEN {s.src} ELSE {})

\* What addStream does to a table: the media goes to the receiver, the feedback back.
LEMMA AddStream ==
    ASSUME NEW A, NEW X, NEW t, Table(t, A, X), NEW s, Added(s, A, X)
    PROVE  StreamAdded(addStream(t, s), t, s, A, X)
<1> DEFINE media  == addMatches(t, mediaMatches(s))
           both   == addMatches(media, returnMatches(s))
           main   == addAction(both, <<s.src, s.ssrc>>, s.dst)
           return == addAction(main, <<s.dst, s.rtcpSsrc>>, s.src)
           rtx    == IF s.rtxSsrc # NoSSRC
                     THEN addAction(return, <<s.src, s.rtxSsrc>>, s.dst) ELSE return
<1>1. addStream(t, s) = rtx
  BY DEF addStream, Added, NoSSRC, FeedbackSSRC
<1>2. /\ Within(mediaMatches(s), A, X)
      /\ returnMatches(s) = {<<s.dst, s.rtcpSsrc>>}
      /\ Within(returnMatches(s), A, X)
  BY DEF Within, mediaMatches, returnMatches, Added
<1>3. /\ <<s.src, s.ssrc>> \in mediaMatches(s)
      /\ s.rtxSsrc # NoSSRC => mediaMatches(s) = {<<s.src, s.ssrc>>, <<s.src, s.rtxSsrc>>}
      /\ s.rtxSsrc = NoSSRC => mediaMatches(s) = {<<s.src, s.ssrc>>}
  BY DEF mediaMatches
<1>4. MatchesAdded(media, t, mediaMatches(s), A, X)
  BY <1>2, AddMatches
<1> HIDE DEF media
<1>5. MatchesAdded(both, media, returnMatches(s), A, X)
  <2>1. Table(media, A, X)
    BY <1>4 DEF MatchesAdded
  <2> QED BY <1>2, <2>1, AddMatches
<1> HIDE DEF both
<1>b. /\ Table(both, A, X)
      /\ DOMAIN both = DOMAIN t \cup mediaMatches(s) \cup {<<s.dst, s.rtcpSsrc>>}
      /\ \A n : Dests(both, n) = Dests(t, n)
  BY <1>2, <1>4, <1>5 DEF MatchesAdded
<1>a. s.src \in A /\ s.dst \in A
  BY DEF Added
<1>6. ActionAdded(main, both, <<s.src, s.ssrc>>, s.dst, A, X)
  <2>1. <<s.src, s.ssrc>> \in DOMAIN both
    BY <1>3, <1>b
  <2> QED BY <1>b, <1>a, <2>1, AddAction
<1> HIDE DEF main
<1>7. ActionAdded(return, main, <<s.dst, s.rtcpSsrc>>, s.src, A, X)
  <2>1. <<s.dst, s.rtcpSsrc>> \in DOMAIN main /\ Table(main, A, X)
    BY <1>b, <1>6 DEF ActionAdded
  <2> QED BY <1>a, <2>1, AddAction
<1> HIDE DEF return
<1>c. DOMAIN return = DOMAIN both /\ Table(return, A, X)
  BY <1>6, <1>7 DEF ActionAdded
<1>8. CASE s.rtxSsrc # NoSSRC
  <2>1. <<s.src, s.rtxSsrc>> \in DOMAIN return
    BY <1>3, <1>b, <1>c, <1>8
  <2>2. rtx = addAction(return, <<s.src, s.rtxSsrc>>, s.dst)
    BY <1>8
  <2> HIDE DEF rtx
  <2>3. ActionAdded(rtx, return, <<s.src, s.rtxSsrc>>, s.dst, A, X)
    BY <1>a, <1>c, <2>1, <2>2, AddAction
  <2> QED BY <1>1, <1>3, <1>b, <1>6, <1>7, <1>8, <2>3 DEF ActionAdded, StreamAdded
<1>9. CASE s.rtxSsrc = NoSSRC
  <2>1. rtx = return
    BY <1>9
  <2> HIDE DEF rtx
  <2> QED BY <1>1, <1>3, <1>b, <1>6, <1>7, <1>9, <2>1 DEF ActionAdded, StreamAdded
<1> QED BY <1>8, <1>9

\* The table u is t but for decode targets.
Retargeted(u, t, A, X) ==
    /\ Table(u, A, X)
    /\ DOMAIN u = DOMAIN t
    /\ \A n : Dests(u, n) = Dests(t, n)

\* A change of a decode target leaves matches and destinations as they are.
LEMMA AdjustDecodeTarget ==
    ASSUME NEW A, NEW X, NEW t, Table(t, A, X), NEW from, NEW to, NEW ssrc, NEW target \in Nat
    PROVE  Retargeted(adjustDecodeTarget(t, from, to, ssrc, target), t, A, X)
<1> DEFINE m == <<from, ssrc>>
           u == adjustDecodeTarget(t, from, to, ssrc, target)
           s == t[m]
           a == [i \in DOMAIN s |-> IF s[i].to = to THEN retargeted(s[i], target) ELSE s[i]]
<1>1. CASE m \notin DOMAIN t
  BY <1>1 DEF adjustDecodeTarget, hasMatch, Retargeted
<1>2. CASE m \in DOMAIN t
  <2>1. DOMAIN u = DOMAIN t /\ u[m] = a /\ \A n \in DOMAIN t : n # m => u[n] = t[n]
    BY <1>2 DEF adjustDecodeTarget, hasMatch
  <2>2. s \in Seq(Entry(A))
    BY <1>2 DEF Table
  <2>3. \A i \in DOMAIN s : s[i] \in Entry(A)
    BY <2>2
  <2>4. \A e \in Entry(A) : retargeted(e, target) \in Entry(A) /\ retargeted(e, target).to = e.to
    BY DEF retargeted, Entry, DecodeTarget, MaxIdent
  <2> HIDE DEF s
  <2>5. ASSUME NEW i \in DOMAIN s PROVE a[i] \in Entry(A) /\ a[i].to = s[i].to
    BY <2>3, <2>4
  <2>6. DOMAIN a = DOMAIN s /\ a \in Seq(Entry(A))
    <3>1. DOMAIN s = 1..Len(s) /\ Len(s) \in Nat
      BY <2>2, LenProperties
    <3>2. a \in [1..Len(s) -> Entry(A)]
      BY <2>5, <3>1
    <3> HIDE DEF a
    <3>3. a \in Seq(Entry(A))
      BY <3>1, <3>2, SeqDef
    <3> QED BY <3>1, <3>2, <3>3
  <2>7. {a[i].to : i \in DOMAIN a} = {s[i].to : i \in DOMAIN s}
    BY <2>5, <2>6
  <2> HIDE DEF a
  <2>8. u = [n \in DOMAIN u |-> u[n]]
    BY <1>2 DEF adjustDecodeTarget, hasMatch
  <2> HIDE DEF u
  <2>11. \A n \in DOMAIN u : u[n] \in Seq(Entry(A))
    BY <2>1, <2>6 DEF Table
  <2>9. Table(u, A, X)
    BY <2>1, <2>8, <2>11 DEF Table
  <2>10. ASSUME NEW n PROVE Dests(u, n) = Dests(t, n)
    <3>1. CASE n = m
      <4> HIDE DEF m
      <4>1. Dests(u, m) = {a[i].to : i \in DOMAIN a}
        BY <1>2, <2>1 DEF Dests
      <4>2. Dests(t, m) = {s[i].to : i \in DOMAIN s}
        BY <1>2 DEF Dests, s
      <4> QED BY <2>7, <3>1, <4>1, <4>2
    <3>2. CASE n # m
      BY <2>1, <3>2 DEF Dests
    <3> QED BY <3>1, <3>2
  <2> QED BY <2>1, <2>9, <2>10 DEF u, Retargeted
<1> QED BY <1>1, <1>2

-----------------------------------------------------------------------------
(* Bandwidth estimates *)

\* Addresses and SSRCs in the table.
Addrs == Addr \cup {ZeroAddr}
TableSSRC == SSRC \cup {NoSSRC, FeedbackSSRC}

\* Streams and table that differ from those of the agent in decode targets only:
\* all that a compound packet can leave behind, whatever it reports.
Estimated ==
    {st \in [recvs : Seq(ReceiveStream), sfu : [DOMAIN sfu -> Seq(Entry(Addrs))],
             ended : BOOLEAN] :
        /\ DOMAIN st.recvs = DOMAIN recvs
        /\ \A i \in DOMAIN recvs : \E d \in DecodeTarget :
              st.recvs[i] = [recvs[i] EXCEPT !.target = d]
        /\ \A m \in DOMAIN sfu : Dests(st.sfu, m) = Dests(sfu, m)}

\* What these lemmas need of the state.
StreamsType ==
    /\ sends \in Seq(SendStream) /\ recvs \in Seq(ReceiveStream)
    /\ Table(sfu, Addrs, TableSSRC)

\* A change of the target of one receive stream.
LEMMA SetTarget ==
    ASSUME StreamsType, NEW st \in Estimated, NEW i \in DOMAIN recvs, NEW d \in DecodeTarget
    PROVE  [st EXCEPT !.recvs[i].target = d] \in Estimated
<1> DEFINE r == st.recvs
           q == [r EXCEPT ![i].target = d]
           u == [st EXCEPT !.recvs[i].target = d]
<1>1. /\ r \in Seq(ReceiveStream) /\ DOMAIN r = DOMAIN recvs /\ st.ended \in BOOLEAN
      /\ \A j \in DOMAIN recvs : \E e \in DecodeTarget : r[j] = [recvs[j] EXCEPT !.target = e]
      /\ st.sfu \in [DOMAIN sfu -> Seq(Entry(Addrs))]
      /\ \A m \in DOMAIN sfu : Dests(st.sfu, m) = Dests(sfu, m)
  BY DEF Estimated
<1>2. u = [st EXCEPT !.recvs = q]
  BY DEF Estimated
<1>3. u = [recvs |-> q, sfu |-> st.sfu, ended |-> st.ended]
  <2>1. st \in [recvs : Seq(ReceiveStream), sfu : [DOMAIN sfu -> Seq(Entry(Addrs))],
                ended : BOOLEAN]
    BY DEF Estimated
  <2> HIDE DEF q, u
  <2> QED BY <1>2, <2>1
<1> HIDE DEF u
<1> HIDE DEF r
<1>4. DOMAIN r = 1..Len(r) /\ Len(r) \in Nat /\ \A j \in 1..Len(r) : r[j] \in ReceiveStream
  BY <1>1, LenProperties
<1>5. /\ DOMAIN q = DOMAIN r /\ q[i] = [r[i] EXCEPT !.target = d]
      /\ \A j \in DOMAIN r : j # i => q[j] = r[j]
  BY <1>1
<1>6. q[i] \in ReceiveStream
  BY <1>1, <1>4, <1>5 DEF ReceiveStream
<1>7. q \in Seq(ReceiveStream)
  <2>1. q \in [1..Len(r) -> ReceiveStream]
    BY <1>1, <1>4, <1>5, <1>6
  <2> HIDE DEF q
  <2> QED BY <1>4, <2>1, SeqDef
<1>8. \A j \in DOMAIN recvs : \E e \in DecodeTarget : q[j] = [recvs[j] EXCEPT !.target = e]
  <2>1. PICK e \in DecodeTarget : r[i] = [recvs[i] EXCEPT !.target = e]
    BY <1>1
  <2>2. recvs[i] \in ReceiveStream
    BY DEF StreamsType
  <2>3. q[i] = [recvs[i] EXCEPT !.target = d]
    BY <1>5, <2>1, <2>2 DEF ReceiveStream
  <2> HIDE DEF q
  <2> QED BY <1>1, <1>5, <2>3
<1> HIDE DEF q
<1>9. u \in Estimated
  BY <1>1, <1>3, <1>5, <1>7, <1>8 DEF Estimated
<1> QED BY <1>9 DEF u, q, r

\* A table with other decode targets.
LEMMA SetTable ==
    ASSUME StreamsType, NEW st \in Estimated, NEW t, Retargeted(t, st.sfu, Addrs, TableSSRC)
    PROVE  [st EXCEPT !.sfu = t] \in Estimated
<1>1. /\ t \in [DOMAIN sfu -> Seq(Entry(Addrs))]
      /\ \A m \in DOMAIN sfu : Dests(t, m) = Dests(sfu, m)
  BY DEF Estimated, Retargeted, Table
<1> QED BY <1>1 DEF Estimated

\* The table of a state that a packet left behind.
LEMMA EstimatedTable ==
    ASSUME StreamsType, NEW st \in Estimated
    PROVE  Table(st.sfu, Addrs, TableSSRC)
BY DEF StreamsType, Estimated, Table

\* One SSRC of an estimate.
LEMMA ProcessEstimate ==
    ASSUME StreamsType, NEW st \in Estimated, NEW addr, NEW ssrc, NEW d \in DecodeTarget
    PROVE  processEstimate(st, addr, ssrc, d) \in Estimated
<1> DEFINE i == CHOOSE n \in getReceiveStreamAt(addr, ssrc) : TRUE
           j == CHOOSE n \in getReceiveStream(recvs[i].sid, ssrc, recvs[i].to) : TRUE
<1>1. [st EXCEPT !.ended = TRUE] \in Estimated
  BY DEF Estimated
<1>2. CASE st.ended \/ getReceiveStreamAt(addr, ssrc) = {}
  BY <1>1, <1>2 DEF processEstimate
<1>3. CASE ~(st.ended \/ getReceiveStreamAt(addr, ssrc) = {})
  <2>1. i \in getReceiveStreamAt(addr, ssrc)
    BY <1>3
  <2>2. i \in DOMAIN recvs /\ recvs[i].ssrc = ssrc
    BY <2>1 DEF getReceiveStreamAt
  <2>3. i \in getReceiveStream(recvs[i].sid, ssrc, recvs[i].to)
    BY <2>2 DEF getReceiveStream
  <2>4. j \in getReceiveStream(recvs[i].sid, ssrc, recvs[i].to)
    BY <2>3
  <2>5. j \in DOMAIN recvs
    BY <2>4 DEF getReceiveStream
  <2>6. \/ processEstimate(st, addr, ssrc, d) = st
        \/ processEstimate(st, addr, ssrc, d) =
              [st EXCEPT !.recvs[i].target = d, !.recvs[j].target = d, !.sfu = Adjusted(@, j, d)]
        \/ processEstimate(st, addr, ssrc, d) = [st EXCEPT !.recvs[i].target = d]
    BY <1>3 DEF processEstimate
  <2> HIDE DEF i, j
  <2>7. [st EXCEPT !.recvs[i].target = d] \in Estimated
    BY <2>2, SetTarget
  <2>8. [st EXCEPT !.recvs[i].target = d, !.recvs[j].target = d, !.sfu = Adjusted(@, j, d)]
          \in Estimated
    <3> DEFINE a == [st EXCEPT !.recvs[i].target = d]
               b == [a EXCEPT !.recvs[j].target = d]
               c == [b EXCEPT !.sfu = Adjusted(st.sfu, j, d)]
    <3>1. a \in Estimated
      BY <2>7
    <3>2. a.sfu = st.sfu
      BY DEF Estimated
    <3> HIDE DEF a
    <3>3. b \in Estimated /\ b.sfu = a.sfu
      BY <2>5, <3>1, SetTarget DEF Estimated
    <3> HIDE DEF b
    <3>4. Table(st.sfu, Addrs, TableSSRC) /\ d \in Nat
      BY EstimatedTable DEF DecodeTarget, MaxIdent
    <3>5. Retargeted(Adjusted(st.sfu, j, d), st.sfu, Addrs, TableSSRC)
      BY <3>4, AdjustDecodeTarget DEF Adjusted
    <3>6. c \in Estimated
      BY <3>2, <3>3, <3>5, SetTable
    <3>7. [st EXCEPT !.recvs[i].target = d, !.recvs[j].target = d, !.sfu = Adjusted(@, j, d)] = c
      BY DEF a, b, Estimated
    <3> QED BY <3>6, <3>7
  <2> QED BY <2>6, <2>7, <2>8
<1> QED BY <1>2, <1>3

\* The streams and the table as they are when a packet arrives.
Arrived == [recvs |-> recvs, sfu |-> sfu, ended |-> FALSE]

\* States that no estimate leaves.
Closed(S, addr) ==
    /\ S \subseteq Estimated
    /\ Arrived \in S
    /\ \A st \in S : [st EXCEPT !.ended = FALSE] \in S
    /\ \A st \in S, d \in DecodeTarget : \A ssrc : processEstimate(st, addr, ssrc, d) \in S

\* An estimate leads to some such state.
LEMMA EstimatedClosed ==
    ASSUME StreamsType, NEW addr
    PROVE  Closed(Estimated, addr)
<1>1. Arrived \in Estimated
  <2>1. \A i \in DOMAIN recvs : recvs[i] \in ReceiveStream
    BY DEF StreamsType
  <2>2. \A r \in ReceiveStream : r = [r EXCEPT !.target = r.target] /\ r.target \in DecodeTarget
    BY DEF ReceiveStream
  <2>3. sfu \in [DOMAIN sfu -> Seq(Entry(Addrs))] /\ recvs \in Seq(ReceiveStream)
    BY DEF StreamsType, Table
  <2> QED BY <2>1, <2>2, <2>3 DEF Estimated, Arrived
<1>2. \A st \in Estimated : [st EXCEPT !.ended = FALSE] \in Estimated
  BY DEF Estimated
<1> QED BY <1>1, <1>2, ProcessEstimate DEF Closed

\* One estimate of a packet, by induction on the SSRCs it lists.
LEMMA ProcessReport ==
    ASSUME NEW addr, NEW S, Closed(S, addr), NEW st \in S, NEW part, Len(part.ssrcs) \in Nat
    PROVE  processReport(st, addr, part) \in S
<1> DEFINE N == Len(part.ssrcs)
           d == decideDecodeTarget(part.bitrate)
           x == [st EXCEPT !.ended = FALSE]
           step(s, n) == processEstimate(s, addr, part.ssrcs[n], d)
           F == [n \in 1..N |-> [s \in S |-> step(s, n)]]
           Is(f) == f = [n \in 0..N |-> IF n = 0 THEN x ELSE step(f[n - 1], n)]
           after == CHOOSE f : Is(f)
<1>1. processReport(st, addr, part) = after[N]
  BY DEF processReport
<1>2. d \in DecodeTarget
  BY DEF decideDecodeTarget, DecodeTarget, MaxIdent
<1>3. x \in S
  BY DEF Closed
<1>4. \A s \in S, n \in 1..N : step(s, n) \in S
  BY <1>2 DEF Closed
<1> HIDE DEF d, x, step
<1>5. F \in [1..N -> [S -> S]]
  BY <1>4
<1>6. \A n \in 1..N, s \in S : F[n][s] = step(s, n)
  OBVIOUS
<1> HIDE DEF F, N
<1>7. N \in Nat
  BY DEF N
<1>8. PICK f \in [0..N -> S] : IsLoop(f, N, x, F)
  BY <1>3, <1>5, <1>7, LoopExists
<1>9. Is(f)
  <2>1. \A n \in 0..N : n # 0 => n \in 1..N /\ n - 1 \in 0..N
    BY <1>7
  <2> QED BY <1>6, <1>8, <2>1 DEF IsLoop
<1>10. Is(after)
  <2> HIDE DEF Is
  <2> QED BY <1>9
<1> HIDE DEF after
<1> DEFINE T == {n \in 0..N : after[n] \in S}
<1>11. 0 \in T
  BY <1>3, <1>7, <1>10
<1>12. \A n \in 1..N : n - 1 \in T => n \in T
  BY <1>4, <1>7, <1>10
<1> HIDE DEF T
<1>13. 0..N \subseteq T
  BY <1>7, <1>11, <1>12, UpTo
<1> QED BY <1>1, <1>7, <1>13 DEF T

\* All parts of a compound packet, by induction on the parts.
LEMMA HandleCompound ==
    ASSUME NEW addr, NEW S, Closed(S, addr), NEW packet, Len(packet) \in Nat,
           \A n \in 1..Len(packet) : Len(packet[n].ssrcs) \in Nat
    PROVE  handleCompound(addr, packet) \in S
<1> DEFINE N == Len(packet)
           x == [recvs |-> recvs, sfu |-> sfu, ended |-> FALSE]
           step(s, n) == IF packet[n].type = "remb" THEN processReport(s, addr, packet[n]) ELSE s
           F == [n \in 1..N |-> [s \in S |-> step(s, n)]]
           Is(f) == f = [n \in 0..N |-> IF n = 0 THEN x ELSE step(f[n - 1], n)]
           Loop(f) == f = [n \in 0..N |->
                        IF n = 0 THEN [recvs |-> recvs, sfu |-> sfu, ended |-> FALSE]
                        ELSE IF packet[n].type = "remb" THEN processReport(f[n - 1], addr, packet[n])
                        ELSE f[n - 1]]
           after == CHOOSE f : Loop(f)
<1>1. handleCompound(addr, packet) = after[N]
  BY DEF handleCompound
<1>2. \A f : Loop(f) <=> Is(f)
  OBVIOUS
<1>3. x \in S
  BY DEF Closed, Arrived
<1>4. \A s \in S, n \in 1..N : step(s, n) \in S
  BY ProcessReport
<1> HIDE DEF x, step, Loop
<1>5. F \in [1..N -> [S -> S]]
  BY <1>4
<1>6. \A n \in 1..N, s \in S : F[n][s] = step(s, n)
  OBVIOUS
<1> HIDE DEF F, N
<1>7. N \in Nat
  BY DEF N
<1>8. PICK f \in [0..N -> S] : IsLoop(f, N, x, F)
  BY <1>3, <1>5, <1>7, LoopExists
<1>9. Is(f)
  <2>1. \A n \in 0..N : n # 0 => n \in 1..N /\ n - 1 \in 0..N
    BY <1>7
  <2> QED BY <1>6, <1>8, <2>1 DEF IsLoop
<1>10. Is(after)
  <2> HIDE DEF Is
  <2>1. Loop(f)
    BY <1>2, <1>9
  <2> QED BY <1>2, <2>1
<1> HIDE DEF after
<1> DEFINE T == {n \in 0..N : after[n] \in S}
<1>11. 0 \in T
  BY <1>3, <1>7, <1>10
<1>12. \A n \in 1..N : n - 1 \in T => n \in T
  BY <1>4, <1>7, <1>10
<1> HIDE DEF T
<1>13. 0..N \subseteq T
  BY <1>7, <1>11, <1>12, UpTo
<1> QED BY <1>1, <1>7, <1>13 DEF T

-----------------------------------------------------------------------------
(* The invariant *)

\* The announcement a send stream comes from: its participant, one of its media, and
\* that media's SSRC or, for a video stream's retransmissions, the one after it.
From(ann, vids, ss, m) ==
    /\ <<ss.sid, ss.from, m>> \in DOMAIN ann
    /\ ss.video = (m \in vids)
    /\ IF ss.rtx THEN m \in vids /\ ss.ssrc = ann[<<ss.sid, ss.from, m>>] + 1
       ELSE ss.ssrc = ann[<<ss.sid, ss.from, m>>]

\* Every send stream was announced, and sends from the address of its participant.
SendsAnnounced ==
    \A i \in DOMAIN sends :
        /\ sends[i].addr = SendAddr(sends[i].sid, sends[i].from)
        /\ \E m \in Mids : From(announced, VideoMids, sends[i], m)

\* A video stream has its retransmissions.
RtxAdded ==
    \A i \in DOMAIN sends :
        sends[i].video /\ ~sends[i].rtx => getSendStream(sends[i].sid, sends[i].ssrc + 1) # {}

\* Receivers are asked for only for streams that are known to the controller.
AskedAnnounced == \A a \in asked : a[1] \in DOMAIN announced

\* The senders, too, are peers of the STUN agent.
SendersArePeers == \A i \in DOMAIN sends : sends[i].addr \in peers

\* The inductive invariant of the agent.
AgentInv ==
    /\ TypeOK
    /\ Table(sfu, Addrs, TableSSRC)
    /\ SendsAnnounced /\ RtxAdded /\ AskedAnnounced /\ SendersArePeers
    /\ \A m \in DOMAIN sfu : Dests(sfu, m) \ {ZeroAddr} \subseteq peers
    /\ StopsOnlyOnCollision

\* The facts about the current case.
LEMMA CaseFacts ==
    ASSUME TypeOK
    PROVE  /\ SessionIds \subseteq Nat /\ PIds \subseteq Nat \ {0} /\ VideoMids \subseteq Mids
           /\ MainSSRCs \subseteq {s \in Nat : s > 1 /\ s % 2 = 0}
           /\ ApiTargets \subseteq Nat /\ Bitrates \subseteq Nat
           /\ ZeroAddr \notin Addr
BY SwitchAgentAssumption DEF TypeOK, SessionIds, PIds, VideoMids, Mids, MainSSRCs, ApiTargets,
   Bitrates, Addr, FeedbackSSRC

\* SSRCs of media are even, those of retransmissions odd, and none is that of
\* feedback.
LEMMA Parity ==
    /\ \A s, t \in Nat : s % 2 = 0 /\ t % 2 = 0 => s # t + 1
    /\ TypeOK => \A s \in SSRC : s \in Nat /\ s # NoSSRC /\ s # FeedbackSSRC
    /\ TypeOK => \A s, t \in MainSSRCs : s # t + 1 /\ s \in SSRC /\ s + 1 \in SSRC
<1>1. \A s, t \in Nat : s % 2 = 0 /\ t % 2 = 0 => s # t + 1
  OBVIOUS
<1> QED BY <1>1, CaseFacts DEF SSRC, NoSSRC, FeedbackSSRC

\* What depends on the case only stays.
LEMMA CaseKept ==
    ASSUME setting' = setting
    PROVE  /\ SessionIds' = SessionIds /\ PIds' = PIds /\ Mids' = Mids /\ VideoMids' = VideoMids
           /\ MainSSRCs' = MainSSRCs /\ SSRC' = SSRC /\ Addr' = Addr /\ StreamKey' = StreamKey
           /\ SendStream' = SendStream /\ ReceiveStream' = ReceiveStream
           /\ Addrs' = Addrs /\ TableSSRC' = TableSSRC
BY DEF SessionIds, PIds, Mids, VideoMids, MainSSRCs, SSRC, Addr, StreamKey, SendStream,
   ReceiveStream, Addrs, TableSSRC

\* What is said of addresses and types of a table.
LEMMA TableTypes ==
    ASSUME Table(sfu, Addrs, TableSSRC)
    PROVE  /\ DOMAIN sfu \subseteq (Addr \cup {ZeroAddr}) \X (SSRC \cup {NoSSRC, FeedbackSSRC})
           /\ \A m \in DOMAIN sfu :
                 sfu[m] \in Seq([to : Addr \cup {ZeroAddr}, svc : SUBSET DecodeTarget])
BY DEF Table, Entry, Addrs, TableSSRC

\* The invariant holds when the agent is started.
LEMMA InitAgentInv == Init => AgentInv
<1> SUFFICES ASSUME Init PROVE AgentInv
  OBVIOUS
<1>1. DOMAIN announced = {} /\ DOMAIN sfu = {} /\ sfu = [m \in {} |-> <<>>]
  BY DEF Init, EmptyTable
<1>2. sends \in Seq(SendStream) /\ recvs \in Seq(ReceiveStream) /\ DOMAIN sends = {}
  BY EmptySeq DEF Init
<1>3. Table(sfu, Addrs, TableSSRC)
  BY <1>1 DEF Table
<1>4. TypeOK
  BY <1>1, <1>2 DEF Init, TypeOK
<1> QED BY <1>1, <1>2, <1>3, <1>4 DEF Init, AgentInv, SendsAnnounced, RtxAdded, AskedAnnounced,
        SendersArePeers, StopsOnlyOnCollision

-----------------------------------------------------------------------------
(* Sequences of streams that get longer *)

\* The sequence new is q with the elements of xs behind it.
Longer(new, q, xs) ==
    /\ DOMAIN q \subseteq DOMAIN new
    /\ \A i \in DOMAIN q : new[i] = q[i]
    /\ \A i \in DOMAIN new : i \notin DOMAIN q => new[i] \in xs
    /\ \A x \in xs : \E i \in DOMAIN new : new[i] = x

\* One element is added.
LEMMA OneMore ==
    ASSUME NEW S, NEW q \in Seq(S), NEW a \in S
    PROVE  q \o <<a>> \in Seq(S) /\ Longer(q \o <<a>>, q, {a})
<1> DEFINE new == q \o <<a>>
<1>1. <<a>> \in Seq(S) /\ Len(<<a>>) = 1 /\ <<a>>[1] = a
  OBVIOUS
<1>2. /\ new \in Seq(S) /\ Len(new) = Len(q) + 1
      /\ \A i \in 1..Len(q) + 1 : new[i] = IF i <= Len(q) THEN q[i] ELSE <<a>>[i - Len(q)]
  BY <1>1, ConcatProperties
<1> HIDE DEF new
<1>3. DOMAIN q = 1..Len(q) /\ Len(q) \in Nat /\ DOMAIN new = 1..Len(q) + 1
  BY <1>2, LenProperties
<1>4. (\A i \in 1..Len(q) : new[i] = q[i]) /\ new[Len(q) + 1] = a
  BY <1>1, <1>2, <1>3
<1> QED BY <1>2, <1>3, <1>4 DEF Longer, new

\* Two elements are added.
LEMMA TwoMore ==
    ASSUME NEW S, NEW q \in Seq(S), NEW a \in S, NEW b \in S
    PROVE  q \o <<a>> \o <<b>> \in Seq(S) /\ Longer(q \o <<a>> \o <<b>>, q, {a, b})
<1> DEFINE u == q \o <<a>>
           v == u \o <<b>>
<1>1. u \in Seq(S) /\ Longer(u, q, {a})
  BY OneMore
<1> HIDE DEF u
<1>2. v \in Seq(S) /\ Longer(v, u, {b})
  BY <1>1, OneMore
<1> HIDE DEF v
<1>3. Longer(v, q, {a, b})
  BY <1>1, <1>2 DEF Longer
<1> QED BY <1>2, <1>3 DEF u, v

\* Each element behind q is there once.
Once(new, q) ==
    \A i, j \in DOMAIN new : i \notin DOMAIN q /\ j \notin DOMAIN q /\ new[i] = new[j] => i = j

\* One element is in one place.
LEMMA OneMoreOnce ==
    ASSUME NEW S, NEW q \in Seq(S), NEW a \in S
    PROVE  \A i, j \in DOMAIN (q \o <<a>>) : i \notin DOMAIN q /\ j \notin DOMAIN q => i = j
<1> DEFINE new == q \o <<a>>
<1>1. <<a>> \in Seq(S) /\ Len(<<a>>) = 1
  OBVIOUS
<1>2. new \in Seq(S) /\ Len(new) = Len(q) + 1
  BY <1>1, ConcatProperties
<1> HIDE DEF new
<1>3. DOMAIN q = 1..Len(q) /\ Len(q) \in Nat /\ DOMAIN new = 1..Len(q) + 1
  BY <1>2, LenProperties
<1>4. \A i, j \in DOMAIN new : i \notin DOMAIN q /\ j \notin DOMAIN q => i = j
  BY <1>3
<1> QED BY <1>4 DEF new

\* Two different elements are in two places.
LEMMA TwoMoreOnce ==
    ASSUME NEW S, NEW q \in Seq(S), NEW a \in S, NEW b \in S, a # b
    PROVE  Once(q \o <<a>> \o <<b>>, q)
<1> DEFINE u == q \o <<a>>
           v == u \o <<b>>
<1>1. /\ u \in Seq(S) /\ Longer(u, q, {a})
      /\ \A i, j \in DOMAIN u : i \notin DOMAIN q /\ j \notin DOMAIN q => i = j
  BY OneMore, OneMoreOnce
<1> HIDE DEF u
<1>2. /\ Longer(v, u, {b})
      /\ \A i, j \in DOMAIN v : i \notin DOMAIN u /\ j \notin DOMAIN u => i = j
  BY <1>1, OneMore, OneMoreOnce
<1> HIDE DEF v
<1>3. ASSUME NEW i \in DOMAIN v, NEW j \in DOMAIN v,
             i \notin DOMAIN q, j \notin DOMAIN q, v[i] = v[j]
      PROVE  i = j
  <2>1. \A k \in DOMAIN v : k \notin DOMAIN q => IF k \in DOMAIN u THEN v[k] = a ELSE v[k] = b
    BY <1>1, <1>2 DEF Longer
  <2> QED BY <1>1, <1>2, <1>3, <2>1
<1> QED BY <1>3 DEF u, v, Once

-----------------------------------------------------------------------------
(* Announcements *)

\* What the controller knows of a stream does not change, and what collides does so
\* for ever.
LEMMA Announced ==
    ASSUME TypeOK, NEW s \in SessionIds, NEW p \in PIds, NEW m \in Mids, NEW ssrc \in MainSSRCs,
           Announce(s, p, m, ssrc), setting' = setting
    PROVE  /\ up /\ <<s, p, m>> \notin DOMAIN announced
           /\ DOMAIN announced' = DOMAIN announced \cup {<<s, p, m>>}
           /\ announced'[<<s, p, m>>] = ssrc
           /\ \A k \in DOMAIN announced : announced'[k] = announced[k]
           /\ DOMAIN announced' \subseteq StreamKey
           /\ \A k \in DOMAIN announced' : announced'[k] \in MainSSRCs
<1>1. <<s, p, m>> \in StreamKey
  BY DEF StreamKey
<1> QED BY <1>1 DEF Announce, TypeOK

\* Streams and requests keep the announcement they come from.
LEMMA AnnouncedKept ==
    ASSUME DOMAIN announced \subseteq DOMAIN announced',
           \A k \in DOMAIN announced : announced'[k] = announced[k], setting' = setting
    PROVE  /\ \A ss, m : From(announced, VideoMids, ss, m) => From(announced', VideoMids, ss, m)
           /\ \A x : Collision(x) => Collision(x)'
           /\ AskedAnnounced => \A a \in asked : a[1] \in DOMAIN announced'
<1>1. VideoMids' = VideoMids
  BY CaseKept
<1> QED BY <1>1 DEF From, Collision, AskedAnnounced

\* Where a send stream with the SSRC of media comes from.
LEMMA MainSend ==
    ASSUME AgentInv, NEW s, NEW ssrc \in MainSSRCs, NEW i \in getSendStream(s, ssrc)
    PROVE  /\ i \in DOMAIN sends /\ sends[i].sid = s /\ sends[i].ssrc = ssrc /\ ~sends[i].rtx
           /\ sends[i].addr = SendAddr(s, sends[i].from)
           /\ \E m \in Mids : /\ <<s, sends[i].from, m>> \in DOMAIN announced
                              /\ announced[<<s, sends[i].from, m>>] = ssrc
                              /\ sends[i].video = (m \in VideoMids)
<1>1. i \in DOMAIN sends /\ sends[i].sid = s /\ sends[i].ssrc = ssrc
  BY DEF getSendStream
<1>2. PICK m \in Mids : From(announced, VideoMids, sends[i], m)
  BY <1>1 DEF AgentInv, SendsAnnounced
<1>3. announced[<<s, sends[i].from, m>>] \in MainSSRCs
  BY <1>1, <1>2 DEF AgentInv, TypeOK, From
<1>4. ~sends[i].rtx
  BY <1>1, <1>2, <1>3, Parity DEF From, AgentInv
<1> QED BY <1>1, <1>2, <1>4 DEF From, AgentInv, SendsAnnounced

\* Where one with an SSRC of retransmissions comes from.
LEMMA RtxSend ==
    ASSUME AgentInv, NEW s, NEW ssrc \in MainSSRCs, NEW i \in getSendStream(s, ssrc + 1)
    PROVE  /\ i \in DOMAIN sends /\ sends[i].sid = s /\ sends[i].ssrc = ssrc + 1 /\ sends[i].rtx
           /\ \E m \in Mids : /\ <<s, sends[i].from, m>> \in DOMAIN announced
                              /\ announced[<<s, sends[i].from, m>>] = ssrc
                              /\ sends[i].video = (m \in VideoMids)
<1>1. i \in DOMAIN sends /\ sends[i].sid = s /\ sends[i].ssrc = ssrc + 1
  BY DEF getSendStream
<1>2. PICK m \in Mids : From(announced, VideoMids, sends[i], m)
  BY <1>1 DEF AgentInv, SendsAnnounced
<1>3. announced[<<s, sends[i].from, m>>] \in MainSSRCs
  BY <1>1, <1>2 DEF AgentInv, TypeOK, From
<1>4. sends[i].rtx
  BY <1>1, <1>2, <1>3, Parity DEF From, AgentInv
<1>5. ssrc \in Nat /\ announced[<<s, sends[i].from, m>>] \in Nat
  BY <1>3, CaseFacts DEF AgentInv
<1> QED BY <1>1, <1>2, <1>4, <1>5 DEF From

\* No stream has the SSRC that is not given.
LEMMA NoSend0 ==
    ASSUME AgentInv, NEW s
    PROVE  getSendStream(s, NoSSRC) = {}
<1>1. \A i \in DOMAIN sends : sends[i] \in SendStream
  BY DEF AgentInv, TypeOK
<1>2. \A i \in DOMAIN sends : sends[i].ssrc \in SSRC
  BY <1>1 DEF SendStream
<1> QED BY <1>2, Parity DEF AgentInv, getSendStream

-----------------------------------------------------------------------------
(* The actions *)

\* Steps that change only decode targets.
LEMMA TargetsOnly ==
    ASSUME AgentInv, UNCHANGED <<setting, up, announced, asked, sends, peers, valid>>,
           recvs' \in Seq(ReceiveStream), Table(sfu', Addrs, TableSSRC),
           DOMAIN sfu' = DOMAIN sfu, \A m \in DOMAIN sfu : Dests(sfu', m) = Dests(sfu, m)
    PROVE  AgentInv'
<1>0. TypeOK
  BY DEF AgentInv
<1>1. Table(sfu, Addrs, TableSSRC)'
  BY CaseKept
<1>2. TypeOK'
  <2>1. /\ DOMAIN sfu' \subseteq (Addr' \cup {ZeroAddr}) \X (SSRC' \cup {NoSSRC, FeedbackSSRC})
        /\ \A m \in DOMAIN sfu' :
              sfu'[m] \in Seq([to : Addr' \cup {ZeroAddr}, svc : SUBSET DecodeTarget])
    BY CaseKept DEF Table, Entry, Addrs, TableSSRC
  <2> QED BY <1>0, <2>1, CaseKept DEF TypeOK
<1>3. (SendsAnnounced /\ RtxAdded /\ AskedAnnounced /\ SendersArePeers)'
  BY CaseKept DEF AgentInv, SendsAnnounced, From, RtxAdded, getSendStream, AskedAnnounced,
     SendersArePeers, SendAddr
<1>4. \A m \in DOMAIN sfu' : Dests(sfu', m) \ {ZeroAddr} \subseteq peers'
  BY DEF AgentInv
<1>5. StopsOnlyOnCollision'
  BY CaseKept DEF AgentInv, StopsOnlyOnCollision, Collision
<1>6. (\A m \in DOMAIN sfu : Dests(sfu, m) \ {ZeroAddr} \subseteq peers)'
  BY <1>4 DEF Dests
<1> QED BY <1>1, <1>2, <1>3, <1>5, <1>6 DEF AgentInv

\* What the lemmas on estimates need.
LEMMA AgentStreams == AgentInv => StreamsType
BY DEF AgentInv, TypeOK, StreamsType

\* The length of what a packet reports.
LEMMA CompoundLengths ==
    ASSUME NEW packet \in Compounds
    PROVE  /\ Len(packet) \in Nat
           /\ \A n \in 1..Len(packet) : Len(packet[n].ssrcs) \in Nat
<1>1. ASSUME NEW e \in Estimates PROVE Len(e.ssrcs) \in Nat
  <2>1. PICK n \in 1..MaxReport : e.ssrcs \in [1..n -> SSRC]
    BY DEF Estimates
  <2>2. n \in Nat
    OBVIOUS
  <2>3. e.ssrcs \in Seq(SSRC)
    BY <2>1, <2>2, SeqDef
  <2> QED BY <2>3, LenProperties
<1>2. \A t : Len(Part(t).ssrcs) \in Nat
  BY DEF Part
<1>3. CASE packet \in {<<e>> : e \in Estimates}
  <2>1. PICK e \in Estimates : packet = <<e>>
    BY <1>3
  <2> QED BY <1>1, <2>1
<1>4. CASE packet \in {<<Part(t), e>> : t \in RTCPTypes, e \in Estimates}
  <2>1. PICK t \in RTCPTypes, e \in Estimates : packet = <<Part(t), e>>
    BY <1>4
  <2> QED BY <1>1, <1>2, <2>1
<1> QED BY <1>3, <1>4 DEF Compounds

\* Compound packets.
LEMMA OnRTCPInv ==
    ASSUME AgentInv, NEW s \in SessionIds, NEW p \in PIds, NEW q \in PIds,
           NEW packet \in Compounds, OnRTCP(s, p, q, packet)
    PROVE  /\ AgentInv' /\ UNCHANGED <<setting, up, announced, asked, sends, peers, valid>>
           /\ DOMAIN sfu' = DOMAIN sfu
           /\ \A m \in DOMAIN sfu : Dests(sfu', m) = Dests(sfu, m)
<1> DEFINE after == handleCompound(RecvAddr(s, p, q), packet)
<1>1. /\ recvs' = after.recvs /\ sfu' = after.sfu
      /\ UNCHANGED <<setting, up, announced, asked, sends, peers, valid>>
  BY DEF OnRTCP, envVars
<1>2. after \in Estimated
  <2>1. Closed(Estimated, RecvAddr(s, p, q))
    BY AgentStreams, EstimatedClosed
  <2>2. /\ Len(packet) \in Nat
        /\ \A n \in 1..Len(packet) : Len(packet[n].ssrcs) \in Nat
    BY CompoundLengths
  <2> QED BY <2>1, <2>2, HandleCompound
<1>3. Table(after.sfu, Addrs, TableSSRC)
  BY <1>2, AgentStreams, EstimatedTable
<1> HIDE DEF after
<1>4. /\ recvs' \in Seq(ReceiveStream) /\ DOMAIN sfu' = DOMAIN sfu
      /\ \A m \in DOMAIN sfu : Dests(sfu', m) = Dests(sfu, m)
  BY <1>1, <1>2 DEF Estimated
<1> QED BY <1>1, <1>3, <1>4, TargetsOnly

\* Targets that are set through the API.
LEMMA OnAPIInv ==
    ASSUME AgentInv, NEW s \in SessionIds, NEW ssrc \in SSRC, NEW p \in PIds,
           NEW target \in ApiTargets, OnAPISetDecodeTarget(s, ssrc, p, target)
    PROVE  /\ AgentInv' /\ UNCHANGED <<setting, up, announced, asked, sends, peers, valid>>
           /\ DOMAIN sfu' = DOMAIN sfu
           /\ \A m \in DOMAIN sfu : Dests(sfu', m) = Dests(sfu, m)
<1>1. PICK i \in getReceiveStream(s, ssrc, p) :
         /\ Adjustable(i, target)
         /\ sfu' = Adjusted(sfu, i, target)
         /\ recvs' = [recvs EXCEPT ![i].target = target]
  BY DEF OnAPISetDecodeTarget
<1>2. UNCHANGED <<setting, up, announced, asked, sends, peers, valid>>
  BY DEF OnAPISetDecodeTarget, envVars
<1>3. target \in Nat /\ target \in DecodeTarget
  BY <1>1, CaseFacts DEF AgentInv, Adjustable, DecodeTarget, MaxIdent
<1>4. Retargeted(sfu', sfu, Addrs, TableSSRC)
  BY <1>1, <1>3, AdjustDecodeTarget DEF AgentInv, Adjusted
<1>5. recvs' \in Seq(ReceiveStream)
  <2>1. i \in DOMAIN recvs /\ recvs \in Seq(ReceiveStream)
    BY <1>1 DEF getReceiveStream, AgentInv, TypeOK
  <2>2. recvs[i] \in ReceiveStream
    BY <2>1
  <2>3. [recvs[i] EXCEPT !.target = target] \in ReceiveStream
    BY <1>3, <2>2 DEF ReceiveStream
  <2>4. /\ DOMAIN recvs' = DOMAIN recvs /\ recvs'[i] = [recvs[i] EXCEPT !.target = target]
        /\ recvs' = [j \in DOMAIN recvs |-> recvs'[j]]
        /\ \A j \in DOMAIN recvs : j # i => recvs'[j] = recvs[j]
    BY <1>1, <2>1
  <2>5. DOMAIN recvs = 1..Len(recvs) /\ Len(recvs) \in Nat
    BY <2>1, LenProperties
  <2>6. recvs' \in [1..Len(recvs) -> ReceiveStream]
    BY <2>1, <2>3, <2>4, <2>5
  <2> QED BY <2>5, <2>6, SeqDef
<1>6. /\ Table(sfu', Addrs, TableSSRC) /\ DOMAIN sfu' = DOMAIN sfu
      /\ \A m \in DOMAIN sfu : Dests(sfu', m) = Dests(sfu, m)
  BY <1>4 DEF Retargeted
<1> QED BY <1>2, <1>5, <1>6, TargetsOnly

\* A step that changes no table, stream or peer: the announcement is lost, or the
\* agent ends.
LEMMA AnnouncedOnly ==
    ASSUME AgentInv, NEW s \in SessionIds, NEW p \in PIds, NEW m \in Mids, NEW ssrc \in MainSSRCs,
           Announce(s, p, m, ssrc), UNCHANGED <<setting, asked, sends, recvs, peers, valid, sfu>>,
           up' \in BOOLEAN, StopsOnlyOnCollision'
    PROVE  AgentInv'
<1>1. TypeOK
  BY DEF AgentInv
<1>2. /\ DOMAIN announced \subseteq DOMAIN announced'
      /\ \A k \in DOMAIN announced : announced'[k] = announced[k]
      /\ DOMAIN announced' \subseteq StreamKey
      /\ \A k \in DOMAIN announced' : announced'[k] \in MainSSRCs
  BY <1>1, Announced
<1>3. TypeOK'
  BY <1>1, <1>2, CaseKept DEF TypeOK
<1>4. \A ss, x : From(announced, VideoMids, ss, x) => From(announced', VideoMids, ss, x)
  BY <1>2, AnnouncedKept
<1>5. SendsAnnounced'
  <2> SUFFICES ASSUME NEW i \in DOMAIN sends
               PROVE  /\ sends[i].addr = SendAddr(sends[i].sid, sends[i].from)
                      /\ \E x \in Mids : From(announced', VideoMids, sends[i], x)
    BY CaseKept DEF SendsAnnounced, SendAddr, From
  <2> QED BY <1>4 DEF AgentInv, SendsAnnounced
<1>6. (RtxAdded /\ SendersArePeers)'
  BY DEF AgentInv, RtxAdded, getSendStream, SendersArePeers
<1>7. AskedAnnounced'
  BY <1>2 DEF AgentInv, AskedAnnounced
<1>8. Table(sfu, Addrs, TableSSRC)'
  BY CaseKept DEF AgentInv
<1>9. (\A n \in DOMAIN sfu : Dests(sfu, n) \ {ZeroAddr} \subseteq peers)'
  BY DEF AgentInv, Dests
<1> QED BY <1>3, <1>5, <1>6, <1>7, <1>8, <1>9 DEF AgentInv

\* addSendStream refuses an SSRC only if a stream of the session has it.
LEMMA ThrowsOnCollision ==
    ASSUME AgentInv, NEW s \in SessionIds, NEW p \in PIds, NEW m \in Mids, NEW ssrc \in MainSSRCs,
           Announce(s, p, m, ssrc), setting' = setting, addSendStreamThrows(s, m, ssrc)
    PROVE  Collision(s)'
<1> DEFINE k == <<s, p, m>>
<1>1. TypeOK
  BY DEF AgentInv
<1>2. /\ k \notin DOMAIN announced /\ DOMAIN announced' = DOMAIN announced \cup {k}
      /\ announced'[k] = ssrc /\ \A l \in DOMAIN announced : announced'[l] = announced[l]
  BY <1>1, Announced
<1>3. getSendStream(s, ssrc) # {} \/ getSendStream(s, ssrc + 1) # {}
  BY NoSend0 DEF addSendStreamThrows, RtxOf
<1>4. \E q, n : <<s, q, n>> \in DOMAIN announced /\ announced[<<s, q, n>>] = ssrc
  <2>1. CASE getSendStream(s, ssrc) # {}
    <3>1. PICK i \in getSendStream(s, ssrc) : TRUE
      BY <2>1
    <3>2. PICK n \in Mids : /\ <<s, sends[i].from, n>> \in DOMAIN announced
                            /\ announced[<<s, sends[i].from, n>>] = ssrc
      BY MainSend
    <3> QED BY <3>2
  <2>2. CASE getSendStream(s, ssrc + 1) # {}
    <3>1. PICK i \in getSendStream(s, ssrc + 1) : TRUE
      BY <2>2
    <3>2. PICK n \in Mids : /\ <<s, sends[i].from, n>> \in DOMAIN announced
                            /\ announced[<<s, sends[i].from, n>>] = ssrc
      BY RtxSend
    <3> QED BY <3>2
  <2> QED BY <1>3, <2>1, <2>2
<1>5. PICK q, n : <<s, q, n>> \in DOMAIN announced /\ announced[<<s, q, n>>] = ssrc
  BY <1>4
<1> DEFINE l == <<s, q, n>>
<1>6. k # l /\ k[1] = s /\ l[1] = s
  BY <1>2, <1>5
<1>7. k \in DOMAIN announced' /\ l \in DOMAIN announced' /\ announced'[k] = announced'[l]
  BY <1>2, <1>5
<1> HIDE DEF k, l
<1> QED BY <1>6, <1>7 DEF Collision

\* The streams and the part of the table that are added with a send stream.
LEMMA SendStreamAdded ==
    ASSUME AgentInv, NEW s \in SessionIds, NEW p \in PIds, NEW m \in Mids, NEW ssrc \in MainSSRCs,
           OnAddSendStream(s, p, m, ssrc)
    PROVE  LET dst == SendAddr(s, p)
               new(n, r) == [sid |-> s, from |-> p, addr |-> dst, ssrc |-> n,
                             video |-> m \in VideoMids, rtx |-> r]
               xs == IF m \in VideoMids THEN {new(ssrc, FALSE), new(ssrc + 1, TRUE)}
                     ELSE {new(ssrc, FALSE)}
               st == [src |-> ZeroAddr, dst |-> dst, ssrc |-> ssrc, rtxSsrc |-> RtxOf(ssrc, m),
                      rtcpSsrc |-> NoSSRC, rtcpRtxSsrc |-> NoSSRC]
           IN /\ dst \in Addr /\ dst # ZeroAddr
              /\ sends' \in Seq(SendStream) /\ Longer(sends', sends, xs)
              /\ Added(st, Addrs, TableSSRC)
              /\ StreamAdded(sfu', sfu, st, Addrs, TableSSRC)
<1> DEFINE dst == SendAddr(s, p)
           new(n, r) == [sid |-> s, from |-> p, addr |-> dst, ssrc |-> n,
                         video |-> m \in VideoMids, rtx |-> r]
           xs == IF m \in VideoMids THEN {new(ssrc, FALSE), new(ssrc + 1, TRUE)}
                 ELSE {new(ssrc, FALSE)}
           st == [src |-> ZeroAddr, dst |-> dst, ssrc |-> ssrc, rtxSsrc |-> RtxOf(ssrc, m),
                  rtcpSsrc |-> NoSSRC, rtcpRtxSsrc |-> NoSSRC]
<1>0. TypeOK
  BY DEF AgentInv
<1>1. /\ Announce(s, p, m, ssrc) /\ sends' = addSendStream(s, p, m, ssrc)
      /\ peers' = peers \cup {dst} /\ sfu' = addStream(sfu, st)
      /\ UNCHANGED <<setting, up, asked, recvs, valid>>
  BY DEF OnAddSendStream, withPeer
<1>2. /\ up /\ DOMAIN announced' = DOMAIN announced \cup {<<s, p, m>>}
      /\ announced'[<<s, p, m>>] = ssrc
      /\ \A k \in DOMAIN announced : announced'[k] = announced[k]
      /\ DOMAIN announced' \subseteq StreamKey
      /\ \A k \in DOMAIN announced' : announced'[k] \in MainSSRCs
  BY <1>0, <1>1, Announced
<1>3. /\ dst \in Addr /\ dst # ZeroAddr /\ ssrc \in SSRC /\ ssrc + 1 \in SSRC
      /\ ssrc + 1 # NoSSRC
  <2>1. dst \in Addr
    BY DEF SendAddr, Addr
  <2> QED BY <1>0, <2>1, Parity, CaseFacts
<1>4. sends' \in Seq(SendStream) /\ Longer(sends', sends, xs)
  <2>1. new(ssrc, FALSE) \in SendStream /\ new(ssrc + 1, TRUE) \in SendStream
    BY <1>3 DEF SendStream
  <2>2. sends \in Seq(SendStream)
    BY <1>0 DEF TypeOK
  <2>3. CASE m \in VideoMids
    <3>1. sends' = sends \o <<new(ssrc, FALSE)>> \o <<new(ssrc + 1, TRUE)>>
      BY <1>1, <1>3, <2>3 DEF addSendStream, RtxOf
    <3> HIDE DEF new
    <3>2. xs = {new(ssrc, FALSE), new(ssrc + 1, TRUE)}
      BY <2>3
    <3> HIDE DEF xs
    <3> QED BY <2>1, <2>2, <3>1, <3>2, TwoMore
  <2>4. CASE m \notin VideoMids
    <3>1. sends' = sends \o <<new(ssrc, FALSE)>> \o <<>>
      BY <1>1, <2>4 DEF addSendStream, RtxOf
    <3> HIDE DEF new
    <3>2. xs = {new(ssrc, FALSE)}
      BY <2>4
    <3> HIDE DEF xs
    <3>3. sends \o <<new(ssrc, FALSE)>> \in Seq(SendStream)
            /\ Longer(sends \o <<new(ssrc, FALSE)>>, sends, xs)
      BY <2>1, <2>2, <3>2, OneMore
    <3>4. sends' = sends \o <<new(ssrc, FALSE)>>
      BY <3>1, <3>3, ConcatEmptySeq
    <3> QED BY <3>3, <3>4
  <2> QED BY <2>3, <2>4
<1>5. Added(st, Addrs, TableSSRC) /\ StreamAdded(sfu', sfu, st, Addrs, TableSSRC)
  <2>1. Added(st, Addrs, TableSSRC)
    BY <1>3 DEF Added, Addrs, TableSSRC, RtxOf
  <2> HIDE DEF st
  <2> QED BY <1>1, <2>1, AddStream DEF AgentInv
<1> HIDE DEF xs, st
<1> QED BY <1>3, <1>4, <1>5 DEF xs, st

\* A send stream and, for video, its retransmissions.
LEMMA OnAddSendStreamInv ==
    ASSUME AgentInv, NEW s \in SessionIds, NEW p \in PIds, NEW m \in Mids, NEW ssrc \in MainSSRCs,
           OnAddSendStream(s, p, m, ssrc)
    PROVE  AgentInv'
<1> DEFINE dst == SendAddr(s, p)
           new(n, r) == [sid |-> s, from |-> p, addr |-> dst, ssrc |-> n,
                         video |-> m \in VideoMids, rtx |-> r]
           xs == IF m \in VideoMids THEN {new(ssrc, FALSE), new(ssrc + 1, TRUE)}
                 ELSE {new(ssrc, FALSE)}
           st == [src |-> ZeroAddr, dst |-> dst, ssrc |-> ssrc, rtxSsrc |-> RtxOf(ssrc, m),
                  rtcpSsrc |-> NoSSRC, rtcpRtxSsrc |-> NoSSRC]
<1>0. TypeOK
  BY DEF AgentInv
<1>1. /\ Announce(s, p, m, ssrc) /\ sends' = addSendStream(s, p, m, ssrc)
      /\ peers' = peers \cup {dst} /\ sfu' = addStream(sfu, st)
      /\ UNCHANGED <<setting, up, asked, recvs, valid>>
  BY DEF OnAddSendStream, withPeer
<1>2. /\ up /\ DOMAIN announced' = DOMAIN announced \cup {<<s, p, m>>}
      /\ announced'[<<s, p, m>>] = ssrc
      /\ \A k \in DOMAIN announced : announced'[k] = announced[k]
      /\ DOMAIN announced' \subseteq StreamKey
      /\ \A k \in DOMAIN announced' : announced'[k] \in MainSSRCs
  BY <1>0, <1>1, Announced
<1>3. dst \in Addr /\ dst # ZeroAddr
  BY SendStreamAdded
<1>4. sends' \in Seq(SendStream) /\ Longer(sends', sends, xs)
  BY SendStreamAdded
<1>5. StreamAdded(sfu', sfu, st, Addrs, TableSSRC)
  BY SendStreamAdded
<1>6. Table(sfu, Addrs, TableSSRC)'
  <2>1. Table(sfu', Addrs, TableSSRC)
    BY <1>5 DEF StreamAdded
  <2> QED BY <1>1, <2>1, CaseKept
<1>7. TypeOK'
  <2>1. peers' \subseteq Addr /\ valid' \subseteq peers'
    BY <1>0, <1>1, <1>3 DEF TypeOK
  <2>2. /\ DOMAIN sfu' \subseteq (Addr' \cup {ZeroAddr}) \X (SSRC' \cup {NoSSRC, FeedbackSSRC})
        /\ \A n \in DOMAIN sfu' :
              sfu'[n] \in Seq([to : Addr' \cup {ZeroAddr}, svc : SUBSET DecodeTarget])
    BY <1>6, CaseKept DEF Table, Entry, Addrs, TableSSRC
  <2> QED BY <1>0, <1>1, <1>2, <1>4, <2>1, <2>2, CaseKept DEF TypeOK
<1>8. SendsAnnounced'
  <2>1. \A ss, x : From(announced, VideoMids, ss, x) => From(announced', VideoMids, ss, x)
    BY <1>1, <1>2, AnnouncedKept
  <2>2. ASSUME NEW n, NEW r \in BOOLEAN, r => m \in VideoMids,
               n = IF r THEN ssrc + 1 ELSE ssrc
        PROVE  From(announced', VideoMids, new(n, r), m)
    BY <1>1, <1>2, <2>2, CaseKept DEF From
  <2>3. \A ss \in xs : From(announced', VideoMids, ss, m) /\ ss.addr = SendAddr(ss.sid, ss.from)
    <3>1. From(announced', VideoMids, new(ssrc, FALSE), m)
      BY <2>2
    <3>2. m \in VideoMids => From(announced', VideoMids, new(ssrc + 1, TRUE), m)
      BY <2>2
    <3>3. \A n, r : new(n, r).addr = SendAddr(new(n, r).sid, new(n, r).from)
      OBVIOUS
    <3> HIDE DEF new
    <3> QED BY <3>1, <3>2, <3>3
  <2> HIDE DEF xs
  <2>4. ASSUME NEW i \in DOMAIN sends'
        PROVE  /\ sends'[i].addr = SendAddr(sends'[i].sid, sends'[i].from)
               /\ \E x \in Mids : From(announced', VideoMids, sends'[i], x)
    <3>1. CASE i \in DOMAIN sends
      <4>1. sends'[i] = sends[i]
        BY <1>4, <3>1 DEF Longer
      <4> QED BY <2>1, <3>1, <4>1 DEF AgentInv, SendsAnnounced
    <3>2. CASE i \notin DOMAIN sends
      <4>1. sends'[i] \in xs
        BY <1>4, <3>2 DEF Longer
      <4> QED BY <2>3, <4>1
    <3> QED BY <3>1, <3>2
  <2> QED BY <1>1, <2>4, CaseKept DEF SendsAnnounced, SendAddr, From
<1>9. RtxAdded'
  <2>1. ASSUME NEW i \in DOMAIN sends', sends'[i].video, ~sends'[i].rtx
        PROVE  \E j \in DOMAIN sends' : /\ sends'[j].sid = sends'[i].sid
                                        /\ sends'[j].ssrc = sends'[i].ssrc + 1
    <3>1. CASE i \in DOMAIN sends
      <4>1. sends'[i] = sends[i]
        BY <1>4, <3>1 DEF Longer
      <4>2. \E j \in DOMAIN sends : sends[j].sid = sends[i].sid /\ sends[j].ssrc = sends[i].ssrc + 1
        BY <2>1, <3>1, <4>1 DEF AgentInv, RtxAdded, getSendStream
      <4> QED BY <1>4, <4>1, <4>2 DEF Longer
    <3>2. CASE i \notin DOMAIN sends
      <4>1. sends'[i] \in xs
        BY <1>4, <3>2 DEF Longer
      <4>2. sends'[i] = new(ssrc, FALSE) /\ m \in VideoMids
        <5>1. \A n, r : new(n, r).rtx = r /\ new(n, r).video = (m \in VideoMids)
          OBVIOUS
        <5> HIDE DEF new
        <5> QED BY <2>1, <4>1, <5>1
      <4>3. new(ssrc + 1, TRUE) \in xs
        BY <4>2
      <4>4. PICK j \in DOMAIN sends' : sends'[j] = new(ssrc + 1, TRUE)
        BY <1>4, <4>3 DEF Longer
      <4>5. sends'[i].sid = s /\ sends'[i].ssrc = ssrc
        BY <4>2
      <4>6. sends'[j].sid = s /\ sends'[j].ssrc = ssrc + 1
        BY <4>4
      <4> QED BY <4>5, <4>6
    <3> QED BY <3>1, <3>2
  <2> QED BY <2>1 DEF RtxAdded, getSendStream
<1>10. SendersArePeers'
  <2>1. \A ss \in xs : ss.addr = dst
    OBVIOUS
  <2> HIDE DEF xs, dst
  <2> QED BY <1>1, <1>4, <2>1 DEF AgentInv, SendersArePeers, Longer
<1>11. AskedAnnounced'
  BY <1>1, <1>2 DEF AgentInv, AskedAnnounced
<1>12. (\A n \in DOMAIN sfu : Dests(sfu, n) \ {ZeroAddr} \subseteq peers)'
  <2>1. \A n \in DOMAIN sfu' : Dests(sfu', n) \ {ZeroAddr} \subseteq peers'
    <3>1. \A n : Dests(sfu', n) \subseteq Dests(sfu, n) \cup {dst, ZeroAddr}
      <4>1. st.dst = dst /\ st.src = ZeroAddr
        OBVIOUS
      <4> HIDE DEF st
      <4> QED BY <1>5, <4>1 DEF StreamAdded
    <3>2. \A n : Dests(sfu, n) \ {ZeroAddr} \subseteq peers
      BY DEF AgentInv, Dests
    <3> QED BY <1>1, <3>1, <3>2
  <2> QED BY <2>1 DEF Dests
<1>13. StopsOnlyOnCollision'
  BY <1>1, <1>2 DEF StopsOnlyOnCollision
<1> QED BY <1>6, <1>7, <1>8, <1>9, <1>10, <1>11, <1>12, <1>13 DEF AgentInv

\* The receive streams that are added have types.
LEMMA AddReceiveStreamType ==
    ASSUME AgentInv, NEW s \in SessionIds, NEW p \in PIds, NEW addr \in Addr,
           NEW ssrc \in SSRC, NEW rtx \in SSRC \cup {NoSSRC},
           getSendStream(s, ssrc) # {}, rtx # NoSSRC => getSendStream(s, rtx) # {}
    PROVE  addReceiveStream(s, p, addr, ssrc, rtx) \in Seq(ReceiveStream)
<1> DEFINE new(n, r) ==
               LET ss == sends[CHOOSE i \in getSendStream(s, n) : TRUE]
               IN [sid |-> s, from |-> ss.from, to |-> p, addr |-> addr, ssrc |-> n,
                   video |-> ss.video, rtx |-> r, target |-> MaxIdent]
<1>1. ASSUME NEW n \in SSRC, NEW r \in BOOLEAN, getSendStream(s, n) # {}
      PROVE  new(n, r) \in ReceiveStream
  <2> DEFINE i == CHOOSE i \in getSendStream(s, n) : TRUE
  <2>1. i \in getSendStream(s, n)
    BY <1>1
  <2>2. i \in DOMAIN sends /\ sends \in Seq(SendStream)
    BY <2>1 DEF getSendStream, AgentInv, TypeOK
  <2>3. sends[i] \in SendStream
    <3> HIDE DEF i
    <3> QED BY <2>2
  <2> HIDE DEF i
  <2>4. sends[i].from \in PIds /\ sends[i].video \in BOOLEAN
    BY <2>3 DEF SendStream
  <2>5. MaxIdent \in DecodeTarget
    BY DEF MaxIdent, DecodeTarget
  <2>6. [sid |-> s, from |-> sends[i].from, to |-> p, addr |-> addr, ssrc |-> n,
         video |-> sends[i].video, rtx |-> r, target |-> MaxIdent] \in ReceiveStream
    BY <1>1, <2>4, <2>5 DEF ReceiveStream
  <2> QED BY <2>6 DEF i
<1>2. recvs \in Seq(ReceiveStream)
  BY DEF AgentInv, TypeOK
<1>3. addReceiveStream(s, p, addr, ssrc, rtx) =
         recvs \o <<new(ssrc, FALSE)>> \o (IF rtx # NoSSRC THEN <<new(rtx, TRUE)>> ELSE <<>>)
  BY DEF addReceiveStream
<1>4. new(ssrc, FALSE) \in ReceiveStream /\ (rtx # NoSSRC => new(rtx, TRUE) \in ReceiveStream)
  BY <1>1
<1> HIDE DEF new
<1>5. recvs \o <<new(ssrc, FALSE)>> \in Seq(ReceiveStream)
  BY <1>2, <1>4, OneMore
<1>6. CASE rtx # NoSSRC
  BY <1>2, <1>3, <1>4, <1>6, TwoMore
<1>7. CASE rtx = NoSSRC
  BY <1>3, <1>5, <1>7, ConcatEmptySeq
<1> QED BY <1>6, <1>7

\* addReceiveStream fails only if another stream of the session has the SSRC.
LEMMA NoRtxOnCollision ==
    ASSUME AgentInv, NEW s \in SessionIds, NEW q \in PIds, NEW m \in Mids,
           <<s, q, m>> \in DOMAIN announced,
           getSendStream(s, announced[<<s, q, m>>]) # {},
           addReceiveStreamThrows(s, RtxOf(announced[<<s, q, m>>], m))
    PROVE  Collision(s)
<1> DEFINE k == <<s, q, m>>
           ssrc == announced[k]
<1>1. ssrc \in MainSSRCs
  BY DEF AgentInv, TypeOK
<1>2. m \in VideoMids /\ getSendStream(s, ssrc + 1) = {}
  BY DEF addReceiveStreamThrows, RtxOf
<1>3. PICK i \in getSendStream(s, ssrc) : TRUE
  OBVIOUS
<1> HIDE DEF ssrc
<1>4. PICK n \in Mids : /\ <<s, sends[i].from, n>> \in DOMAIN announced
                        /\ announced[<<s, sends[i].from, n>>] = ssrc
                        /\ sends[i].video = (n \in VideoMids)
  BY <1>1, <1>3, MainSend
<1>5. i \in DOMAIN sends /\ sends[i].sid = s /\ sends[i].ssrc = ssrc /\ ~sends[i].rtx
  BY <1>1, <1>3, MainSend
<1>6. ~sends[i].video
  BY <1>2, <1>5 DEF AgentInv, RtxAdded
<1>7. n # m
  BY <1>2, <1>4, <1>6
<1> DEFINE l == <<s, sends[i].from, n>>
<1>8. k # l /\ k[1] = s /\ l[1] = s /\ k \in DOMAIN announced /\ l \in DOMAIN announced
  BY <1>4, <1>7
<1>9. announced[k] = announced[l]
  BY <1>4 DEF ssrc
<1> HIDE DEF k, l
<1> QED BY <1>8, <1>9 DEF Collision

\* A receive stream: nothing is found, or the agent ends, or media and feedback go
\* their way.
LEMMA OnAddReceiveStreamInv ==
    ASSUME AgentInv, NEW s \in SessionIds, NEW p \in PIds, NEW q \in PIds, NEW m \in Mids,
           OnAddReceiveStream(s, p, q, m)
    PROVE  AgentInv'
<1> DEFINE k == <<s, q, m>>
           ssrc == announced[k]
           rtx == RtxOf(ssrc, m)
           addr == RecvAddr(s, p, q)
           found == getSendStream(s, ssrc)
           st(i) == [src |-> sends[i].addr, dst |-> addr, ssrc |-> ssrc, rtxSsrc |-> rtx,
                     rtcpSsrc |-> FeedbackSSRC, rtcpRtxSsrc |-> FeedbackSSRC]
<1>0. TypeOK
  BY DEF AgentInv
<1>1. /\ up /\ k \in DOMAIN announced /\ asked' = asked \cup {<<k, p>>}
      /\ peers' = peers \cup {addr} /\ UNCHANGED <<setting, announced, sends, valid>>
  BY DEF OnAddReceiveStream, withPeer
<1>2. \/ found = {} /\ UNCHANGED <<up, recvs, sfu>>
      \/ /\ found # {} /\ addReceiveStreamThrows(s, rtx) /\ up' = FALSE
         /\ recvs' = addReceiveStream(s, p, addr, ssrc, NoSSRC) /\ UNCHANGED sfu
      \/ /\ found # {} /\ ~addReceiveStreamThrows(s, rtx) /\ UNCHANGED up
         /\ recvs' = addReceiveStream(s, p, addr, ssrc, rtx)
         /\ \E i \in found : sfu' = addStream(sfu, st(i))
  BY DEF OnAddReceiveStream
<1>3. ssrc \in MainSSRCs /\ ssrc \in SSRC /\ rtx \in SSRC \cup {NoSSRC}
  <2>1. ssrc \in MainSSRCs
    BY <1>0, <1>1 DEF TypeOK
  <2> HIDE DEF ssrc
  <2> QED BY <1>0, <2>1, Parity DEF RtxOf
<1>4. addr \in Addr /\ addr # ZeroAddr
  <2>1. addr \in Addr
    BY DEF RecvAddr, Addr
  <2> QED BY <1>0, <2>1, CaseFacts
<1>5. up' \in BOOLEAN /\ StopsOnlyOnCollision'
  <2>1. up' = FALSE => Collision(s)
    BY <1>1, <1>2, NoRtxOnCollision
  <2>2. Collision(s) => Collision(s)'
    BY <1>1 DEF Collision
  <2>3. SessionIds' = SessionIds
    BY <1>1, CaseKept
  <2>4. up' \in BOOLEAN /\ (up' = TRUE \/ up' = FALSE)
    BY <1>0, <1>1, <1>2 DEF TypeOK
  <2> QED BY <2>1, <2>2, <2>3, <2>4 DEF StopsOnlyOnCollision
<1>6. recvs' \in Seq(ReceiveStream)
  <2>1. CASE found = {} /\ UNCHANGED <<up, recvs, sfu>>
    BY <1>0, <2>1 DEF TypeOK
  <2>2. CASE found # {} /\ recvs' = addReceiveStream(s, p, addr, ssrc, NoSSRC)
    BY <1>3, <1>4, <2>2, AddReceiveStreamType
  <2>3. CASE /\ found # {} /\ ~addReceiveStreamThrows(s, rtx)
             /\ recvs' = addReceiveStream(s, p, addr, ssrc, rtx)
    <3>1. rtx # NoSSRC => getSendStream(s, rtx) # {}
      BY <2>3 DEF addReceiveStreamThrows
    <3> HIDE DEF rtx, addr
    <3> QED BY <1>3, <1>4, <2>3, <3>1, AddReceiveStreamType
  <2> QED BY <1>2, <2>1, <2>2, <2>3
<1>7. /\ Table(sfu', Addrs, TableSSRC)
      /\ \A n : Dests(sfu', n) \ {ZeroAddr} \subseteq peers'
  <2>0. \A n : Dests(sfu, n) \ {ZeroAddr} \subseteq peers
    BY DEF AgentInv, Dests
  <2>1. CASE UNCHANGED sfu
    BY <1>1, <2>0, <2>1 DEF AgentInv
  <2>2. ASSUME NEW i \in found, sfu' = addStream(sfu, st(i))
        PROVE  /\ Table(sfu', Addrs, TableSSRC)
               /\ \A n : Dests(sfu', n) \ {ZeroAddr} \subseteq peers'
    <3>1. i \in DOMAIN sends /\ sends[i].addr \in peers /\ peers \subseteq Addr
      BY <1>0 DEF getSendStream, AgentInv, SendersArePeers, TypeOK
    <3>2. st(i).dst = addr /\ st(i).src = sends[i].addr
      OBVIOUS
    <3>3. Added(st(i), Addrs, TableSSRC)
      BY <1>3, <1>4, <3>1 DEF Added, Addrs, TableSSRC
    <3> HIDE DEF st
    <3>4. StreamAdded(sfu', sfu, st(i), Addrs, TableSSRC)
      BY <2>2, <3>3, AddStream DEF AgentInv
    <3>5. \A n : Dests(sfu', n) \subseteq Dests(sfu, n) \cup {addr, sends[i].addr}
      BY <3>2, <3>4 DEF StreamAdded
    <3> QED BY <1>1, <2>0, <3>1, <3>4, <3>5 DEF StreamAdded
  <2> QED BY <1>2, <2>1, <2>2
<1>8. Table(sfu, Addrs, TableSSRC)'
  BY <1>1, <1>7, CaseKept
<1>9. TypeOK'
  <2>1. peers' \subseteq Addr /\ valid' \subseteq peers'
    BY <1>0, <1>1, <1>4 DEF TypeOK
  <2>2. asked' \subseteq StreamKey \X PIds
    <3>1. k \in StreamKey
      BY <1>0, <1>1 DEF TypeOK
    <3> HIDE DEF k
    <3> QED BY <1>0, <1>1, <3>1 DEF TypeOK
  <2>3. /\ DOMAIN sfu' \subseteq (Addr' \cup {ZeroAddr}) \X (SSRC' \cup {NoSSRC, FeedbackSSRC})
        /\ \A n \in DOMAIN sfu' :
              sfu'[n] \in Seq([to : Addr' \cup {ZeroAddr}, svc : SUBSET DecodeTarget])
    BY <1>8, CaseKept DEF Table, Entry, Addrs, TableSSRC
  <2> QED BY <1>0, <1>1, <1>5, <1>6, <2>1, <2>2, <2>3, CaseKept DEF TypeOK
<1>10. (SendsAnnounced /\ RtxAdded)'
  BY <1>1, CaseKept DEF AgentInv, SendsAnnounced, From, RtxAdded, getSendStream, SendAddr
<1>11. SendersArePeers'
  BY <1>1 DEF AgentInv, SendersArePeers
<1>12. AskedAnnounced'
  BY <1>1 DEF AgentInv, AskedAnnounced
<1>13. (\A n \in DOMAIN sfu : Dests(sfu, n) \ {ZeroAddr} \subseteq peers)'
  BY <1>7 DEF Dests
<1> QED BY <1>5, <1>8, <1>9, <1>10, <1>11, <1>12, <1>13 DEF AgentInv

\* Connectivity checks.
LEMMA OnSTUNInv ==
    ASSUME AgentInv, NEW addr \in Addr, OnSTUNBindingRequest(addr)
    PROVE  AgentInv'
<1>1. /\ addr \in peers /\ valid' = valid \cup {addr}
      /\ UNCHANGED <<setting, up, announced, asked, sends, recvs, peers, sfu>>
  BY DEF OnSTUNBindingRequest, envVars
<1>2. TypeOK'
  BY <1>1, CaseKept DEF AgentInv, TypeOK
<1>3. (SendsAnnounced /\ RtxAdded /\ AskedAnnounced /\ SendersArePeers)'
  BY <1>1, CaseKept DEF AgentInv, SendsAnnounced, From, RtxAdded, getSendStream, AskedAnnounced,
     SendersArePeers, SendAddr
<1>4. Table(sfu, Addrs, TableSSRC)'
  BY <1>1, CaseKept DEF AgentInv
<1>5. (\A n \in DOMAIN sfu : Dests(sfu, n) \ {ZeroAddr} \subseteq peers)'
  BY <1>1 DEF AgentInv, Dests
<1>6. StopsOnlyOnCollision'
  BY <1>1, CaseKept DEF AgentInv, StopsOnlyOnCollision, Collision
<1> QED BY <1>2, <1>3, <1>4, <1>5, <1>6 DEF AgentInv

\* Every step of the agent, of the controller and of the receivers keeps the
\* invariant.
LEMMA NextAgentInv == AgentInv /\ [Next]_vars => AgentInv'
<1> SUFFICES ASSUME AgentInv, [Next]_vars PROVE AgentInv'
  OBVIOUS
<1>1. ASSUME NEW s \in SessionIds, NEW p \in PIds, NEW m \in Mids, NEW ssrc \in MainSSRCs,
             SendStreamLost(s, p, m, ssrc)
      PROVE  AgentInv'
  <2>1. /\ Announce(s, p, m, ssrc) /\ up
        /\ UNCHANGED <<setting, up, asked, sends, recvs, peers, valid, sfu>>
    BY <1>1 DEF SendStreamLost, Announce
  <2>2. up' \in BOOLEAN /\ StopsOnlyOnCollision'
    BY <2>1 DEF StopsOnlyOnCollision, AgentInv, TypeOK
  <2> QED BY <2>1, <2>2, AnnouncedOnly
<1>2. ASSUME NEW s \in SessionIds, NEW p \in PIds, NEW m \in Mids, NEW ssrc \in MainSSRCs,
             OnAddSendStreamThrows(s, p, m, ssrc)
      PROVE  AgentInv'
  <2>1. /\ Announce(s, p, m, ssrc) /\ up' = FALSE /\ addSendStreamThrows(s, m, ssrc)
        /\ UNCHANGED <<setting, asked, sends, recvs, peers, valid, sfu>>
    BY <1>2 DEF OnAddSendStreamThrows
  <2>2. Collision(s)' /\ s \in SessionIds'
    BY <2>1, ThrowsOnCollision, CaseKept
  <2>3. up' \in BOOLEAN /\ StopsOnlyOnCollision'
    BY <2>1, <2>2 DEF StopsOnlyOnCollision
  <2> QED BY <2>1, <2>3, AnnouncedOnly
<1>3. CASE UNCHANGED vars
  <2>1. UNCHANGED <<setting, up, announced, asked, sends, recvs, peers, valid, sfu>>
    BY <1>3 DEF vars
  <2>2. recvs' \in Seq(ReceiveStream) /\ Table(sfu', Addrs, TableSSRC)
    BY <2>1 DEF AgentInv, TypeOK
  <2>3. \A m \in DOMAIN sfu : Dests(sfu', m) = Dests(sfu, m)
    BY <2>1
  <2> QED BY <2>1, <2>2, <2>3, TargetsOnly
<1> QED BY <1>1, <1>2, <1>3, OnAddSendStreamInv, OnAddReceiveStreamInv, OnRTCPInv, OnAPIInv,
        OnSTUNInv DEF Next

\* The invariant of the agent holds in every state it reaches.
THEOREM AgentInvariant == Spec => []AgentInv
BY InitAgentInv, NextAgentInv, PTL DEF Spec

\* Type correctness: streams, peers and table hold addresses and SSRCs of the
\* sessions, and decode targets that the template structure knows, whatever is
\* announced, estimated or asked for through the API.
THEOREM AgentTypeCorrect == Spec => []TypeOK
<1>1. AgentInv => TypeOK
  BY DEF AgentInv
<1> QED BY <1>1, AgentInvariant, PTL

\* Two streams of one session with the same SSRC are the only reason for the agent
\* to end (the exceptions of SwitchAgentState that escape _onAddStream), however
\* many announcements are lost.
THEOREM StopsOnlyOnCollisionAlways == Spec => []StopsOnlyOnCollision
<1>1. AgentInv => StopsOnlyOnCollision
  BY DEF AgentInv
<1> QED BY <1>1, AgentInvariant, PTL

\* Whoever the data plane sends anything to is a peer of the STUN agent, so that
\* its connectivity checks are answered.
THEOREM DestinationsArePeersAlways == Spec => []DestinationsArePeers
<1>1. AgentInv => DestinationsArePeers
  <2> SUFFICES ASSUME AgentInv, NEW m \in DOMAIN sfu,
                      NEW to \in Destinations(sfu, m[1], m[2]), to # ZeroAddr
               PROVE  to \in peers
    BY DEF DestinationsArePeers
  <2>1. m = <<m[1], m[2]>>
    BY DEF AgentInv, Table
  <2>2. to \in Dests(sfu, m)
    BY <2>1 DEF Destinations, hasMatch, Dests
  <2> QED BY <2>2 DEF AgentInv
<1> QED BY <1>1, AgentInvariant, PTL

-----------------------------------------------------------------------------
(* The abstract data plane *)

\* The requests of MediaRouter, as the controller makes them.
Requested == UNION {Meant(a) : a \in asked}

\* What is forwarded, from the destinations of the matches.
LEMMA Flows ==
    ASSUME AgentInv
    PROVE  \A f : f \in MediaFlows <=>
              \E m \in DOMAIN sfu : /\ m[1] # ZeroAddr /\ m[2] \in SSRC
                                    /\ \E to \in Dests(sfu, m) : f = <<m[1], m[2], to>>
<1>1. \A m \in DOMAIN sfu : m = <<m[1], m[2]>>
  BY DEF AgentInv, Table
<1>2. \A m \in DOMAIN sfu : Destinations(sfu, m[1], m[2]) = Dests(sfu, m)
  BY <1>1 DEF Destinations, hasMatch, Dests
<1> QED BY <1>2 DEF MediaFlows


\* The same of the state after a step.
LEMMA FlowsAfter ==
    ASSUME AgentInv', setting' = setting
    PROVE  \A f : f \in MediaFlows' <=>
              \E m \in DOMAIN sfu' : /\ m[1] # ZeroAddr /\ m[2] \in SSRC
                                     /\ \E to \in Dests(sfu', m) : f = <<m[1], m[2], to>>
<1>1. (\A m \in DOMAIN sfu : m = <<m[1], m[2]>>)'
  BY DEF AgentInv, Table
<1>2. (\A m \in DOMAIN sfu : Destinations(sfu, m[1], m[2]) = Dests(sfu, m))'
  BY <1>1 DEF Destinations, hasMatch, Dests
<1>3. \A f : (f \in MediaFlows)' <=>
         (\E m \in DOMAIN sfu : /\ m[1] # ZeroAddr /\ m[2] \in SSRC
                                /\ \E to \in Dests(sfu, m) : f = <<m[1], m[2], to>>)'
  BY <1>2 DEF MediaFlows
<1> QED BY <1>3, CaseKept DEF Dests

\* A table forwards the same media if the matches of media have the destinations
\* they had.
LEMMA SameFlows ==
    ASSUME AgentInv, AgentInv', setting' = setting,
           \A m : m[1] # ZeroAddr /\ m[2] \in SSRC => Dests(sfu', m) = Dests(sfu, m)
    PROVE  MediaFlows' = MediaFlows
<1>1. \A t, m : Dests(t, m) # {} => m \in DOMAIN t
  BY DEF Dests
<1>2. \A f : f \in MediaFlows' <=> f \in MediaFlows
  BY <1>1, Flows, FlowsAfter
<1> QED BY <1>2

\* Meant for announcements ann: the flows that may be meant by a request.
MeantBy(ann, a) ==
    {{<<SendAddr(a[1][1], l[2]), n, RecvAddr(a[1][1], a[2], a[1][2])>> :
         n \in {ann[a[1]], RtxOf(ann[a[1]], a[1][3])} \ {NoSSRC}} :
         l \in {x \in DOMAIN ann : x[1] = a[1][1] /\ ann[x] = ann[a[1]]}}

\* Meant before and after a step.
LEMMA Meanings ==
    /\ \A a : Meant(a) = MeantBy(announced, a)
    /\ setting' = setting => \A a : Meant(a)' = MeantBy(announced', a)
<1>1. \A a : Meant(a) = MeantBy(announced, a)
  BY DEF Meant, MeantBy
<1>2. ASSUME setting' = setting PROVE \A a : Meant(a)' = MeantBy(announced', a)
  BY <1>2, CaseKept DEF Meant, MeantBy, RtxOf, SendAddr, RecvAddr
<1> QED BY <1>1, <1>2

\* The requests there may be.
Reqs == SUBSET ((Nat \X Nat \X Nat) \X Nat \X (Nat \X Nat \X Nat))

\* Requests are sets of flows.
LEMMA RequestType ==
    ASSUME TypeOK, NEW ann, DOMAIN ann \subseteq StreamKey,
           \A k \in DOMAIN ann : ann[k] \in MainSSRCs,
           NEW a \in StreamKey \X PIds, a[1] \in DOMAIN ann
    PROVE  MeantBy(ann, a) \subseteq Reqs
<1> SUFFICES ASSUME NEW l \in DOMAIN ann,
                    NEW n \in {ann[a[1]], RtxOf(ann[a[1]], a[1][3])} \ {NoSSRC}
             PROVE  <<SendAddr(a[1][1], l[2]), n, RecvAddr(a[1][1], a[2], a[1][2])>>
                      \in (Nat \X Nat \X Nat) \X Nat \X (Nat \X Nat \X Nat)
  BY DEF MeantBy, Reqs
<1>1. SessionIds \subseteq Nat /\ PIds \subseteq Nat /\ MainSSRCs \subseteq Nat
  BY CaseFacts
<1>2. a[1] \in SessionIds \X PIds \X Mids /\ l \in SessionIds \X PIds \X Mids /\ a[2] \in PIds
  BY DEF StreamKey
<1>3. a[1][1] \in Nat /\ a[1][2] \in Nat /\ l[2] \in Nat /\ a[2] \in Nat
  BY <1>1, <1>2
<1>4. n \in Nat
  <2>1. ann[a[1]] \in Nat
    BY <1>1
  <2> QED BY <2>1 DEF RtxOf, NoSSRC
<1> QED BY <1>3, <1>4 DEF SendAddr, RecvAddr

\* More announcements make no request smaller.
LEMMA MeantGrows ==
    ASSUME NEW ann, NEW more, DOMAIN ann \subseteq DOMAIN more,
           \A k \in DOMAIN ann : more[k] = ann[k], NEW a, a[1] \in DOMAIN ann
    PROVE  MeantBy(ann, a) \subseteq MeantBy(more, a)
BY DEF MeantBy

\* A step that only adds announcements and requests makes a request of MediaRouter.
LEMMA RequestStep ==
    ASSUME AgentInv, AgentInv', setting' = setting, asked \subseteq asked',
           DOMAIN announced \subseteq DOMAIN announced',
           \A k \in DOMAIN announced : announced'[k] = announced[k]
    PROVE  Requested' \in SUBSET Reqs /\ Requested \subseteq Requested'
<1>1. Requested = UNION {MeantBy(announced, a) : a \in asked}
  BY Meanings DEF Requested
<1>2. Requested' = UNION {MeantBy(announced', a) : a \in asked'}
  BY Meanings DEF Requested
<1>3. /\ DOMAIN announced' \subseteq StreamKey
      /\ \A k \in DOMAIN announced' : announced'[k] \in MainSSRCs
      /\ asked' \subseteq StreamKey \X PIds
      /\ \A a \in asked' : a[1] \in DOMAIN announced'
      /\ TypeOK
  BY CaseKept DEF AgentInv, TypeOK, AskedAnnounced
<1>4. \A a \in asked' : MeantBy(announced', a) \subseteq Reqs
  BY <1>3, RequestType
<1>5. \A a \in asked : a[1] \in DOMAIN announced
  BY DEF AgentInv, AskedAnnounced
<1>6. \A a \in asked : MeantBy(announced, a) \subseteq MeantBy(announced', a)
  BY <1>5, MeantGrows
<1> HIDE DEF Reqs
<1> QED BY <1>1, <1>2, <1>4, <1>6

\* Adding a send stream forwards no media: its match has the address 0:0.
LEMMA SendStreamFlows ==
    ASSUME AgentInv, AgentInv', NEW s \in SessionIds, NEW p \in PIds, NEW m \in Mids,
           NEW ssrc \in MainSSRCs, OnAddSendStream(s, p, m, ssrc)
    PROVE  MediaFlows' = MediaFlows
<1> DEFINE dst == SendAddr(s, p)
           st == [src |-> ZeroAddr, dst |-> dst, ssrc |-> ssrc, rtxSsrc |-> RtxOf(ssrc, m),
                  rtcpSsrc |-> NoSSRC, rtcpRtxSsrc |-> NoSSRC]
<1>1. setting' = setting /\ sfu' = addStream(sfu, st)
  BY DEF OnAddSendStream
<1>2. dst \in Addr /\ dst # ZeroAddr /\ ssrc \in SSRC /\ ssrc + 1 \in SSRC
  <2>1. dst \in Addr
    BY DEF SendAddr, Addr
  <2> QED BY <2>1, Parity, CaseFacts DEF AgentInv
<1>3. Added(st, Addrs, TableSSRC)
  BY <1>2 DEF Added, Addrs, TableSSRC, RtxOf
<1>4. /\ \A n \in mediaMatches(st) : n[1] = ZeroAddr
      /\ st.rtcpSsrc = NoSSRC
  BY DEF mediaMatches
<1> HIDE DEF st
<1>5. StreamAdded(sfu', sfu, st, Addrs, TableSSRC)
  BY <1>1, <1>3, AddStream DEF AgentInv
<1>6. NoSSRC \notin SSRC
  BY Parity DEF AgentInv
<1>7. ASSUME NEW n, n[1] # ZeroAddr, n[2] \in SSRC
      PROVE  Dests(sfu', n) = Dests(sfu, n)
  <2>1. n \notin mediaMatches(st)
    BY <1>4, <1>7
  <2>2. n # <<st.dst, st.rtcpSsrc>>
    BY <1>4, <1>6, <1>7
  <2> QED BY <1>5, <2>1, <2>2 DEF StreamAdded
<1> QED BY <1>1, <1>7, SameFlows

\* Adding a receive stream forwards its media and its retransmissions, together, and
\* nothing else.
LEMMA ReceiveStreamFlows ==
    ASSUME AgentInv, AgentInv', NEW s \in SessionIds, NEW p \in PIds, NEW q \in PIds,
           NEW m \in Mids, OnAddReceiveStream(s, p, q, m), ~UNCHANGED sfu
    PROVE  \E r \in MeantBy(announced', <<<<s, q, m>>, p>>) : MediaFlows' = MediaFlows \cup r
<1> DEFINE k == <<s, q, m>>
           ssrc == announced[k]
           rtx == RtxOf(ssrc, m)
           addr == RecvAddr(s, p, q)
           st(i) == [src |-> sends[i].addr, dst |-> addr, ssrc |-> ssrc, rtxSsrc |-> rtx,
                     rtcpSsrc |-> FeedbackSSRC, rtcpRtxSsrc |-> FeedbackSSRC]
<1>1. k \in DOMAIN announced /\ UNCHANGED <<setting, announced>>
  BY DEF OnAddReceiveStream
<1>2. PICK i \in getSendStream(s, ssrc) : sfu' = addStream(sfu, st(i))
  BY DEF OnAddReceiveStream
<1>3. /\ ssrc \in MainSSRCs /\ ssrc \in SSRC /\ rtx \in SSRC \cup {NoSSRC}
      /\ NoSSRC \notin SSRC /\ FeedbackSSRC \notin SSRC
  <2>1. ssrc \in MainSSRCs
    BY <1>1 DEF AgentInv, TypeOK
  <2> HIDE DEF ssrc
  <2> QED BY <2>1, Parity DEF RtxOf, AgentInv
<1>4. addr \in Addr /\ addr # ZeroAddr
  <2>1. addr \in Addr
    BY DEF RecvAddr, Addr
  <2> QED BY <2>1, CaseFacts DEF AgentInv
<1>5. i \in DOMAIN sends /\ sends[i].addr = SendAddr(s, sends[i].from)
  <2> HIDE DEF ssrc
  <2> QED BY <1>2, <1>3, MainSend
<1>6. PICK n \in Mids : /\ <<s, sends[i].from, n>> \in DOMAIN announced
                        /\ announced[<<s, sends[i].from, n>>] = ssrc
  <2> HIDE DEF ssrc
  <2> QED BY <1>2, <1>3, MainSend
<1>7. sends[i].addr \in Addr /\ sends[i].addr # ZeroAddr
  <2>1. sends[i].addr \in Addr
    BY <1>5 DEF AgentInv, SendersArePeers, TypeOK
  <2> QED BY <2>1, CaseFacts DEF AgentInv
<1> DEFINE r == {<<SendAddr(s, sends[i].from), x, addr>> : x \in {ssrc, rtx} \ {NoSSRC}}
<1>8. r \in MeantBy(announced', <<k, p>>)
  <2> DEFINE l == <<s, sends[i].from, n>>
  <2>1. l \in DOMAIN announced /\ l[1] = s /\ l[2] = sends[i].from /\ announced[l] = announced[k]
    BY <1>6
  <2>2. k[1] = s /\ k[2] = q /\ k[3] = m /\ <<k, p>>[1] = k /\ <<k, p>>[2] = p
    OBVIOUS
  <2> HIDE DEF l, k
  <2> QED BY <1>1, <2>1, <2>2 DEF MeantBy
<1>9. /\ mediaMatches(st(i)) = {<<sends[i].addr, x>> : x \in {ssrc, rtx} \ {NoSSRC}}
      /\ st(i).dst = addr /\ st(i).src = sends[i].addr /\ st(i).rtcpSsrc = FeedbackSSRC
  <2>1. ssrc # NoSSRC
    BY <1>3
  <2> HIDE DEF ssrc, rtx, addr
  <2> QED BY <2>1 DEF mediaMatches
<1>10. Added(st(i), Addrs, TableSSRC)
  BY <1>3, <1>4, <1>7 DEF Added, Addrs, TableSSRC
<1> HIDE DEF st, addr, rtx, ssrc
<1>11. StreamAdded(sfu', sfu, st(i), Addrs, TableSSRC)
  BY <1>2, <1>10, AddStream DEF AgentInv
<1>12. \A x : x[1] # ZeroAddr /\ x[2] \in SSRC =>
         Dests(sfu', x) = Dests(sfu, x) \cup (IF x \in mediaMatches(st(i)) THEN {addr} ELSE {})
  BY <1>3, <1>9, <1>11 DEF StreamAdded
<1>13. \A t, x : Dests(t, x) # {} => x \in DOMAIN t
  BY DEF Dests
<1>14. \A f : f \in r <=> \E x \in mediaMatches(st(i)) : f = <<x[1], x[2], addr>>
  <2> DEFINE X == {ssrc, rtx} \ {NoSSRC}
             a == sends[i].addr
  <2>1. r = {<<a, x, addr>> : x \in X}
    BY <1>5
  <2>2. mediaMatches(st(i)) = {<<a, x>> : x \in X}
    BY <1>9
  <2> HIDE DEF X, a, r
  <2>3. \A x : <<a, x>>[1] = a /\ <<a, x>>[2] = x
    OBVIOUS
  <2>4. ASSUME NEW f \in r PROVE \E x \in mediaMatches(st(i)) : f = <<x[1], x[2], addr>>
    <3>1. PICK x \in X : f = <<a, x, addr>>
      BY <2>1, <2>4
    <3>2. <<a, x>> \in mediaMatches(st(i)) /\ f = <<<<a, x>>[1], <<a, x>>[2], addr>>
      BY <2>2, <2>3, <3>1
    <3> QED BY <3>2
  <2>5. ASSUME NEW x \in mediaMatches(st(i)) PROVE <<x[1], x[2], addr>> \in r
    <3>1. PICK y \in X : x = <<a, y>>
      BY <2>2, <2>5
    <3> QED BY <2>1, <2>3, <3>1
  <2> QED BY <2>4, <2>5
<1>15. \A x \in mediaMatches(st(i)) : x[1] # ZeroAddr /\ x[2] \in SSRC /\ x \in DOMAIN sfu'
  <2>1. \A x \in {ssrc, rtx} \ {NoSSRC} : x \in SSRC
    BY <1>3
  <2>2. mediaMatches(st(i)) \subseteq DOMAIN sfu'
    BY <1>11 DEF StreamAdded
  <2> QED BY <1>7, <1>9, <2>1, <2>2
<1> HIDE DEF r
<1>16. \A f : f \in MediaFlows' <=> f \in MediaFlows \/ f \in r
  <2>1. ASSUME NEW f \in MediaFlows' PROVE f \in MediaFlows \/ f \in r
    <3>1. PICK x \in DOMAIN sfu' : /\ x[1] # ZeroAddr /\ x[2] \in SSRC
                                   /\ \E to \in Dests(sfu', x) : f = <<x[1], x[2], to>>
      BY <1>1, FlowsAfter
    <3>2. PICK to \in Dests(sfu', x) : f = <<x[1], x[2], to>>
      BY <3>1
    <3>3. CASE to \in Dests(sfu, x)
      BY <1>13, <3>1, <3>2, <3>3, Flows
    <3>4. CASE to \notin Dests(sfu, x)
      <4>1. x \in mediaMatches(st(i)) /\ to = addr
        BY <1>12, <3>1, <3>2, <3>4
      <4> QED BY <1>14, <3>2, <4>1
    <3> QED BY <3>3, <3>4
  <2>2. ASSUME NEW f \in MediaFlows PROVE f \in MediaFlows'
    <3>1. PICK x \in DOMAIN sfu : /\ x[1] # ZeroAddr /\ x[2] \in SSRC
                                  /\ \E to \in Dests(sfu, x) : f = <<x[1], x[2], to>>
      BY Flows
    <3>2. PICK to \in Dests(sfu, x) : f = <<x[1], x[2], to>>
      BY <3>1
    <3>3. to \in Dests(sfu', x)
      BY <1>12, <3>1, <3>2
    <3>4. x \in DOMAIN sfu'
      BY <1>13, <3>3
    <3> QED BY <1>1, <3>1, <3>2, <3>3, <3>4, FlowsAfter
  <2>3. ASSUME NEW f \in r PROVE f \in MediaFlows'
    <3>1. PICK x \in mediaMatches(st(i)) : f = <<x[1], x[2], addr>>
      BY <1>14, <2>3
    <3>2. addr \in Dests(sfu', x) /\ x[1] # ZeroAddr /\ x[2] \in SSRC /\ x \in DOMAIN sfu'
      BY <1>12, <1>15, <3>1
    <3> QED BY <1>1, <3>1, <3>2, FlowsAfter
  <2> QED BY <2>1, <2>2, <2>3
<1>17. MediaFlows' = MediaFlows \cup r
  BY <1>16
<1> QED BY <1>8, <1>17 DEF k

\* Every step of the agent is a step of the abstract data plane, or none.
LEMMA RouterStep ==
    ASSUME AgentInv, AgentInv', [Next]_vars
    PROVE  [Router!Next]_(Router!vars)
<1> DEFINE Same == UNCHANGED <<up, asked, announced>> /\ MediaFlows' = MediaFlows
<1>1. ASSUME setting' = setting, Same PROVE Router!vars' = Router!vars
  <2>1. \A a : Meant(a)' = Meant(a)
    BY <1>1, Meanings
  <2>2. Requested' = Requested
    BY <1>1, <2>1 DEF Requested
  <2> QED BY <1>1, <2>2 DEF Router!vars, Requested
<1>2. ASSUME up, setting' = setting, asked \subseteq asked',
             DOMAIN announced \subseteq DOMAIN announced',
             \A k \in DOMAIN announced : announced'[k] = announced[k]
      PROVE  Router!Request
  <2>1. Requested' \in SUBSET Reqs /\ Requested \subseteq Requested'
    BY <1>2, RequestStep
  <2> QED BY <1>2, <2>1 DEF Router!Request, Requested, Reqs
<1>3. CASE UNCHANGED vars
  <2>1. setting' = setting /\ UNCHANGED <<up, asked, announced, sfu>>
    BY <1>3 DEF vars
  <2>2. MediaFlows' = MediaFlows
    BY <2>1, SameFlows
  <2> QED BY <1>1, <2>1, <2>2
<1>4. ASSUME NEW s \in SessionIds, NEW p \in PIds, NEW m \in Mids, NEW ssrc \in MainSSRCs,
             \/ SendStreamLost(s, p, m, ssrc)
             \/ OnAddSendStream(s, p, m, ssrc)
             \/ OnAddSendStreamThrows(s, p, m, ssrc)
      PROVE  Router!Next
  <2>1. /\ Announce(s, p, m, ssrc) /\ setting' = setting /\ asked' = asked
        /\ \/ up' = up
           \/ up' = FALSE
    BY <1>4 DEF SendStreamLost, OnAddSendStream, OnAddSendStreamThrows
  <2>2. /\ up /\ DOMAIN announced \subseteq DOMAIN announced'
        /\ \A k \in DOMAIN announced : announced'[k] = announced[k]
    BY <2>1, Announced DEF AgentInv
  <2>3. Router!Request
    BY <1>2, <2>1, <2>2
  <2>4. MediaFlows' = MediaFlows
    <3>1. CASE OnAddSendStream(s, p, m, ssrc)
      BY <3>1, SendStreamFlows
    <3>2. CASE ~OnAddSendStream(s, p, m, ssrc)
      <4>1. sfu' = sfu
        BY <1>4, <3>2 DEF SendStreamLost, OnAddSendStreamThrows
      <4> QED BY <2>1, <4>1, SameFlows
    <3> QED BY <3>1, <3>2
  <2> QED BY <2>1, <2>3, <2>4 DEF Router!Next, Router!AddStream, Router!Fail
<1>5. ASSUME NEW s \in SessionIds, NEW p \in PIds, NEW q \in PIds, NEW m \in Mids,
             OnAddReceiveStream(s, p, q, m)
      PROVE  Router!Next
  <2>1. /\ up /\ UNCHANGED <<setting, announced>> /\ asked' = asked \cup {<<<<s, q, m>>, p>>}
    BY <1>5 DEF OnAddReceiveStream
  <2>2. Router!Request
    BY <1>2, <2>1
  <2>3. CASE UNCHANGED sfu
    <3>1. MediaFlows' = MediaFlows
      BY <2>1, <2>3, SameFlows
    <3>2. up' = up \/ up' = FALSE
      BY <1>5 DEF OnAddReceiveStream
    <3> QED BY <2>2, <3>1, <3>2 DEF Router!Next, Router!AddStream, Router!Fail
  <2>4. CASE ~UNCHANGED sfu
    <3>1. PICK r \in MeantBy(announced', <<<<s, q, m>>, p>>) : MediaFlows' = MediaFlows \cup r
      BY <1>5, <2>4, ReceiveStreamFlows
    <3>2. up' = up
      BY <1>5, <2>4 DEF OnAddReceiveStream
    <3>3. r \in Requested'
      <4>1. <<<<s, q, m>>, p>> \in asked'
        BY <2>1
      <4>2. Requested' = UNION {MeantBy(announced', a) : a \in asked'}
        BY <2>1, Meanings DEF Requested
      <4> QED BY <3>1, <4>1, <4>2
    <3> QED BY <2>2, <3>1, <3>2, <3>3 DEF Router!Next, Router!AddStream, Requested
  <2> QED BY <2>3, <2>4
<1>6. ASSUME NEW s \in SessionIds, NEW p \in PIds,
             \/ \E q \in PIds, packet \in Compounds : OnRTCP(s, p, q, packet)
             \/ \E ssrc \in SSRC, t \in ApiTargets : OnAPISetDecodeTarget(s, ssrc, p, t)
      PROVE  Router!vars' = Router!vars
  <2>1. /\ UNCHANGED <<setting, up, announced, asked>> /\ DOMAIN sfu' = DOMAIN sfu
        /\ \A m \in DOMAIN sfu : Dests(sfu', m) = Dests(sfu, m)
    BY <1>6, OnRTCPInv, OnAPIInv
  <2>2. \A m : Dests(sfu', m) = Dests(sfu, m)
    BY <2>1 DEF Dests
  <2>3. MediaFlows' = MediaFlows
    BY <2>1, <2>2, SameFlows
  <2> QED BY <1>1, <2>1, <2>3
<1>7. ASSUME NEW addr \in Addr, OnSTUNBindingRequest(addr)
      PROVE  Router!vars' = Router!vars
  <2>1. UNCHANGED <<setting, up, announced, asked, sfu>>
    BY <1>7 DEF OnSTUNBindingRequest, envVars
  <2>2. MediaFlows' = MediaFlows
    BY <2>1, SameFlows
  <2> QED BY <1>1, <2>1, <2>2
<1>8. CASE Next
  BY <1>4, <1>5, <1>6, <1>7, <1>8 DEF Next
<1> QED BY <1>3, <1>8

\* The agent and its table start as the abstract data plane does.
LEMMA RouterInit == Init => Router!Init
<1> SUFFICES ASSUME Init PROVE Router!Init
  OBVIOUS
<1>1. MediaFlows = {}
  BY DEF Init, EmptyTable, MediaFlows
<1> QED BY <1>1 DEF Init, Router!Init

\* The agent with its table implements the abstract data plane of MediaRouter, for
\* any sessions, streams, estimates and targets: media goes only where it was asked
\* for, a stream and its retransmissions at once, and stays forwarded.
THEOREM ImplementsMediaRouterAlways == Spec => ImplementsMediaRouter
<1>1. AgentInv /\ AgentInv' /\ [Next]_vars => [Router!Next]_(Router!vars)
  BY RouterStep
<1> QED BY <1>1, RouterInit, AgentInvariant, PTL DEF Spec, ImplementsMediaRouter, Router!Spec

-----------------------------------------------------------------------------
(* Decode targets in the table *)

\* The decode targets in force for one receiver of the packets of a match.
InForceAt(t, n, to) ==
    {d \in DecodeTarget : n \in DOMAIN t /\ \E i \in DOMAIN t[n] :
        t[n][i].to = to /\ d \in (IF t[n][i].svc = {} THEN {MaxIdent} ELSE t[n][i].svc)}

\* It is what the data plane does.
LEMMA InForceIs ==
    ASSUME NEW A, NEW X, NEW t, Table(t, A, X), NEW from, NEW to, NEW ssrc,
           <<from, ssrc>> \in DOMAIN t
    PROVE  TargetInForce(t, from, to, ssrc) = InForceAt(t, <<from, ssrc>>, to)
<1> DEFINE s == t[<<from, ssrc>>]
           eff(i) == IF s[i].svc = {} THEN {MaxIdent} ELSE s[i].svc
<1>1. s \in Seq(Entry(A))
  BY DEF Table
<1>2. \A i \in DOMAIN s : s[i] \in Entry(A)
  <2> HIDE DEF s
  <2> QED BY <1>1
<1>3. \A i \in DOMAIN s : eff(i) \subseteq DecodeTarget
  <2> HIDE DEF s
  <2> QED BY <1>2 DEF Entry, DecodeTarget, MaxIdent
<1>4. TargetInForce(t, from, to, ssrc) = UNION {eff(i) : i \in {j \in DOMAIN s : s[j].to = to}}
  BY DEF TargetInForce
<1>5. InForceAt(t, <<from, ssrc>>, to) =
        {d \in DecodeTarget : \E i \in DOMAIN s : s[i].to = to /\ d \in eff(i)}
  BY DEF InForceAt
<1> HIDE DEF s, eff
<1> QED BY <1>3, <1>4, <1>5

\* Matches that are added have no targets.
LEMMA MatchTargets ==
    ASSUME NEW t, NEW ms, NEW n, NEW to
    PROVE  InForceAt(addMatches(t, ms), n, to) = InForceAt(t, n, to)
<1> DEFINE u == addMatches(t, ms)
<1>1. DOMAIN u = DOMAIN t \cup ms
        /\ \A m \in DOMAIN u : u[m] = IF m \in DOMAIN t THEN t[m] ELSE <<>>
  BY DEF addMatches, hasMatch
<1>2. DOMAIN <<>> = {}
  OBVIOUS
<1> HIDE DEF u
<1>3. CASE n \in DOMAIN t
  <2>1. n \in DOMAIN u /\ u[n] = t[n]
    BY <1>1, <1>3
  <2> QED BY <1>3, <2>1 DEF InForceAt, u
<1>4. CASE n \notin DOMAIN t
  <2>1. InForceAt(t, n, to) = {}
    BY <1>4 DEF InForceAt
  <2>2. n \in DOMAIN u => u[n] = <<>>
    BY <1>1, <1>4
  <2>3. InForceAt(u, n, to) = {}
    BY <1>2, <2>2 DEF InForceAt
  <2> QED BY <2>1, <2>3 DEF u
<1> QED BY <1>3, <1>4

\* A receiver that is added gets all layers, the targets of the others stay.
LEMMA ActionTargets ==
    ASSUME NEW A, NEW X, NEW t, Table(t, A, X), NEW m \in DOMAIN t, NEW a \in A, NEW n, NEW to
    PROVE  InForceAt(addAction(t, m, a), n, to) =
              IF n = m /\ to = a /\ a \notin Dests(t, m) THEN {MaxIdent} ELSE InForceAt(t, n, to)
<1> DEFINE s == t[m]
           u == addAction(t, m, a)
<1>0. s \in Seq(Entry(A))
  BY DEF Table
<1>1. CASE hasAction(s, a)
  <2>1. u = t /\ a \in Dests(t, m)
    BY <1>1 DEF addAction, hasAction, Dests
  <2> QED BY <2>1
<1>2. CASE ~hasAction(s, a)
  <2>1. u = [t EXCEPT ![m] = Append(s, Action(a))] /\ a \notin Dests(t, m)
    BY <1>2 DEF addAction, hasAction, Dests
  <2> DEFINE b == Append(s, Action(a))
  <2>2. Action(a) \in Entry(A) /\ Action(a).to = a /\ Action(a).svc = {}
    BY DEF Action, Entry
  <2>3. /\ DOMAIN b = DOMAIN s \cup {Len(s) + 1} /\ Len(s) + 1 \notin DOMAIN s
        /\ b[Len(s) + 1] = Action(a)
        /\ \A i \in DOMAIN s : b[i] = s[i]
    <3> HIDE DEF s
    <3>1. Len(b) = Len(s) + 1 /\ b \in Seq(Entry(A)) /\ b[Len(s) + 1] = Action(a)
            /\ \A i \in 1..Len(s) : b[i] = s[i]
      BY <1>0, <2>2, AppendProperties
    <3>2. DOMAIN b = 1..Len(b) /\ DOMAIN s = 1..Len(s) /\ Len(s) \in Nat
      BY <1>0, <3>1, LenProperties
    <3> QED BY <3>1, <3>2
  <2> HIDE DEF b
  <2>4. DOMAIN u = DOMAIN t /\ u[m] = b /\ \A k \in DOMAIN t : k # m => u[k] = t[k]
    BY <2>1 DEF b
  <2> HIDE DEF u
  <2>5. CASE n # m
    BY <2>4, <2>5 DEF InForceAt, u
  <2>6. CASE n = m /\ to # a
    <3> DEFINE P(i, q, d) == q[i].to = to /\ d \in (IF q[i].svc = {} THEN {MaxIdent} ELSE q[i].svc)
    <3>1. \A d : (\E i \in DOMAIN b : P(i, b, d)) <=> (\E i \in DOMAIN s : P(i, s, d))
      BY <2>2, <2>3, <2>6
    <3>2. InForceAt(u, n, to) = {d \in DecodeTarget : \E i \in DOMAIN b : P(i, b, d)}
      BY <2>4, <2>6 DEF InForceAt
    <3>3. InForceAt(t, n, to) = {d \in DecodeTarget : \E i \in DOMAIN s : P(i, s, d)}
      BY <2>6 DEF InForceAt
    <3> HIDE DEF P
    <3> QED BY <2>6, <3>1, <3>2, <3>3 DEF u
  <2>7. CASE n = m /\ to = a
    <3>1. \A i \in DOMAIN s : s[i].to # a
      BY <1>2 DEF hasAction
    <3>2. \A d : (\E i \in DOMAIN b : b[i].to = a
                    /\ d \in (IF b[i].svc = {} THEN {MaxIdent} ELSE b[i].svc)) <=> d = MaxIdent
      BY <2>2, <2>3, <3>1
    <3>3. InForceAt(u, n, to) = {MaxIdent}
      BY <2>4, <2>7, <3>2 DEF InForceAt, DecodeTarget, MaxIdent
    <3> QED BY <2>1, <2>7, <3>3 DEF u
  <2> QED BY <2>5, <2>6, <2>7
<1> QED BY <1>1, <1>2

\* The targets after addStream: the receiver gets all layers unless it was there.
LEMMA StreamTargets ==
    ASSUME NEW A, NEW X, NEW t, Table(t, A, X), NEW s, Added(s, A, X), NEW n, NEW to,
           n # <<s.dst, s.rtcpSsrc>>
    PROVE  InForceAt(addStream(t, s), n, to) =
              IF n \in mediaMatches(s) /\ to = s.dst /\ s.dst \notin Dests(t, n)
              THEN {MaxIdent} ELSE InForceAt(t, n, to)
<1> DEFINE media  == addMatches(t, mediaMatches(s))
           both   == addMatches(media, returnMatches(s))
           main   == addAction(both, <<s.src, s.ssrc>>, s.dst)
           return == addAction(main, <<s.dst, s.rtcpSsrc>>, s.src)
           rtx    == IF s.rtxSsrc # NoSSRC
                     THEN addAction(return, <<s.src, s.rtxSsrc>>, s.dst) ELSE return
<1>1. addStream(t, s) = rtx
  BY DEF addStream, Added, NoSSRC, FeedbackSSRC
<1>2. /\ Within(mediaMatches(s), A, X)
      /\ returnMatches(s) = {<<s.dst, s.rtcpSsrc>>}
      /\ Within(returnMatches(s), A, X)
  BY DEF Within, mediaMatches, returnMatches, Added
<1>3. /\ <<s.src, s.ssrc>> \in mediaMatches(s)
      /\ s.rtxSsrc # NoSSRC => mediaMatches(s) = {<<s.src, s.ssrc>>, <<s.src, s.rtxSsrc>>}
      /\ s.rtxSsrc = NoSSRC => mediaMatches(s) = {<<s.src, s.ssrc>>}
  BY DEF mediaMatches
<1>4. MatchesAdded(media, t, mediaMatches(s), A, X)
        /\ InForceAt(media, n, to) = InForceAt(t, n, to)
  BY <1>2, AddMatches, MatchTargets
<1> HIDE DEF media
<1>5. MatchesAdded(both, media, returnMatches(s), A, X)
        /\ InForceAt(both, n, to) = InForceAt(media, n, to)
  <2>1. Table(media, A, X)
    BY <1>4 DEF MatchesAdded
  <2> QED BY <1>2, <2>1, AddMatches, MatchTargets
<1> HIDE DEF both
<1>b. /\ Table(both, A, X)
      /\ DOMAIN both = DOMAIN t \cup mediaMatches(s) \cup {<<s.dst, s.rtcpSsrc>>}
      /\ \A m : Dests(both, m) = Dests(t, m)
      /\ InForceAt(both, n, to) = InForceAt(t, n, to)
  BY <1>2, <1>4, <1>5 DEF MatchesAdded
<1>a. s.src \in A /\ s.dst \in A
  BY DEF Added
<1>6. /\ ActionAdded(main, both, <<s.src, s.ssrc>>, s.dst, A, X)
      /\ InForceAt(main, n, to) =
            IF n = <<s.src, s.ssrc>> /\ to = s.dst /\ s.dst \notin Dests(both, <<s.src, s.ssrc>>)
            THEN {MaxIdent} ELSE InForceAt(both, n, to)
  <2>1. <<s.src, s.ssrc>> \in DOMAIN both
    BY <1>3, <1>b
  <2>2. ActionAdded(main, both, <<s.src, s.ssrc>>, s.dst, A, X)
    BY <1>b, <1>a, <2>1, AddAction
  <2>3. InForceAt(main, n, to) =
          IF n = <<s.src, s.ssrc>> /\ to = s.dst /\ s.dst \notin Dests(both, <<s.src, s.ssrc>>)
          THEN {MaxIdent} ELSE InForceAt(both, n, to)
    BY <1>b, <1>a, <2>1, ActionTargets
  <2> QED BY <2>2, <2>3
<1> HIDE DEF main
<1>7. /\ ActionAdded(return, main, <<s.dst, s.rtcpSsrc>>, s.src, A, X)
      /\ InForceAt(return, n, to) = InForceAt(main, n, to)
  <2>1. <<s.dst, s.rtcpSsrc>> \in DOMAIN main /\ Table(main, A, X)
    BY <1>b, <1>6 DEF ActionAdded
  <2> QED BY <1>a, <2>1, AddAction, ActionTargets
<1> HIDE DEF return
<1>c. /\ DOMAIN return = DOMAIN both /\ Table(return, A, X)
      /\ Dests(return, n) = Dests(main, n)
  BY <1>6, <1>7 DEF ActionAdded
<1>d. Dests(main, n) = IF n = <<s.src, s.ssrc>> THEN Dests(t, n) \cup {s.dst} ELSE Dests(t, n)
  BY <1>b, <1>6 DEF ActionAdded
<1>8. CASE s.rtxSsrc # NoSSRC
  <2>1. <<s.src, s.rtxSsrc>> \in DOMAIN return
    BY <1>3, <1>b, <1>c, <1>8
  <2>2. rtx = addAction(return, <<s.src, s.rtxSsrc>>, s.dst)
    BY <1>8
  <2> HIDE DEF rtx
  <2>3. InForceAt(rtx, n, to) =
          IF n = <<s.src, s.rtxSsrc>> /\ to = s.dst /\ s.dst \notin Dests(return, <<s.src, s.rtxSsrc>>)
          THEN {MaxIdent} ELSE InForceAt(return, n, to)
    BY <1>a, <1>c, <2>1, <2>2, ActionTargets
  <2> QED BY <1>1, <1>3, <1>b, <1>6, <1>7, <1>8, <1>c, <1>d, <2>3
<1>9. CASE s.rtxSsrc = NoSSRC
  <2>1. rtx = return
    BY <1>9
  <2> HIDE DEF rtx
  <2> QED BY <1>1, <1>3, <1>b, <1>6, <1>7, <1>9, <2>1
<1> QED BY <1>8, <1>9

\* A target that is set is in force, for that receiver of that stream only.
LEMMA TargetSet ==
    ASSUME NEW A, NEW X, NEW t, Table(t, A, X), NEW from, NEW a, NEW ssrc,
           NEW d \in DecodeTarget, NEW n, NEW to
    PROVE  InForceAt(adjustDecodeTarget(t, from, a, ssrc, d), n, to) =
              IF n = <<from, ssrc>> /\ to = a /\ a \in Dests(t, n) THEN {d} ELSE InForceAt(t, n, to)
<1> DEFINE m == <<from, ssrc>>
           s == t[m]
           b == [i \in DOMAIN s |-> IF s[i].to = a THEN retargeted(s[i], d) ELSE s[i]]
           u == adjustDecodeTarget(t, from, a, ssrc, d)
<1>1. CASE m \notin DOMAIN t
  <2>1. u = t /\ Dests(t, m) = {}
    BY <1>1 DEF adjustDecodeTarget, hasMatch, Dests
  <2> QED BY <2>1
<1>2. CASE m \in DOMAIN t
  <2>1. u = [t EXCEPT ![m] = b]
    BY <1>2 DEF adjustDecodeTarget, hasMatch
  <2>2. s \in Seq(Entry(A))
    BY <1>2 DEF Table
  <2>3. \A i \in DOMAIN s : s[i] \in Entry(A)
    <3> HIDE DEF s
    <3> QED BY <2>2
  <2>4. \A r \in Entry(A) : retargeted(r, d).to = r.to /\ retargeted(r, d).svc = {d}
    BY DEF retargeted, Entry, DecodeTarget, MaxIdent
  <2>5. /\ DOMAIN b = DOMAIN s
        /\ \A i \in DOMAIN s : /\ b[i].to = s[i].to
                               /\ s[i].to = a => b[i].svc = {d}
                               /\ s[i].to # a => b[i] = s[i]
    BY <2>3, <2>4
  <2> HIDE DEF b
  <2>6. DOMAIN u = DOMAIN t /\ u[m] = b /\ \A k \in DOMAIN t : k # m => u[k] = t[k]
    BY <1>2, <2>1
  <2> HIDE DEF u
  <2>7. CASE n # m
    BY <2>6, <2>7 DEF InForceAt, u
  <2>8. CASE n = m /\ to # a
    <3> DEFINE P(i, q, e) == q[i].to = to /\ e \in (IF q[i].svc = {} THEN {MaxIdent} ELSE q[i].svc)
    <3>1. \A e : (\E i \in DOMAIN b : P(i, b, e)) <=> (\E i \in DOMAIN s : P(i, s, e))
      <4> HIDE DEF s, m
      <4>1. ASSUME NEW e, NEW i \in DOMAIN s PROVE P(i, b, e) <=> P(i, s, e)
        <5>1. CASE s[i].to = a
          <6>1. b[i].to = a
            BY <2>5, <5>1
          <6> QED BY <2>8, <5>1, <6>1
        <5>2. CASE s[i].to # a
          <6>1. b[i] = s[i]
            BY <2>5, <5>2
          <6> QED BY <6>1
        <5> QED BY <5>1, <5>2
      <4> QED BY <2>5, <4>1
    <3>2. InForceAt(u, n, to) = {e \in DecodeTarget : \E i \in DOMAIN b : P(i, b, e)}
      BY <1>2, <2>6, <2>8 DEF InForceAt
    <3>3. InForceAt(t, n, to) = {e \in DecodeTarget : \E i \in DOMAIN s : P(i, s, e)}
      BY <1>2, <2>8 DEF InForceAt
    <3> HIDE DEF P
    <3> QED BY <2>8, <3>1, <3>2, <3>3 DEF u
  <2>9. CASE n = m /\ to = a
    <3>1. a \in Dests(t, n) <=> \E i \in DOMAIN s : s[i].to = a
      BY <1>2, <2>9 DEF Dests
    <3>2. \A e : (\E i \in DOMAIN b : b[i].to = a
                    /\ e \in (IF b[i].svc = {} THEN {MaxIdent} ELSE b[i].svc))
                 <=> e = d /\ \E i \in DOMAIN s : s[i].to = a
      <4> HIDE DEF s, m
      <4>1. ASSUME NEW e, NEW i \in DOMAIN s
            PROVE  b[i].to = a /\ e \in (IF b[i].svc = {} THEN {MaxIdent} ELSE b[i].svc)
                   <=> s[i].to = a /\ e = d
        <5>1. b[i].to = s[i].to
          BY <2>5
        <5>2. s[i].to = a => b[i].svc = {d}
          BY <2>5
        <5> QED BY <5>1, <5>2
      <4> QED BY <2>5, <4>1
    <3>3. InForceAt(u, n, to) = IF a \in Dests(t, n) THEN {d} ELSE {}
      BY <1>2, <2>6, <2>9, <3>1, <3>2 DEF InForceAt
    <3>4. a \notin Dests(t, n) => InForceAt(t, n, to) = {}
      BY <2>9, <3>1 DEF InForceAt
    <3> QED BY <2>9, <3>3, <3>4 DEF u
  <2> QED BY <2>7, <2>8, <2>9
<1> QED BY <1>1, <1>2

-----------------------------------------------------------------------------
(* The ways of media and feedback *)

\* Send streams are told apart by session and SSRC.
SendsAgree ==
    \A i, k \in DOMAIN sends :
        sends[i].sid = sends[k].sid /\ sends[i].ssrc = sends[k].ssrc => sends[i] = sends[k]

\* The receive stream r comes from the send stream ss.
SameStream(r, ss) ==
    r.sid = ss.sid /\ r.ssrc = ss.ssrc /\ r.from = ss.from /\ r.video = ss.video /\ r.rtx = ss.rtx

\* Every receive stream has its send stream and an address in its session.
RecvsSent ==
    \A j \in DOMAIN recvs : /\ recvs[j].addr[1] = recvs[j].sid
                            /\ \E k \in DOMAIN sends : SameStream(recvs[j], sends[k])

\* The match of the media of a receive stream.
MediaOf(r) == <<SendAddr(r.sid, r.from), r.ssrc>>

\* The receive stream r was asked for, and media and feedback have their way.
Placed(r) ==
    /\ r.addr = RecvAddr(r.sid, r.to, r.from)
    /\ \E m \in Mids : /\ <<<<r.sid, r.from, m>>, r.to>> \in asked
                       /\ From(announced, VideoMids, r, m)
    /\ r.addr \in Dests(sfu, MediaOf(r))
    /\ SendAddr(r.sid, r.from) \in Dests(sfu, <<r.addr, FeedbackSSRC>>)

\* In the session s the targets of the streams rs are those in force in the table t.
TargetsIn(s, rs, t) ==
    \A j \in DOMAIN recvs :
        recvs[j].sid = s /\ recvs[j].video /\ ~recvs[j].rtx =>
            InForceAt(t, MediaOf(recvs[j]), recvs[j].addr) = {rs[j].target}

\* In the session s streams are told apart by receiver and SSRC, have their ways, and
\* nothing else is forwarded.
Ways(s) ==
    /\ \A j \in DOMAIN recvs : recvs[j].sid = s => Placed(recvs[j])
    /\ \A i, j \in DOMAIN recvs :
          recvs[i].sid = s /\ recvs[j].sid = s /\ recvs[i].ssrc = recvs[j].ssrc
            /\ recvs[i].to = recvs[j].to => i = j
    /\ \A p, q \in PIds : Dests(sfu, <<RecvAddr(s, p, q), FeedbackSSRC>>) \subseteq {SendAddr(s, q)}
    /\ \A p, q \in PIds, n \in SSRC :
          RecvAddr(s, p, q) \in Dests(sfu, <<SendAddr(s, q), n>>) =>
              \E j \in DOMAIN recvs : recvs[j].sid = s /\ recvs[j].to = p /\ recvs[j].ssrc = n
    /\ TargetsIn(s, recvs, sfu)

\* The inductive invariant of ways and targets.
WaysInv ==
    SendsAgree /\ RecvsSent /\ \A s \in SessionIds : ~Collision(s) => Ways(s)

\* Sessions and addresses of the streams.
LEMMA StreamFacts ==
    ASSUME AgentInv
    PROVE  /\ \A j \in DOMAIN recvs : recvs[j] \in ReceiveStream
           /\ \A i \in DOMAIN sends : sends[i] \in SendStream
           /\ \A s \in SessionIds, p, q \in PIds : SendAddr(s, p) \in Addr /\ RecvAddr(s, p, q) \in Addr
           /\ FeedbackSSRC \notin SSRC /\ NoSSRC \notin SSRC /\ ZeroAddr \notin Addr
<1>1. /\ \A j \in DOMAIN recvs : recvs[j] \in ReceiveStream
      /\ \A i \in DOMAIN sends : sends[i] \in SendStream
  BY DEF AgentInv, TypeOK
<1>2. \A s \in SessionIds, p, q \in PIds : SendAddr(s, p) \in Addr /\ RecvAddr(s, p, q) \in Addr
  BY DEF SendAddr, RecvAddr, Addr
<1>3. FeedbackSSRC \notin SSRC /\ NoSSRC \notin SSRC
  BY Parity DEF AgentInv
<1> QED BY <1>1, <1>2, <1>3, CaseFacts DEF AgentInv

\* A step that leaves the streams of the session x and its part of the table as they are.
LEMMA WaysKept ==
    ASSUME AgentInv, NEW x \in SessionIds, Ways(x), setting' = setting, asked \subseteq asked',
           \A r, m : From(announced, VideoMids, r, m) => From(announced', VideoMids, r, m),
           DOMAIN recvs \subseteq DOMAIN recvs', \A j \in DOMAIN recvs : recvs'[j] = recvs[j],
           \A j \in DOMAIN recvs' : recvs'[j].sid = x => j \in DOMAIN recvs,
           \A p, q \in PIds, n \in SSRC \cup {FeedbackSSRC} : \A to :
              /\ Dests(sfu', <<<<x, p, q>>, n>>) = Dests(sfu, <<<<x, p, q>>, n>>)
              /\ InForceAt(sfu', <<<<x, p, q>>, n>>, to) = InForceAt(sfu, <<<<x, p, q>>, n>>, to)
    PROVE  Ways(x)'
<1>1. \A j \in DOMAIN recvs : recvs[j] \in ReceiveStream
  BY StreamFacts
<1>2. PIds' = PIds /\ SSRC' = SSRC /\ Mids' = Mids /\ VideoMids' = VideoMids
  BY CaseKept
<1>3. ASSUME NEW j \in DOMAIN recvs', recvs'[j].sid = x
      PROVE  /\ j \in DOMAIN recvs /\ recvs[j].sid = x /\ recvs'[j] = recvs[j]
             /\ recvs[j].from \in PIds /\ recvs[j].to \in PIds /\ recvs[j].ssrc \in SSRC
  BY <1>1, <1>3 DEF ReceiveStream
<1>4. ASSUME NEW j \in DOMAIN recvs', recvs'[j].sid = x
      PROVE  Placed(recvs[j])'
  <2> DEFINE r == recvs[j]
  <2>1. /\ j \in DOMAIN recvs /\ r.sid = x /\ recvs'[j] = r
        /\ r.from \in PIds /\ r.to \in PIds /\ r.ssrc \in SSRC
    BY <1>3, <1>4
  <2>2. Placed(r)
    BY <2>1 DEF Ways
  <2> HIDE DEF r
  <2>3. /\ Dests(sfu', MediaOf(r)) = Dests(sfu, MediaOf(r))
        /\ Dests(sfu', <<r.addr, FeedbackSSRC>>) = Dests(sfu, <<r.addr, FeedbackSSRC>>)
    BY <2>1, <2>2 DEF MediaOf, SendAddr, Placed, RecvAddr
  <2>4. \E m \in Mids' : /\ <<<<r.sid, r.from, m>>, r.to>> \in asked'
                         /\ From(announced', VideoMids', r, m)
    BY <1>2, <2>2 DEF Placed
  <2>5. /\ r.addr = RecvAddr(r.sid, r.to, r.from)
        /\ r.addr \in Dests(sfu', MediaOf(r))
        /\ SendAddr(r.sid, r.from) \in Dests(sfu', <<r.addr, FeedbackSSRC>>)
    BY <2>2, <2>3 DEF Placed
  <2> QED BY <2>1, <2>4, <2>5 DEF Placed, MediaOf, SendAddr, RecvAddr, From
<1>5. ASSUME NEW i \in DOMAIN recvs', NEW j \in DOMAIN recvs',
             recvs'[i].sid = x, recvs'[j].sid = x, recvs'[i].ssrc = recvs'[j].ssrc,
             recvs'[i].to = recvs'[j].to
      PROVE  i = j
  BY <1>3, <1>5 DEF Ways
<1>6. ASSUME NEW p \in PIds, NEW q \in PIds
      PROVE  /\ Dests(sfu', <<RecvAddr(x, p, q), FeedbackSSRC>>) \subseteq {SendAddr(x, q)}
             /\ \A n \in SSRC : RecvAddr(x, p, q) \in Dests(sfu', <<SendAddr(x, q), n>>) =>
                   \E j \in DOMAIN recvs' :
                      recvs'[j].sid = x /\ recvs'[j].to = p /\ recvs'[j].ssrc = n
  <2>1. /\ Dests(sfu, <<RecvAddr(x, p, q), FeedbackSSRC>>) \subseteq {SendAddr(x, q)}
        /\ \A n \in SSRC : RecvAddr(x, p, q) \in Dests(sfu, <<SendAddr(x, q), n>>) =>
              \E j \in DOMAIN recvs :
                 recvs[j].sid = x /\ recvs[j].to = p /\ recvs[j].ssrc = n
    BY DEF Ways
  <2>2. /\ Dests(sfu', <<RecvAddr(x, p, q), FeedbackSSRC>>)
             = Dests(sfu, <<RecvAddr(x, p, q), FeedbackSSRC>>)
        /\ \A n \in SSRC :
              Dests(sfu', <<SendAddr(x, q), n>>) = Dests(sfu, <<SendAddr(x, q), n>>)
    BY DEF RecvAddr, SendAddr
  <2> QED BY <2>1, <2>2
<1>7. ASSUME NEW j \in DOMAIN recvs', recvs'[j].sid = x, recvs'[j].video, ~recvs'[j].rtx
      PROVE  InForceAt(sfu', MediaOf(recvs'[j]), recvs'[j].addr) = {recvs'[j].target}
  <2>1. InForceAt(sfu, MediaOf(recvs[j]), recvs[j].addr) = {recvs[j].target}
    BY <1>3, <1>7 DEF Ways, TargetsIn
  <2>2. InForceAt(sfu', MediaOf(recvs[j]), recvs[j].addr)
          = InForceAt(sfu, MediaOf(recvs[j]), recvs[j].addr)
    BY <1>3, <1>7 DEF MediaOf, SendAddr
  <2> QED BY <1>3, <1>7, <2>1, <2>2
<1>8. TargetsIn(x, recvs, sfu)'
  BY <1>7 DEF TargetsIn, MediaOf, SendAddr
<1> QED BY <1>2, <1>4, <1>5, <1>6, <1>8 DEF Ways, SendAddr, RecvAddr

\* A step that changes decode targets only.
LEMMA WaysTargets ==
    ASSUME AgentInv, WaysInv, UNCHANGED <<setting, announced, asked, sends>>,
           DOMAIN recvs' = DOMAIN recvs,
           \A j \in DOMAIN recvs : \E d \in DecodeTarget : recvs'[j] = [recvs[j] EXCEPT !.target = d],
           \A n : Dests(sfu', n) = Dests(sfu, n),
           \A s \in SessionIds : ~Collision(s) => TargetsIn(s, recvs', sfu')
    PROVE  WaysInv'
<1>1. \A j \in DOMAIN recvs : recvs[j] \in ReceiveStream
  BY StreamFacts
<1>2. /\ SessionIds' = SessionIds /\ PIds' = PIds /\ SSRC' = SSRC /\ Mids' = Mids
      /\ VideoMids' = VideoMids
  BY CaseKept
<1>3. \A j \in DOMAIN recvs :
         /\ recvs'[j].sid = recvs[j].sid /\ recvs'[j].from = recvs[j].from
         /\ recvs'[j].to = recvs[j].to /\ recvs'[j].addr = recvs[j].addr
         /\ recvs'[j].ssrc = recvs[j].ssrc /\ recvs'[j].video = recvs[j].video
         /\ recvs'[j].rtx = recvs[j].rtx
  BY <1>1 DEF ReceiveStream
<1>4. SendsAgree'
  BY DEF WaysInv, SendsAgree
<1>5. RecvsSent'
  BY <1>3 DEF WaysInv, RecvsSent, SameStream
<1>6. ASSUME NEW s \in SessionIds, ~Collision(s)
      PROVE  Ways(s)'
  <2>1. Ways(s)
    BY <1>6 DEF WaysInv
  <2>2. ASSUME NEW j \in DOMAIN recvs, recvs[j].sid = s PROVE Placed(recvs[j])'
    <3>1. Placed(recvs[j])
      BY <2>1, <2>2 DEF Ways
    <3> QED BY <1>2, <1>3, <3>1 DEF Placed, MediaOf, SendAddr, RecvAddr, From
  <2>3. TargetsIn(s, recvs, sfu)'
    BY <1>3, <1>6 DEF TargetsIn, MediaOf, SendAddr
  <2> QED BY <1>2, <1>3, <2>1, <2>2, <2>3 DEF Ways, SendAddr, RecvAddr
<1>7. \A s : Collision(s)' <=> Collision(s)
  BY DEF Collision
<1> QED BY <1>2, <1>4, <1>5, <1>6, <1>7 DEF WaysInv

-----------------------------------------------------------------------------
(* Send streams *)

\* A step that announces a stream, lost or not.
LEMMA WaysAnnounced ==
    ASSUME AgentInv, WaysInv, UNCHANGED <<setting, asked, recvs>>,
           DOMAIN announced \subseteq DOMAIN announced',
           \A k \in DOMAIN announced : announced'[k] = announced[k],
           DOMAIN sends \subseteq DOMAIN sends', \A i \in DOMAIN sends : sends'[i] = sends[i],
           SendsAgree',
           \A a \in Addr, n \in SSRC \cup {FeedbackSSRC} : \A to :
              /\ Dests(sfu', <<a, n>>) = Dests(sfu, <<a, n>>)
              /\ InForceAt(sfu', <<a, n>>, to) = InForceAt(sfu, <<a, n>>, to)
    PROVE  WaysInv'
<1>1. /\ \A r, m : From(announced, VideoMids, r, m) => From(announced', VideoMids, r, m)
      /\ \A x : Collision(x) => Collision(x)'
  BY AnnouncedKept
<1>2. RecvsSent'
  BY DEF WaysInv, RecvsSent, SameStream
<1>3. ASSUME NEW x \in SessionIds, ~Collision(x) PROVE Ways(x)'
  <2>1. Ways(x)
    BY <1>3 DEF WaysInv
  <2>2. \A p, q \in PIds : <<x, p, q>> \in Addr
    BY DEF Addr
  <2> QED BY <1>1, <2>1, <2>2, WaysKept
<1>4. SessionIds' = SessionIds
  BY CaseKept
<1> QED BY <1>1, <1>2, <1>3, <1>4 DEF WaysInv

\* A send stream that is added has an SSRC of its own.
LEMMA WaysSendStream ==
    ASSUME AgentInv, WaysInv, NEW s \in SessionIds, NEW p \in PIds, NEW m \in Mids,
           NEW ssrc \in MainSSRCs, OnAddSendStream(s, p, m, ssrc)
    PROVE  WaysInv'
<1> DEFINE dst == SendAddr(s, p)
           st == [src |-> ZeroAddr, dst |-> dst, ssrc |-> ssrc, rtxSsrc |-> RtxOf(ssrc, m),
                  rtcpSsrc |-> NoSSRC, rtcpRtxSsrc |-> NoSSRC]
           new(n, r) == [sid |-> s, from |-> p, addr |-> dst, ssrc |-> n,
                         video |-> m \in VideoMids, rtx |-> r]
           xs == IF m \in VideoMids THEN {new(ssrc, FALSE), new(ssrc + 1, TRUE)}
                 ELSE {new(ssrc, FALSE)}
<1>1. /\ Announce(s, p, m, ssrc) /\ sfu' = addStream(sfu, st)
      /\ ~addSendStreamThrows(s, m, ssrc)
      /\ UNCHANGED <<setting, asked, recvs>>
  BY DEF OnAddSendStream
<1>2. /\ Longer(sends', sends, xs) /\ Added(st, Addrs, TableSSRC)
      /\ StreamAdded(sfu', sfu, st, Addrs, TableSSRC)
  BY SendStreamAdded
<1>3. /\ DOMAIN announced' = DOMAIN announced \cup {<<s, p, m>>}
      /\ \A k \in DOMAIN announced : announced'[k] = announced[k]
  BY <1>1, Announced DEF AgentInv
<1>4. ssrc \in Nat /\ ssrc # ssrc + 1
  BY Parity DEF AgentInv
<1>5. /\ getSendStream(s, ssrc) = {}
      /\ m \in VideoMids => getSendStream(s, ssrc + 1) = {}
  BY <1>1 DEF addSendStreamThrows, RtxOf
<1>6. /\ \A x \in xs : x.sid = s /\ (x.ssrc = ssrc \/ (m \in VideoMids /\ x.ssrc = ssrc + 1))
      /\ \A x, y \in xs : x.ssrc = y.ssrc => x = y
  <2> DEFINE main == new(ssrc, FALSE)
             rtx  == new(ssrc + 1, TRUE)
  <2>1. main.sid = s /\ main.ssrc = ssrc /\ rtx.sid = s /\ rtx.ssrc = ssrc + 1
    OBVIOUS
  <2>2. CASE m \in VideoMids
    <3>1. xs = {main, rtx}
      BY <2>2
    <3> HIDE DEF xs, main, rtx
    <3> QED BY <1>4, <2>1, <2>2, <3>1
  <2>3. CASE m \notin VideoMids
    <3>1. xs = {main}
      BY <2>3
    <3> HIDE DEF xs, main, rtx
    <3> QED BY <2>1, <3>1
  <2> QED BY <2>2, <2>3
<1> HIDE DEF xs
<1>8. SendsAgree'
  <2>1. ASSUME NEW i \in DOMAIN sends', NEW k \in DOMAIN sends',
               sends'[i].sid = sends'[k].sid, sends'[i].ssrc = sends'[k].ssrc
        PROVE  sends'[i] = sends'[k]
    <3>1. \A l \in DOMAIN sends' : IF l \in DOMAIN sends THEN sends'[l] = sends[l]
                                   ELSE sends'[l] \in xs
      BY <1>2 DEF Longer
    <3>2. CASE i \in DOMAIN sends /\ k \in DOMAIN sends
      BY <2>1, <3>1, <3>2 DEF WaysInv, SendsAgree
    <3>3. CASE i \notin DOMAIN sends /\ k \notin DOMAIN sends
      BY <1>6, <2>1, <3>1, <3>3
    <3>4. ASSUME NEW l \in DOMAIN sends, NEW x \in xs, sends[l].sid = x.sid, sends[l].ssrc = x.ssrc
          PROVE  FALSE
      BY <1>5, <1>6, <3>4 DEF getSendStream
    <3> QED BY <2>1, <3>1, <3>2, <3>3, <3>4
  <2> QED BY <2>1 DEF SendsAgree
<1>9. ASSUME NEW a \in Addr, NEW n \in SSRC \cup {FeedbackSSRC}, NEW to
      PROVE  /\ Dests(sfu', <<a, n>>) = Dests(sfu, <<a, n>>)
             /\ InForceAt(sfu', <<a, n>>, to) = InForceAt(sfu, <<a, n>>, to)
  <2>1. n # NoSSRC /\ a # ZeroAddr
    BY StreamFacts DEF NoSSRC, FeedbackSSRC
  <2>2. st.src = ZeroAddr /\ st.rtcpSsrc = NoSSRC
    OBVIOUS
  <2> HIDE DEF st
  <2>3. <<a, n>> \notin mediaMatches(st) /\ <<a, n>> # <<st.dst, st.rtcpSsrc>>
    BY <2>1, <2>2 DEF mediaMatches
  <2>4. InForceAt(addStream(sfu, st), <<a, n>>, to) = InForceAt(sfu, <<a, n>>, to)
    BY <1>2, <2>3, StreamTargets DEF AgentInv
  <2> QED BY <1>1, <1>2, <2>3, <2>4 DEF StreamAdded
<1> QED BY <1>1, <1>2, <1>3, <1>8, <1>9, WaysAnnounced DEF Longer

-----------------------------------------------------------------------------
(* Estimates and targets *)

\* A target that is set for one receive stream, and stored for it.
LEMMA TargetStored ==
    ASSUME AgentInv, WaysInv, NEW x \in SessionIds, ~Collision(x),
           NEW st \in Estimated, TargetsIn(x, st.recvs, st.sfu),
           NEW i \in DOMAIN recvs, NEW j \in DOMAIN recvs, recvs[i].sid = recvs[j].sid,
           recvs[j].sid = x => i = j,
           NEW d \in DecodeTarget, Adjustable(j, d),
           NEW rs, rs[i].target = d, rs[j].target = d,
           \A l \in DOMAIN recvs : l # i /\ l # j => rs[l] = st.recvs[l]
    PROVE  TargetsIn(x, rs, Adjusted(st.sfu, j, d))
<1> DEFINE c == CHOOSE k \in getSendStream(recvs[j].sid, recvs[j].ssrc) : TRUE
           ss == sends[c]
           t == Adjusted(st.sfu, j, d)
<1>1. c \in getSendStream(recvs[j].sid, recvs[j].ssrc)
  BY DEF Adjustable
<1>2. t = adjustDecodeTarget(st.sfu, ss.addr, recvs[j].addr, ss.ssrc, d)
  BY DEF Adjusted
<1> HIDE DEF c
<1>3. c \in DOMAIN sends /\ ss.sid = recvs[j].sid /\ ss.ssrc = recvs[j].ssrc
  BY <1>1 DEF getSendStream
<1>4. ss.addr = SendAddr(ss.sid, ss.from) /\ ss.from = recvs[j].from
  <2>1. PICK k \in DOMAIN sends : SameStream(recvs[j], sends[k])
    BY DEF WaysInv, RecvsSent
  <2>2. sends[k] = ss
    BY <1>3, <2>1 DEF WaysInv, SendsAgree, SameStream
  <2> QED BY <1>3, <2>1, <2>2 DEF AgentInv, SendsAnnounced, SameStream
<1> HIDE DEF ss, t
<1>5. <<ss.addr, ss.ssrc>> = MediaOf(recvs[j])
  BY <1>3, <1>4 DEF MediaOf
<1>6. Table(st.sfu, Addrs, TableSSRC)
  BY AgentStreams, EstimatedTable
<1>7. ASSUME NEW n, NEW to
      PROVE  InForceAt(t, n, to) =
                IF n = MediaOf(recvs[j]) /\ to = recvs[j].addr /\ recvs[j].addr \in Dests(st.sfu, n)
                THEN {d} ELSE InForceAt(st.sfu, n, to)
  BY <1>2, <1>5, <1>6, TargetSet
<1>8. ASSUME NEW l \in DOMAIN recvs, recvs[l].sid = x, recvs[l].video, ~recvs[l].rtx
      PROVE  InForceAt(t, MediaOf(recvs[l]), recvs[l].addr) = {rs[l].target}
  <2>0. Ways(x)
    BY DEF WaysInv
  <2>1. Placed(recvs[l])
    BY <1>8, <2>0 DEF Ways
  <2>2. InForceAt(st.sfu, MediaOf(recvs[l]), recvs[l].addr) = {st.recvs[l].target}
    BY <1>8 DEF TargetsIn
  <2>3. CASE l = j
    <3>1. recvs[j].addr \in Dests(sfu, MediaOf(recvs[j]))
      BY <2>1, <2>3 DEF Placed
    <3>2. Dests(sfu, MediaOf(recvs[j])) = Dests(st.sfu, MediaOf(recvs[j]))
      BY DEF Estimated, Dests
    <3> QED BY <1>7, <2>3, <3>1, <3>2
  <2>4. CASE l # j /\ recvs[j].sid = x
    <3>1. Placed(recvs[j])
      BY <2>0, <2>4 DEF Ways
    <3>2. ~(MediaOf(recvs[l]) = MediaOf(recvs[j]) /\ recvs[l].addr = recvs[j].addr)
      <4> SUFFICES ASSUME MediaOf(recvs[l]) = MediaOf(recvs[j]), recvs[l].addr = recvs[j].addr
                   PROVE  FALSE
        OBVIOUS
      <4>1. recvs[l].ssrc = recvs[j].ssrc
        BY DEF MediaOf
      <4>2. recvs[l].to = recvs[j].to
        <5>1. /\ recvs[l].addr = <<recvs[l].sid, recvs[l].to, recvs[l].from>>
              /\ recvs[j].addr = <<recvs[j].sid, recvs[j].to, recvs[j].from>>
          BY <2>1, <3>1 DEF Placed, RecvAddr
        <5>2. \A a, b, e, f, g, h : <<a, b, e>> = <<f, g, h>> => b = g
          OBVIOUS
        <5>3. <<recvs[l].sid, recvs[l].to, recvs[l].from>>
                = <<recvs[j].sid, recvs[j].to, recvs[j].from>>
          BY <5>1, Zenon
        <5> QED BY <5>2, <5>3, Zenon
      <4> QED BY <1>8, <2>0, <2>4, <4>1, <4>2 DEF Ways
    <3> QED BY <1>7, <2>2, <2>4, <3>2
  <2>5. CASE recvs[j].sid # x
    <3>1. l # i /\ l # j
      BY <1>8, <2>5
    <3>2. MediaOf(recvs[l]) # MediaOf(recvs[j])
      BY <1>8, <2>5 DEF MediaOf, SendAddr
    <3> QED BY <1>7, <2>2, <3>1, <3>2
  <2> QED BY <2>3, <2>4, <2>5
<1> QED BY <1>8 DEF TargetsIn, t

\* The states that estimates lead to keep the targets of the session x in force.
InForceIn(x) == {st \in Estimated : TargetsIn(x, st.recvs, st.sfu)}

\* One SSRC of an estimate: the stream that is found by address and the one that is
\* found by participant are the same.
LEMMA EstimateStored ==
    ASSUME AgentInv, WaysInv, NEW x \in SessionIds, ~Collision(x), NEW st \in InForceIn(x),
           NEW addr, NEW ssrc, NEW d \in DecodeTarget
    PROVE  processEstimate(st, addr, ssrc, d) \in InForceIn(x)
<1> DEFINE i == CHOOSE n \in getReceiveStreamAt(addr, ssrc) : TRUE
           j == CHOOSE n \in getReceiveStream(recvs[i].sid, ssrc, recvs[i].to) : TRUE
           e == processEstimate(st, addr, ssrc, d)
<1>1. st \in Estimated /\ TargetsIn(x, st.recvs, st.sfu)
  BY DEF InForceIn
<1>2. e \in Estimated
  BY <1>1, AgentStreams, ProcessEstimate
<1>3. CASE st.ended \/ getReceiveStreamAt(addr, ssrc) = {}
  <2>1. e = [st EXCEPT !.ended = TRUE]
    BY <1>3 DEF processEstimate
  <2>2. e.recvs = st.recvs /\ e.sfu = st.sfu
    BY <1>1, <2>1 DEF Estimated
  <2> HIDE DEF e
  <2> QED BY <1>1, <1>2, <2>2 DEF InForceIn, e
<1>4. CASE ~(st.ended \/ getReceiveStreamAt(addr, ssrc) = {})
  <2>1. i \in getReceiveStreamAt(addr, ssrc)
    BY <1>4
  <2>2. i \in DOMAIN recvs /\ recvs[i].ssrc = ssrc
    BY <2>1 DEF getReceiveStreamAt
  <2>3. i \in getReceiveStream(recvs[i].sid, ssrc, recvs[i].to)
    BY <2>2 DEF getReceiveStream
  <2>4. j \in getReceiveStream(recvs[i].sid, ssrc, recvs[i].to)
    BY <2>3
  <2>5. /\ j \in DOMAIN recvs /\ recvs[j].sid = recvs[i].sid /\ recvs[j].ssrc = recvs[i].ssrc
        /\ recvs[j].to = recvs[i].to
    BY <2>2, <2>4 DEF getReceiveStream
  <2>6. \/ e = st
        \/ /\ Adjustable(j, d)
           /\ e = [st EXCEPT !.recvs[i].target = d, !.recvs[j].target = d, !.sfu = Adjusted(@, j, d)]
        \/ ~Adjustable(j, d) /\ e = [st EXCEPT !.recvs[i].target = d]
    BY <1>4 DEF processEstimate
  <2> HIDE DEF i, j, e
  <2>7. recvs[j].sid = x => i = j
    <3>1. Ways(x)
      BY DEF WaysInv
    <3>2. \A n, l \in DOMAIN recvs :
             recvs[n].sid = x /\ recvs[l].sid = x /\ recvs[n].ssrc = recvs[l].ssrc
               /\ recvs[n].to = recvs[l].to => n = l
      BY <3>1 DEF Ways
    <3> QED BY <2>2, <2>5, <3>2
  <2>8. DOMAIN st.recvs = DOMAIN recvs
    BY <1>1 DEF Estimated
  <2>t. \A l \in DOMAIN recvs : st.recvs[l] \in ReceiveStream
    BY <1>1, <2>8 DEF Estimated
  <2>9. CASE /\ Adjustable(j, d)
             /\ e = [st EXCEPT !.recvs[i].target = d, !.recvs[j].target = d,
                               !.sfu = Adjusted(@, j, d)]
    <3> DEFINE rs == [[st.recvs EXCEPT ![i].target = d] EXCEPT ![j].target = d]
    <3>1. e.recvs = rs /\ e.sfu = Adjusted(st.sfu, j, d)
      BY <1>1, <2>9 DEF Estimated
    <3>2. /\ rs[i].target = d /\ rs[j].target = d
          /\ \A l \in DOMAIN recvs : l # i /\ l # j => rs[l] = st.recvs[l]
      <4>1. st.recvs[i] \in ReceiveStream /\ st.recvs[j] \in ReceiveStream
        BY <2>2, <2>5, <2>t
      <4>2. CASE i = j
        BY <2>2, <2>8, <4>1, <4>2 DEF ReceiveStream
      <4>3. CASE i # j
        BY <2>2, <2>5, <2>8, <4>1, <4>3 DEF ReceiveStream
      <4> QED BY <4>2, <4>3
    <3> HIDE DEF rs
    <3>3. TargetsIn(x, rs, Adjusted(st.sfu, j, d))
      BY <1>1, <2>2, <2>5, <2>7, <2>9, <3>2, TargetStored
    <3> QED BY <1>2, <3>1, <3>3 DEF InForceIn, e
  <2>10. CASE ~Adjustable(j, d) /\ e = [st EXCEPT !.recvs[i].target = d]
    <3>1. e.recvs = [st.recvs EXCEPT ![i].target = d] /\ e.sfu = st.sfu
      BY <1>1, <2>10 DEF Estimated
    <3>2. recvs[i].sid = x => ~(recvs[i].video /\ ~recvs[i].rtx)
      <4>1. PICK k \in DOMAIN sends : SameStream(recvs[i], sends[k])
        BY <2>2 DEF WaysInv, RecvsSent
      <4>2. k \in getSendStream(recvs[i].sid, recvs[i].ssrc)
        BY <4>1 DEF SameStream, getSendStream
      <4> QED BY <2>5, <2>7, <2>10, <4>2 DEF Adjustable, DecodeTarget, MaxIdent
    <3>3. \A l \in DOMAIN recvs : l # i => e.recvs[l] = st.recvs[l]
      BY <2>8, <3>1
    <3>4. TargetsIn(x, e.recvs, e.sfu)
      <4> SUFFICES ASSUME NEW l \in DOMAIN recvs, recvs[l].sid = x, recvs[l].video, ~recvs[l].rtx
                   PROVE  InForceAt(e.sfu, MediaOf(recvs[l]), recvs[l].addr) = {e.recvs[l].target}
        BY DEF TargetsIn
      <4>1. l # i
        BY <3>2
      <4> QED BY <1>1, <3>1, <3>3, <4>1 DEF TargetsIn
    <3> QED BY <1>2, <3>4 DEF InForceIn, e
  <2> QED BY <1>1, <2>6, <2>9, <2>10 DEF InForceIn, e
<1> QED BY <1>3, <1>4

\* Compound packets.
LEMMA WaysRTCP ==
    ASSUME AgentInv, WaysInv, NEW s \in SessionIds, NEW p \in PIds, NEW q \in PIds,
           NEW packet \in Compounds, OnRTCP(s, p, q, packet)
    PROVE  WaysInv'
<1> DEFINE addr == RecvAddr(s, p, q)
           after == handleCompound(addr, packet)
<1>1. /\ recvs' = after.recvs /\ sfu' = after.sfu
      /\ UNCHANGED <<setting, announced, asked, sends>>
  BY DEF OnRTCP, envVars
<1>2. /\ Len(packet) \in Nat
      /\ \A n \in 1..Len(packet) : Len(packet[n].ssrcs) \in Nat
  BY CompoundLengths
<1>3. ASSUME NEW x \in SessionIds, ~Collision(x)
      PROVE  after \in InForceIn(x)
  <2>0. Closed(Estimated, addr)
    BY AgentStreams, EstimatedClosed
  <2>1. TargetsIn(x, recvs, sfu)
    BY <1>3 DEF WaysInv, Ways
  <2>2. Arrived \in InForceIn(x)
    BY <2>0, <2>1 DEF Closed, Arrived, InForceIn
  <2>3. \A st \in InForceIn(x) : [st EXCEPT !.ended = FALSE] \in InForceIn(x)
    BY DEF InForceIn, Estimated
  <2>4. Closed(InForceIn(x), addr)
    <3>1. InForceIn(x) \subseteq Estimated
      BY DEF InForceIn
    <3>2. \A st \in InForceIn(x), d \in DecodeTarget :
             \A ssrc : processEstimate(st, addr, ssrc, d) \in InForceIn(x)
      BY <1>3, EstimateStored
    <3> HIDE DEF addr
    <3> QED BY <2>2, <2>3, <3>1, <3>2 DEF Closed
  <2> HIDE DEF addr
  <2> QED BY <1>2, <2>4, HandleCompound DEF after
<1>4. after \in Estimated
  <2>1. Closed(Estimated, addr)
    BY AgentStreams, EstimatedClosed
  <2> HIDE DEF addr
  <2> QED BY <1>2, <2>1, HandleCompound DEF after
<1> HIDE DEF after
<1>5. /\ DOMAIN recvs' = DOMAIN recvs
      /\ \A j \in DOMAIN recvs : \E d \in DecodeTarget : recvs'[j] = [recvs[j] EXCEPT !.target = d]
      /\ \A n : Dests(sfu', n) = Dests(sfu, n)
  <2>1. /\ DOMAIN recvs' = DOMAIN recvs /\ DOMAIN sfu' = DOMAIN sfu
        /\ \A j \in DOMAIN recvs :
              \E d \in DecodeTarget : recvs'[j] = [recvs[j] EXCEPT !.target = d]
        /\ \A n \in DOMAIN sfu : Dests(sfu', n) = Dests(sfu, n)
    BY <1>1, <1>4 DEF Estimated
  <2>2. \A n : n \notin DOMAIN sfu => Dests(sfu', n) = {} /\ Dests(sfu, n) = {}
    BY <2>1 DEF Dests
  <2> QED BY <2>1, <2>2
<1>6. \A x \in SessionIds : ~Collision(x) => TargetsIn(x, recvs', sfu')
  BY <1>1, <1>3 DEF InForceIn
<1> QED BY <1>1, <1>5, <1>6, WaysTargets

\* Targets that are set through the API.
LEMMA WaysAPI ==
    ASSUME AgentInv, WaysInv, NEW s \in SessionIds, NEW ssrc \in SSRC, NEW p \in PIds,
           NEW target \in ApiTargets, OnAPISetDecodeTarget(s, ssrc, p, target)
    PROVE  WaysInv'
<1>1. PICK i \in getReceiveStream(s, ssrc, p) :
         /\ Adjustable(i, target)
         /\ sfu' = Adjusted(sfu, i, target)
         /\ recvs' = [recvs EXCEPT ![i].target = target]
  BY DEF OnAPISetDecodeTarget
<1>2. UNCHANGED <<setting, announced, asked, sends>>
  BY DEF OnAPISetDecodeTarget, envVars
<1>3. target \in Nat /\ target \in DecodeTarget
  BY <1>1, CaseFacts DEF AgentInv, Adjustable, DecodeTarget, MaxIdent
<1>4. Retargeted(sfu', sfu, Addrs, TableSSRC)
  BY <1>1, <1>3, AdjustDecodeTarget DEF AgentInv, Adjusted
<1>5. i \in DOMAIN recvs /\ \A j \in DOMAIN recvs : recvs[j] \in ReceiveStream
  BY <1>1, StreamFacts DEF getReceiveStream
<1>6. /\ DOMAIN recvs' = DOMAIN recvs /\ recvs'[i].target = target
      /\ recvs'[i] = [recvs[i] EXCEPT !.target = target]
      /\ \A j \in DOMAIN recvs : j # i => recvs'[j] = recvs[j]
  BY <1>1, <1>5 DEF ReceiveStream
<1>7. \A j \in DOMAIN recvs : \E d \in DecodeTarget : recvs'[j] = [recvs[j] EXCEPT !.target = d]
  <2>1. \A r \in ReceiveStream : r = [r EXCEPT !.target = r.target] /\ r.target \in DecodeTarget
    BY DEF ReceiveStream
  <2> QED BY <1>3, <1>5, <1>6, <2>1
<1>8. ASSUME NEW x \in SessionIds, ~Collision(x) PROVE TargetsIn(x, recvs', sfu')
  <2> DEFINE st == Arrived
  <2>1. st \in Estimated /\ st.recvs = recvs /\ st.sfu = sfu
    BY AgentStreams, EstimatedClosed DEF Closed, Arrived
  <2>2. TargetsIn(x, st.recvs, st.sfu)
    BY <1>8, <2>1 DEF WaysInv, Ways
  <2> HIDE DEF st
  <2> QED BY <1>1, <1>3, <1>5, <1>6, <1>8, <2>1, <2>2, TargetStored
<1> QED BY <1>2, <1>4, <1>6, <1>7, <1>8, WaysTargets DEF Retargeted

-----------------------------------------------------------------------------
(* Receive streams *)

\* The stream that the participant p receives at addr from the send stream ss.
RecvOf(ss, p, addr) ==
    [sid |-> ss.sid, from |-> ss.from, to |-> p, addr |-> addr, ssrc |-> ss.ssrc,
     video |-> ss.video, rtx |-> ss.rtx, target |-> MaxIdent]

\* The streams xs come from send streams of the session s with the SSRCs in ns, one
\* for each.
Received(xs, s, p, addr, ns) ==
    /\ \A x \in xs : \E i \in DOMAIN sends :
          x = RecvOf(sends[i], p, addr) /\ sends[i].sid = s /\ sends[i].ssrc \in ns
    /\ \A x, y \in xs : x.ssrc = y.ssrc => x = y
    /\ \A n \in ns : \E x \in xs : x.ssrc = n

\* The receive streams that are added, from the send streams that are found.
LEMMA ReceiveStreamIs ==
    ASSUME AgentInv, NEW s \in SessionIds, NEW p \in PIds, NEW addr \in Addr,
           NEW ssrc \in MainSSRCs, NEW rtx \in {NoSSRC, ssrc + 1},
           getSendStream(s, ssrc) # {}, rtx # NoSSRC => getSendStream(s, rtx) # {}
    PROVE  LET new == addReceiveStream(s, p, addr, ssrc, rtx)
           IN \E xs : /\ Longer(new, recvs, xs) /\ Once(new, recvs)
                      /\ Received(xs, s, p, addr, {ssrc, rtx} \ {NoSSRC})
<1> DEFINE new(n, r) ==
               LET ss == sends[CHOOSE i \in getSendStream(s, n) : TRUE]
               IN [sid |-> s, from |-> ss.from, to |-> p, addr |-> addr, ssrc |-> n,
                   video |-> ss.video, rtx |-> r, target |-> MaxIdent]
           longer == addReceiveStream(s, p, addr, ssrc, rtx)
           main == new(ssrc, FALSE)
           retr == new(rtx, TRUE)
<1>1. ssrc \in SSRC /\ ssrc # NoSSRC /\ ssrc # ssrc + 1 /\ rtx \in SSRC \cup {NoSSRC}
  BY Parity DEF AgentInv
<1>2. \A i \in DOMAIN sends : sends[i].rtx \in BOOLEAN
  BY StreamFacts DEF SendStream
<1>3. \E i \in DOMAIN sends :
         main = RecvOf(sends[i], p, addr) /\ sends[i].sid = s /\ sends[i].ssrc = ssrc
  <2> DEFINE i == CHOOSE i \in getSendStream(s, ssrc) : TRUE
  <2>1. i \in getSendStream(s, ssrc)
    OBVIOUS
  <2>2. main = [sid |-> s, from |-> sends[i].from, to |-> p, addr |-> addr, ssrc |-> ssrc,
                video |-> sends[i].video, rtx |-> FALSE, target |-> MaxIdent]
    OBVIOUS
  <2> HIDE DEF i, main
  <2>3. i \in DOMAIN sends /\ sends[i].sid = s /\ sends[i].ssrc = ssrc /\ sends[i].rtx = FALSE
    BY <1>2, <2>1, MainSend
  <2> QED BY <2>2, <2>3 DEF RecvOf
<1>4. ASSUME rtx # NoSSRC
      PROVE  \E i \in DOMAIN sends :
                retr = RecvOf(sends[i], p, addr) /\ sends[i].sid = s /\ sends[i].ssrc = rtx
  <2> DEFINE i == CHOOSE i \in getSendStream(s, rtx) : TRUE
  <2>1. i \in getSendStream(s, ssrc + 1) /\ rtx = ssrc + 1
    BY <1>4
  <2>2. retr = [sid |-> s, from |-> sends[i].from, to |-> p, addr |-> addr, ssrc |-> rtx,
                video |-> sends[i].video, rtx |-> TRUE, target |-> MaxIdent]
    OBVIOUS
  <2> HIDE DEF i, retr
  <2>3. i \in DOMAIN sends /\ sends[i].sid = s /\ sends[i].ssrc = ssrc + 1 /\ sends[i].rtx = TRUE
    BY <1>2, <2>1, RtxSend
  <2> QED BY <2>1, <2>2, <2>3 DEF RecvOf
<1>5. main.ssrc = ssrc /\ retr.ssrc = rtx
  OBVIOUS
<1>6. longer = recvs \o <<main>> \o (IF rtx # NoSSRC THEN <<retr>> ELSE <<>>)
  BY DEF addReceiveStream
<1>7. recvs \in Seq(ReceiveStream) /\ longer \in Seq(ReceiveStream)
  BY <1>1, AddReceiveStreamType DEF AgentInv, TypeOK
<1>8. /\ main \in ReceiveStream
      /\ rtx # NoSSRC => retr \in ReceiveStream
  <2>1. \A i \in DOMAIN sends : RecvOf(sends[i], p, addr) \in ReceiveStream
    BY StreamFacts DEF RecvOf, SendStream, ReceiveStream, MaxIdent, DecodeTarget
  <2> HIDE DEF main, retr
  <2> QED BY <1>3, <1>4, <2>1
<1> HIDE DEF main, retr, longer
<1>9. CASE rtx # NoSSRC
  <2>1. longer = recvs \o <<main>> \o <<retr>> /\ main # retr /\ rtx = ssrc + 1
    BY <1>1, <1>5, <1>6, <1>9
  <2>2. Longer(longer, recvs, {main, retr}) /\ Once(longer, recvs)
    BY <1>7, <1>8, <1>9, <2>1, TwoMore, TwoMoreOnce
  <2>3. Received({main, retr}, s, p, addr, {ssrc, rtx} \ {NoSSRC})
    BY <1>1, <1>3, <1>4, <1>5, <1>9, <2>1 DEF Received
  <2> QED BY <2>2, <2>3 DEF longer
<1>10. CASE rtx = NoSSRC
  <2>1. recvs \o <<main>> \in Seq(ReceiveStream)
    BY <1>7, <1>8, OneMore
  <2>2. longer = recvs \o <<main>>
    BY <1>6, <1>10, <2>1, ConcatEmptySeq
  <2>3. Longer(longer, recvs, {main})
    BY <1>7, <1>8, <2>2, OneMore
  <2>4. Once(longer, recvs)
    BY <1>7, <1>8, <2>2, OneMoreOnce DEF Once
  <2>5. Received({main}, s, p, addr, {ssrc, rtx} \ {NoSSRC})
    BY <1>1, <1>3, <1>5, <1>10 DEF Received
  <2> QED BY <2>3, <2>4, <2>5 DEF longer
<1> QED BY <1>9, <1>10

\* An announcement of a session without collisions is told by its SSRC.
LEMMA FromIs ==
    ASSUME AgentInv, NEW s \in SessionIds, ~Collision(s), NEW k \in DOMAIN announced, k[1] = s,
           NEW r, r.sid = s, NEW n, From(announced, VideoMids, r, n),
           r.ssrc \in {announced[k], announced[k] + 1}
    PROVE  <<s, r.from, n>> = k
<1> DEFINE l == <<s, r.from, n>>
           a == announced[k]
           b == announced[l]
<1>1. l \in DOMAIN announced /\ (r.ssrc = b \/ r.ssrc = b + 1)
  BY DEF From
<1>2. a \in MainSSRCs /\ b \in MainSSRCs
  BY <1>1 DEF AgentInv, TypeOK
<1>3. a \in Nat /\ b \in Nat /\ a # b + 1 /\ b # a + 1
  BY <1>2, CaseFacts, Parity DEF AgentInv
<1>4. a = b
  <2> HIDE DEF a, b, l
  <2> QED BY <1>1, <1>3 DEF a
<1>5. l[1] = s
  OBVIOUS
<1> HIDE DEF l
<1> QED BY <1>1, <1>4, <1>5 DEF Collision, l

\* A receive stream that is asked for in a session without collisions comes from the
\* send stream that is meant.
LEMMA SenderMeant ==
    ASSUME AgentInv, NEW s \in SessionIds, ~Collision(s), NEW q, NEW m,
           <<s, q, m>> \in DOMAIN announced, NEW i \in DOMAIN sends, sends[i].sid = s,
           sends[i].ssrc \in {announced[<<s, q, m>>], announced[<<s, q, m>>] + 1}
    PROVE  /\ sends[i].from = q /\ From(announced, VideoMids, sends[i], m)
           /\ sends[i].addr = SendAddr(s, q)
<1> DEFINE k == <<s, q, m>>
<1>1. PICK n \in Mids : From(announced, VideoMids, sends[i], n)
  BY DEF AgentInv, SendsAnnounced
<1>2. k[1] = s /\ k \in DOMAIN announced /\ sends[i].ssrc \in {announced[k], announced[k] + 1}
  OBVIOUS
<1> HIDE DEF k
<1>3. <<s, sends[i].from, n>> = k
  BY <1>1, <1>2, FromIs
<1>4. sends[i].from = q /\ n = m
  BY <1>3 DEF k
<1> QED BY <1>1, <1>4 DEF AgentInv, SendsAnnounced

\* In the session of a receive stream that is added.
LEMMA WaysOpened ==
    ASSUME AgentInv, NEW s \in SessionIds, ~Collision(s), Ways(s),
           NEW p \in PIds, NEW q \in PIds, NEW m \in Mids, <<s, q, m>> \in DOMAIN announced,
           <<<<s, q, m>>, p>> \notin asked,
           UNCHANGED <<setting, announced, sends>>,
           asked' = asked \cup {<<<<s, q, m>>, p>>},
           NEW ssrc \in MainSSRCs, ssrc = announced[<<s, q, m>>],
           NEW rtx \in {NoSSRC, ssrc + 1},
           NEW xs, Longer(recvs', recvs, xs), Once(recvs', recvs),
           Received(xs, s, p, RecvAddr(s, p, q), {ssrc, rtx} \ {NoSSRC}),
           NEW st, st.src = SendAddr(s, q), st.dst = RecvAddr(s, p, q),
           st.rtcpSsrc = FeedbackSSRC,
           mediaMatches(st) = {<<SendAddr(s, q), n>> : n \in {ssrc, rtx} \ {NoSSRC}},
           Added(st, Addrs, TableSSRC), sfu' = addStream(sfu, st),
           StreamAdded(sfu', sfu, st, Addrs, TableSSRC)
    PROVE  Ways(s)'
<1> DEFINE k == <<s, q, m>>
           addr == RecvAddr(s, p, q)
           ns == {ssrc, rtx} \ {NoSSRC}
<1>0. /\ PIds' = PIds /\ SSRC' = SSRC /\ Mids' = Mids /\ VideoMids' = VideoMids
      /\ FeedbackSSRC \notin SSRC
      /\ \A j \in DOMAIN recvs : recvs[j] \in ReceiveStream
  BY CaseKept, StreamFacts
<1>1. ns \subseteq SSRC /\ ns \subseteq {ssrc, ssrc + 1}
  BY Parity DEF AgentInv
\* The streams that are new.
<1>2. ASSUME NEW x \in xs
      PROVE  /\ x.sid = s /\ x.from = q /\ x.to = p /\ x.addr = addr /\ x.target = MaxIdent
             /\ x.ssrc \in ns /\ From(announced, VideoMids, x, m)
             /\ MediaOf(x) = <<SendAddr(s, q), x.ssrc>>
  <2>1. PICK i \in DOMAIN sends : /\ x = RecvOf(sends[i], p, addr) /\ sends[i].sid = s
                                  /\ sends[i].ssrc \in ns
    BY DEF Received
  <2>2. sends[i].from = q /\ From(announced, VideoMids, sends[i], m)
    BY <1>1, <2>1, SenderMeant
  <2> HIDE DEF ns, addr
  <2>3. /\ x.sid = s /\ x.from = q /\ x.to = p /\ x.addr = addr /\ x.target = MaxIdent
        /\ x.ssrc \in ns /\ x.ssrc = sends[i].ssrc /\ x.video = sends[i].video
        /\ x.rtx = sends[i].rtx
    BY <2>1, <2>2 DEF RecvOf
  <2>4. From(announced, VideoMids, x, m)
    BY <2>1, <2>2, <2>3 DEF From
  <2> QED BY <2>3, <2>4 DEF MediaOf
\* No stream that was there is told from them by its SSRC only.
<1>3. ASSUME NEW j \in DOMAIN recvs, recvs[j].sid = s, recvs[j].to = p, recvs[j].ssrc \in ns
      PROVE  FALSE
  <2>1. PICK n \in Mids : /\ <<<<s, recvs[j].from, n>>, p>> \in asked
                          /\ From(announced, VideoMids, recvs[j], n)
    BY <1>3 DEF Ways, Placed
  <2>2. k[1] = s /\ k \in DOMAIN announced /\ recvs[j].ssrc \in {announced[k], announced[k] + 1}
    BY <1>1, <1>3
  <2> HIDE DEF k
  <2>3. <<s, recvs[j].from, n>> = k
    BY <1>3, <2>1, <2>2, FromIs
  <2> QED BY <2>1, <2>3 DEF k
<1>4. \A j \in DOMAIN recvs' : IF j \in DOMAIN recvs THEN recvs'[j] = recvs[j] ELSE recvs'[j] \in xs
  BY DEF Longer
\* What the table gains.
<1>5. /\ \A n : Dests(sfu, n) \subseteq Dests(sfu', n)
      /\ \A n \in ns : addr \in Dests(sfu', <<SendAddr(s, q), n>>)
      /\ SendAddr(s, q) \in Dests(sfu', <<addr, FeedbackSSRC>>)
  BY DEF StreamAdded
<1>6. ASSUME NEW a, NEW n \in SSRC, NEW to,
             n \notin ns \/ a # SendAddr(s, q) \/ to # addr
      PROVE  /\ to \in Dests(sfu', <<a, n>>) => to \in Dests(sfu, <<a, n>>)
             /\ InForceAt(sfu', <<a, n>>, to) = InForceAt(sfu, <<a, n>>, to)
  <2>1. <<a, n>> # <<st.dst, st.rtcpSsrc>>
    BY <1>0
  <2>2. ~(<<a, n>> \in mediaMatches(st) /\ to = st.dst)
    BY <1>6
  <2>3. to \in Dests(sfu', <<a, n>>) => to \in Dests(sfu, <<a, n>>)
    BY <2>1, <2>2 DEF StreamAdded
  <2>4. InForceAt(sfu', <<a, n>>, to) = InForceAt(sfu, <<a, n>>, to)
    BY <2>1, <2>2, StreamTargets DEF AgentInv
  <2> QED BY <2>3, <2>4
<1> HIDE DEF k, addr, ns
<1>7. ASSUME NEW j \in DOMAIN recvs', recvs'[j].sid = s
      PROVE  Placed(recvs[j])'
  <2> DEFINE r == recvs'[j]
  <2>1. \E n \in Mids : /\ <<<<s, r.from, n>>, r.to>> \in asked'
                        /\ From(announced, VideoMids, r, n)
    <3>1. CASE j \in DOMAIN recvs
      BY <1>4, <1>7, <3>1 DEF Ways, Placed
    <3>2. CASE j \notin DOMAIN recvs
      BY <1>2, <1>4, <3>2
    <3> QED BY <3>1, <3>2
  <2>2. /\ r.addr = RecvAddr(s, r.to, r.from)
        /\ r.addr \in Dests(sfu', MediaOf(r))
        /\ SendAddr(s, r.from) \in Dests(sfu', <<r.addr, FeedbackSSRC>>)
    <3>1. CASE j \in DOMAIN recvs
      BY <1>4, <1>5, <1>7, <3>1 DEF Ways, Placed
    <3>2. CASE j \notin DOMAIN recvs
      <4>1. r \in xs
        BY <1>4, <3>2
      <4> HIDE DEF r
      <4>2. /\ r.from = q /\ r.to = p /\ r.addr = addr /\ r.ssrc \in ns
            /\ MediaOf(r) = <<SendAddr(s, q), r.ssrc>>
        BY <1>2, <4>1
      <4> QED BY <1>5, <4>2 DEF addr
    <3> QED BY <3>1, <3>2
  <2> QED BY <1>0, <1>7, <2>1, <2>2 DEF Placed, MediaOf, SendAddr, RecvAddr, From
<1>8. ASSUME NEW i \in DOMAIN recvs', NEW j \in DOMAIN recvs', recvs'[i].sid = s, recvs'[j].sid = s,
             recvs'[i].ssrc = recvs'[j].ssrc, recvs'[i].to = recvs'[j].to
      PROVE  i = j
  <2>1. CASE i \in DOMAIN recvs /\ j \in DOMAIN recvs
    BY <1>4, <1>8, <2>1 DEF Ways
  <2>2. CASE i \notin DOMAIN recvs /\ j \notin DOMAIN recvs
    <3>1. recvs'[i] \in xs /\ recvs'[j] \in xs
      BY <1>4, <2>2
    <3>2. recvs'[i] = recvs'[j]
      BY <1>8, <3>1 DEF Received
    <3> QED BY <2>2, <3>2 DEF Once
  <2>3. CASE i \in DOMAIN recvs /\ j \notin DOMAIN recvs
    BY <1>2, <1>3, <1>4, <1>8, <2>3
  <2>4. CASE i \notin DOMAIN recvs /\ j \in DOMAIN recvs
    BY <1>2, <1>3, <1>4, <1>8, <2>4
  <2> QED BY <2>1, <2>2, <2>3, <2>4
<1>9. ASSUME NEW a \in PIds, NEW b \in PIds
      PROVE  Dests(sfu', <<RecvAddr(s, a, b), FeedbackSSRC>>) \subseteq {SendAddr(s, b)}
  <2>1. Dests(sfu, <<RecvAddr(s, a, b), FeedbackSSRC>>) \subseteq {SendAddr(s, b)}
    BY DEF Ways
  <2>2. <<RecvAddr(s, a, b), FeedbackSSRC>> \notin mediaMatches(st)
    <3>1. FeedbackSSRC \notin ns
      BY <1>0, <1>1
    <3> QED BY <3>1 DEF ns
  <2>3. RecvAddr(s, a, b) = RecvAddr(s, p, q) => b = q
    BY DEF RecvAddr
  <2> QED BY <2>1, <2>2, <2>3 DEF StreamAdded
<1>10. ASSUME NEW a \in PIds, NEW b \in PIds, NEW n \in SSRC,
              RecvAddr(s, a, b) \in Dests(sfu', <<SendAddr(s, b), n>>)
       PROVE  \E j \in DOMAIN recvs' : recvs'[j].sid = s /\ recvs'[j].to = a /\ recvs'[j].ssrc = n
  <2>1. CASE n \in ns /\ RecvAddr(s, a, b) = addr
    <3>1. PICK x \in xs : x.ssrc = n
      BY <2>1 DEF Received, ns
    <3>2. PICK j \in DOMAIN recvs' : recvs'[j] = x
      BY DEF Longer
    <3>3. a = p
      BY <2>1 DEF addr, RecvAddr
    <3> QED BY <1>2, <3>1, <3>2, <3>3
  <2>2. CASE n \notin ns \/ RecvAddr(s, a, b) # addr
    <3>1. RecvAddr(s, a, b) \in Dests(sfu, <<SendAddr(s, b), n>>)
      BY <1>6, <1>10, <2>2
    <3>2. PICK j \in DOMAIN recvs : recvs[j].sid = s /\ recvs[j].to = a /\ recvs[j].ssrc = n
      BY <3>1 DEF Ways
    <3> QED BY <3>2 DEF Longer
  <2> QED BY <2>1, <2>2
<1>11. ASSUME NEW j \in DOMAIN recvs', recvs'[j].sid = s, recvs'[j].video, ~recvs'[j].rtx
       PROVE  InForceAt(sfu', MediaOf(recvs'[j]), recvs'[j].addr) = {recvs'[j].target}
  <2>1. CASE j \in DOMAIN recvs
    <3> DEFINE r == recvs[j]
    <3>1. recvs'[j] = r /\ r.sid = s /\ r \in ReceiveStream
      BY <1>0, <1>4, <1>11, <2>1
    <3>2. InForceAt(sfu, MediaOf(r), r.addr) = {r.target}
      BY <1>11, <2>1, <3>1 DEF Ways, TargetsIn
    <3>3. r.ssrc \in SSRC /\ r.addr = RecvAddr(s, r.to, r.from)
      BY <2>1, <3>1 DEF Ways, Placed, ReceiveStream
    <3> HIDE DEF r
    <3>4. r.ssrc \notin ns \/ SendAddr(s, r.from) # SendAddr(s, q) \/ r.addr # addr
      <4>1. r.addr = addr => r.to = p
        BY <3>3 DEF addr, RecvAddr
      <4> QED BY <1>3, <2>1, <3>1, <4>1 DEF r
    <3>5. InForceAt(sfu', MediaOf(r), r.addr) = InForceAt(sfu, MediaOf(r), r.addr)
      BY <1>6, <3>1, <3>3, <3>4 DEF MediaOf
    <3> QED BY <3>1, <3>2, <3>5
  <2>2. CASE j \notin DOMAIN recvs
    <3> DEFINE x == recvs'[j]
    <3>1. x \in xs
      BY <1>4, <2>2
    <3> HIDE DEF x
    <3>2. /\ x.addr = addr /\ x.target = MaxIdent /\ x.ssrc \in ns
          /\ MediaOf(x) = <<SendAddr(s, q), x.ssrc>>
      BY <1>2, <3>1
    <3>3. addr \notin Dests(sfu, <<SendAddr(s, q), x.ssrc>>)
      <4> SUFFICES ASSUME addr \in Dests(sfu, <<SendAddr(s, q), x.ssrc>>) PROVE FALSE
        OBVIOUS
      <4>1. \E i \in DOMAIN recvs : recvs[i].sid = s /\ recvs[i].to = p /\ recvs[i].ssrc = x.ssrc
        BY <1>1, <3>2 DEF Ways, addr
      <4> QED BY <1>3, <3>2, <4>1
    <3>4. <<SendAddr(s, q), x.ssrc>> \in mediaMatches(st)
      BY <3>2 DEF ns
    <3>5. <<SendAddr(s, q), x.ssrc>> # <<st.dst, st.rtcpSsrc>>
      BY <1>0, <1>1, <3>2
    <3>6. InForceAt(sfu', <<SendAddr(s, q), x.ssrc>>, addr) = {MaxIdent}
      <4>1. InForceAt(addStream(sfu, st), <<SendAddr(s, q), x.ssrc>>, addr) =
              IF <<SendAddr(s, q), x.ssrc>> \in mediaMatches(st) /\ addr = st.dst
                   /\ st.dst \notin Dests(sfu, <<SendAddr(s, q), x.ssrc>>)
              THEN {MaxIdent} ELSE InForceAt(sfu, <<SendAddr(s, q), x.ssrc>>, addr)
        BY <3>5, StreamTargets DEF AgentInv
      <4>2. addr = st.dst
        BY DEF addr
      <4> QED BY <3>3, <3>4, <4>1, <4>2
    <3> QED BY <3>2, <3>6 DEF x
  <2> QED BY <2>1, <2>2
<1>12. TargetsIn(s, recvs, sfu)'
  BY <1>11 DEF TargetsIn, MediaOf, SendAddr
<1> QED BY <1>0, <1>7, <1>8, <1>9, <1>10, <1>12 DEF Ways, SendAddr, RecvAddr

\* A receive stream: the sessions without collisions keep their ways.
LEMMA WaysReceiveStream ==
    ASSUME AgentInv, WaysInv, NEW s \in SessionIds, NEW p \in PIds, NEW q \in PIds,
           NEW m \in Mids, OnAddReceiveStream(s, p, q, m)
    PROVE  WaysInv'
<1> DEFINE k == <<s, q, m>>
           ssrc == announced[k]
           rtx == RtxOf(ssrc, m)
           addr == RecvAddr(s, p, q)
           found == getSendStream(s, ssrc)
           st(i) == [src |-> sends[i].addr, dst |-> addr, ssrc |-> ssrc, rtxSsrc |-> rtx,
                     rtcpSsrc |-> FeedbackSSRC, rtcpRtxSsrc |-> FeedbackSSRC]
<1>1. /\ k \in DOMAIN announced /\ <<k, p>> \notin asked /\ asked' = asked \cup {<<k, p>>}
      /\ UNCHANGED <<setting, announced, sends>>
  BY DEF OnAddReceiveStream
<1>2. \/ found = {} /\ UNCHANGED <<recvs, sfu>>
      \/ /\ found # {} /\ addReceiveStreamThrows(s, rtx)
         /\ recvs' = addReceiveStream(s, p, addr, ssrc, NoSSRC) /\ UNCHANGED sfu
      \/ /\ found # {} /\ ~addReceiveStreamThrows(s, rtx)
         /\ recvs' = addReceiveStream(s, p, addr, ssrc, rtx)
         /\ \E i \in found : sfu' = addStream(sfu, st(i))
  BY DEF OnAddReceiveStream
<1>3. ssrc \in MainSSRCs /\ rtx \in {NoSSRC, ssrc + 1}
  BY <1>1 DEF AgentInv, TypeOK, RtxOf
<1>4. /\ addr \in Addr /\ addr # ZeroAddr /\ addr[1] = s
      /\ FeedbackSSRC \notin SSRC /\ NoSSRC \notin SSRC
      /\ ssrc \in SSRC /\ rtx \in SSRC \cup {NoSSRC}
  <2>1. addr \in Addr /\ addr[1] = s
    BY DEF RecvAddr, Addr
  <2> HIDE DEF addr, ssrc, rtx
  <2> QED BY <1>3, <2>1, StreamFacts, Parity DEF AgentInv
<1>5. /\ SessionIds' = SessionIds
      /\ \A x : Collision(x)' <=> Collision(x)
      /\ \A r, n : From(announced, VideoMids, r, n) => From(announced', VideoMids, r, n)
  BY <1>1, CaseKept DEF Collision
<1> HIDE DEF k, ssrc, rtx, addr
\* The streams that are added, if any.
<1>6. \E xs, ns : /\ Longer(recvs', recvs, xs) /\ Once(recvs', recvs)
                  /\ Received(xs, s, p, addr, ns)
                  /\ found # {} /\ ~addReceiveStreamThrows(s, rtx) => ns = {ssrc, rtx} \ {NoSSRC}
  <2>1. CASE found = {} /\ recvs' = recvs
    <3>1. Longer(recvs', recvs, {}) /\ Once(recvs', recvs) /\ Received({}, s, p, addr, {})
      BY <2>1 DEF Longer, Once, Received
    <3> QED BY <2>1, <3>1
  <2>2. CASE found # {} /\ recvs' = addReceiveStream(s, p, addr, ssrc, NoSSRC)
             /\ addReceiveStreamThrows(s, rtx)
    <3>1. PICK xs : /\ Longer(recvs', recvs, xs) /\ Once(recvs', recvs)
                    /\ Received(xs, s, p, addr, {ssrc, NoSSRC} \ {NoSSRC})
      BY <1>3, <1>4, <2>2, ReceiveStreamIs
    <3> QED BY <2>2, <3>1
  <2>3. CASE found # {} /\ recvs' = addReceiveStream(s, p, addr, ssrc, rtx)
             /\ ~addReceiveStreamThrows(s, rtx)
    <3>0. rtx # NoSSRC => getSendStream(s, rtx) # {}
      BY <2>3 DEF addReceiveStreamThrows
    <3>1. PICK xs : /\ Longer(recvs', recvs, xs) /\ Once(recvs', recvs)
                    /\ Received(xs, s, p, addr, {ssrc, rtx} \ {NoSSRC})
      BY <1>3, <1>4, <2>3, <3>0, ReceiveStreamIs
    <3> QED BY <3>1
  <2> QED BY <1>2, <2>1, <2>2, <2>3
<1>7. PICK xs, ns : /\ Longer(recvs', recvs, xs) /\ Once(recvs', recvs)
                    /\ Received(xs, s, p, addr, ns)
                    /\ (found # {} /\ ~addReceiveStreamThrows(s, rtx)
                          => ns = {ssrc, rtx} \ {NoSSRC})
  BY <1>6
<1>8. \A x \in xs : /\ x.sid = s /\ x.addr = addr
                    /\ \E i \in DOMAIN sends : SameStream(x, sends[i])
  BY <1>7 DEF Received, RecvOf, SameStream
<1>9. /\ SendsAgree'
      /\ RecvsSent'
  <2>1. SendsAgree'
    BY <1>1 DEF WaysInv, SendsAgree
  <2>2. ASSUME NEW j \in DOMAIN recvs'
        PROVE  /\ recvs'[j].addr[1] = recvs'[j].sid
               /\ \E i \in DOMAIN sends : SameStream(recvs'[j], sends[i])
    <3>1. CASE j \in DOMAIN recvs
      <4>1. recvs'[j] = recvs[j]
        BY <1>7, <3>1 DEF Longer
      <4> QED BY <3>1, <4>1 DEF WaysInv, RecvsSent
    <3>2. CASE j \notin DOMAIN recvs
      <4>1. recvs'[j] \in xs
        BY <1>7, <3>2 DEF Longer
      <4> QED BY <1>4, <1>8, <4>1
    <3> QED BY <3>1, <3>2
  <2> QED BY <1>1, <2>1, <2>2 DEF RecvsSent, SameStream
\* What the table gains, if anything.
<1>10. ASSUME NEW i \in found, sfu' = addStream(sfu, st(i))
       PROVE  /\ st(i).src = sends[i].addr /\ st(i).dst = addr /\ st(i).rtcpSsrc = FeedbackSSRC
              /\ mediaMatches(st(i)) = {<<sends[i].addr, n>> : n \in {ssrc, rtx} \ {NoSSRC}}
              /\ Added(st(i), Addrs, TableSSRC)
              /\ StreamAdded(sfu', sfu, st(i), Addrs, TableSSRC)
              /\ i \in DOMAIN sends /\ sends[i].sid = s /\ sends[i].ssrc = ssrc
              /\ sends[i].addr = SendAddr(s, sends[i].from)
  <2>1. /\ i \in DOMAIN sends /\ sends[i].sid = s /\ sends[i].ssrc = ssrc
        /\ sends[i].addr = SendAddr(s, sends[i].from)
    BY <1>3, MainSend
  <2>2. sends[i].addr \in Addr
    BY <2>1, StreamFacts DEF SendStream
  <2>3. st(i).src = sends[i].addr /\ st(i).dst = addr /\ st(i).rtcpSsrc = FeedbackSSRC
    OBVIOUS
  <2>4. mediaMatches(st(i)) = {<<sends[i].addr, n>> : n \in {ssrc, rtx} \ {NoSSRC}}
    BY <1>4 DEF mediaMatches
  <2>5. Added(st(i), Addrs, TableSSRC)
    BY <1>4, <2>2 DEF Added, Addrs, TableSSRC
  <2> HIDE DEF st
  <2>6. StreamAdded(sfu', sfu, st(i), Addrs, TableSSRC)
    BY <1>10, <2>5, AddStream DEF AgentInv
  <2> QED BY <2>1, <2>3, <2>4, <2>5, <2>6
<1>11. ASSUME NEW x \in SessionIds, x # s, ~Collision(x)
       PROVE  Ways(x)'
  <2>1. Ways(x)
    BY <1>11 DEF WaysInv
  <2>2. ASSUME NEW a \in PIds, NEW b \in PIds, NEW n, NEW to
        PROVE  /\ Dests(sfu', <<<<x, a, b>>, n>>) = Dests(sfu, <<<<x, a, b>>, n>>)
               /\ InForceAt(sfu', <<<<x, a, b>>, n>>, to) = InForceAt(sfu, <<<<x, a, b>>, n>>, to)
    <3>1. CASE UNCHANGED sfu
      BY <3>1
    <3>2. ASSUME NEW i \in found, sfu' = addStream(sfu, st(i))
          PROVE  /\ Dests(sfu', <<<<x, a, b>>, n>>) = Dests(sfu, <<<<x, a, b>>, n>>)
                 /\ InForceAt(sfu', <<<<x, a, b>>, n>>, to)
                      = InForceAt(sfu, <<<<x, a, b>>, n>>, to)
      <4>1. <<x, a, b>> # sends[i].addr /\ <<x, a, b>> # addr
        BY <1>10, <1>11, <3>2 DEF SendAddr, addr, RecvAddr
      <4> DEFINE w == <<<<x, a, b>>, n>>
      <4>2. w \notin mediaMatches(st(i)) /\ w # <<st(i).dst, st(i).rtcpSsrc>>
        BY <1>10, <3>2, <4>1
      <4> HIDE DEF w, st
      <4>3. InForceAt(addStream(sfu, st(i)), w, to) = InForceAt(sfu, w, to)
        <5>1. Added(st(i), Addrs, TableSSRC)
          BY <1>10, <3>2
        <5> QED BY <4>2, <5>1, StreamTargets DEF AgentInv
      <4>4. Dests(sfu', w) = Dests(sfu, w)
        <5>1. StreamAdded(sfu', sfu, st(i), Addrs, TableSSRC)
          BY <1>10, <3>2
        <5> QED BY <4>2, <5>1 DEF StreamAdded
      <4> QED BY <3>2, <4>3, <4>4 DEF w
    <3> QED BY <1>2, <3>1, <3>2
  <2>3. \A j \in DOMAIN recvs' : recvs'[j].sid = x => j \in DOMAIN recvs
    BY <1>7, <1>8, <1>11 DEF Longer
  <2>4. DOMAIN recvs \subseteq DOMAIN recvs' /\ \A j \in DOMAIN recvs : recvs'[j] = recvs[j]
    BY <1>7 DEF Longer
  <2> QED BY <1>1, <1>5, <2>1, <2>2, <2>3, <2>4, WaysKept
<1>12. ASSUME ~Collision(s)
       PROVE  Ways(s)'
  <2>0. Ways(s)
    BY <1>12 DEF WaysInv
  <2>1. ~(found # {} /\ addReceiveStreamThrows(s, rtx))
    BY <1>1, <1>12, NoRtxOnCollision DEF k, ssrc, rtx
  <2>2. CASE found = {}
    <3>1. UNCHANGED <<recvs, sfu>>
      BY <1>2, <2>2
    <3> QED BY <1>1, <1>5, <2>0, <3>1, WaysKept
  <2>3. CASE found # {} /\ ~addReceiveStreamThrows(s, rtx)
    <3>1. PICK i \in found : sfu' = addStream(sfu, st(i))
      BY <1>2, <2>3
    <3>2. /\ st(i).src = sends[i].addr /\ st(i).dst = addr /\ st(i).rtcpSsrc = FeedbackSSRC
          /\ mediaMatches(st(i)) = {<<sends[i].addr, n>> : n \in {ssrc, rtx} \ {NoSSRC}}
          /\ Added(st(i), Addrs, TableSSRC)
          /\ StreamAdded(sfu', sfu, st(i), Addrs, TableSSRC)
          /\ i \in DOMAIN sends /\ sends[i].sid = s /\ sends[i].ssrc = ssrc
      BY <1>10, <3>1
    <3> HIDE DEF st
    <3>3. sends[i].addr = SendAddr(s, q)
      BY <1>1, <1>12, <3>2, SenderMeant DEF k, ssrc
    <3>4. Received(xs, s, p, addr, {ssrc, rtx} \ {NoSSRC})
      BY <1>7, <2>3
    <3>5. /\ mediaMatches(st(i)) = {<<SendAddr(s, q), n>> : n \in {ssrc, rtx} \ {NoSSRC}}
          /\ st(i).src = SendAddr(s, q)
      BY <3>2, <3>3
    <3>6. ssrc = announced[<<s, q, m>>] /\ addr = RecvAddr(s, p, q) /\ k = <<s, q, m>>
      BY DEF ssrc, addr, k
    <3> DEFINE w == st(i)
    <3> HIDE DEF w
    <3>7. /\ w.src = SendAddr(s, q) /\ w.dst = RecvAddr(s, p, q) /\ w.rtcpSsrc = FeedbackSSRC
          /\ mediaMatches(w) = {<<SendAddr(s, q), n>> : n \in {ssrc, rtx} \ {NoSSRC}}
          /\ Added(w, Addrs, TableSSRC) /\ sfu' = addStream(sfu, w)
          /\ StreamAdded(sfu', sfu, w, Addrs, TableSSRC)
      BY <3>1, <3>2, <3>5, <3>6 DEF w
    <3>8. /\ <<s, q, m>> \in DOMAIN announced /\ <<<<s, q, m>>, p>> \notin asked
          /\ asked' = asked \cup {<<<<s, q, m>>, p>>}
          /\ Received(xs, s, p, RecvAddr(s, p, q), {ssrc, rtx} \ {NoSSRC})
      BY <1>1, <3>4, <3>6
    <3> QED BY <1>1, <1>3, <1>7, <1>12, <2>0, <3>6, <3>7, <3>8, WaysOpened
  <2> QED BY <2>1, <2>2, <2>3
<1> QED BY <1>5, <1>9, <1>11, <1>12 DEF WaysInv

-----------------------------------------------------------------------------
(* Decode targets in force, ways complete *)

\* Nothing has a way when the agent is started.
LEMMA InitWays == Init => WaysInv
<1> SUFFICES ASSUME Init PROVE WaysInv
  OBVIOUS
<1>1. DOMAIN recvs = {} /\ DOMAIN sends = {} /\ DOMAIN sfu = {}
  BY DEF Init, EmptyTable
<1>2. \A n : Dests(sfu, n) = {}
  BY <1>1 DEF Dests
<1> QED BY <1>1, <1>2 DEF WaysInv, SendsAgree, RecvsSent, Ways, TargetsIn

\* A step that leaves streams and table alone.
LEMMA WaysSame ==
    ASSUME AgentInv, WaysInv, UNCHANGED <<setting, announced, asked, sends, recvs, sfu>>
    PROVE  WaysInv'
<1>1. \A r \in ReceiveStream : r = [r EXCEPT !.target = r.target] /\ r.target \in DecodeTarget
  BY DEF ReceiveStream
<1>2. \A j \in DOMAIN recvs : \E d \in DecodeTarget : recvs'[j] = [recvs[j] EXCEPT !.target = d]
  BY <1>1, StreamFacts
<1>3. \A s \in SessionIds : ~Collision(s) => TargetsIn(s, recvs', sfu')
  BY DEF WaysInv, Ways
<1> QED BY <1>2, <1>3, WaysTargets

\* Every step keeps the ways of media and feedback, and the targets in force.
LEMMA NextWays == AgentInv /\ WaysInv /\ [Next]_vars => WaysInv'
<1> SUFFICES ASSUME AgentInv, WaysInv, [Next]_vars PROVE WaysInv'
  OBVIOUS
<1>1. ASSUME NEW s \in SessionIds, NEW p \in PIds, NEW m \in Mids, NEW ssrc \in MainSSRCs,
             \/ SendStreamLost(s, p, m, ssrc)
             \/ OnAddSendStreamThrows(s, p, m, ssrc)
      PROVE  WaysInv'
  <2>1. Announce(s, p, m, ssrc) /\ UNCHANGED <<setting, asked, sends, recvs, sfu>>
    BY <1>1 DEF SendStreamLost, OnAddSendStreamThrows
  <2>2. /\ DOMAIN announced \subseteq DOMAIN announced'
        /\ \A k \in DOMAIN announced : announced'[k] = announced[k]
    BY <2>1, Announced DEF AgentInv
  <2>3. SendsAgree'
    BY <2>1 DEF WaysInv, SendsAgree
  <2> QED BY <2>1, <2>2, <2>3, WaysAnnounced
<1>2. ASSUME NEW addr \in Addr, OnSTUNBindingRequest(addr) PROVE WaysInv'
  BY <1>2, WaysSame DEF OnSTUNBindingRequest, envVars
<1>3. CASE UNCHANGED vars
  BY <1>3, WaysSame DEF vars
<1> QED BY <1>1, <1>2, <1>3, WaysSendStream, WaysReceiveStream, WaysRTCP, WaysAPI DEF Next

\* The invariant of ways and targets holds in every state the agent reaches.
THEOREM WaysInvariant == Spec => []WaysInv
<1>1. Init => AgentInv /\ WaysInv
  BY InitAgentInv, InitWays
<1>2. AgentInv /\ WaysInv /\ [Next]_vars => (AgentInv /\ WaysInv)'
  BY NextAgentInv, NextWays
<1> QED BY <1>1, <1>2, PTL DEF Spec

\* What follows for one receive stream of a session without collisions.
LEMMA WayOf ==
    ASSUME AgentInv, WaysInv, NEW j \in DOMAIN recvs, ~Collision(recvs[j].sid)
    PROVE  /\ recvs[j] \in ReceiveStream /\ Placed(recvs[j]) /\ Ways(recvs[j].sid)
           /\ MediaOf(recvs[j]) \in DOMAIN sfu
<1>1. recvs[j] \in ReceiveStream /\ recvs[j].sid \in SessionIds
  BY StreamFacts DEF ReceiveStream
<1>2. Ways(recvs[j].sid) /\ Placed(recvs[j])
  BY <1>1 DEF WaysInv, Ways
<1>3. MediaOf(recvs[j]) \in DOMAIN sfu
  BY <1>2 DEF Placed, Dests
<1> QED BY <1>1, <1>2, <1>3

\* The decode target the agent shows for a receiver is the one the data plane
\* applies, whatever estimates (_processReceiverEstimatedBitrate) and API requests
\* (_onAPISetDecodeTarget) came in any order, with announcements lost or not.
THEOREM StoredTargetInForceAlways == Spec => []StoredTargetInForce
<1>1. ASSUME AgentInv, WaysInv PROVE StoredTargetInForce
  <2> SUFFICES ASSUME NEW i \in DOMAIN sends, NEW j \in receiversOf(i),
                      sends[i].video, ~sends[i].rtx, ~Collision(sends[i].sid)
               PROVE  TargetInForce(sfu, sends[i].addr, recvs[j].addr, sends[i].ssrc)
                        = {recvs[j].target}
    BY DEF StoredTargetInForce
  <2>1. j \in DOMAIN recvs /\ recvs[j].sid = sends[i].sid /\ recvs[j].ssrc = sends[i].ssrc
    BY DEF receiversOf
  <2>2. PICK k \in DOMAIN sends : SameStream(recvs[j], sends[k])
    BY <1>1, <2>1 DEF WaysInv, RecvsSent
  <2>3. sends[k] = sends[i]
    BY <1>1, <2>1, <2>2 DEF WaysInv, SendsAgree, SameStream
  <2>4. recvs[j].from = sends[i].from /\ recvs[j].video /\ ~recvs[j].rtx
    BY <2>2, <2>3 DEF SameStream
  <2>5. <<sends[i].addr, sends[i].ssrc>> = MediaOf(recvs[j])
    BY <1>1, <2>1, <2>4 DEF AgentInv, SendsAnnounced, MediaOf
  <2>6. /\ recvs[j] \in ReceiveStream /\ Ways(recvs[j].sid) /\ MediaOf(recvs[j]) \in DOMAIN sfu
    BY <1>1, <2>1, WayOf
  <2>7. InForceAt(sfu, MediaOf(recvs[j]), recvs[j].addr) = {recvs[j].target}
    BY <2>1, <2>4, <2>6 DEF Ways, TargetsIn
  <2>8. TargetInForce(sfu, sends[i].addr, recvs[j].addr, sends[i].ssrc)
          = InForceAt(sfu, <<sends[i].addr, sends[i].ssrc>>, recvs[j].addr)
    BY <1>1, <2>5, <2>6, InForceIs DEF AgentInv
  <2> QED BY <2>5, <2>7, <2>8
<1> QED BY <1>1, AgentInvariant, WaysInvariant, PTL

\* Media, reports and feedback of every receive stream have their way, and requests
\* for retransmissions and pictures go to the sender and to nobody else, for any
\* number of sessions, participants and streams.
THEOREM ForwardingCompleteAlways == Spec => []ForwardingComplete
<1>1. ASSUME AgentInv, WaysInv PROVE ForwardingComplete
  <2> SUFFICES ASSUME NEW i \in DOMAIN recvs, ~Collision(recvs[i].sid)
               PROVE  LET r       == recvs[i]
                          sender  == SendAddr(r.sid, r.from)
                          back(t) == handleRTCP(sfu, t, r.addr, FeedbackSSRC)
                      IN /\ r.addr \in handleRTCP(sfu, "sr", sender, r.ssrc).to
                         /\ \A t \in {"nack", "pli"} : back(t) = [to |-> {sender}, cpu |-> TRUE]
                         /\ back("rr") = [to |-> {}, cpu |-> TRUE]
    BY DEF ForwardingComplete
  <2> DEFINE r == recvs[i]
             sender == SendAddr(r.sid, r.from)
  <2>1. \A a, n : Destinations(sfu, a, n) = Dests(sfu, <<a, n>>)
    BY DEF Destinations, hasMatch, Dests
  <2>2. r \in ReceiveStream /\ Placed(r) /\ Ways(r.sid)
    BY <1>1, WayOf
  <2> HIDE DEF r
  <2>3. r.to \in PIds /\ r.from \in PIds /\ r.addr = RecvAddr(r.sid, r.to, r.from)
    BY <2>2 DEF ReceiveStream, Placed
  <2>4. r.addr \in Dests(sfu, <<sender, r.ssrc>>)
    BY <2>2 DEF Placed, MediaOf
  <2>5. Dests(sfu, <<r.addr, FeedbackSSRC>>) = {sender}
    <3>1. Dests(sfu, <<r.addr, FeedbackSSRC>>) \subseteq {sender}
      BY <2>2, <2>3 DEF Ways
    <3>2. sender \in Dests(sfu, <<r.addr, FeedbackSSRC>>)
      BY <2>2 DEF Placed
    <3> QED BY <3>1, <3>2
  <2> HIDE DEF sender
  <2>6. r.addr \in handleRTCP(sfu, "sr", sender, r.ssrc).to
    BY <2>1, <2>4 DEF handleRTCP, handleSR
  <2>7. \A t \in {"nack", "pli"} :
           handleRTCP(sfu, t, r.addr, FeedbackSSRC) = [to |-> {sender}, cpu |-> TRUE]
    BY <2>1, <2>5 DEF handleRTCP, handleRTPFB, handlePSFB
  <2>8. handleRTCP(sfu, "rr", r.addr, FeedbackSSRC) = [to |-> {}, cpu |-> TRUE]
    BY DEF handleRTCP, handleRR
  <2> QED BY <2>6, <2>7, <2>8 DEF r, sender
<1> QED BY <1>1, AgentInvariant, WaysInvariant, PTL

=============================================================================
