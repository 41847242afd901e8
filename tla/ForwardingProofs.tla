-------------------------- MODULE ForwardingProofs --------------------------
(***************************************************************************)
(* Theorems about Forwarding and the sequence rewriter: for any number of  *)
(* receivers, frames, packets, templates and changes of targets, and any   *)
(* width of the sequence numbers and of the frame numbers.  What the       *)
(* rewriter does to the numbers is shown until the frame numbers go round: *)
(* after that it takes every frame for a past one.                         *)
(***************************************************************************)
EXTENDS Forwarding, LoopLemmas, SequenceTheorems

-----------------------------------------------------------------------------
(* Numbers that wrap around *)

\* a and b have the same low bits.
Same(a, b) == \E q \in Int : a - b = q * SeqMod

\* The low bits are a sequence number.
LEMMA ModRange ==
    ASSUME NEW a \in Int
    PROVE  a % SeqMod \in Seq16 /\ Same(a % SeqMod, a)
<1>1. a = (a \div SeqMod) * SeqMod + (a % SeqMod) /\ a \div SeqMod \in Int
  BY SeqModAssumption
<1>2. (a % SeqMod) - a = (-(a \div SeqMod)) * SeqMod /\ -(a \div SeqMod) \in Int
  BY <1>1, SeqModAssumption
<1>3. Same(a % SeqMod, a)
  BY <1>2 DEF Same
<1>4. a % SeqMod \in Seq16
  BY SeqModAssumption DEF Seq16
<1> QED BY <1>3, <1>4

\* Sequence numbers that have the same low bits are the same.
LEMMA SameRange ==
    ASSUME NEW r \in Seq16, NEW s \in Seq16, Same(r, s)
    PROVE  r = s
<1>1. PICK q \in Int : r - s = q * SeqMod
  BY DEF Same
<1>2. q >= 1 => q * SeqMod >= SeqMod
  BY SeqModAssumption
<1>3. q <= -1 => q * SeqMod <= -SeqMod
  BY SeqModAssumption
<1>4. r - s < SeqMod /\ r - s > -SeqMod /\ r \in Int /\ s \in Int
  BY SeqModAssumption DEF Seq16
<1>5. q = 0
  BY <1>1, <1>2, <1>3, <1>4, SeqModAssumption
<1> QED BY <1>1, <1>4, <1>5, SeqModAssumption

\* Every number has its own low bits.
LEMMA SameReflexive ==
    ASSUME NEW a \in Int
    PROVE  Same(a, a)
BY SeqModAssumption DEF Same

\* Sums and differences of numbers that agree agree.
LEMMA SameSum ==
    ASSUME NEW a \in Int, NEW b \in Int, NEW c \in Int, NEW d \in Int, Same(a, b), Same(c, d)
    PROVE  Same(a + c, b + d) /\ Same(a - c, b - d) /\ Same(b, a)
<1>1. PICK p \in Int, q \in Int : a - b = p * SeqMod /\ c - d = q * SeqMod
  BY DEF Same
<1>2. (a + c) - (b + d) = (p + q) * SeqMod /\ p + q \in Int
  BY <1>1, SeqModAssumption
<1>3. (a - c) - (b - d) = (p - q) * SeqMod /\ p - q \in Int
  BY <1>1, SeqModAssumption
<1>4. b - a = (-p) * SeqMod /\ -p \in Int
  BY <1>1, SeqModAssumption
<1> QED BY <1>2, <1>3, <1>4 DEF Same

\* The same number may be added to both, and both may be taken from it.
LEMMA SameShift ==
    ASSUME NEW a \in Int, NEW b \in Int, NEW c \in Int, Same(a, b)
    PROVE  Same(a + c, b + c) /\ Same(a - c, b - c) /\ Same(c - a, c - b) /\ Same(b, a)
<1>1. Same(c, c)
  BY SameReflexive
<1> QED BY <1>1, SameSum

\* Two numbers that agree with a third agree.
LEMMA SameTransitive ==
    ASSUME NEW a \in Int, NEW b \in Int, NEW c \in Int, Same(a, b), Same(b, c)
    PROVE  Same(a, c)
<1>1. PICK p \in Int, q \in Int : a - b = p * SeqMod /\ b - c = q * SeqMod
  BY DEF Same
<1>2. a - c = (p + q) * SeqMod /\ p + q \in Int
  BY <1>1, SeqModAssumption
<1> QED BY <1>2 DEF Same

\* Numbers agree when they are the same modulo SeqMod.
LEMMA SameMod ==
    ASSUME NEW a \in Int, NEW b \in Int
    PROVE  Same(a, b) <=> a % SeqMod = b % SeqMod
<1>1. a % SeqMod \in Int /\ b % SeqMod \in Int
  BY ModRange, SeqModAssumption DEF Seq16
<1>2. ASSUME Same(a, b) PROVE a % SeqMod = b % SeqMod
  <2>1. Same(a % SeqMod, b)
    BY <1>1, <1>2, ModRange, SameTransitive
  <2>2. Same(b, b % SeqMod)
    BY <1>1, ModRange, SameSum, SameReflexive
  <2>3. Same(a % SeqMod, b % SeqMod)
    BY <1>1, <2>1, <2>2, SameTransitive
  <2> QED BY <2>3, ModRange, SameRange
<1>3. ASSUME a % SeqMod = b % SeqMod PROVE Same(a, b)
  <2>1. Same(a, a % SeqMod)
    BY <1>1, ModRange, SameSum, SameReflexive
  <2> QED BY <1>1, <1>3, <2>1, ModRange, SameTransitive
<1> QED BY <1>2, <1>3

-----------------------------------------------------------------------------
(* Types *)

\* What a rewriter is given.
SeenType == [frame : Frame16, seq : Seq16, mark : Mark, drop : BOOLEAN]

\* A frame number has its 16 bits, and is a natural number.
LEMMA FrameRange ==
    /\ \A f \in Frame16 : f \in Nat
    /\ \A n \in Int : n % FrameMod \in Frame16
    /\ \A n \in Nat : n < FrameMod => n % FrameMod = n
BY SeqModAssumption DEF Frame16

\* The rewriter keeps its members in their types and gives a sequence number.
LEMMA RewrittenType ==
    ASSUME NEW r \in RewriterType, NEW k \in SeenType
    PROVE  Rewritten(r, k) \in RewriterType /\ RewrittenSeq(r, k) \in Seq16
<1>1. Seq16 \subseteq Int /\ \A a \in Int : a % SeqMod \in Seq16
  BY ModRange, SeqModAssumption DEF Seq16
<1>2. /\ k.frame \in Frame16 /\ r.maxFrame \in Frame16 /\ r.maxDropFrame \in Frame16
      /\ k.frame \in Nat /\ k.seq \in Seq16 /\ k.seq \in Int /\ k.drop \in BOOLEAN
      /\ r.dropCount \in Seq16 /\ r.dropCount \in Int
      /\ r.maxFrame \in Nat /\ r.maxDropFrame \in Nat
      /\ r.maxFrameStartSeq \in Seq16 /\ r.maxFrameStartSeq \in Int
      /\ r.maxFrameMaxSeq \in Seq16 /\ r.maxFrameMaxSeq \in Int
      /\ r.maxFrameEndSeen \in BOOLEAN /\ r.dropMaxFrame \in BOOLEAN
  BY <1>1, FrameRange DEF RewriterType, SeenType
<1>3. guessedStart(k) \in Seq16 /\ guessedMax(k) \in Seq16
  BY <1>1, <1>2 DEF guessedStart, guessedMax
<1>4. firstPacket(r, k) \in RewriterType
  <2>1. 2 % SeqMod \in Seq16
    BY <1>1
  <2> QED BY <1>2, <1>3, <2>1 DEF firstPacket, RewriterType
<1>5. sameFrame(r, k) \in RewriterType
  <2> DEFINE start == IF k.mark = "start" THEN k.seq
                      ELSE IF k.seq = r.maxFrameStartSeq THEN (k.seq - 1) % SeqMod
                      ELSE r.maxFrameStartSeq
  <2>1. start \in Seq16 /\ start \in Int
    <3>1. (k.seq - 1) % SeqMod \in Seq16
      BY <1>1, <1>2
    <3> QED BY <1>1, <1>2, <3>1
  <2>2. (r.dropCount + k.seq - start + 1) % SeqMod \in Seq16
    <3> HIDE DEF start
    <3>1. r.dropCount + k.seq - start + 1 \in Int
      BY <1>2, <2>1
    <3> QED BY <1>1, <3>1
  <2> QED BY <1>2, <1>3, <2>1, <2>2 DEF sameFrame, RewriterType
<1>6. nextFrame(r, k) \in RewriterType
  <2> DEFINE more == IF openDroppedFrame(r)
                     THEN IF k.mark = "start" THEN k.seq - r.maxFrameStartSeq ELSE 3
                     ELSE IF k.drop /\ k.mark = "end"
                     THEN IF r.maxFrameEndSeen THEN k.seq - r.maxFrameMaxSeq ELSE 2
                     ELSE 0
  <2>1. more \in Int
    BY <1>2
  <2>2. (r.dropCount + more) % SeqMod \in Seq16
    <3> HIDE DEF more
    <3> QED BY <1>1, <1>2, <2>1
  <2> QED BY <1>2, <1>3, <2>2 DEF nextFrame, RewriterType
<1>7. futureFrame(r, k) \in RewriterType
  <2> DEFINE skipped == IF /\ ~r.dropMaxFrame
                           /\ ~k.drop
                           /\ k.frame - r.maxFrame + 1 >= SkipCadence
                        THEN 2 ELSE 0
             opened == IF openDroppedFrame(r) THEN r.maxFrameMaxSeq - r.maxFrameStartSeq ELSE 0
             closed == IF k.drop /\ k.mark = "end" THEN 2 ELSE 0
  <2>1. skipped \in Int /\ opened \in Int /\ closed \in Int
    BY <1>2
  <2>2. (r.dropCount + skipped + opened + closed) % SeqMod \in Seq16
    <3> HIDE DEF skipped, opened, closed
    <3>1. r.dropCount + skipped + opened + closed \in Int
      BY <1>2, <2>1
    <3> QED BY <1>1, <3>1
  <2>3. (k.seq - 2) % SeqMod \in Seq16
    BY <1>1, <1>2
  <2> QED BY <1>2, <1>3, <2>2, <2>3 DEF futureFrame, RewriterType
<1>8. Rewritten(r, k) \in RewriterType
  <2>1. maxDropFrameAfter(r, k) \in Frame16
    BY <1>2 DEF maxDropFrameAfter
  <2>2. \A x \in RewriterType, n \in Frame16 : [x EXCEPT !.maxDropFrame = n] \in RewriterType
    BY DEF RewriterType
  <2>3. \/ isFirstPacket(r, k)
        \/ ~isFirstPacket(r, k) /\ k.frame = r.maxFrame
        \/ ~isFirstPacket(r, k) /\ k.frame = r.maxFrame + 1
        \/ ~isFirstPacket(r, k) /\ k.frame > r.maxFrame + 1
        \/ k.frame < r.maxFrame
    BY <1>2
  <2> HIDE DEF isFirstPacket
  <2> QED BY <1>4, <1>5, <1>6, <1>7, <2>1, <2>2, <2>3 DEF Rewritten
<1>9. RewrittenSeq(r, k) \in Seq16
  <2>1. Rewritten(r, k).dropCount \in Int
    BY <1>1, <1>8 DEF RewriterType
  <2>2. k.seq - Rewritten(r, k).dropCount \in Int
    BY <1>2, <2>1
  <2>3. k.seq - (r.dropCount - (r.maxFrameMaxSeq - r.maxFrameStartSeq + 1)) \in Int
    BY <1>2
  <2> QED BY <1>1, <1>2, <2>2, <2>3 DEF RewrittenSeq
<1> QED BY <1>8, <1>9

\* Taking the n-th element out of a sequence.
LEMMA TakenOut ==
    ASSUME NEW S, NEW s \in Seq(S), NEW n \in 1..Len(s)
    PROVE  LET t == SubSeq(s, 1, n - 1) \o SubSeq(s, n + 1, Len(s))
           IN /\ t \in Seq(S) /\ Len(t) = Len(s) - 1
              /\ \A i \in 1..Len(t) : t[i] = IF i < n THEN s[i] ELSE s[i + 1]
<1> DEFINE a == SubSeq(s, 1, n - 1)
           b == SubSeq(s, n + 1, Len(s))
<1>1. a \in Seq(S) /\ Len(a) = n - 1 /\ \A i \in 1..n - 1 : a[i] = s[i]
  BY SubSeqProperties
<1>2. b \in Seq(S) /\ Len(b) = Len(s) - n /\ \A i \in 1..Len(s) - n : b[i] = s[n + i]
  BY SubSeqProperties
<1> HIDE DEF a, b
<1>3. /\ a \o b \in Seq(S) /\ Len(a \o b) = Len(s) - 1
      /\ \A i \in 1..Len(s) - 1 : (a \o b)[i] = IF i < n THEN s[i] ELSE s[i + 1]
  <2>1. a \o b \in Seq(S) /\ Len(a \o b) = Len(a) + Len(b)
        /\ \A i \in 1..Len(a) + Len(b) : (a \o b)[i] = IF i <= Len(a) THEN a[i] ELSE b[i - Len(a)]
    BY <1>1, <1>2, ConcatProperties
  <2> QED BY <1>1, <1>2, <2>1
<1> QED BY <1>3 DEF a, b

\* The packet that arrives next leaves the others in flight, in their order.
LEMMA OthersInFlight ==
    ASSUME TypeOK, NEW n \in 1..Len(net), HandleRTP(n)
    PROVE  /\ net' \in Seq(PacketType) /\ Len(net') = Len(net) - 1
           /\ \A i \in 1..Len(net') : net'[i] = IF i < n THEN net[i] ELSE net[i + 1]
<1>1. net' = SubSeq(net, 1, n - 1) \o SubSeq(net, n + 1, Len(net)) /\ net \in Seq(PacketType)
  BY DEF HandleRTP, TypeOK
<1> QED BY <1>1, TakenOut

\* What a rewriter is given for a packet in flight has its type.
LEMMA SeenTyped ==
    ASSUME NEW k, k.frame \in Frame16, k.mark \in Mark, NEW i, NEW n \in Seq16
    PROVE  Seen(i, k, n) \in SeenType
BY DEF Seen, SeenType, L1T3Drop

\* The number in the packet buffer at each round of the loop of _handleRTP.
LEMMA BufferNumbers ==
    ASSUME path.receivers \in Nat \ {0}, rw \in [Receivers -> RewriterType],
           NEW k, k.frame \in Frame16, k.mark \in Mark, k.seq \in Seq16
    PROVE  LET buf == BufferSeq(k)
           IN /\ buf \in [Receivers -> Seq16]
              /\ buf[1] = k.seq
              /\ \A i \in Receivers \ {1} :
                    buf[i] = RewrittenSeq(rw[i - 1], Seen(i - 1, k, buf[i - 1]))
<1> DEFINE N == path.receivers - 1
           F == [n \in 1..N |-> [s \in Seq16 |-> RewrittenSeq(rw[n], Seen(n, k, s))]]
           IsBuf(b) == b = [i \in Receivers |->
                              IF i = 1 THEN k.seq ELSE RewrittenSeq(rw[i - 1], Seen(i - 1, k, b[i - 1]))]
           buf == BufferSeq(k)
<1>1. \A n \in Receivers, s \in Seq16 : RewrittenSeq(rw[n], Seen(n, k, s)) \in Seq16
  BY SeenTyped, RewrittenType
<1>2. N \in Nat /\ Receivers = 1..N + 1
  BY DEF Receivers
<1>3. F \in [1..N -> [Seq16 -> Seq16]]
  BY <1>1, <1>2
<1>4. PICK f \in [0..N -> Seq16] : IsLoop(f, N, k.seq, F)
  <2> HIDE DEF F, N
  <2> QED BY <1>2, <1>3, LoopExists
<1> DEFINE g == [i \in Receivers |-> f[i - 1]]
<1>5. IsBuf(g)
  <2> SUFFICES ASSUME NEW i \in Receivers
               PROVE  f[i - 1] = IF i = 1 THEN k.seq
                                 ELSE RewrittenSeq(rw[i - 1], Seen(i - 1, k, g[i - 1]))
    OBVIOUS
  <2>1. CASE i = 1
    BY <1>4, <1>2, <2>1 DEF IsLoop
  <2>2. CASE i # 1
    <3>1. /\ i - 1 \in 1..N /\ i - 1 \in Receivers /\ i - 1 \in 0..N /\ i - 1 # 0
          /\ i - 1 - 1 \in 0..N
      BY <1>2, <2>2
    <3>2. g[i - 1] = f[i - 1 - 1] /\ f[i - 1 - 1] \in Seq16
      <4> HIDE DEF N
      <4> QED BY <1>4, <3>1
    <3>3. f[i - 1] = F[i - 1][f[i - 1 - 1]]
      <4> HIDE DEF F
      <4> QED BY <1>4, <3>1 DEF IsLoop
    <3>4. F[i - 1][f[i - 1 - 1]] = RewrittenSeq(rw[i - 1], Seen(i - 1, k, f[i - 1 - 1]))
      BY <3>1, <3>2
    <3> QED BY <2>2, <3>2, <3>3, <3>4
  <2> QED BY <2>1, <2>2
<1> HIDE DEF g
<1>6. buf = CHOOSE b : IsBuf(b)
  BY DEF BufferSeq
<1> HIDE DEF buf
<1>7. IsBuf(buf)
  <2> HIDE DEF IsBuf
  <2> QED BY <1>5, <1>6
<1>8. /\ buf[1] = k.seq
      /\ \A i \in Receivers \ {1} : buf[i] = RewrittenSeq(rw[i - 1], Seen(i - 1, k, buf[i - 1]))
      /\ DOMAIN buf = Receivers
  <2>1. 1 \in Receivers
    BY <1>2
  <2> QED BY <1>7, <2>1
<1> DEFINE T == {n \in 0..N : buf[n + 1] \in Seq16}
<1>9. 0..N \subseteq T
  <2>1. 0 \in T
    BY <1>2, <1>8
  <2>2. \A n \in 1..N : n - 1 \in T => n \in T
    <3> SUFFICES ASSUME NEW n \in 1..N, n - 1 \in T PROVE n \in T
      OBVIOUS
    <3>1. n \in Receivers /\ n + 1 \in Receivers \ {1} /\ n + 1 - 1 = n /\ n - 1 + 1 = n
      BY <1>2
    <3>2. buf[n] \in Seq16
      BY <3>1
    <3> QED BY <1>1, <1>8, <3>1, <3>2
  <2> HIDE DEF T, N
  <2> QED BY <1>2, <2>1, <2>2, UpTo
<1>10. buf \in [Receivers -> Seq16]
  <2>1. ASSUME NEW i \in Receivers PROVE buf[i] \in Seq16
    <3>1. i - 1 \in 0..N /\ i - 1 + 1 = i
      BY <1>2
    <3> QED BY <1>9, <3>1
  <2>2. buf = [i \in Receivers |-> buf[i]]
    BY <1>7
  <2> QED BY <2>1, <2>2
<1> QED BY <1>8, <1>10 DEF buf

-----------------------------------------------------------------------------
(* Steps *)

\* What TypeOK says of the path, in terms that do not depend on it.
LEMMA PathTyped ==
    ASSUME TypeOK
    PROVE  /\ path.receivers \in Nat \ {0} /\ path.first \in Nat /\ path.frames \in Nat \ {0}
           /\ path.lens \subseteq Nat \ {0} /\ path.window \in Nat \ {0}
           /\ path.loses \subseteq Mark
           /\ len \in Nat \ {0} /\ frame \in Nat \ {0} /\ pos \in Nat
           /\ 1 \in Receivers /\ Receivers \subseteq Nat \ {0}
<1>1. path \in Path
  BY ForwardingAssumption DEF TypeOK
<1>2. path.first \in Nat
  BY <1>1, FrameRange DEF Path
<1> QED BY <1>1, <1>2 DEF Path, TypeOK, Receivers

\* Every packet that the sender sends has its type.
LEMMA PacketTyped ==
    ASSUME TypeOK
    PROVE  Packet \in PacketType
<1>1. (FirstSeq + index) % SeqMod \in Seq16
  <2>1. FirstSeq + index \in Int
    BY ForwardingAssumption, SeqModAssumption DEF TypeOK, Seq16
  <2> QED BY <2>1, ModRange
<1>2. markFromAV1FrameFlags(pos = 0, pos + 1 = len) \in Mark
  BY DEF markFromAV1FrameFlags, Mark
<1>3. (path.first + frame - 1) % FrameMod \in Frame16
  BY PathTyped, FrameRange
<1> HIDE DEF Mark, markFromAV1FrameFlags, Seq16, Frame16
<1> QED BY <1>1, <1>2, <1>3 DEF Packet, PacketType, TypeOK

\* The types are kept by a packet that is sent, or lost.
LEMMA SendTyped ==
    ASSUME TypeOK, Send
    PROVE  TypeOK'
<1>1. PacketType' = PacketType /\ Receivers' = Receivers
  BY DEF Send, PacketType, Receivers
<1>2. net' \in Seq(PacketType) /\ Len(net') <= path.window
  <2>1. CASE net' = Append(net, Packet)
    <3>1. Append(net, Packet) \in Seq(PacketType) /\ Len(Append(net, Packet)) = Len(net) + 1
      BY PacketTyped, AppendProperties DEF TypeOK
    <3>2. Len(net) \in Nat /\ Len(net) < path.window
      BY LenProperties DEF TypeOK, Send
    <3> QED BY <2>1, <3>1, <3>2, PathTyped
  <2>2. CASE UNCHANGED net
    BY <2>2 DEF TypeOK
  <2> QED BY <2>1, <2>2 DEF Send
<1>3. due' \in [Receivers -> Nat]
  BY DEF Send, TypeOK
<1>4. lost' \in [Receivers -> SUBSET Nat]
  <2>1. \A i \in Receivers : due[i] \in Nat /\ lost[i] \in SUBSET Nat
    BY DEF TypeOK
  <2>2. CASE UNCHANGED lost
    BY <2>2 DEF TypeOK
  <2>3. CASE lost' = [i \in Receivers |->
                       IF L1T3Drop(target[i], tmpl) THEN lost[i] ELSE lost[i] \cup {due[i]}]
    BY <2>1, <2>3
  <2> QED BY <2>2, <2>3 DEF Send
<1>5. index' \in Nat /\ pos' \in 0..len
  BY PathTyped DEF Send, TypeOK
<1>6. /\ path' \in Paths /\ frame' \in 1..path'.frames /\ tmpl' \in Templates /\ len' \in path'.lens
      /\ len' = len /\ path' = path
      /\ target' \in [Receivers -> Targets] /\ retargets' \in 0..MaxRetargets
      /\ rw' \in [Receivers -> RewriterType]
      /\ fwd' \in [Receivers -> SUBSET [idx : Nat, rank : Nat, out : Seq16]]
  BY DEF Send, TypeOK
<1> QED BY <1>1, <1>2, <1>3, <1>4, <1>5, <1>6 DEF TypeOK

\* The data plane gives each packet numbers of 16 bits.
LEMMA HandleRTPTyped ==
    ASSUME TypeOK, NEW n \in 1..Len(net), HandleRTP(n)
    PROVE  TypeOK'
<1> DEFINE k == net[n]
           buf == BufferSeq(k)
<1>1. PacketType' = PacketType /\ Receivers' = Receivers
  BY DEF HandleRTP, PacketType, Receivers
<1>2. k \in PacketType /\ Len(net) \in Nat
  BY DEF TypeOK
<1>3. /\ k.frame \in Frame16 /\ k.mark \in Mark /\ k.seq \in Seq16 /\ k.idx \in Nat
      /\ \A i \in Receivers : k.rank[i] \in Nat
  BY <1>2 DEF PacketType
<1>4. net' \in Seq(PacketType) /\ Len(net') <= path.window
  <2>1. net' \in Seq(PacketType) /\ Len(net') = Len(net) - 1
    BY OthersInFlight
  <2>2. Len(net) <= path.window /\ path.window \in Nat
    BY PathTyped DEF TypeOK
  <2>3. Len(net) - 1 <= path.window
    BY <1>2, <2>2
  <2> QED BY <2>1, <2>3
<1>5. /\ rw' = [i \in Receivers |->
                  IF Reached(i, k) THEN Rewritten(rw[i], Seen(i, k, buf[i])) ELSE rw[i]]
      /\ fwd' = [i \in Receivers |->
                   IF Reached(i + 1, k)
                   THEN fwd[i] \cup {[idx |-> k.idx, rank |-> k.rank[i],
                                      out |-> RewrittenSeq(rw[i], Seen(i, k, buf[i]))]}
                   ELSE fwd[i]]
  BY DEF HandleRTP
<1> HIDE DEF k
<1>6. buf \in [Receivers -> Seq16]
  BY <1>3, BufferNumbers, PathTyped DEF TypeOK
<1> HIDE DEF buf
<1>7. \A i \in Receivers : /\ Rewritten(rw[i], Seen(i, k, buf[i])) \in RewriterType
                           /\ RewrittenSeq(rw[i], Seen(i, k, buf[i])) \in Seq16
  BY <1>3, <1>6, SeenTyped, RewrittenType DEF TypeOK
<1>8. rw' \in [Receivers -> RewriterType]
  BY <1>5, <1>7 DEF TypeOK
<1>9. fwd' \in [Receivers -> SUBSET [idx : Nat, rank : Nat, out : Seq16]]
  <2> DEFINE a(i) == [idx |-> k.idx, rank |-> k.rank[i],
                      out |-> RewrittenSeq(rw[i], Seen(i, k, buf[i]))]
  <2>1. \A i \in Receivers : a(i) \in [idx : Nat, rank : Nat, out : Seq16]
    BY <1>3, <1>7
  <2>2. \A i \in Receivers : fwd[i] \in SUBSET [idx : Nat, rank : Nat, out : Seq16]
    BY DEF TypeOK
  <2>3. fwd' = [i \in Receivers |-> IF Reached(i + 1, k) THEN fwd[i] \cup {a(i)} ELSE fwd[i]]
    BY <1>5
  <2> HIDE DEF a
  <2> QED BY <2>1, <2>2, <2>3
<1>10. /\ path' \in Paths /\ frame' \in 1..path'.frames /\ tmpl' \in Templates /\ len' \in path'.lens
       /\ pos' \in 0..len' /\ path' = path /\ index' \in Nat
       /\ target' \in [Receivers -> Targets] /\ retargets' \in 0..MaxRetargets
       /\ due' \in [Receivers -> Nat] /\ lost' \in [Receivers -> SUBSET Nat]
  BY DEF HandleRTP, TypeOK
<1> QED BY <1>1, <1>4, <1>8, <1>9, <1>10 DEF TypeOK

\* The program begins with every variable in its type.
LEMMA InitTyped ==
    ASSUME Init
    PROVE  TypeOK
<1>1. path \in Path /\ path.receivers \in Nat \ {0} /\ path.frames \in Nat \ {0}
      /\ path.window \in Nat \ {0}
      /\ path.lens \subseteq Nat \ {0}
  BY ForwardingAssumption DEF Init, Path
<1>2. NewRewriter \in RewriterType
  <2>1. 0 \in Seq16 /\ 0 \in Frame16
    BY SeqModAssumption DEF Seq16, Frame16
  <2> QED BY <2>1 DEF NewRewriter, RewriterType
<1>3. net \in Seq(PacketType) /\ Len(net) <= path.window
  <2>1. net = <<>>
    BY DEF Init
  <2> HIDE DEF PacketType
  <2> QED BY <1>1, <2>1, EmptySeq
<1>4. Hi \in Targets /\ 0 \in 0..MaxRetargets
  BY ForwardingAssumption
<1>5. 0 \in 0..len /\ 1 \in 1..path.frames
  BY <1>1 DEF Init
<1> QED BY <1>2, <1>3, <1>4, <1>5 DEF Init, TypeOK

\* Every step keeps the types.
LEMMA NextTyped ==
    ASSUME TypeOK, [Next]_vars
    PROVE  TypeOK'
<1>1. CASE Send
  BY <1>1, SendTyped
<1>2. CASE NextFrame
  <2>1. PacketType' = PacketType /\ Receivers' = Receivers
    BY <1>2 DEF NextFrame, PacketType, Receivers
  <2>2. frame' \in 1..path.frames /\ 0 \in 0..len'
    <3>1. len' \in Nat
      BY <1>2, PathTyped DEF NextFrame
    <3> QED BY <1>2, <3>1, PathTyped DEF NextFrame, TypeOK
  <2> QED BY <1>2, <2>1, <2>2 DEF NextFrame, TypeOK
<1>3. ASSUME NEW n \in 1..Len(net), HandleRTP(n)
      PROVE  TypeOK'
  BY <1>3, HandleRTPTyped
<1>4. ASSUME NEW i \in path.adaptive \cap Receivers, NEW t \in Targets, AdjustDecodeTarget(i, t)
      PROVE  TypeOK'
  <2>1. PacketType' = PacketType /\ Receivers' = Receivers
    BY <1>4 DEF AdjustDecodeTarget, PacketType, Receivers
  <2>2. retargets' \in 0..MaxRetargets
    BY <1>4, ForwardingAssumption DEF AdjustDecodeTarget, TypeOK
  <2> QED BY <1>4, <2>1, <2>2 DEF AdjustDecodeTarget, TypeOK
<1>5. CASE UNCHANGED vars
  <2>1. PacketType' = PacketType /\ Receivers' = Receivers
    BY <1>5 DEF vars, PacketType, Receivers
  <2> QED BY <1>5, <2>1 DEF vars, TypeOK
<1> QED BY <1>1, <1>2, <1>3, <1>4, <1>5 DEF Next

\* Every variable keeps its type: numbers, drop counts and the guesses of the
\* rewriters stay within 16 bits, whatever arrives, in whatever order.
THEOREM ForwardingTypeCorrect == Spec => []TypeOK
<1> QED BY InitTyped, NextTyped, PTL DEF Spec

-----------------------------------------------------------------------------
(* Nothing is lost inside the SFU *)

\* Only the last action of the entry adapts, and between two frames only: the
\* loop of _handleRTP returns at the first action that drops the packet, so that
\* an adapting receiver starves those after it.
LastAdapts == ~MidFrame /\ path.adaptive \cap Receivers \subseteq {path.receivers}

\* Every action but the last one keeps the target it began with.
OthersKeepAll == \A i \in Receivers : i # path.receivers => target[i] = Hi

\* The ranks of the packets in flight that receiver i is due.
Underway(i) ==
    {net[n].rank[i] : n \in {m \in 1..Len(net) : ~L1T3Drop(target[i], net[m].tmpl)}}

\* Each packet that a receiver is due is in flight, lost by the network or forwarded.
Accounted ==
    \A i \in Receivers :
        /\ lost[i] \subseteq 0..due[i] - 1
        /\ {a.rank : a \in fwd[i]} \cup Underway(i) = (0..due[i] - 1) \ lost[i]

StarvedInv == TypeOK /\ (LastAdapts => OthersKeepAll /\ Accounted)

\* The action of a receiver runs, and keeps the packet, when the receiver is due it.
LEMMA ReachedWhenDue ==
    ASSUME TypeOK, OthersKeepAll, NEW i \in Receivers, NEW k
    PROVE  Reached(i, k) /\ (Reached(i + 1, k) <=> ~L1T3Drop(target[i], k.tmpl))
<1>1. i \in Nat \ {0} /\ i <= path.receivers /\ path.receivers \in Nat \ {0}
  BY PathTyped DEF Receivers
<1>2. ASSUME NEW j \in 1..i - 1 PROVE ~L1T3Drop(target[j], k.tmpl)
  <2>1. j \in Receivers /\ j # path.receivers
    BY <1>1 DEF Receivers
  <2> QED BY <2>1 DEF OthersKeepAll, L1T3Drop, Hi
<1>3. Reached(i, k)
  BY <1>2 DEF Reached
<1>4. i + 1 - 1 = i
  BY <1>1
<1>5. \A j \in 1..i : j = i \/ j \in 1..i - 1
  BY <1>1
<1>6. i \in 1..i
  BY <1>1
<1> QED BY <1>2, <1>3, <1>4, <1>5, <1>6 DEF Reached

\* Each receiver is sent what it is due.
LEMMA StepAccounted ==
    ASSUME TypeOK, OthersKeepAll, Accounted, NEW n \in 1..Len(net), HandleRTP(n)
    PROVE  Accounted'
<1> DEFINE k == net[n]
<1>1. Receivers' = Receivers /\ due' = due /\ lost' = lost /\ target' = target
  BY DEF HandleRTP, Receivers
<1>2. /\ Len(net) \in Nat /\ Len(net') = Len(net) - 1
      /\ \A m \in 1..Len(net') : net'[m] = IF m < n THEN net[m] ELSE net[m + 1]
  BY OthersInFlight DEF TypeOK
<1>3. SUFFICES ASSUME NEW i \in Receivers
               PROVE  {a.rank : a \in fwd'[i]} \cup Underway(i)' = {a.rank : a \in fwd[i]} \cup Underway(i)
  BY <1>1 DEF Accounted
<1> DEFINE due_(q) == ~L1T3Drop(target[i], q.tmpl)
           one == [idx |-> k.idx, rank |-> k.rank[i],
                   out |-> RewrittenSeq(rw[i], Seen(i, k, BufferSeq(k)[i]))]
<1>4. fwd'[i] = IF due_(k) THEN fwd[i] \cup {one} ELSE fwd[i]
  BY <1>3, ReachedWhenDue DEF HandleRTP
<1> HIDE DEF due_
<1>5. Underway(i)' = {net'[m].rank[i] : m \in {p \in 1..Len(net') : due_(net'[p])}}
  BY <1>1 DEF Underway, due_
<1>6. Underway(i) = {net[m].rank[i] : m \in {p \in 1..Len(net) : due_(net[p])}}
  BY DEF Underway, due_
<1>7. Underway(i)' \subseteq Underway(i)
  <2> SUFFICES ASSUME NEW m \in 1..Len(net'), due_(net'[m]) PROVE net'[m].rank[i] \in Underway(i)
    BY <1>5
  <2>1. m \in 1..Len(net) /\ m + 1 \in 1..Len(net)
    BY <1>2
  <2>2. net'[m] = net[m] \/ net'[m] = net[m + 1]
    BY <1>2
  <2> QED BY <1>6, <2>1, <2>2
<1>8. ASSUME NEW m \in 1..Len(net), due_(net[m])
      PROVE  net[m].rank[i] \in Underway(i)' \/ (m = n /\ due_(k))
  <2>1. CASE m = n
    BY <1>8, <2>1
  <2>2. CASE m < n
    <3>1. m \in 1..Len(net') /\ net'[m] = net[m]
      BY <1>2, <2>2
    <3> QED BY <1>5, <1>8, <3>1
  <2>3. CASE m > n
    <3>1. m - 1 \in 1..Len(net') /\ ~(m - 1 < n) /\ m - 1 + 1 = m
      BY <1>2, <2>3
    <3>2. net'[m - 1] = net[m]
      BY <1>2, <3>1
    <3> QED BY <1>5, <1>8, <3>1, <3>2
  <2> QED BY <1>2, <2>1, <2>2, <2>3
<1>9. due_(k) => k.rank[i] \in Underway(i)
  BY <1>6
<1>10. Underway(i) \subseteq Underway(i)' \cup (IF due_(k) THEN {k.rank[i]} ELSE {})
  BY <1>6, <1>8
<1>11. {a.rank : a \in fwd'[i]} = {a.rank : a \in fwd[i]} \cup (IF due_(k) THEN {k.rank[i]} ELSE {})
  <2>1. one.rank = k.rank[i]
    OBVIOUS
  <2> HIDE DEF one, k
  <2>2. CASE due_(k)
    <3>1. {a.rank : a \in fwd[i] \cup {one}} = {a.rank : a \in fwd[i]} \cup {one.rank}
      OBVIOUS
    <3> QED BY <1>4, <2>1, <2>2, <3>1
  <2>3. CASE ~due_(k)
    BY <1>4, <2>3
  <2> QED BY <2>2, <2>3
<1> HIDE DEF k
<1> QED BY <1>7, <1>9, <1>10, <1>11

\* A packet that is sent is one more in flight, or lost, for each receiver that is due it.
LEMMA SendAccounted ==
    ASSUME TypeOK, Accounted, Send
    PROVE  Accounted'
<1>1. Receivers' = Receivers /\ target' = target /\ fwd' = fwd
  BY DEF Send, Receivers
<1> SUFFICES ASSUME NEW i \in Receivers
             PROVE  /\ lost'[i] \subseteq 0..due'[i] - 1
                    /\ {a.rank : a \in fwd[i]} \cup Underway(i)' = (0..due'[i] - 1) \ lost'[i]
  BY <1>1 DEF Accounted
<1> DEFINE yes == ~L1T3Drop(target[i], tmpl)
           R == {a.rank : a \in fwd[i]}
<1>2. due[i] \in Nat /\ due'[i] = IF yes THEN due[i] + 1 ELSE due[i]
  BY DEF Send, TypeOK
<1>3. lost[i] \subseteq 0..due[i] - 1 /\ R \cup Underway(i) = (0..due[i] - 1) \ lost[i]
  BY DEF Accounted
<1>4. yes => 0..due'[i] - 1 = (0..due[i] - 1) \cup {due[i]}
  BY <1>2
<1>5. due[i] \notin 0..due[i] - 1
  BY <1>2
<1>6. CASE net' = Append(net, Packet) /\ UNCHANGED lost
  <2>1. /\ Len(net) \in Nat /\ Len(net') = Len(net) + 1
        /\ \A m \in 1..Len(net) : net'[m] = net[m]
        /\ net'[Len(net) + 1] = Packet
    <3>1. net \in Seq(PacketType) /\ Packet \in PacketType
      BY PacketTyped DEF TypeOK
    <3> HIDE DEF PacketType, Packet
    <3> QED BY <1>6, <3>1, AppendProperties, LenProperties
  <2>2. Packet.tmpl = tmpl /\ Packet.rank[i] = due[i]
    BY DEF Packet
  <2>3. Underway(i)' = {net'[m].rank[i] : m \in {p \in 1..Len(net') : ~L1T3Drop(target[i], net'[p].tmpl)}}
    BY <1>1 DEF Underway
  <2>4. \A m : m \in 1..Len(net') <=> m \in 1..Len(net) \/ m = Len(net) + 1
    BY <2>1
  <2> HIDE DEF yes, Packet
  <2>5. Underway(i)' = Underway(i) \cup (IF yes THEN {due[i]} ELSE {})
    <3>1. Underway(i)' \subseteq Underway(i) \cup (IF yes THEN {due[i]} ELSE {})
      <4> SUFFICES ASSUME NEW m \in 1..Len(net'), ~L1T3Drop(target[i], net'[m].tmpl)
                   PROVE  net'[m].rank[i] \in Underway(i) \cup (IF yes THEN {due[i]} ELSE {})
        BY <2>3
      <4>1. CASE m \in 1..Len(net)
        BY <2>1, <4>1 DEF Underway
      <4>2. CASE m = Len(net) + 1
        BY <2>1, <2>2, <4>2 DEF yes
      <4> QED BY <2>4, <4>1, <4>2
    <3>2. Underway(i) \subseteq Underway(i)'
      <4> SUFFICES ASSUME NEW m \in 1..Len(net), ~L1T3Drop(target[i], net[m].tmpl)
                   PROVE  net[m].rank[i] \in Underway(i)'
        BY DEF Underway
      <4> QED BY <2>1, <2>3, <2>4
    <3>3. yes => due[i] \in Underway(i)'
      BY <2>1, <2>2, <2>3, <2>4 DEF yes
    <3> QED BY <3>1, <3>2, <3>3
  <2> HIDE DEF R
  <2>6. lost'[i] \subseteq 0..due'[i] - 1 /\ R \cup Underway(i)' = (0..due'[i] - 1) \ lost'[i]
    <3>1. CASE yes
      BY <1>2, <1>3, <1>4, <1>5, <1>6, <2>5, <3>1
    <3>2. CASE ~yes
      BY <1>2, <1>3, <1>6, <2>5, <3>2
    <3> QED BY <3>1, <3>2
  <2> QED BY <2>6 DEF R
<1>7. CASE /\ lost' = [j \in Receivers |->
                         IF L1T3Drop(target[j], tmpl) THEN lost[j] ELSE lost[j] \cup {due[j]}]
           /\ UNCHANGED net
  <2>1. Underway(i)' = Underway(i)
    BY <1>1, <1>7 DEF Underway
  <2>2. lost'[i] = IF yes THEN lost[i] \cup {due[i]} ELSE lost[i]
    BY <1>7
  <2> HIDE DEF R, yes
  <2>3. lost'[i] \subseteq 0..due'[i] - 1 /\ R \cup Underway(i)' = (0..due'[i] - 1) \ lost'[i]
    <3>1. CASE yes
      BY <1>2, <1>3, <1>4, <1>5, <2>1, <2>2, <3>1
    <3>2. CASE ~yes
      BY <1>2, <1>3, <2>1, <2>2, <3>2
    <3> QED BY <3>1, <3>2
  <2> QED BY <2>3 DEF R
<1> QED BY <1>6, <1>7 DEF Send

\* The invariant holds at first.
LEMMA StarvedInit ==
    ASSUME Init
    PROVE  StarvedInv
<1> SUFFICES OthersKeepAll /\ Accounted
  BY InitTyped DEF StarvedInv
<1>1. Len(net) = 0
  BY EmptySeq DEF Init
<1>2. \A i \in Receivers : /\ due[i] = 0 /\ lost[i] = {} /\ fwd[i] = {} /\ target[i] = Hi
                           /\ Underway(i) = {}
  BY <1>1 DEF Init, Underway
<1> QED BY <1>2 DEF OthersKeepAll, Accounted

\* Every step keeps it.
LEMMA StarvedNext ==
    ASSUME StarvedInv, [Next]_vars
    PROVE  StarvedInv'
<1> SUFFICES ASSUME LastAdapts' PROVE OthersKeepAll' /\ Accounted'
  BY NextTyped DEF StarvedInv
<1>1. LastAdapts /\ OthersKeepAll /\ Accounted /\ TypeOK /\ Receivers' = Receivers
  <2>1. path' = path
    BY DEF Next, Send, NextFrame, HandleRTP, AdjustDecodeTarget, vars
  <2> QED BY <2>1 DEF LastAdapts, StarvedInv, Receivers
<1>2. CASE Send
  <2>1. OthersKeepAll'
    BY <1>1, <1>2 DEF Send, OthersKeepAll
  <2> QED BY <1>1, <1>2, <2>1, SendAccounted
<1>3. CASE NextFrame \/ UNCHANGED vars
  BY <1>1, <1>3 DEF NextFrame, vars, OthersKeepAll, Accounted, Underway
<1>4. ASSUME NEW n \in 1..Len(net), HandleRTP(n)
      PROVE  OthersKeepAll' /\ Accounted'
  <2>1. OthersKeepAll'
    BY <1>1, <1>4 DEF HandleRTP, OthersKeepAll
  <2> QED BY <1>1, <1>4, <2>1, StepAccounted
<1>5. ASSUME NEW i \in path.adaptive \cap Receivers, NEW t \in Targets, AdjustDecodeTarget(i, t)
      PROVE  OthersKeepAll' /\ Accounted'
  <2>1. i = path.receivers /\ net = <<>> /\ net' = <<>>
    BY <1>1, <1>5 DEF LastAdapts, AdjustDecodeTarget
  <2>2. OthersKeepAll'
    BY <1>1, <1>5, <2>1 DEF OthersKeepAll, AdjustDecodeTarget, TypeOK
  <2>3. Len(net) = 0 /\ Len(net') = 0
    BY <2>1, EmptySeq
  <2>4. \A j : Underway(j) = {} /\ Underway(j)' = {}
    BY <2>3 DEF Underway
  <2> QED BY <1>1, <1>5, <2>2, <2>4 DEF Accounted, AdjustDecodeTarget
<1> QED BY <1>2, <1>3, <1>4, <1>5 DEF Next

\* Nothing is lost inside the SFU: while only the last action of the entry adapts,
\* and between two frames only, every receiver is sent every packet it is due that
\* the network did not lose, in whatever order the packets arrive.
THEOREM NothingStarvedAlways == Spec => [](LastAdapts => NothingStarved)
<1>1. StarvedInv => (LastAdapts => NothingStarved)
  <2> SUFFICES ASSUME StarvedInv, LastAdapts, net = <<>>, NEW i \in Receivers
               PROVE  {a.rank : a \in fwd[i]} = (0..due[i] - 1) \ lost[i]
    BY DEF NothingStarved
  <2>1. Len(net) = 0
    BY EmptySeq
  <2>2. Underway(i) = {}
    BY <2>1 DEF Underway
  <2> QED BY <2>2 DEF StarvedInv, Accounted
<1> QED BY <1>1, StarvedInit, StarvedNext, PTL DEF Spec

-----------------------------------------------------------------------------
(* What a rewriter makes of packets that arrive in order *)

\* A sequence number is its own low bits.
LEMMA SeqItself ==
    ASSUME NEW s \in Seq16
    PROVE  s % SeqMod = s /\ s \in Int
<1>1. s \in Int
  BY SeqModAssumption DEF Seq16
<1> QED BY <1>1, ModRange, SameRange

\* The rewriter r has seen the end of frame f - 1 but nothing of frame f yet, whose
\* first packet has the number s.
Closed(r, f, s) == r.maxFrame = f - 1 /\ r.maxFrameEndSeen /\ Same(r.maxFrameMaxSeq, s - 1)

\* It has seen some packet of frame f, but not its end.
Opened(r, f) == r.maxFrame = f /\ ~r.maxFrameEndSeen

\* A packet k of frame f was the latest that the rewriter saw, which is now x.
Followed(x, k) ==
    /\ x.maxFrame = k.frame
    /\ x.maxFrameEndSeen = (k.mark = "end")
    /\ k.mark = "end" => x.maxFrameMaxSeq = k.seq

\* The first packet of a frame after one that is complete.
LEMMA PacketOfNextFrame ==
    ASSUME NEW r \in RewriterType, NEW k \in SeenType, NEW s, Closed(r, k.frame, s)
    PROVE  LET x == Rewritten(r, k)
           IN /\ Followed(x, k)
              /\ x.maxFrameStartSeq = guessedStart(k)
              /\ x.dropCount = (r.dropCount + (IF k.drop /\ k.mark = "end"
                                               THEN k.seq - r.maxFrameMaxSeq ELSE 0)) % SeqMod
              /\ RewrittenSeq(r, k) = (k.seq - x.dropCount) % SeqMod
<1>1. k.frame \in Nat /\ r.maxFrame \in Nat /\ k.frame = r.maxFrame + 1 /\ r.maxFrameEndSeen = TRUE
  BY FrameRange DEF Closed, SeenType, RewriterType
<1>2. ~isFirstPacket(r, k) /\ ~beforeClosedDrop(r, k)
  BY <1>1 DEF isFirstPacket, beforeClosedDrop
<1>3. ~(k.frame = r.maxFrame) /\ ~(k.frame > r.maxFrame + 1) /\ ~(k.frame < r.maxFrame)
  BY <1>1
<1>4. Rewritten(r, k) = [nextFrame(r, k) EXCEPT !.maxDropFrame = maxDropFrameAfter(r, k)]
  BY <1>1, <1>2, <1>3 DEF Rewritten
<1>5. nextFrame(r, k) = [r EXCEPT !.maxFrame = k.frame,
            !.dropCount = (r.dropCount + (IF k.drop /\ k.mark = "end"
                                          THEN k.seq - r.maxFrameMaxSeq ELSE 0)) % SeqMod,
            !.dropMaxFrame = k.drop, !.maxFrameStartSeq = guessedStart(k),
            !.maxFrameMaxSeq = guessedMax(k), !.maxFrameEndSeen = (k.mark = "end")]
  BY <1>1 DEF nextFrame, openDroppedFrame
<1>6. k.mark = "end" => guessedMax(k) = k.seq
  BY DEF guessedMax
<1> QED BY <1>2, <1>4, <1>5, <1>6 DEF Followed, RewriterType, RewrittenSeq

\* Another packet of the frame that the rewriter saw last.
LEMMA PacketOfSameFrame ==
    ASSUME NEW r \in RewriterType, NEW k \in SeenType, Opened(r, k.frame), k.mark # "start"
    PROVE  LET x == Rewritten(r, k)
           IN /\ Followed(x, k)
              /\ ~k.drop \/ k.mark # "end" => x.dropCount = r.dropCount
              /\ RewrittenSeq(r, k) = (k.seq - x.dropCount) % SeqMod
              /\ k.seq # r.maxFrameStartSeq =>
                    /\ x.maxFrameStartSeq = r.maxFrameStartSeq
                    /\ k.drop /\ k.mark = "end" =>
                          x.dropCount = (r.dropCount + k.seq - r.maxFrameStartSeq + 1) % SeqMod
<1>1. k.frame \in Nat /\ r.maxFrame \in Nat /\ k.frame = r.maxFrame /\ r.maxFrameEndSeen = FALSE
  BY FrameRange DEF Opened, SeenType, RewriterType
<1>2. ~isFirstPacket(r, k) /\ ~beforeClosedDrop(r, k)
  BY <1>1 DEF isFirstPacket, beforeClosedDrop
<1>3. ~(k.frame = r.maxFrame + 1) /\ ~(k.frame > r.maxFrame + 1) /\ ~(k.frame < r.maxFrame)
  BY <1>1
<1>4. Rewritten(r, k) = [sameFrame(r, k) EXCEPT !.maxDropFrame = maxDropFrameAfter(r, k)]
  BY <1>1, <1>2, <1>3 DEF Rewritten
<1> DEFINE start == IF k.seq = r.maxFrameStartSeq THEN (k.seq - 1) % SeqMod ELSE r.maxFrameStartSeq
<1>5. sameFrame(r, k) = [r EXCEPT !.maxFrameStartSeq = start,
            !.maxFrameMaxSeq = guessedMax(k),
            !.dropCount = IF k.drop /\ k.mark = "end"
                          THEN (r.dropCount + k.seq - start + 1) % SeqMod ELSE r.dropCount,
            !.maxFrameEndSeen = (k.mark = "end")]
  BY <1>1 DEF sameFrame
<1>6. k.mark = "end" => guessedMax(k) = k.seq
  BY DEF guessedMax
<1> QED BY <1>1, <1>2, <1>4, <1>5, <1>6 DEF Followed, RewriterType, RewrittenSeq

\* The first packet that a rewriter sees.
LEMMA PacketOfFirstFrame ==
    ASSUME NEW k \in SeenType
    PROVE  LET x == Rewritten(NewRewriter, k)
           IN /\ Followed(x, k)
              /\ ~k.drop => x.dropCount = 0 /\ RewrittenSeq(NewRewriter, k) = k.seq
<1> DEFINE r == NewRewriter
           x == Rewritten(r, k)
<1>1. k.frame \in Nat /\ k.drop \in BOOLEAN /\ k.seq \in Seq16
  BY FrameRange DEF SeenType
<1>2. /\ r \in RewriterType /\ r.maxFrame = 0 /\ r.maxFrameEndSeen = FALSE /\ r.dropCount = 0
      /\ r.dropMaxFrame = FALSE
  <2>1. 0 \in Seq16 /\ 0 \in Frame16
    BY SeqModAssumption DEF Seq16, Frame16
  <2> QED BY <2>1 DEF NewRewriter, RewriterType
<1>3. (k.seq - 0) % SeqMod = k.seq /\ (0 + 0) % SeqMod = 0
  <2>1. 0 \in Seq16
    BY SeqModAssumption DEF Seq16
  <2>2. k.seq - 0 = k.seq /\ 0 + 0 = 0
    BY <1>1, SeqItself
  <2> QED BY <1>1, <2>1, <2>2, SeqItself
<1>4. ~beforeClosedDrop(r, k)
  BY <1>2 DEF beforeClosedDrop
<1>5. k.mark = "end" => guessedMax(k) = k.seq
  BY DEF guessedMax
<1> HIDE DEF r
<1>6. CASE k.frame > 1
  <2>1. isFirstPacket(r, k) /\ ~(k.frame < r.maxFrame)
    BY <1>1, <1>2, <1>6 DEF isFirstPacket
  <2>2. x = [firstPacket(r, k) EXCEPT !.maxDropFrame = maxDropFrameAfter(r, k)]
    BY <2>1 DEF Rewritten
  <2> QED BY <1>2, <1>5, <2>1, <2>2 DEF firstPacket, Followed, RewrittenSeq, RewriterType, r
<1>7. CASE k.frame = 1
  <2>1. ~isFirstPacket(r, k) /\ k.frame = r.maxFrame + 1 /\ ~(k.frame > r.maxFrame + 1)
        /\ ~(k.frame < r.maxFrame) /\ ~(k.frame = r.maxFrame)
    BY <1>1, <1>2, <1>7 DEF isFirstPacket
  <2>2. x = [nextFrame(r, k) EXCEPT !.maxDropFrame = maxDropFrameAfter(r, k)]
    BY <2>1 DEF Rewritten
  <2>3. ~k.drop => x.dropCount = 0
    BY <1>2, <1>3, <2>2 DEF nextFrame, openDroppedFrame, RewriterType
  <2>4. Followed(x, k)
    BY <1>2, <1>5, <2>2 DEF nextFrame, Followed, RewriterType
  <2>5. RewrittenSeq(r, k) = (k.seq - x.dropCount) % SeqMod
    BY <1>4, <2>1 DEF RewrittenSeq
  <2> HIDE DEF x
  <2> QED BY <1>3, <2>3, <2>4, <2>5 DEF x, r
<1>8. CASE k.frame = 0
  <2>1. ~isFirstPacket(r, k) /\ k.frame = r.maxFrame /\ ~(k.frame = r.maxFrame + 1)
        /\ ~(k.frame > r.maxFrame + 1) /\ ~(k.frame < r.maxFrame)
    BY <1>1, <1>2, <1>8 DEF isFirstPacket
  <2>2. x = [sameFrame(r, k) EXCEPT !.maxDropFrame = maxDropFrameAfter(r, k)]
    BY <2>1 DEF Rewritten
  <2>3. ~k.drop => x.dropCount = 0
    BY <1>2, <2>2 DEF sameFrame, RewriterType
  <2>4. Followed(x, k)
    BY <1>2, <1>5, <2>1, <2>2 DEF sameFrame, Followed, RewriterType
  <2>5. RewrittenSeq(r, k) = (k.seq - x.dropCount) % SeqMod
    BY <1>4, <2>1 DEF RewrittenSeq
  <2> HIDE DEF x
  <2> QED BY <1>3, <2>3, <2>4, <2>5 DEF x, r
<1> QED BY <1>1, <1>6, <1>7, <1>8 DEF r

-----------------------------------------------------------------------------
(* No gap but those of the network *)

\* The network keeps the order.  It loses no packet that ends a frame, and where
\* both the first packet of a frame and one inside it may be lost, a frame has not
\* more than three: the rewriter guesses the first number of a frame from the first
\* packet of it that arrives.  A frame does not use up all numbers.
InOrder ==
    /\ path.window = 1
    /\ "end" \notin path.loses
    /\ {"start", "inter"} \subseteq path.loses => path.lens \subseteq 1..3
    /\ path.lens \subseteq 1..SeqMod

\* The number of the frame being sent.
Current == path.first + frame - 1

\* The numbers of the frames have not gone round yet.
Unwrapped == path.first + frame <= FrameMod

\* Until then a packet bears the number of its frame.
LEMMA FrameOfPacket ==
    ASSUME TypeOK, Unwrapped
    PROVE  Packet.frame = Current
<1>1. Current \in Nat /\ Current < FrameMod
  BY PathTyped, SeqModAssumption DEF Current, Unwrapped
<1> QED BY <1>1, FrameRange DEF Packet, Current

\* Numbers that have gone round have gone round for good.
LEMMA UnwrappedBefore ==
    ASSUME TypeOK, [Next]_vars, Unwrapped'
    PROVE  Unwrapped
<1>1. path' = path /\ (frame' = frame \/ frame' = frame + 1)
  BY DEF Next, Send, NextFrame, HandleRTP, AdjustDecodeTarget, vars
<1> QED BY <1>1, PathTyped, SeqModAssumption DEF Unwrapped

\* The action of receiver i drops the packets of a frame with the template t.
Dropped(i, t) == L1T3Drop(target[i], t)

\* Number and rank of what was forwarded differ by as much as index and due differ,
\* less what the rewriter counts as dropped and n packets it has yet to count.
Agreed(i, n) ==
    \A a \in fwd[i] : Same(a.out - a.rank, FirstSeq + index - n - due[i] - rw[i].dropCount)

\* What was forwarded comes before the packet with index x and rank d, and two
\* packets are not further apart in rank than they are in index.
Dense(i, x, d) ==
    /\ \A a \in fwd[i] : a.idx < x /\ a.rank < d /\ d - a.rank <= x - a.idx
    /\ \A a, b \in fwd[i] : a.idx < b.idx => a.rank < b.rank /\ b.rank - a.rank <= b.idx - a.idx

\* What the rewriter knows of frame f: nothing yet, because none of the h packets
\* that are behind it arrived, or a first number that is right if it matters.
Knows(i, f, t, n, h) ==
    \/ /\ \/ Closed(rw[i], f, FirstSeq + index - n)
          \/ rw[i] = NewRewriter /\ f = path.first /\ fwd[i] = {}
       /\ h >= 1 => "start" \in path.loses
       /\ h >= 2 => "inter" \in path.loses
    \/ /\ h >= 1
       /\ Opened(rw[i], f)
       /\ fwd[i] # {} /\ Dropped(i, t) => Same(rw[i].maxFrameStartSeq, FirstSeq + index - n)

\* Receiver i while frame f with the template t is under way: n of its packets were
\* sent, the latest of all packets, and h of them arrived or were lost.
Begun(i, f, t, n, h) ==
    /\ i # path.receivers => rw[i].dropCount = 0
    /\ Agreed(i, IF Dropped(i, t) THEN n ELSE 0)
    /\ Dense(i, index - (n - h), IF Dropped(i, t) THEN due[i] ELSE due[i] - (n - h))
    /\ Knows(i, f, t, n, h)

\* The packet k is the n-th one of frame f, which has l, and the latest that was sent.
Carried(k, f, t, l, n) ==
    /\ k.frame = f /\ k.tmpl = t
    /\ k.mark = markFromAV1FrameFlags(n = 1, n = l)
    /\ k.idx = index - 1
    /\ k.seq = (FirstSeq + index - 1) % SeqMod
    /\ \A i \in Receivers : k.rank[i] = IF Dropped(i, t) THEN due[i] ELSE due[i] - 1

\* Numbers less than SeqMod apart do not have the same low bits.
LEMMA NotSame ==
    ASSUME NEW a \in Int, NEW b \in Int, a - b >= 1, a - b < SeqMod
    PROVE  ~Same(a, b)
<1> SUFFICES ASSUME NEW q \in Int, a - b = q * SeqMod PROVE FALSE
  BY DEF Same
<1>1. q >= 1 => q * SeqMod >= SeqMod
  BY SeqModAssumption
<1>2. q <= 0 => q * SeqMod <= 0
  BY SeqModAssumption
<1> QED BY <1>1, <1>2, SeqModAssumption

\* What is known of the n-th packet k of a frame before receiver i gets it.
LEMMA CarriedTyped ==
    ASSUME TypeOK, NEW i \in Receivers, NEW k \in PacketType, NEW f, NEW t,
           NEW l, NEW n, l \in Nat, n \in 1..l, Carried(k, f, t, l, n)
    PROVE  /\ Seen(i, k, k.seq) \in SeenType
           /\ Seen(i, k, k.seq).frame = f /\ Seen(i, k, k.seq).seq = k.seq
           /\ Seen(i, k, k.seq).mark = k.mark /\ Seen(i, k, k.seq).drop = Dropped(i, t)
           /\ (k.mark = "end" <=> n = l) /\ (k.mark = "start" <=> n = 1 /\ n # l)
           /\ f \in Nat /\ k.seq \in Seq16 /\ k.seq \in Int
           /\ FirstSeq + index - n \in Int /\ FirstSeq + index - 1 \in Int /\ index \in Int
           /\ Same(k.seq, FirstSeq + index - 1)
<1>1. k.frame \in Nat /\ k.frame \in Frame16 /\ k.mark \in Mark /\ k.seq \in Seq16
  BY FrameRange DEF PacketType
<1>2. FirstSeq \in Int /\ index \in Nat /\ n \in Int
  BY ForwardingAssumption, SeqItself DEF TypeOK
<1>3. Same(k.seq, FirstSeq + index - 1)
  BY <1>2, ModRange DEF Carried
<1>4. (k.mark = "end" <=> n = l) /\ (k.mark = "start" <=> n = 1 /\ n # l)
  BY DEF Carried, markFromAV1FrameFlags
<1>5. Seen(i, k, k.seq) \in SeenType
  BY <1>1, SeenTyped
<1> QED BY <1>1, <1>2, <1>3, <1>4, <1>5, SeqItself DEF Seen, Dropped, Carried

\* A packet that is not dropped keeps the count of the rewriter, and gets its
\* number less that count.
LEMMA KeptNumber ==
    ASSUME TypeOK, NEW i \in Receivers, NEW k \in PacketType, NEW f, NEW t,
           NEW l, NEW n, l \in Nat, n \in 1..l, Carried(k, f, t, l, n), Knows(i, f, t, n, n - 1),
           ~Dropped(i, t)
    PROVE  LET q == Seen(i, k, k.seq)
           IN /\ Rewritten(rw[i], q).dropCount = rw[i].dropCount
              /\ RewrittenSeq(rw[i], q) = (k.seq - rw[i].dropCount) % SeqMod
<1> DEFINE q == Seen(i, k, k.seq)
<1>1. rw[i] \in RewriterType /\ rw[i].dropCount \in Seq16 /\ rw[i].dropCount \in Int
  BY SeqItself DEF TypeOK, RewriterType
<1>2. q \in SeenType /\ q.frame = f /\ q.seq = k.seq /\ q.mark = k.mark /\ ~q.drop
      /\ k.seq \in Seq16 /\ k.seq \in Int
  <2>1. ~Dropped(i, t) /\ Dropped(i, t) \in BOOLEAN
    BY DEF Dropped, L1T3Drop
  <2> QED BY <2>1, CarriedTyped
<1>3. rw[i].dropCount + 0 = rw[i].dropCount /\ rw[i].dropCount % SeqMod = rw[i].dropCount
  BY <1>1, SeqItself
<1> HIDE DEF q
<1>4. CASE Closed(rw[i], f, FirstSeq + index - n)
  BY <1>1, <1>2, <1>3, <1>4, PacketOfNextFrame DEF q
<1>5. CASE rw[i] = NewRewriter
  <2>1. rw[i].dropCount = 0 /\ k.seq - 0 = k.seq /\ k.seq % SeqMod = k.seq
    BY <1>2, <1>5, SeqItself DEF NewRewriter
  <2> QED BY <1>2, <1>5, <2>1, PacketOfFirstFrame DEF q
<1>6. CASE n - 1 >= 1 /\ Opened(rw[i], f)
  <2>1. q.mark # "start"
    <3>1. k.mark = "start" => n = 1
      BY CarriedTyped
    <3> QED BY <1>2, <1>6, <3>1
  <2> QED BY <1>1, <1>2, <1>6, <2>1, PacketOfSameFrame DEF q
<1> QED BY <1>4, <1>5, <1>6 DEF Knows

\* What the rewriter of receiver i learns from the n-th packet k of frame f: at the
\* end of a dropped frame it counts the whole frame.
LEMMA Learned ==
    ASSUME TypeOK, InOrder, NEW i \in Receivers, NEW k \in PacketType, NEW f, NEW t,
           NEW l, NEW n, l \in path.lens, n \in 1..l, Carried(k, f, t, l, n), Knows(i, f, t, n, n - 1)
    PROVE  LET q == Seen(i, k, k.seq)
               x == Rewritten(rw[i], q)
           IN /\ Followed(x, q)
              /\ Dropped(i, t) /\ fwd[i] # {} =>
                    IF n = l THEN Same(x.dropCount, rw[i].dropCount + n)
                    ELSE /\ x.dropCount = rw[i].dropCount
                         /\ Same(x.maxFrameStartSeq, FirstSeq + index - n)
<1> DEFINE q == Seen(i, k, k.seq)
           x == Rewritten(rw[i], q)
           s == FirstSeq + index - n
<1>1. l \in Nat /\ l <= SeqMod /\ n \in Int /\ n >= 1 /\ n <= l
  BY PathTyped DEF InOrder
<1>2. /\ q \in SeenType /\ q.frame = f /\ q.seq = k.seq /\ q.mark = k.mark /\ q.drop = Dropped(i, t)
      /\ (k.mark = "end" <=> n = l) /\ (k.mark = "start" <=> n = 1 /\ n # l)
      /\ k.seq \in Seq16 /\ k.seq \in Int /\ s \in Int /\ FirstSeq + index - 1 \in Int
      /\ Same(k.seq, FirstSeq + index - 1)
  BY <1>1, CarriedTyped
<1>3. /\ rw[i] \in RewriterType /\ rw[i].dropCount \in Seq16 /\ rw[i].dropCount \in Int
      /\ rw[i].maxFrameStartSeq \in Int /\ rw[i].maxFrameMaxSeq \in Int
  BY SeqItself DEF TypeOK, RewriterType
<1>4. FirstSeq + index - 1 = s + n - 1
  BY <1>1, <1>2, ForwardingAssumption, SeqItself DEF TypeOK
<1>5. Same(k.seq, s + n - 1)
  BY <1>2, <1>4
<1> HIDE DEF q, x, s
<1>6. CASE Closed(rw[i], f, s)
  <2>1. /\ Followed(x, q) /\ x.maxFrameStartSeq = guessedStart(q)
        /\ x.dropCount = (rw[i].dropCount + (IF q.drop /\ q.mark = "end"
                                             THEN k.seq - rw[i].maxFrameMaxSeq ELSE 0)) % SeqMod
    BY <1>2, <1>3, <1>6, PacketOfNextFrame DEF x
  <2>2. CASE Dropped(i, t) /\ n = l
    <3>1. x.dropCount = (rw[i].dropCount + (k.seq - rw[i].maxFrameMaxSeq)) % SeqMod
      BY <1>2, <2>1, <2>2
    <3>2. Same(k.seq - rw[i].maxFrameMaxSeq, (s + n - 1) - (s - 1))
      <4>1. k.seq \in Int /\ rw[i].maxFrameMaxSeq \in Int /\ s + n - 1 \in Int /\ s - 1 \in Int
        BY <1>1, <1>2, <1>3
      <4>2. Same(rw[i].maxFrameMaxSeq, s - 1)
        BY <1>6 DEF Closed
      <4> QED BY <1>5, <4>1, <4>2, SameSum
    <3>3. (s + n - 1) - (s - 1) = n /\ Same(rw[i].dropCount, rw[i].dropCount)
      BY <1>1, <1>2, <1>3, SameReflexive
    <3>4. k.seq - rw[i].maxFrameMaxSeq \in Int
      BY <1>2, <1>3
    <3>5. Same(rw[i].dropCount + (k.seq - rw[i].maxFrameMaxSeq), rw[i].dropCount + n)
      BY <1>1, <1>3, <3>2, <3>3, <3>4, SameSum
    <3>6. Same(x.dropCount, rw[i].dropCount + (k.seq - rw[i].maxFrameMaxSeq)) /\ x.dropCount \in Seq16
      BY <1>3, <3>1, <3>4, ModRange
    <3>7. Same(x.dropCount, rw[i].dropCount + n)
      BY <1>1, <1>3, <3>4, <3>5, <3>6, SameTransitive, SeqItself
    <3> QED BY <2>1, <2>2, <3>7 DEF x, q
  <2>3. CASE Dropped(i, t) /\ n # l
    <3>1. x.dropCount = rw[i].dropCount
      BY <1>2, <1>3, <2>1, <2>3, SeqItself
    <3>2. Same(guessedStart(q), s)
      <4>1. CASE n = 1
        BY <1>2, <1>5, <2>3, <4>1 DEF guessedStart
      <4>2. CASE n # 1
        <5>1. n - 1 >= 1 /\ (n - 1 >= 2 => n >= 3 /\ l >= 4)
          BY <1>1, <2>3, <4>2
        <5>2. rw[i].maxFrame = f - 1 /\ rw[i].maxFrameEndSeen
          BY <1>6 DEF Closed
        <5>3. f \in Nat /\ rw[i].maxFrame \in Nat
          BY FrameRange, <1>2, <1>3 DEF SeenType, RewriterType
        <5>4. ~Opened(rw[i], f)
          BY <5>2 DEF Opened
        <5>5. "start" \in path.loses /\ (n - 1 >= 2 => "inter" \in path.loses)
          BY <5>1, <5>4 DEF Knows
        <5>6. n - 1 >= 2 => l \in 1..3
          BY <5>5 DEF InOrder
        <5>7. n = 2
          BY <1>1, <5>1, <5>6
        <5>8. guessedStart(q) = (k.seq - 1) % SeqMod
          BY <1>2, <5>7 DEF guessedStart
        <5>9. Same(k.seq - 1, s + n - 1 - 1)
          <6>1. k.seq \in Int
            BY <1>2
          <6>2. PICK m \in Int : m = s + n - 1
            BY <1>1, <1>2
          <6>3. Same(k.seq - 1, m - 1)
            BY <1>5, <6>1, <6>2, SameShift
          <6>4. m - 1 = s + n - 1 - 1
            BY <1>1, <1>2, <6>2
          <6> QED BY <6>3, <6>4
        <5>10. s + n - 1 - 1 = s /\ k.seq - 1 \in Int
          BY <1>2, <5>7
        <5>11. Same(guessedStart(q), k.seq - 1) /\ guessedStart(q) \in Int
          BY <5>8, <5>10, ModRange, SeqItself
        <5> QED BY <1>2, <5>9, <5>10, <5>11, SameTransitive
      <4> QED BY <4>1, <4>2
    <3> QED BY <2>1, <2>3, <3>1, <3>2 DEF x, q, s
  <2> QED BY <2>1, <2>2, <2>3 DEF x, q
<1>7. CASE rw[i] = NewRewriter /\ fwd[i] = {}
  BY <1>2, <1>7, PacketOfFirstFrame DEF x, q
<1>8. CASE /\ n - 1 >= 1 /\ Opened(rw[i], f)
           /\ fwd[i] # {} /\ Dropped(i, t) => Same(rw[i].maxFrameStartSeq, s)
  <2>1. q.mark # "start"
    BY <1>2, <1>8
  <2>2. /\ Followed(x, q)
        /\ q.mark # "end" => x.dropCount = rw[i].dropCount
        /\ k.seq # rw[i].maxFrameStartSeq =>
              /\ x.maxFrameStartSeq = rw[i].maxFrameStartSeq
              /\ q.drop /\ q.mark = "end" =>
                    x.dropCount = (rw[i].dropCount + k.seq - rw[i].maxFrameStartSeq + 1) % SeqMod
    BY <1>2, <1>3, <1>8, <2>1, PacketOfSameFrame DEF x
  <2>3. CASE Dropped(i, t) /\ fwd[i] # {}
    <3>1. Same(rw[i].maxFrameStartSeq, s)
      BY <1>8, <2>3
    <3>2. k.seq # rw[i].maxFrameStartSeq
      <4> SUFFICES ASSUME k.seq = rw[i].maxFrameStartSeq PROVE FALSE
        OBVIOUS
      <4>1. Same(s + n - 1, k.seq)
        <5>1. k.seq \in Int /\ s + n - 1 \in Int
          BY <1>1, <1>2
        <5> QED BY <1>5, <5>1, SameShift
      <4>2. Same(s + n - 1, s)
        BY <1>1, <1>2, <3>1, <4>1, SameTransitive
      <4>3. (s + n - 1) - s >= 1 /\ (s + n - 1) - s < SeqMod
        BY <1>1, <1>2, <1>8, SeqModAssumption
      <4> QED BY <1>1, <1>2, <4>2, <4>3, NotSame
    <3>3. CASE n = l
      <4>1. x.dropCount = (rw[i].dropCount + k.seq - rw[i].maxFrameStartSeq + 1) % SeqMod
        BY <1>2, <2>2, <2>3, <3>2, <3>3
      <4>2. Same(k.seq - rw[i].maxFrameStartSeq, (s + n - 1) - s)
        <5>1. k.seq \in Int /\ rw[i].maxFrameStartSeq \in Int /\ s + n - 1 \in Int /\ s \in Int
          BY <1>1, <1>2, <1>3
        <5> QED BY <1>5, <3>1, <5>1, SameSum
      <4>3. (s + n - 1) - s = n - 1
        BY <1>1, <1>2
      <4>4. k.seq - rw[i].maxFrameStartSeq \in Int
        BY <1>2, <1>3
      <4>5. Same(k.seq - rw[i].maxFrameStartSeq, n - 1)
        BY <4>2, <4>3
      <4>6. Same((k.seq - rw[i].maxFrameStartSeq) + (rw[i].dropCount + 1), (n - 1) + (rw[i].dropCount + 1))
        <5>1. n - 1 \in Int /\ rw[i].dropCount + 1 \in Int
          BY <1>1, <1>3
        <5> QED BY <4>4, <4>5, <5>1, SameShift
      <4>7. /\ (k.seq - rw[i].maxFrameStartSeq) + (rw[i].dropCount + 1)
                  = rw[i].dropCount + k.seq - rw[i].maxFrameStartSeq + 1
            /\ (n - 1) + (rw[i].dropCount + 1) = rw[i].dropCount + n
            /\ rw[i].dropCount + k.seq - rw[i].maxFrameStartSeq + 1 \in Int
        BY <1>1, <1>2, <1>3
      <4>8. /\ Same(x.dropCount, rw[i].dropCount + k.seq - rw[i].maxFrameStartSeq + 1)
            /\ x.dropCount \in Int
        BY <4>1, <4>7, ModRange, SeqItself
      <4>9. Same(x.dropCount, rw[i].dropCount + n)
        BY <1>1, <1>3, <4>6, <4>7, <4>8, SameTransitive
      <4> QED BY <2>2, <3>3, <4>9 DEF x, q
    <3>4. CASE n # l
      BY <1>2, <2>2, <3>1, <3>2, <3>4 DEF x, q, s
    <3> QED BY <3>3, <3>4
  <2> QED BY <2>2, <2>3 DEF x, q
<1>9. \/ Closed(rw[i], f, s)
      \/ rw[i] = NewRewriter /\ fwd[i] = {}
      \/ /\ n - 1 >= 1 /\ Opened(rw[i], f)
         /\ fwd[i] # {} /\ Dropped(i, t) => Same(rw[i].maxFrameStartSeq, s)
  BY DEF Knows, s
<1> QED BY <1>6, <1>7, <1>8, <1>9

\* Every action finds the number in the packet buffer that the sender gave: only
\* the last action drops packets, and so it alone changes a number.
LEMMA BufferKept ==
    ASSUME TypeOK, OthersKeepAll, NEW k \in PacketType, NEW f, NEW t, NEW l, NEW n,
           l \in Nat, n \in 1..l, Carried(k, f, t, l, n),
           \A i \in Receivers : Begun(i, f, t, n, n - 1)
    PROVE  \A i \in Receivers : BufferSeq(k)[i] = k.seq
<1> DEFINE buf == BufferSeq(k)
           N == path.receivers - 1
           T == {j \in 0..N : buf[j + 1] = k.seq}
<1>1. N \in Nat /\ Receivers = 1..N + 1 /\ path.receivers = N + 1
  BY PathTyped DEF Receivers
<1>2. /\ buf[1] = k.seq
      /\ \A i \in Receivers \ {1} : buf[i] = RewrittenSeq(rw[i - 1], Seen(i - 1, k, buf[i - 1]))
  BY BufferNumbers, PathTyped DEF TypeOK, PacketType
<1> HIDE DEF buf
<1>3. 0 \in T
  BY <1>1, <1>2
<1>4. ASSUME NEW j \in 1..N, j - 1 \in T PROVE j \in T
  <2>1. /\ j \in Receivers /\ j + 1 \in Receivers \ {1} /\ j + 1 - 1 = j /\ j - 1 + 1 = j
        /\ j # path.receivers
    <3> HIDE DEF N
    <3> QED BY <1>1
  <2>2. buf[j] = k.seq
    BY <1>4, <2>1
  <2>3. ~Dropped(j, t)
    BY <2>1 DEF OthersKeepAll, Dropped, L1T3Drop, Hi
  <2>4. rw[j].dropCount = 0 /\ Knows(j, f, t, n, n - 1)
    BY <2>1 DEF Begun
  <2>5. RewrittenSeq(rw[j], Seen(j, k, k.seq)) = (k.seq - 0) % SeqMod
    BY <2>1, <2>3, <2>4, KeptNumber
  <2>6. k.seq \in Seq16 /\ k.seq - 0 = k.seq
    BY SeqItself DEF PacketType
  <2>7. buf[j + 1] = k.seq
    BY <1>2, <2>1, <2>2, <2>5, <2>6, SeqItself
  <2> QED BY <2>7
<1> HIDE DEF T
<1>5. 0..N \subseteq T
  <2> HIDE DEF N
  <2> QED BY <1>1, <1>3, <1>4, UpTo
<1> SUFFICES ASSUME NEW i \in Receivers PROVE buf[i] = k.seq
  BY DEF buf
<1>6. i - 1 \in 0..N /\ i - 1 + 1 = i
  BY <1>1
<1>7. i - 1 \in T
  BY <1>5, <1>6
<1> QED BY <1>6, <1>7 DEF T

\* What the rewriter of receiver i and its packets are after the n-th packet of a
\* frame was handled: the next number continues where the last one ended.
LEMMA HandledInOrder ==
    ASSUME TypeOK, InOrder, NEW i, NEW k, NEW f, NEW t, NEW l, NEW n,
           i \in Receivers, k \in PacketType, l \in path.lens, n \in 1..l,
           Carried(k, f, t, l, n), Begun(i, f, t, n, n - 1),
           i # path.receivers => ~Dropped(i, t),
           UNCHANGED <<path, index, target, due>>,
           rw'[i] = Rewritten(rw[i], Seen(i, k, k.seq)),
           fwd'[i] = IF Dropped(i, t) THEN fwd[i]
                     ELSE fwd[i] \cup {[idx |-> k.idx, rank |-> k.rank[i],
                                        out |-> RewrittenSeq(rw[i], Seen(i, k, k.seq))]}
    PROVE  IF n = l THEN \A u : Begun(i, f + 1, u, 0, 0)' ELSE Begun(i, f, t, n, n)'
<1> DEFINE q == Seen(i, k, k.seq)
           r == rw[i]
           x == rw'[i]
           D == Dropped(i, t)
           m == IF D /\ n # l THEN n ELSE 0
           a == [idx |-> k.idx, rank |-> k.rank[i], out |-> RewrittenSeq(r, q)]
           s == FirstSeq + index - n
<1>1. l \in Nat /\ n \in Int /\ n >= 1 /\ n <= l
  BY PathTyped
<1>2. /\ q.frame = f /\ q.seq = k.seq /\ q.mark = k.mark /\ (k.mark = "end" <=> n = l)
      /\ k.seq \in Seq16 /\ k.seq \in Int /\ s \in Int /\ FirstSeq + index - 1 \in Int /\ index \in Int
      /\ f \in Nat /\ Same(k.seq, FirstSeq + index - 1)
  BY <1>1, CarriedTyped
<1>3. FirstSeq \in Int /\ index \in Nat /\ due[i] \in Nat
  BY ForwardingAssumption, SeqItself DEF TypeOK
<1>4. r \in RewriterType /\ r.dropCount \in Seq16 /\ r.dropCount \in Int
  BY SeqItself DEF TypeOK, RewriterType
<1>5. x \in RewriterType /\ x.dropCount \in Seq16 /\ x.dropCount \in Int /\ x.maxFrameMaxSeq \in Int
  <2>1. q \in SeenType
    BY <1>1, CarriedTyped
  <2>2. x \in RewriterType
    BY <1>4, <2>1, RewrittenType
  <2> QED BY <2>2, SeqItself DEF RewriterType
<1>6. \A e \in fwd[i] : e.idx \in Nat /\ e.rank \in Nat /\ e.out \in Seq16 /\ e.out \in Int
  BY SeqItself DEF TypeOK
<1>7. D \in BOOLEAN /\ Dropped(i, t)' = D
  BY DEF Dropped, L1T3Drop
<1>8. /\ i # path.receivers => r.dropCount = 0
      /\ Agreed(i, IF D THEN n ELSE 0)
      /\ Dense(i, index - 1, IF D THEN due[i] ELSE due[i] - 1)
      /\ Knows(i, f, t, n, n - 1)
  <2>1. n - (n - 1) = 1
    BY <1>1
  <2> QED BY <2>1 DEF Begun
<1>9. /\ Followed(x, q)
      /\ D /\ fwd[i] # {} =>
            IF n = l THEN Same(x.dropCount, r.dropCount + n)
            ELSE x.dropCount = r.dropCount /\ Same(x.maxFrameStartSeq, s)
  BY <1>8, Learned
<1>10. ~D => x.dropCount = r.dropCount /\ a.out = (k.seq - r.dropCount) % SeqMod
  BY <1>1, <1>8, KeptNumber
<1>11. a.idx = index - 1 /\ (~D => a.rank = due[i] - 1)
  BY DEF Carried
<1>12. fwd'[i] = IF D THEN fwd[i] ELSE fwd[i] \cup {a}
  OBVIOUS
<1> HIDE DEF q, r, x, D, a, s
<1>13. i # path.receivers => x.dropCount = 0
  BY <1>8, <1>10 DEF D
<1>14. \A e \in fwd'[i] : Same(e.out - e.rank, FirstSeq + index - m - due[i] - x.dropCount)
  <2>1. ASSUME NEW e \in fwd[i]
        PROVE  Same(e.out - e.rank, FirstSeq + index - m - due[i] - x.dropCount)
    <3>1. Same(e.out - e.rank, FirstSeq + index - (IF D THEN n ELSE 0) - due[i] - r.dropCount)
      BY <1>8 DEF Agreed, r
    <3>2. CASE ~D
      BY <1>10, <3>1, <3>2
    <3>3. CASE D /\ n # l
      BY <1>9, <2>1, <3>1, <3>3
    <3>4. CASE D /\ n = l
      <4>1. Same(x.dropCount, r.dropCount + n)
        BY <1>9, <2>1, <3>4
      <4>2. PICK z \in Int : z = FirstSeq + index - due[i]
        BY <1>2, <1>3
      <4>3. Same(z - x.dropCount, z - (r.dropCount + n)) /\ Same(r.dropCount + n, x.dropCount)
        <5>1. r.dropCount + n \in Int
          BY <1>1, <1>4
        <5> QED BY <1>5, <4>1, <4>2, <5>1, SameShift
      <4>4. Same(z - (r.dropCount + n), z - x.dropCount)
        <5>1. r.dropCount + n \in Int
          BY <1>1, <1>4
        <5> QED BY <1>5, <4>2, <4>3, <5>1, SameShift
      <4>5. FirstSeq + index - n - due[i] - r.dropCount = z - (r.dropCount + n)
        BY <1>1, <1>2, <1>3, <1>4, <4>2
      <4>6. FirstSeq + index - 0 - due[i] - x.dropCount = z - x.dropCount
        BY <1>2, <1>3, <1>5, <4>2
      <4>7. Same(e.out - e.rank, z - (r.dropCount + n))
        BY <3>1, <3>4, <4>5
      <4>8. e.out - e.rank \in Int /\ z - (r.dropCount + n) \in Int /\ z - x.dropCount \in Int
        BY <1>1, <1>4, <1>5, <1>6, <2>1, <4>2
      <4>9. Same(e.out - e.rank, z - x.dropCount)
        BY <4>4, <4>7, <4>8, SameTransitive
      <4> QED BY <3>4, <4>6, <4>9
    <3> QED BY <1>7, <3>2, <3>3, <3>4
  <2>2. ASSUME ~D
        PROVE  Same(a.out - a.rank, FirstSeq + index - m - due[i] - x.dropCount)
    <3>1. a.out = (k.seq - r.dropCount) % SeqMod /\ x.dropCount = r.dropCount /\ a.rank = due[i] - 1
      BY <1>10, <1>11, <2>2
    <3>2. k.seq - r.dropCount \in Int /\ FirstSeq + index - 1 - r.dropCount \in Int
      BY <1>2, <1>3, <1>4
    <3>3. Same(a.out, k.seq - r.dropCount) /\ a.out \in Int
      BY <3>1, <3>2, ModRange, SeqItself
    <3>4. Same(k.seq - r.dropCount, FirstSeq + index - 1 - r.dropCount)
      <4>1. PICK z \in Int : z = FirstSeq + index - 1
        BY <1>2
      <4>2. Same(k.seq - r.dropCount, z - r.dropCount)
        BY <1>2, <1>4, <4>1, SameShift
      <4>3. z - r.dropCount = FirstSeq + index - 1 - r.dropCount
        BY <1>3, <1>4, <4>1
      <4> QED BY <4>2, <4>3
    <3>5. Same(a.out, FirstSeq + index - 1 - r.dropCount)
      BY <3>2, <3>3, <3>4, SameTransitive
    <3>6. PICK z \in Int : z = due[i] - 1
      BY <1>3
    <3>7. Same(a.out - z, (FirstSeq + index - 1 - r.dropCount) - z)
      BY <3>2, <3>3, <3>5, <3>6, SameShift
    <3>8. (FirstSeq + index - 1 - r.dropCount) - z = FirstSeq + index - m - due[i] - x.dropCount
      BY <1>2, <1>3, <1>4, <2>2, <3>1, <3>6
    <3> QED BY <3>1, <3>6, <3>7, <3>8
  <2> HIDE DEF m
  <2> QED BY <1>12, <2>1, <2>2
<1>15. /\ \A e \in fwd'[i] : /\ e.idx < index
                             /\ e.rank < due[i] /\ due[i] - e.rank <= index - e.idx
       /\ \A b, c \in fwd'[i] : b.idx < c.idx => b.rank < c.rank /\ c.rank - b.rank <= c.idx - b.idx
  <2>1. CASE D
    BY <1>2, <1>3, <1>6, <1>8, <1>12, <2>1 DEF Dense
  <2>2. CASE ~D
    <3>1. \A e \in fwd[i] : e.idx < index - 1 /\ e.rank < due[i] - 1
                            /\ (due[i] - 1) - e.rank <= (index - 1) - e.idx
      BY <1>8, <2>2 DEF Dense
    <3>2. \A b, c \in fwd[i] : b.idx < c.idx => b.rank < c.rank /\ c.rank - b.rank <= c.idx - b.idx
      BY <1>8 DEF Dense
    <3>3. a.idx = index - 1 /\ a.rank = due[i] - 1
      BY <1>11, <2>2
    <3>4. fwd'[i] = fwd[i] \cup {a}
      BY <1>12, <2>2
    <3>5. ASSUME NEW e \in fwd'[i]
          PROVE  e.idx < index /\ e.rank < due[i] /\ due[i] - e.rank <= index - e.idx
      BY <1>3, <1>6, <3>1, <3>3, <3>4
    <3>6. ASSUME NEW b \in fwd'[i], NEW c \in fwd'[i], b.idx < c.idx
          PROVE  b.rank < c.rank /\ c.rank - b.rank <= c.idx - b.idx
      <4>1. CASE b \in fwd[i] /\ c \in fwd[i]
        BY <3>2, <3>6, <4>1
      <4>2. CASE b \in fwd[i] /\ c = a
        BY <3>1, <3>3, <4>2
      <4>3. CASE b = a /\ c \in fwd[i]
        BY <1>3, <1>6, <3>1, <3>3, <3>6, <4>3
      <4>4. CASE b = a /\ c = a
        BY <1>3, <3>3, <3>6, <4>4
      <4> QED BY <3>4, <4>1, <4>2, <4>3, <4>4
    <3> QED BY <3>5, <3>6
  <2> QED BY <1>7, <2>1, <2>2
<1>16. CASE n = l
  <2> SUFFICES ASSUME NEW u PROVE Begun(i, f + 1, u, 0, 0)'
    BY <1>16
  <2>1. Agreed(i, 0)'
    BY <1>14, <1>16 DEF Agreed, x
  <2>2. (index - (0 - 0))' = index /\ (due[i] - (0 - 0))' = due[i] /\ due'[i] = due[i]
    BY <1>3
  <2>3. Dense(i, index - (0 - 0), IF Dropped(i, u) THEN due[i] ELSE due[i] - (0 - 0))'
    BY <1>15, <2>2 DEF Dense
  <2>4. Closed(x, f + 1, FirstSeq + index - 0)
    <3>1. x.maxFrame = f /\ x.maxFrameEndSeen /\ x.maxFrameMaxSeq = k.seq
      BY <1>2, <1>9, <1>16 DEF Followed
    <3>2. f = f + 1 - 1 /\ FirstSeq + index - 1 = (FirstSeq + index - 0) - 1
      BY <1>2, <1>3
    <3> QED BY <1>2, <3>1, <3>2 DEF Closed
  <2>5. Knows(i, f + 1, u, 0, 0)'
    BY <2>4 DEF Knows, x
  <2> QED BY <1>13, <2>1, <2>3, <2>5 DEF Begun, x
<1>17. CASE n # l
  <2>1. Agreed(i, IF Dropped(i, t) THEN n ELSE 0)'
    BY <1>7, <1>14, <1>17 DEF Agreed, x, D
  <2>2. (index - (n - n))' = index /\ (due[i] - (n - n))' = due[i] /\ due'[i] = due[i]
    BY <1>1, <1>3
  <2>3. Dense(i, index - (n - n), IF Dropped(i, t) THEN due[i] ELSE due[i] - (n - n))'
    BY <1>15, <2>2 DEF Dense
  <2>4. Opened(x, f)
    BY <1>2, <1>9, <1>17 DEF Opened, Followed
  <2>5. fwd'[i] # {} /\ D => Same(x.maxFrameStartSeq, s)
    BY <1>9, <1>12, <1>17
  <2>6. Knows(i, f, t, n, n)'
    <3>1. fwd'[i] # {} /\ Dropped(i, t)' => Same(rw'[i].maxFrameStartSeq, FirstSeq + index' - n)
      BY <1>7, <2>5 DEF x, s
    <3>2. Opened(rw'[i], f) /\ n >= 1
      BY <1>1, <2>4 DEF x
    <3> QED BY <3>1, <3>2, Zenon DEF Knows
  <2> QED BY <1>13, <1>17, <2>1, <2>3, <2>6 DEF Begun, x
<1> QED BY <1>16, <1>17

\* No packet is in flight: those of the frame are handled as far as they were sent.
Waiting ==
    /\ net = <<>>
    /\ \A i \in Receivers : IF pos = len THEN Begun(i, Current + 1, tmpl, 0, 0)
                            ELSE Begun(i, Current, tmpl, pos, pos)

\* The packet in flight is the n-th one of frame f.
Flying(f, t, l, n) ==
    /\ Carried(net[1], f, t, l, n)
    /\ \A i \in Receivers : Begun(i, f, t, n, n - 1)

\* A packet is in flight: the latest of the frame being sent, or the last one of the
\* frame before.
InFlight ==
    /\ Len(net) = 1
    /\ \/ pos > 0 /\ Flying(Current, tmpl, len, pos)
       \/ pos = 0 /\ \E t \in Templates, l \in path.lens : Flying(Current - 1, t, l, l)

GapInv == StarvedInv /\ (LastAdapts /\ InOrder /\ Unwrapped => Waiting \/ InFlight)

\* Before the first packet of a frame is sent neither its template nor the target
\* of a receiver says anything about what the receiver got.
LEMMA NothingSent ==
    ASSUME TypeOK, NEW i \in Receivers, NEW f, NEW t, NEW u, Begun(i, f, t, 0, 0),
           UNCHANGED <<path, index, due, rw, fwd>>
    PROVE  Begun(i, f, u, 0, 0)'
<1>1. due[i] \in Nat /\ due[i] - (0 - 0) = due[i]
  BY DEF TypeOK
<1>2. Agreed(i, 0)'
  BY DEF Begun, Agreed
<1>3. Dense(i, index - (0 - 0), due[i])'
  BY <1>1 DEF Begun, Dense
<1>4. Knows(i, f, u, 0, 0)'
  BY DEF Begun, Knows
<1> QED BY <1>1, <1>2, <1>3, <1>4 DEF Begun

\* As long as nothing that Begun mentions changes, it stays.
LEMMA BegunKept ==
    ASSUME NEW i, NEW f, NEW t, NEW n, NEW h, Begun(i, f, t, n, h),
           UNCHANGED <<path, index, due, rw, fwd, target>>
    PROVE  Begun(i, f, t, n, h)'
BY DEF Begun, Agreed, Dense, Knows, Dropped

\* What the sender's next packet, number p + 1 of frame f, changes for receiver i.
LEMMA SentInOrder ==
    ASSUME TypeOK, Send, NEW i \in Receivers, NEW f, NEW t, NEW p,
           t = tmpl, p = pos, Begun(i, f, t, p, p)
    PROVE  /\ Begun(i, f, t, p + 1, p)'
           /\ Packet.mark \in path.loses \ {"end"} => Begun(i, f, t, p + 1, p + 1)'
<1> DEFINE D == Dropped(i, t)
<1>1. /\ p \in Nat /\ p < len /\ p + 1 \in Nat /\ len \in Nat
      /\ path' = path /\ rw' = rw /\ fwd' = fwd /\ index' = index + 1
      /\ index \in Nat /\ FirstSeq \in Int /\ due[i] \in Nat
  BY PathTyped, ForwardingAssumption, SeqItself DEF Send, TypeOK
<1>2. due'[i] = (IF D THEN due[i] ELSE due[i] + 1) /\ D \in BOOLEAN /\ Dropped(i, t)' = D
  BY DEF Send, Dropped, L1T3Drop
<1>3. \A e \in fwd[i] : e.idx \in Nat /\ e.rank \in Nat
  BY DEF TypeOK
<1>4. rw[i].dropCount \in Int
  BY SeqItself DEF TypeOK, RewriterType
<1>5. /\ i # path.receivers => rw[i].dropCount = 0
      /\ Agreed(i, IF D THEN p ELSE 0)
      /\ Dense(i, index, due[i])
      /\ Knows(i, f, t, p, p)
  <2>1. p - p = 0 /\ index - 0 = index /\ due[i] - 0 = due[i]
    BY <1>1
  <2> QED BY <1>2, <2>1 DEF Begun
<1> HIDE DEF D
<1>6. Agreed(i, IF Dropped(i, t) THEN p + 1 ELSE 0)'
  <2>1. ASSUME NEW e \in fwd[i]
        PROVE  Same(e.out - e.rank, FirstSeq + index' - (IF D THEN p + 1 ELSE 0) - due'[i] - rw[i].dropCount)
    <3>1. Same(e.out - e.rank, FirstSeq + index - (IF D THEN p ELSE 0) - due[i] - rw[i].dropCount)
      BY <1>5 DEF Agreed
    <3>2. FirstSeq + index' - (IF D THEN p + 1 ELSE 0) - due'[i] - rw[i].dropCount
            = FirstSeq + index - (IF D THEN p ELSE 0) - due[i] - rw[i].dropCount
      BY <1>1, <1>2, <1>4
    <3> QED BY <3>1, <3>2
  <2> QED BY <1>1, <1>2, <2>1 DEF Agreed
<1>7. FirstSeq + index' - (p + 1) = FirstSeq + index - p
  BY <1>1
<1>8. Begun(i, f, t, p + 1, p)'
  <2>1. /\ index' - ((p + 1) - p) = index
        /\ (IF D THEN due'[i] ELSE due'[i] - ((p + 1) - p)) = due[i]
    BY <1>1, <1>2
  <2>2. Dense(i, index - ((p + 1) - p), IF Dropped(i, t) THEN due[i] ELSE due[i] - ((p + 1) - p))'
    BY <1>1, <1>2, <1>5, <2>1 DEF Dense
  <2>3. Knows(i, f, t, p + 1, p)'
    BY <1>1, <1>2, <1>5, <1>7 DEF Knows, D
  <2> QED BY <1>1, <1>5, <1>6, <2>2, <2>3 DEF Begun
<1>9. ASSUME Packet.mark \in path.loses \ {"end"} PROVE Begun(i, f, t, p + 1, p + 1)'
  <2>1. /\ index' - ((p + 1) - (p + 1)) = index + 1
        /\ (IF D THEN due'[i] ELSE due'[i] - ((p + 1) - (p + 1))) = (IF D THEN due[i] ELSE due[i] + 1)
    BY <1>1, <1>2
  <2>2. Dense(i, index - ((p + 1) - (p + 1)),
                 IF Dropped(i, t) THEN due[i] ELSE due[i] - ((p + 1) - (p + 1)))'
    <3>1. Dense(i, index + 1, IF D THEN due[i] ELSE due[i] + 1)
      BY <1>1, <1>2, <1>3, <1>5 DEF Dense
    <3> QED BY <1>1, <1>2, <2>1, <3>1 DEF Dense
  <2>3. (p = 0 => "start" \in path.loses) /\ (p >= 1 => "inter" \in path.loses)
    <3>1. Packet.mark = markFromAV1FrameFlags(p = 0, p + 1 = len)
      BY DEF Packet
    <3> QED BY <1>1, <1>9, <3>1 DEF markFromAV1FrameFlags
  <2>4. Knows(i, f, t, p + 1, p + 1)'
    <3>1. CASE /\ \/ Closed(rw[i], f, FirstSeq + index - p)
                  \/ rw[i] = NewRewriter /\ f = path.first /\ fwd[i] = {}
               /\ p >= 1 => "start" \in path.loses
      <4>1. "start" \in path.loses /\ (p + 1 >= 2 => "inter" \in path.loses)
        BY <1>1, <2>3, <3>1
      <4> QED BY <1>1, <1>7, <3>1, <4>1 DEF Knows
    <3>2. CASE /\ Opened(rw[i], f)
               /\ fwd[i] # {} /\ D => Same(rw[i].maxFrameStartSeq, FirstSeq + index - p)
      <4>1. p + 1 >= 1
        BY <1>1
      <4> QED BY <1>1, <1>2, <1>7, <3>2, <4>1 DEF Knows
    <3> QED BY <1>5, <3>1, <3>2 DEF Knows, D
  <2> QED BY <1>1, <1>5, <1>6, <2>2, <2>4 DEF Begun
<1> QED BY <1>8, <1>9

\* A packet that is sent is the one in flight, or one that the network lost.
LEMMA SendInOrder ==
    ASSUME TypeOK, InOrder, Unwrapped, Waiting \/ InFlight, Send
    PROVE  (Waiting \/ InFlight)'
<1>1. Len(net) = 0 /\ Waiting
  <2>1. Len(net) \in Nat
    BY LenProperties DEF TypeOK
  <2>2. Len(net) = 0
    BY <2>1 DEF Send, InOrder
  <2> QED BY <2>2 DEF InFlight
<1>2. /\ pos \in Nat /\ pos < len /\ len \in Nat /\ pos' = pos + 1
      /\ path' = path /\ frame' = frame /\ tmpl' = tmpl /\ len' = len /\ index' = index + 1
      /\ Receivers' = Receivers /\ target' = target
      /\ Current' = Current /\ index \in Nat /\ FirstSeq \in Int
  BY PathTyped, ForwardingAssumption, SeqItself DEF Send, TypeOK, Current, Receivers
<1>3. ASSUME NEW i \in Receivers
      PROVE  /\ Begun(i, Current, tmpl, pos, pos)
             /\ due[i] \in Nat
             /\ due'[i] = IF Dropped(i, tmpl) THEN due[i] ELSE due[i] + 1
  BY <1>1, <1>2 DEF Waiting, Send, Dropped, TypeOK
<1>4. PICK f, t, p : f = Current /\ t = tmpl /\ p = pos
  OBVIOUS
<1>5. \A i \in Receivers : Dropped(i, t)' = Dropped(i, t)
  BY <1>2 DEF Dropped, L1T3Drop
<1>6. CASE net' = Append(net, Packet) /\ UNCHANGED lost
  <2>1. Len(net') = 1 /\ net'[1] = Packet
    <3>1. net \in Seq(PacketType) /\ Packet \in PacketType
      BY PacketTyped DEF TypeOK
    <3> HIDE DEF PacketType, Packet
    <3>2. Len(net') = Len(net) + 1 /\ net'[Len(net) + 1] = Packet
      BY <1>6, <3>1, AppendProperties
    <3> QED BY <1>1, <3>2
  <2>2. \A i \in Receivers : Begun(i, f, t, p + 1, p)'
    BY <1>3, <1>4, SentInOrder
  <2>3. Carried(net[1], f, t, len, p + 1)'
    <3>1. net'[1].frame = f /\ net'[1].tmpl = t /\ net'[1].idx = index' - 1
      <4>1. Packet.tmpl = tmpl /\ Packet.idx = index
        BY DEF Packet
      <4> QED BY <1>2, <1>4, <2>1, <4>1, FrameOfPacket
    <3>2. net'[1].mark = markFromAV1FrameFlags(p + 1 = 1, p + 1 = len')
      <4>1. (p = 0) = (p + 1 = 1)
        BY <1>2, <1>4
      <4> QED BY <1>2, <1>4, <2>1, <4>1 DEF Packet
    <3>3. net'[1].seq = (FirstSeq + index' - 1) % SeqMod
      <4>1. FirstSeq + index' - 1 = FirstSeq + index
        BY <1>2
      <4> QED BY <2>1, <4>1 DEF Packet
    <3>4. \A i \in Receivers : net'[1].rank[i] = IF Dropped(i, t)' THEN due'[i] ELSE due'[i] - 1
      <4>1. net'[1].rank = due
        BY <2>1 DEF Packet
      <4> QED BY <1>3, <1>4, <1>5, <4>1
    <3> QED BY <1>2, <3>1, <3>2, <3>3, <3>4 DEF Carried
  <2>4. f = Current' /\ t = tmpl' /\ p + 1 = pos' /\ p = pos' - 1 /\ pos' > 0
    BY <1>2, <1>4
  <2>5. Flying(Current, tmpl, len, pos)'
    BY <1>2, <2>2, <2>3, <2>4 DEF Flying
  <2> QED BY <2>1, <2>4, <2>5 DEF InFlight
<1>7. CASE Packet.mark \in path.loses /\ UNCHANGED net
  <2>1. Packet.mark \in path.loses \ {"end"} /\ p + 1 # len
    <3>1. Packet.mark # "end"
      BY <1>7 DEF InOrder
    <3> QED BY <1>4, <1>7, <3>1 DEF Packet, markFromAV1FrameFlags
  <2>2. \A i \in Receivers : Begun(i, f, t, p + 1, p + 1)'
    BY <1>3, <1>4, <2>1, SentInOrder
  <2>3. f = Current' /\ t = tmpl' /\ p + 1 = pos' /\ pos' # len' /\ net' = <<>>
    BY <1>1, <1>2, <1>4, <1>7, <2>1 DEF Waiting
  <2> QED BY <1>2, <2>2, <2>3 DEF Waiting
<1> QED BY <1>6, <1>7 DEF Send

\* A packet that arrives is handled by the action of every receiver that is due it.
LEMMA ArriveInOrder ==
    ASSUME TypeOK, InOrder, OthersKeepAll, Waiting \/ InFlight,
           NEW e \in 1..Len(net), HandleRTP(e)
    PROVE  Waiting'
<1>1. e = 1 /\ InFlight /\ Len(net) = 1
  <2>1. Len(net) # 0
    OBVIOUS
  <2>2. InFlight
    BY <2>1, EmptySeq DEF Waiting
  <2> QED BY <2>2 DEF InFlight
<1>2. net' = <<>>
  <2>1. net' \in Seq(PacketType) /\ Len(net') = 0
    BY <1>1, OthersInFlight
  <2> HIDE DEF PacketType
  <2> QED BY <2>1, EmptySeq
<1>3. PICK k : k = net[1]
  OBVIOUS
<1>4. k \in PacketType
  <2>1. net \in Seq(PacketType) /\ 1 \in 1..Len(net)
    BY <1>1 DEF TypeOK
  <2> QED BY <1>3, <2>1, ElementOfSeq
<1>5. /\ path' = path /\ frame' = frame /\ tmpl' = tmpl /\ len' = len /\ pos' = pos
      /\ index' = index /\ target' = target /\ due' = due
      /\ Receivers' = Receivers /\ Current' = Current
  BY DEF HandleRTP, Receivers, Current
<1>6. ASSUME NEW f, NEW t, NEW l, NEW n, l \in path.lens, n \in 1..l, Flying(f, t, l, n)
      PROVE  \A i \in Receivers : IF n = l THEN \A u : Begun(i, f + 1, u, 0, 0)' ELSE Begun(i, f, t, n, n)'
  <2>1. Carried(k, f, t, l, n) /\ l \in Nat /\ \A i \in Receivers : Begun(i, f, t, n, n - 1)
    BY <1>3, <1>6, PathTyped DEF Flying
  <2>2. \A i \in Receivers : BufferSeq(k)[i] = k.seq
    BY <1>4, <1>6, <2>1, BufferKept
  <2> SUFFICES ASSUME NEW i \in Receivers
               PROVE  IF n = l THEN \A u : Begun(i, f + 1, u, 0, 0)' ELSE Begun(i, f, t, n, n)'
    OBVIOUS
  <2>3. Reached(i, k) /\ (Reached(i + 1, k) <=> ~L1T3Drop(target[i], k.tmpl))
    BY ReachedWhenDue
  <2>4. (~L1T3Drop(target[i], k.tmpl) <=> ~Dropped(i, t)) /\ (i # path.receivers => ~Dropped(i, t))
    BY <2>1 DEF Carried, Dropped, OthersKeepAll, L1T3Drop, Hi
  <2>5. rw'[i] = Rewritten(rw[i], Seen(i, k, k.seq))
    BY <1>1, <1>3, <2>2, <2>3 DEF HandleRTP
  <2>6. fwd'[i] = IF Dropped(i, t) THEN fwd[i]
                  ELSE fwd[i] \cup {[idx |-> k.idx, rank |-> k.rank[i],
                                     out |-> RewrittenSeq(rw[i], Seen(i, k, k.seq))]}
    BY <1>1, <1>3, <2>2, <2>3, <2>4 DEF HandleRTP
  <2> QED BY <1>4, <1>5, <1>6, <2>1, <2>4, <2>5, <2>6, HandledInOrder
<1>7. CASE pos > 0 /\ Flying(Current, tmpl, len, pos)
  <2>1. PICK f, t, l, n : f = Current /\ t = tmpl /\ l = len /\ n = pos
    OBVIOUS
  <2>2. l \in path.lens /\ n \in 1..l /\ Flying(f, t, l, n)
    BY <1>7, <2>1, PathTyped DEF TypeOK
  <2>3. \A i \in Receivers : IF n = l THEN \A u : Begun(i, f + 1, u, 0, 0)' ELSE Begun(i, f, t, n, n)'
    BY <1>6, <2>2
  <2>4. f = Current' /\ t = tmpl' /\ l = len' /\ n = pos'
    BY <1>5, <2>1
  <2> QED BY <1>2, <1>5, <2>3, <2>4 DEF Waiting
<1>8. CASE pos = 0 /\ \E t \in Templates, l \in path.lens : Flying(Current - 1, t, l, l)
  <2>1. PICK f, t, l : f = Current - 1 /\ l \in path.lens /\ Flying(f, t, l, l)
    BY <1>8
  <2>2. l \in Nat /\ l \in 1..l
    BY <2>1, PathTyped
  <2>3. \A i \in Receivers : \A u : Begun(i, f + 1, u, 0, 0)'
    BY <1>6, <2>1, <2>2
  <2>4. f + 1 = Current' /\ pos' = 0 /\ pos' # len'
    <3>1. Current \in Int /\ len # 0
      BY PathTyped DEF Current
    <3>2. f + 1 = Current
      BY <2>1, <3>1
    <3> QED BY <1>5, <1>8, <3>1, <3>2
  <2>5. \A i \in Receivers' : Begun(i, Current, tmpl, pos, pos)'
    BY <1>5, <2>3, <2>4
  <2> QED BY <1>2, <2>4, <2>5 DEF Waiting
<1> QED BY <1>1, <1>7, <1>8 DEF InFlight

\* The sender turns to its next frame, perhaps before the last packet arrived.
LEMMA NextFrameInOrder ==
    ASSUME TypeOK, Waiting \/ InFlight, NextFrame
    PROVE  (Waiting \/ InFlight)'
<1>1. /\ path' = path /\ index' = index /\ net' = net /\ target' = target /\ rw' = rw
      /\ due' = due /\ fwd' = fwd /\ Receivers' = Receivers
      /\ pos = len /\ pos' = 0 /\ pos' # len'
      /\ Current' = Current + 1 /\ Current' - 1 = Current /\ Current \in Nat
  <2>1. path' = path /\ frame' = frame + 1 /\ len' \in path.lens
    BY DEF NextFrame
  <2>2. len' # 0 /\ path.first \in Nat /\ frame \in Nat \ {0}
    BY <2>1, PathTyped
  <2>3. Current' = Current + 1 /\ Current' - 1 = Current /\ Current \in Nat
    BY <2>1, <2>2 DEF Current
  <2> QED BY <2>2, <2>3 DEF NextFrame, Receivers
<1>2. CASE Waiting
  <2>1. PICK f, t : f = Current + 1 /\ t = tmpl
    OBVIOUS
  <2>2. \A i \in Receivers : \A u : Begun(i, f, u, 0, 0)'
    BY <1>1, <1>2, <2>1, NothingSent DEF Waiting
  <2>3. \A i \in Receivers' : Begun(i, Current, tmpl, pos, pos)'
    BY <1>1, <2>1, <2>2
  <2> QED BY <1>1, <1>2, <2>3 DEF Waiting
<1>3. CASE InFlight
  <2>1. PICK f, t, l : f = Current /\ t = tmpl /\ l = len
    OBVIOUS
  <2>2. Len(net) = 1 /\ Carried(net[1], f, t, l, l) /\ \A i \in Receivers : Begun(i, f, t, l, l - 1)
    BY <1>1, <1>3, <2>1, PathTyped DEF InFlight, Flying
  <2>3. Carried(net[1], f, t, l, l)'
    BY <1>1, <2>2 DEF Carried, Dropped
  <2>4. \A i \in Receivers : Begun(i, f, t, l, l - 1)'
    BY <1>1, <2>2, BegunKept
  <2>5. Flying(f, t, l, l)'
    BY <1>1, <2>3, <2>4 DEF Flying
  <2>6. t \in Templates /\ l \in path'.lens /\ f = Current' - 1 /\ Len(net') = 1
    BY <1>1, <2>1, <2>2 DEF TypeOK
  <2> QED BY <1>1, <2>5, <2>6 DEF InFlight
<1> QED BY <1>2, <1>3

\* The agent changes a target between two frames.
LEMMA AdjustInOrder ==
    ASSUME TypeOK, LastAdapts, Waiting \/ InFlight,
           NEW j \in path.adaptive \cap Receivers, NEW v \in Targets, AdjustDecodeTarget(j, v)
    PROVE  Waiting'
<1>1. /\ path' = path /\ frame' = frame /\ tmpl' = tmpl /\ len' = len /\ pos' = pos
      /\ index' = index /\ net' = net /\ rw' = rw /\ due' = due /\ fwd' = fwd
      /\ Receivers' = Receivers /\ Current' = Current
      /\ net = <<>> /\ pos \in {0, len}
  BY DEF AdjustDecodeTarget, Receivers, Current, LastAdapts
<1>2. Waiting
  <2>1. Len(net) = 0
    BY <1>1, EmptySeq
  <2> QED BY <2>1 DEF InFlight
<1>3. PICK f : f = IF pos = len THEN Current + 1 ELSE Current
  OBVIOUS
<1>4. \A i \in Receivers : Begun(i, f, tmpl, 0, 0)
  BY <1>1, <1>2, <1>3 DEF Waiting
<1>5. \A i \in Receivers : \A u : Begun(i, f, u, 0, 0)'
  BY <1>1, <1>4, NothingSent
<1>6. f = (IF pos' = len' THEN Current' + 1 ELSE Current') /\ (pos' # len' => pos' = 0)
  BY <1>1, <1>3
<1> QED BY <1>1, <1>5, <1>6 DEF Waiting

\* The invariant holds at first.
LEMMA GapInit ==
    ASSUME Init
    PROVE  GapInv
<1>1. TypeOK /\ StarvedInv
  BY InitTyped, StarvedInit DEF StarvedInv
<1>2. \A i \in Receivers : /\ due[i] = 0 /\ fwd[i] = {} /\ rw[i] = NewRewriter
  BY DEF Init
<1>3. NewRewriter.dropCount = 0
  BY DEF NewRewriter
<1>4. net = <<>> /\ pos = 0 /\ pos # len /\ Current = path.first
  BY <1>1, PathTyped DEF Init, Current
<1>5. ASSUME NEW i \in Receivers PROVE Begun(i, Current, tmpl, pos, pos)
  BY <1>2, <1>3, <1>4 DEF Begun, Agreed, Dense, Knows
<1>6. Waiting
  BY <1>4, <1>5 DEF Waiting
<1> QED BY <1>1, <1>6 DEF GapInv

\* Every step keeps it.
LEMMA GapNext ==
    ASSUME GapInv, [Next]_vars
    PROVE  GapInv'
<1>1. StarvedInv' /\ TypeOK
  BY StarvedNext DEF GapInv, StarvedInv
<1> SUFFICES ASSUME (LastAdapts /\ InOrder /\ Unwrapped)' PROVE (Waiting \/ InFlight)'
  BY <1>1 DEF GapInv
<1>2. LastAdapts /\ InOrder /\ Unwrapped /\ OthersKeepAll /\ (Waiting \/ InFlight)
  <2>1. path' = path
    BY DEF Next, Send, NextFrame, HandleRTP, AdjustDecodeTarget, vars
  <2>2. LastAdapts /\ InOrder
    BY <2>1 DEF LastAdapts, InOrder, Receivers
  <2>3. Unwrapped
    BY <1>1, UnwrappedBefore
  <2> QED BY <2>2, <2>3 DEF GapInv, StarvedInv
<1>3. CASE Send
  BY <1>1, <1>2, <1>3, SendInOrder
<1>4. CASE NextFrame
  BY <1>1, <1>2, <1>4, NextFrameInOrder
<1>5. ASSUME NEW e \in 1..Len(net), HandleRTP(e) PROVE Waiting'
  BY <1>1, <1>2, <1>5, ArriveInOrder
<1>6. ASSUME NEW j \in path.adaptive \cap Receivers, NEW v \in Targets, AdjustDecodeTarget(j, v)
      PROVE  Waiting'
  BY <1>1, <1>2, <1>6, AdjustInOrder
<1>7. CASE UNCHANGED vars
  <2>1. /\ path' = path /\ index' = index /\ due' = due /\ rw' = rw /\ fwd' = fwd /\ target' = target
        /\ net' = net /\ pos' = pos /\ len' = len /\ tmpl' = tmpl /\ frame' = frame
        /\ Receivers' = Receivers /\ Current' = Current
    BY <1>7 DEF vars, Receivers, Current
  <2>2. ASSUME NEW f, NEW t, NEW l, NEW n, Flying(f, t, l, n) PROVE Flying(f, t, l, n)'
    BY <2>1, <2>2 DEF Flying, Carried, Begun, Agreed, Dense, Knows, Dropped
  <2>3. CASE Waiting
    <3>1. ASSUME NEW i \in Receivers, NEW f, NEW t, NEW n, Begun(i, f, t, n, n)
          PROVE  Begun(i, f, t, n, n)'
      BY <2>1, <3>1, BegunKept
    <3> QED BY <2>1, <2>3, <3>1 DEF Waiting
  <2>4. CASE InFlight
    BY <2>1, <2>2, <2>4 DEF InFlight
  <2> QED BY <1>2, <2>3, <2>4
<1> QED BY <1>3, <1>4, <1>5, <1>6, <1>7 DEF Next

\* What the invariant says of each receiver, whatever is in flight.
LEMMA SomeFrame ==
    ASSUME TypeOK, Waiting \/ InFlight, NEW i \in Receivers
    PROVE  \E n \in Nat : Agreed(i, n) /\ \E x, d : x \in Int /\ x <= index /\ Dense(i, x, d)
<1>1. \E f, t : \E n \in Nat, h \in Nat : n >= h /\ Begun(i, f, t, n, h)
  <2>1. pos \in Nat /\ 0 \in Nat /\ 0 >= 0 /\ pos >= pos
    BY PathTyped
  <2>2. CASE Waiting
    BY <2>1, <2>2 DEF Waiting
  <2>3. CASE InFlight /\ pos > 0
    <3>1. pos - 1 \in Nat /\ pos >= pos - 1 /\ Begun(i, Current, tmpl, pos, pos - 1)
      BY <2>1, <2>3 DEF InFlight, Flying
    <3> QED BY <2>1, <3>1
  <2>4. CASE InFlight /\ pos = 0
    <3>1. PICK t \in Templates, l \in path.lens : Begun(i, Current - 1, t, l, l - 1)
      BY <2>4 DEF InFlight, Flying
    <3>2. l \in Nat /\ l - 1 \in Nat /\ l >= l - 1
      BY <3>1, PathTyped
    <3> QED BY <3>1, <3>2
  <2> QED BY <2>1, <2>2, <2>3, <2>4 DEF InFlight
<1>2. PICK f, t : \E n \in Nat, h \in Nat : n >= h /\ Begun(i, f, t, n, h)
  BY <1>1
<1>3. PICK n \in Nat, h \in Nat : n >= h /\ Begun(i, f, t, n, h)
  BY <1>2
<1>4. (IF Dropped(i, t) THEN n ELSE 0) \in Nat /\ index - (n - h) \in Int /\ index - (n - h) <= index
  BY <1>3 DEF TypeOK
<1> QED BY <1>3, <1>4 DEF Begun

\* No gap but those of the network, and no number twice: while only the last action
\* of the entry adapts, and between two frames, and packets arrive in order, from
\* one packet that a receiver gets to another the number moves exactly by the
\* packets between them that the receiver is due, across dropped frames of any
\* length, lost packets and sequence numbers that wrap around, until the frame
\* numbers do.
THEOREM GapFreeInOrder == Spec => [](LastAdapts /\ InOrder /\ Unwrapped => GapFree)
<1>1. ASSUME GapInv, LastAdapts, InOrder, Unwrapped PROVE GapFree
  <2>1. TypeOK /\ (Waiting \/ InFlight)
    BY <1>1 DEF GapInv, StarvedInv
  <2> SUFFICES ASSUME NEW i \in Receivers, NEW a \in fwd[i], NEW b \in fwd[i]
               PROVE  (b.out - a.out) % SeqMod = (b.rank - a.rank) % SeqMod
    BY DEF GapFree
  <2>2. PICK n \in Nat : Agreed(i, n)
    BY <2>1, SomeFrame
  <2>3. /\ a.out \in Int /\ b.out \in Int /\ a.rank \in Int /\ b.rank \in Int
        /\ rw[i].dropCount \in Int /\ due[i] \in Nat /\ index \in Nat /\ FirstSeq \in Int
    <3>1. rw[i].dropCount \in Int
      BY <2>1, SeqItself DEF TypeOK, RewriterType
    <3>2. \A e \in fwd[i] : e.rank \in Nat /\ e.out \in Int
      BY <2>1, SeqItself DEF TypeOK
    <3> QED BY <2>1, <3>1, <3>2, ForwardingAssumption, SeqItself DEF TypeOK
  <2>4. PICK z \in Int : z = FirstSeq + index - n - due[i] - rw[i].dropCount
    BY <2>3
  <2>5. Same(a.out - a.rank, z) /\ Same(b.out - b.rank, z)
    BY <2>2, <2>4 DEF Agreed
  <2>6. PICK p \in Int, q \in Int : a.out - a.rank - z = p * SeqMod /\ b.out - b.rank - z = q * SeqMod
    BY <2>5 DEF Same
  <2>7. (b.out - a.out) - (b.rank - a.rank) = (q - p) * SeqMod
    BY <2>3, <2>4, <2>6, SeqModAssumption
  <2>8. q - p \in Int /\ b.out - a.out \in Int /\ b.rank - a.rank \in Int
    BY <2>3, <2>6
  <2>9. Same(b.out - a.out, b.rank - a.rank)
    BY <2>7, <2>8 DEF Same
  <2> QED BY <2>8, <2>9, SameMod
<1> QED BY <1>1, GapInit, GapNext, PTL DEF Spec

\* A packet that was sent later gets a later number, and not one further away, as
\* long as not more packets were sent than there are numbers, and the frame numbers
\* have not gone round.
THEOREM StrictlyIncreasingInOrder ==
    Spec => [](LastAdapts /\ InOrder /\ Unwrapped /\ index <= SeqMod => StrictlyIncreasing)
<1>1. ASSUME GapInv, LastAdapts, InOrder, Unwrapped, index <= SeqMod, GapFree PROVE StrictlyIncreasing
  <2>1. TypeOK /\ (Waiting \/ InFlight)
    BY <1>1 DEF GapInv, StarvedInv
  <2> SUFFICES ASSUME NEW i \in Receivers, NEW a \in fwd[i], NEW b \in fwd[i], a.idx < b.idx
               PROVE  (b.out - a.out) % SeqMod \in 1..(b.idx - a.idx)
    BY DEF StrictlyIncreasing
  <2>2. PICK x, d : x \in Int /\ x <= index /\ Dense(i, x, d)
    BY <2>1, SomeFrame
  <2>3. a.idx \in Nat /\ b.idx \in Nat /\ a.rank \in Nat /\ b.rank \in Nat /\ index \in Nat
    BY <2>1 DEF TypeOK
  <2>4. b.idx < x /\ a.rank < b.rank /\ b.rank - a.rank <= b.idx - a.idx
    BY <2>2 DEF Dense
  <2>5. b.rank - a.rank \in 1..(b.idx - a.idx) /\ b.rank - a.rank \in Seq16
    BY <1>1, <2>2, <2>3, <2>4, SeqModAssumption DEF Seq16
  <2>6. (b.out - a.out) % SeqMod = (b.rank - a.rank) % SeqMod
    BY <1>1 DEF GapFree, InOrder
  <2> QED BY <2>5, <2>6, SeqItself
<1> QED BY <1>1, GapInit, GapNext, GapFreeInOrder, PTL DEF Spec

-----------------------------------------------------------------------------
(* Packets that arrive in another order *)

\* Nobody adapts, nothing is lost, and no frame has fewer packets than may be in
\* flight, so that no frame can be overtaken as a whole: the rewriter would take the
\* frame for one that was dropped.
Whole ==
    /\ path.adaptive \cap Receivers = {}
    /\ path.loses = {}
    /\ \A l \in path.lens : l >= path.window

\* What a packet in flight says is what the sender counts.
Sound(k) ==
    /\ k.frame \in Nat /\ k.frame >= path.first /\ k.frame <= Current
    /\ k.idx < index /\ k.seq = (FirstSeq + k.idx) % SeqMod
    /\ \A i \in Receivers : k.rank[i] = k.idx

\* Receiver i got every packet with the number that the sender gave it.
Passed(i) ==
    /\ target[i] = Hi /\ due[i] = index
    /\ rw[i].dropCount = 0 /\ ~rw[i].dropMaxFrame
    /\ rw[i].maxFrame = 0 \/ rw[i].maxFrame >= path.first
    /\ \A a \in fwd[i] : a.rank = a.idx /\ a.idx < index /\ a.out = (FirstSeq + a.idx) % SeqMod

\* A frame that was sent reached the rewriter, unless all its packets are in flight.
Within(i) ==
    /\ \A g \in Nat : g >= path.first /\ g < Current =>
          \/ rw[i].maxFrame >= g
          \/ Len(net) = path.window /\ \A n \in 1..Len(net) : net[n].frame = g
    /\ \/ rw[i].maxFrame >= Current
       \/ Len(net) >= pos /\ \A n \in 1..Len(net) : n > Len(net) - pos => net[n].frame = Current

WholeInv ==
    TypeOK /\ (Whole /\ Unwrapped => /\ \A n \in 1..Len(net) : Sound(net[n])
                                     /\ \A i \in Receivers : Passed(i) /\ Within(i))

\* A rewriter that has dropped nothing, and has seen the frame before that of k or a
\* later one, or nothing at all, hands k on as it is.
LEMMA HandedOn ==
    ASSUME NEW r \in RewriterType, NEW k \in SeenType, ~k.drop, r.dropCount = 0, ~r.dropMaxFrame,
           r.maxFrame = 0 \/ k.frame <= r.maxFrame + 1
    PROVE  LET x == Rewritten(r, k)
           IN /\ x.dropCount = 0 /\ ~x.dropMaxFrame
              /\ x.maxFrame = IF k.frame > r.maxFrame THEN k.frame ELSE r.maxFrame
              /\ RewrittenSeq(r, k) = k.seq
<1> DEFINE x == Rewritten(r, k)
<1>1. /\ k.frame \in Nat /\ r.maxFrame \in Nat /\ k.drop = FALSE /\ r.dropMaxFrame = FALSE
      /\ k.seq \in Seq16 /\ k.seq \in Int
  BY SeqItself, FrameRange DEF SeenType, RewriterType
<1>2. 0 + 0 = 0 /\ 0 % SeqMod = 0 /\ k.seq - 0 = k.seq /\ k.seq % SeqMod = k.seq
  <2>1. 0 \in Seq16
    BY SeqModAssumption DEF Seq16
  <2> QED BY <1>1, <2>1, SeqItself
<1>3. x.dropCount = 0 /\ ~x.dropMaxFrame
      /\ x.maxFrame = IF k.frame > r.maxFrame THEN k.frame ELSE r.maxFrame
  <2>1. CASE isFirstPacket(r, k)
    <3>1. k.frame > r.maxFrame /\ ~(k.frame < r.maxFrame)
      BY <1>1, <2>1 DEF isFirstPacket
    <3>2. x = [firstPacket(r, k) EXCEPT !.maxDropFrame = maxDropFrameAfter(r, k)]
      BY <2>1, <3>1 DEF Rewritten
    <3> QED BY <1>1, <3>1, <3>2 DEF firstPacket, RewriterType
  <2>2. CASE ~isFirstPacket(r, k) /\ k.frame = r.maxFrame
    <3>1. ~(k.frame > r.maxFrame) /\ ~(k.frame < r.maxFrame) /\ ~(k.frame = r.maxFrame + 1)
          /\ ~(k.frame > r.maxFrame + 1)
      BY <1>1, <2>2
    <3>2. x = [sameFrame(r, k) EXCEPT !.maxDropFrame = maxDropFrameAfter(r, k)]
      BY <2>2, <3>1 DEF Rewritten
    <3> QED BY <1>1, <3>1, <3>2 DEF sameFrame, RewriterType
  <2>3. CASE ~isFirstPacket(r, k) /\ k.frame = r.maxFrame + 1
    <3>1. k.frame > r.maxFrame /\ ~(k.frame < r.maxFrame) /\ ~(k.frame = r.maxFrame)
          /\ ~(k.frame > r.maxFrame + 1)
      BY <1>1, <2>3
    <3>2. x = [nextFrame(r, k) EXCEPT !.maxDropFrame = maxDropFrameAfter(r, k)]
      BY <2>3, <3>1 DEF Rewritten
    <3> QED BY <1>1, <1>2, <3>1, <3>2 DEF nextFrame, openDroppedFrame, RewriterType
  <2>4. CASE ~isFirstPacket(r, k) /\ k.frame < r.maxFrame
    <3>1. ~(k.frame > r.maxFrame) /\ ~(k.frame = r.maxFrame) /\ ~(k.frame = r.maxFrame + 1)
          /\ ~(k.frame > r.maxFrame + 1)
      BY <1>1, <2>4
    <3>2. x = [r EXCEPT !.maxDropFrame = maxDropFrameAfter(r, k)]
      BY <2>4, <3>1 DEF Rewritten
    <3> QED BY <1>1, <3>1, <3>2 DEF RewriterType
  <2>5. k.frame = r.maxFrame \/ k.frame = r.maxFrame + 1 \/ k.frame < r.maxFrame \/ isFirstPacket(r, k)
    BY <1>1 DEF isFirstPacket
  <2> QED BY <2>1, <2>2, <2>3, <2>4, <2>5
<1>4. ~beforeClosedDrop(r, k)
  BY DEF beforeClosedDrop
<1>5. RewrittenSeq(r, k) = k.seq
  <2> HIDE DEF x
  <2> QED BY <1>2, <1>3, <1>4 DEF RewrittenSeq, x
<1> QED BY <1>3, <1>5

\* No packet in flight is of a frame later than the one after the last that the
\* rewriter saw, once it has seen one.
LEMMA NotOvertaken ==
    ASSUME TypeOK, NEW i \in Receivers, Passed(i), Within(i),
           NEW n \in 1..Len(net), Sound(net[n])
    PROVE  rw[i].maxFrame = 0 \/ net[n].frame <= rw[i].maxFrame + 1
<1> SUFFICES ASSUME rw[i].maxFrame # 0, net[n].frame > rw[i].maxFrame + 1 PROVE FALSE
  <2>1. rw[i].maxFrame \in Nat /\ net[n].frame \in Nat
    BY FrameRange DEF TypeOK, RewriterType, Sound
  <2> QED BY <2>1
<1> DEFINE g == net[n].frame - 1
<1>1. /\ rw[i].maxFrame \in Nat /\ net[n].frame \in Nat /\ path.first \in Nat
      /\ rw[i].maxFrame >= path.first /\ net[n].frame <= Current /\ Current \in Int
  <2>1. path.first \in Nat /\ Current \in Int
    BY PathTyped DEF Current
  <2>2. rw[i].maxFrame \in Nat /\ rw[i].maxFrame >= path.first
    BY FrameRange DEF TypeOK, RewriterType, Passed
  <2> QED BY <2>1, <2>2 DEF Sound
<1>2. g \in Nat /\ g >= path.first /\ g < Current /\ ~(rw[i].maxFrame >= g) /\ net[n].frame # g
  BY <1>1
<1> HIDE DEF g
<1> QED BY <1>2 DEF Within

\* Every receiver gets the packet that arrives, with its number.
LEMMA ArriveWhole ==
    ASSUME TypeOK, Whole, NEW e \in 1..Len(net), HandleRTP(e),
           \A n \in 1..Len(net) : Sound(net[n]),
           \A i \in Receivers : Passed(i) /\ Within(i)
    PROVE  /\ \A n \in 1..Len(net') : Sound(net[n])'
           /\ \A i \in Receivers : Passed(i)' /\ Within(i)'
<1>1. /\ path' = path /\ frame' = frame /\ tmpl' = tmpl /\ len' = len /\ pos' = pos
      /\ index' = index /\ target' = target /\ due' = due
      /\ Receivers' = Receivers /\ Current' = Current
  BY DEF HandleRTP, Receivers, Current
<1>2. /\ Len(net) \in Nat /\ Len(net') = Len(net) - 1 /\ Len(net) <= path.window
      /\ \A m \in 1..Len(net') : net'[m] = IF m < e THEN net[m] ELSE net[m + 1]
  BY OthersInFlight, LenProperties DEF TypeOK
<1>3. PICK k : k = net[e]
  OBVIOUS
<1>4. k \in PacketType /\ Sound(k)
  <2>1. net \in Seq(PacketType)
    BY DEF TypeOK
  <2> QED BY <1>3, <2>1, ElementOfSeq
<1>5. ASSUME NEW m \in 1..Len(net')
      PROVE  (m \in 1..Len(net) /\ net'[m] = net[m] /\ m < e)
               \/ (m + 1 \in 1..Len(net) /\ net'[m] = net[m + 1])
  BY <1>2
<1>6. \A m \in 1..Len(net') : Sound(net[m])'
  <2> SUFFICES ASSUME NEW m \in 1..Len(net') PROVE Sound(net[m])'
    OBVIOUS
  <2>1. PICK p : p = net'[m]
    OBVIOUS
  <2>2. Sound(p)
    BY <1>5, <2>1
  <2> QED BY <1>1, <2>1, <2>2 DEF Sound
<1>7. ASSUME NEW i \in Receivers
      PROVE  Seen(i, k, k.seq) \in SeenType /\ ~Seen(i, k, k.seq).drop
             /\ Seen(i, k, k.seq).frame = k.frame /\ Seen(i, k, k.seq).seq = k.seq
  <2>1. k.frame \in Nat /\ k.frame \in Frame16 /\ k.mark \in Mark /\ k.seq \in Seq16
    BY <1>4, FrameRange DEF PacketType
  <2>2. ~L1T3Drop(target[i], k.tmpl)
    BY DEF Passed, L1T3Drop, Hi
  <2>3. Seen(i, k, k.seq) \in SeenType
    BY <2>1, SeenTyped
  <2> QED BY <2>2, <2>3 DEF Seen
<1>8. ASSUME NEW i \in Receivers
      PROVE  /\ Rewritten(rw[i], Seen(i, k, k.seq)).dropCount = 0
             /\ ~Rewritten(rw[i], Seen(i, k, k.seq)).dropMaxFrame
             /\ Rewritten(rw[i], Seen(i, k, k.seq)).maxFrame
                  = IF k.frame > rw[i].maxFrame THEN k.frame ELSE rw[i].maxFrame
             /\ RewrittenSeq(rw[i], Seen(i, k, k.seq)) = k.seq
  <2>1. rw[i].maxFrame = 0 \/ k.frame <= rw[i].maxFrame + 1
    BY <1>3, <1>4, NotOvertaken
  <2>2. rw[i] \in RewriterType /\ rw[i].dropCount = 0 /\ ~rw[i].dropMaxFrame
    BY DEF TypeOK, Passed
  <2> QED BY <1>7, <2>1, <2>2, HandedOn
<1>9. \A i \in Receivers : BufferSeq(k)[i] = k.seq
  <2> DEFINE buf == BufferSeq(k)
             N == path.receivers - 1
             T == {j \in 0..N : buf[j + 1] = k.seq}
  <2>1. N \in Nat /\ Receivers = 1..N + 1
    BY PathTyped DEF Receivers
  <2>2. /\ buf[1] = k.seq
        /\ \A i \in Receivers \ {1} : buf[i] = RewrittenSeq(rw[i - 1], Seen(i - 1, k, buf[i - 1]))
    BY <1>4, BufferNumbers, PathTyped DEF TypeOK, PacketType
  <2> HIDE DEF buf
  <2>3. 0 \in T
    BY <2>1, <2>2
  <2>4. ASSUME NEW j \in 1..N, j - 1 \in T PROVE j \in T
    <3>1. j \in Receivers /\ j + 1 \in Receivers \ {1} /\ j + 1 - 1 = j /\ j - 1 + 1 = j
      BY <2>1
    <3> QED BY <1>8, <2>2, <2>4, <3>1
  <2> HIDE DEF T
  <2>5. 0..N \subseteq T
    <3> HIDE DEF N
    <3> QED BY <2>1, <2>3, <2>4, UpTo
  <2> SUFFICES ASSUME NEW i \in Receivers PROVE buf[i] = k.seq
    BY DEF buf
  <2>6. i - 1 \in 0..N /\ i - 1 + 1 = i
    BY <2>1
  <2>7. i - 1 \in T
    BY <2>5, <2>6
  <2> QED BY <2>6, <2>7 DEF T
<1>10. ASSUME NEW i \in Receivers
       PROVE  /\ rw'[i] = Rewritten(rw[i], Seen(i, k, k.seq))
              /\ fwd'[i] = fwd[i] \cup {[idx |-> k.idx, rank |-> k.rank[i], out |-> k.seq]}
  <2>1. \A j \in Receivers : ~L1T3Drop(target[j], k.tmpl)
    BY DEF Passed, L1T3Drop, Hi
  <2>2. Reached(i, k) /\ Reached(i + 1, k)
    <3>1. i \in Nat /\ i <= path.receivers /\ path.receivers \in Nat
      BY PathTyped DEF Receivers
    <3>2. i + 1 - 1 = i /\ \A j \in 1..i : j \in Receivers
      BY <3>1 DEF Receivers
    <3>3. \A j \in 1..i - 1 : j \in Receivers
      BY <3>1 DEF Receivers
    <3>4. Reached(i, k)
      BY <2>1, <3>3 DEF Reached
    <3>5. Reached(i + 1, k)
      BY <2>1, <3>1, <3>2 DEF Reached
    <3> QED BY <3>4, <3>5
  <2>3. BufferSeq(k)[i] = k.seq /\ RewrittenSeq(rw[i], Seen(i, k, k.seq)) = k.seq
    BY <1>8, <1>9
  <2>4. rw'[i] = Rewritten(rw[i], Seen(i, k, k.seq))
    BY <1>3, <2>2, <2>3 DEF HandleRTP
  <2>5. fwd'[i] = fwd[i] \cup {[idx |-> k.idx, rank |-> k.rank[i],
                                out |-> RewrittenSeq(rw[i], Seen(i, k, k.seq))]}
    BY <1>3, <2>2, <2>3 DEF HandleRTP
  <2> QED BY <2>3, <2>4, <2>5
<1> SUFFICES ASSUME NEW i \in Receivers PROVE Passed(i)' /\ Within(i)'
  BY <1>6
<1>11. /\ rw'[i].dropCount = 0 /\ ~rw'[i].dropMaxFrame
       /\ rw'[i].maxFrame = IF k.frame > rw[i].maxFrame THEN k.frame ELSE rw[i].maxFrame
       /\ rw[i].maxFrame \in Nat /\ k.frame \in Nat /\ path.first \in Nat
       /\ k.frame >= path.first /\ k.frame <= Current
  BY <1>4, <1>8, <1>10, PathTyped, FrameRange DEF TypeOK, RewriterType, Sound
<1>12. Passed(i)'
  <2>1. k.rank[i] = k.idx /\ k.idx < index /\ k.seq = (FirstSeq + k.idx) % SeqMod
    BY <1>4 DEF Sound
  <2>2. \A a \in fwd'[i] : a.rank = a.idx /\ a.idx < index /\ a.out = (FirstSeq + a.idx) % SeqMod
    <3>1. \A a \in fwd[i] : a.rank = a.idx /\ a.idx < index /\ a.out = (FirstSeq + a.idx) % SeqMod
      BY DEF Passed
    <3> QED BY <1>10, <2>1, <3>1
  <2>3. rw'[i].maxFrame = 0 \/ rw'[i].maxFrame >= path.first
    BY <1>11 DEF Passed
  <2>4. target[i] = Hi /\ due[i] = index
    BY DEF Passed
  <2> QED BY <1>1, <1>11, <2>2, <2>3, <2>4 DEF Passed
<1>13. Current \in Int /\ pos \in Nat
  BY PathTyped DEF Current
<1>14. ASSUME NEW g \in Nat, g >= path.first, g < Current
       PROVE  rw'[i].maxFrame >= g
  <2>1. \/ rw[i].maxFrame >= g
        \/ \A n \in 1..Len(net) : net[n].frame = g
    BY <1>14 DEF Within
  <2>2. rw[i].maxFrame >= g \/ k.frame = g
    BY <1>3, <2>1
  <2> QED BY <1>11, <2>2
<1>15. \/ rw'[i].maxFrame >= Current
       \/ Len(net') >= pos /\ \A n \in 1..Len(net') : n > Len(net') - pos => net'[n].frame = Current
  <2>1. CASE rw[i].maxFrame >= Current \/ k.frame = Current
    BY <1>11, <1>13, <2>1
  <2>2. CASE ~(rw[i].maxFrame >= Current) /\ k.frame # Current
    <3>1. Len(net) >= pos /\ \A n \in 1..Len(net) : n > Len(net) - pos => net[n].frame = Current
      BY <2>2 DEF Within
    <3>2. e <= Len(net) - pos /\ e >= 1
      BY <1>2, <1>3, <1>13, <2>2, <3>1
    <3>3. Len(net') >= pos
      BY <1>2, <1>13, <3>2
    <3>4. ASSUME NEW n \in 1..Len(net'), n > Len(net') - pos PROVE net'[n].frame = Current
      <4>1. n + 1 \in 1..Len(net) /\ n + 1 > Len(net) - pos /\ ~(n < e)
        BY <1>2, <1>13, <3>2, <3>4
      <4> QED BY <1>2, <3>1, <4>1
    <3> QED BY <3>3, <3>4
  <2> QED BY <2>1, <2>2
<1>16. Within(i)'
  BY <1>1, <1>14, <1>15 DEF Within
<1> QED BY <1>12, <1>16

\* The packet that is sent is due to everyone.
LEMMA SendWhole ==
    ASSUME TypeOK, Whole, Unwrapped, Send,
           \A n \in 1..Len(net) : Sound(net[n]),
           \A i \in Receivers : Passed(i) /\ Within(i)
    PROVE  /\ \A n \in 1..Len(net') : Sound(net[n])'
           /\ \A i \in Receivers : Passed(i)' /\ Within(i)'
<1>1. /\ path' = path /\ frame' = frame /\ index' = index + 1 /\ pos' = pos + 1
      /\ target' = target /\ rw' = rw /\ fwd' = fwd
      /\ Receivers' = Receivers /\ Current' = Current
      /\ index \in Nat /\ pos \in Nat /\ Current \in Nat /\ path.first \in Nat /\ Current >= path.first
      /\ Len(net) \in Nat
  <2>1. /\ frame' = frame /\ path' = path /\ path.first \in Nat /\ frame \in Nat \ {0}
        /\ pos \in Nat /\ index \in Nat /\ Len(net) \in Nat
    BY PathTyped, LenProperties DEF Send, TypeOK
  <2>2. Current' = Current /\ Current \in Nat /\ Current >= path.first
    BY <2>1 DEF Current
  <2> QED BY <2>1, <2>2 DEF Send, Receivers
<1>2. \A i \in Receivers : due[i] = index /\ due'[i] = index + 1
  BY DEF Send, Passed, L1T3Drop, Hi
<1>3. /\ Len(net) < path.window /\ Len(net') = Len(net) + 1
      /\ \A m \in 1..Len(net) : net'[m] = net[m]
      /\ net'[Len(net) + 1] = Packet
  <2>1. net \in Seq(PacketType) /\ Packet \in PacketType
    BY PacketTyped DEF TypeOK
  <2>2. net' = Append(net, Packet) /\ Len(net) < path.window
    BY DEF Send, Whole
  <2> HIDE DEF PacketType, Packet
  <2> QED BY <2>1, <2>2, AppendProperties
<1>4. \A m \in 1..Len(net') : m \in 1..Len(net) \/ m = Len(net) + 1
  BY <1>1, <1>3
<1>5. Packet.frame = Current /\ Packet.idx = index /\ Packet.seq = (FirstSeq + index) % SeqMod
      /\ Packet.rank = due
  BY FrameOfPacket DEF Packet
<1> HIDE DEF Packet
<1>6. \A m \in 1..Len(net') : Sound(net[m])'
  <2> SUFFICES ASSUME NEW m \in 1..Len(net') PROVE Sound(net[m])'
    OBVIOUS
  <2>1. PICK p : p = net'[m]
    OBVIOUS
  <2>2. CASE m \in 1..Len(net)
    <3>1. p = net[m] /\ Sound(net[m])
      BY <1>3, <2>1, <2>2
    <3>2. p.idx < index => p.idx < index + 1
      <4>1. p \in PacketType
        <5>1. net \in Seq(PacketType)
          BY DEF TypeOK
        <5> QED BY <2>2, <3>1, <5>1, ElementOfSeq
      <4>2. p.idx \in Nat
        BY <4>1 DEF PacketType
      <4> QED BY <1>1, <4>2
    <3> QED BY <1>1, <2>1, <3>1, <3>2 DEF Sound
  <2>3. CASE m = Len(net) + 1
    <3>1. p = Packet
      BY <1>3, <2>1, <2>3
    <3>2. p.frame \in Nat /\ p.frame >= path.first /\ p.frame <= Current /\ p.idx < index + 1
      BY <1>1, <1>5, <3>1
    <3> QED BY <1>1, <1>2, <1>5, <2>1, <3>1, <3>2 DEF Sound
  <2> QED BY <1>4, <2>2, <2>3
<1> SUFFICES ASSUME NEW i \in Receivers PROVE Passed(i)' /\ Within(i)'
  BY <1>6
<1>7. \A a \in fwd[i] : a.idx < index => a.idx < index + 1
  BY <1>1 DEF TypeOK
<1>8. Passed(i)'
  BY <1>1, <1>2, <1>7 DEF Passed
<1>9. ASSUME NEW g \in Nat, g >= path.first, g < Current PROVE rw[i].maxFrame >= g
  BY <1>1, <1>3, <1>9 DEF Within
<1>10. ASSUME ~(rw[i].maxFrame >= Current)
       PROVE  Len(net') >= pos + 1 /\ \A n \in 1..Len(net') : n > Len(net') - (pos + 1) => net'[n].frame = Current
  <2>1. Len(net) >= pos /\ \A n \in 1..Len(net) : n > Len(net) - pos => net[n].frame = Current
    BY <1>10 DEF Within
  <2>2. Len(net') - (pos + 1) = Len(net) - pos /\ Len(net') >= pos + 1
    BY <1>1, <1>3, <2>1
  <2> QED BY <1>3, <1>4, <1>5, <2>1, <2>2
<1>11. Within(i)'
  BY <1>1, <1>9, <1>10 DEF Within
<1> QED BY <1>8, <1>11

\* A frame that was sent as a whole and of which nothing arrived is all that is in
\* flight.
LEMMA NextFrameWhole ==
    ASSUME TypeOK, Whole, NextFrame,
           \A n \in 1..Len(net) : Sound(net[n]),
           \A i \in Receivers : Passed(i) /\ Within(i)
    PROVE  /\ \A n \in 1..Len(net') : Sound(net[n])'
           /\ \A i \in Receivers : Passed(i)' /\ Within(i)'
<1>1. /\ path' = path /\ frame' = frame + 1 /\ index' = index /\ pos' = 0 /\ net' = net
      /\ target' = target /\ rw' = rw /\ fwd' = fwd /\ due' = due /\ Receivers' = Receivers
      /\ Current' = Current + 1 /\ Current \in Nat /\ path.first \in Nat
      /\ pos >= path.window /\ pos \in Nat /\ Len(net) \in Nat /\ Len(net) <= path.window
      /\ path.window \in Nat
  <2>1. /\ frame' = frame + 1 /\ path' = path /\ path.first \in Nat /\ frame \in Nat \ {0}
        /\ pos = len /\ len \in path.lens /\ len \in Nat /\ path.window \in Nat
        /\ Len(net) \in Nat /\ Len(net) <= path.window
    BY PathTyped, LenProperties DEF NextFrame, TypeOK
  <2>2. Current' = Current + 1 /\ Current \in Nat
    BY <2>1 DEF Current
  <2>3. pos >= path.window /\ pos \in Nat
    BY <2>1 DEF Whole
  <2> QED BY <2>1, <2>2, <2>3 DEF NextFrame, Receivers
<1>2. \A m \in 1..Len(net') : Sound(net[m])'
  <2> SUFFICES ASSUME NEW m \in 1..Len(net) PROVE Sound(net[m])'
    BY <1>1
  <2>1. PICK p : p = net[m]
    OBVIOUS
  <2>2. Sound(p) /\ (p.frame \in Nat /\ p.frame <= Current => p.frame <= Current + 1)
    BY <1>1, <2>1
  <2> QED BY <1>1, <2>1, <2>2 DEF Sound
<1> SUFFICES ASSUME NEW i \in Receivers PROVE Passed(i)' /\ Within(i)'
  BY <1>2
<1>3. Passed(i)'
  BY <1>1 DEF Passed
<1>4. ASSUME NEW g \in Nat, g >= path.first, g < Current + 1
      PROVE  \/ rw[i].maxFrame >= g
             \/ Len(net) = path.window /\ \A n \in 1..Len(net) : net[n].frame = g
  <2>1. CASE g < Current
    BY <1>4, <2>1 DEF Within
  <2>2. CASE g = Current /\ ~(rw[i].maxFrame >= Current)
    <3>1. Len(net) >= pos /\ \A n \in 1..Len(net) : n > Len(net) - pos => net[n].frame = Current
      BY <2>2 DEF Within
    <3>2. Len(net) = path.window /\ \A n \in 1..Len(net) : n > Len(net) - pos
      BY <1>1, <3>1
    <3> QED BY <2>2, <3>1, <3>2
  <2> QED BY <1>1, <1>4, <2>1, <2>2
<1>5. Len(net) >= 0 /\ \A n \in 1..Len(net) : ~(n > Len(net) - 0)
  BY <1>1
<1>6. Within(i)'
  BY <1>1, <1>4, <1>5 DEF Within
<1> QED BY <1>3, <1>6

\* The invariant holds at first.
LEMMA WholeInit ==
    ASSUME Init
    PROVE  WholeInv
<1>1. TypeOK
  BY InitTyped
<1>2. /\ Len(net) = 0 /\ pos = 0 /\ index = 0 /\ Current = path.first /\ path.first \in Nat
  BY <1>1, EmptySeq, PathTyped DEF Init, Current
<1>3. ASSUME NEW i \in Receivers PROVE Passed(i)
  BY <1>3 DEF Init, Passed, NewRewriter
<1>4. ASSUME NEW i \in Receivers PROVE Within(i)
  <2>1. \A g \in Nat : ~(g >= path.first /\ g < Current)
    BY <1>2
  <2> QED BY <1>2, <2>1 DEF Within
<1> QED BY <1>1, <1>2, <1>3, <1>4 DEF WholeInv

\* Every step keeps it.
LEMMA WholeNext ==
    ASSUME WholeInv, [Next]_vars
    PROVE  WholeInv'
<1>1. TypeOK' /\ TypeOK
  BY NextTyped DEF WholeInv
<1> SUFFICES ASSUME Whole', Unwrapped'
             PROVE  /\ \A n \in 1..Len(net') : Sound(net[n])'
                    /\ \A i \in Receivers' : Passed(i)' /\ Within(i)'
  BY <1>1 DEF WholeInv
<1>2. /\ path' = path /\ Receivers' = Receivers /\ Whole /\ Unwrapped
      /\ \A n \in 1..Len(net) : Sound(net[n])
      /\ \A i \in Receivers : Passed(i) /\ Within(i)
  <2>1. path' = path
    BY DEF Next, Send, NextFrame, HandleRTP, AdjustDecodeTarget, vars
  <2>2. Receivers' = Receivers /\ Whole
    BY <2>1 DEF Whole, Receivers
  <2>3. Unwrapped
    BY <1>1, UnwrappedBefore
  <2> QED BY <2>1, <2>2, <2>3 DEF WholeInv
<1>3. CASE Send
  BY <1>1, <1>2, <1>3, SendWhole
<1>4. CASE NextFrame
  BY <1>1, <1>2, <1>4, NextFrameWhole
<1>5. CASE \E n \in 1..Len(net) : HandleRTP(n)
  BY <1>1, <1>2, <1>5, ArriveWhole
<1>6. CASE \E i \in path.adaptive \cap Receivers, t \in Targets : AdjustDecodeTarget(i, t)
  BY <1>2, <1>6 DEF Whole
<1>7. CASE UNCHANGED vars
  <2>1. /\ path' = path /\ frame' = frame /\ index' = index /\ pos' = pos /\ net' = net
        /\ target' = target /\ rw' = rw /\ fwd' = fwd /\ due' = due /\ Current' = Current
    BY <1>7 DEF vars, Current
  <2>2. \A n \in 1..Len(net) : Sound(net[n])'
    BY <1>2, <2>1 DEF Sound
  <2>3. \A i \in Receivers : Passed(i)' /\ Within(i)'
    BY <1>2, <2>1 DEF Passed, Within
  <2> QED BY <1>2, <2>1, <2>2, <2>3
<1> QED BY <1>3, <1>4, <1>5, <1>6, <1>7 DEF Next

\* Reordering alone does no harm: while nobody adapts, nothing is lost and no whole
\* frame can be overtaken, the numbers of what a receiver gets are as far apart as
\* the packets are, in whatever order they arrive, until the frame numbers go round.
THEOREM NumbersSurviveReordering ==
    Spec => [](Whole /\ Unwrapped => GapFree /\ (index <= SeqMod => StrictlyIncreasing))
<1>1. ASSUME WholeInv, Whole, Unwrapped, NEW i \in Receivers, NEW a \in fwd[i], NEW b \in fwd[i]
      PROVE  /\ (b.out - a.out) % SeqMod = (b.idx - a.idx) % SeqMod
             /\ a.rank = a.idx /\ b.rank = b.idx /\ b.idx < index
             /\ a.idx \in Nat /\ b.idx \in Nat /\ index \in Nat
  <2>1. /\ a.idx \in Nat /\ b.idx \in Nat /\ a.out \in Int /\ b.out \in Int /\ FirstSeq \in Int
        /\ index \in Nat
    BY <1>1, ForwardingAssumption, SeqItself DEF WholeInv, TypeOK
  <2>2. /\ a.rank = a.idx /\ b.rank = b.idx /\ b.idx < index
        /\ a.out = (FirstSeq + a.idx) % SeqMod /\ b.out = (FirstSeq + b.idx) % SeqMod
    BY <1>1 DEF WholeInv, Passed
  <2>3. FirstSeq + a.idx \in Int /\ FirstSeq + b.idx \in Int
    BY <2>1
  <2>4. Same(a.out, FirstSeq + a.idx) /\ Same(b.out, FirstSeq + b.idx)
    BY <2>2, <2>3, ModRange
  <2>5. Same(b.out - a.out, (FirstSeq + b.idx) - (FirstSeq + a.idx))
    BY <2>1, <2>3, <2>4, SameSum
  <2>6. (FirstSeq + b.idx) - (FirstSeq + a.idx) = b.idx - a.idx
    BY <2>1
  <2>7. b.out - a.out \in Int /\ b.idx - a.idx \in Int
    BY <2>1
  <2>8. (b.out - a.out) % SeqMod = (b.idx - a.idx) % SeqMod
    BY <2>5, <2>6, <2>7, SameMod
  <2> QED BY <2>1, <2>2, <2>8
<1>2. ASSUME WholeInv, Whole, Unwrapped PROVE GapFree
  BY <1>1, <1>2 DEF GapFree
<1>3. ASSUME WholeInv, Whole, Unwrapped, index <= SeqMod PROVE StrictlyIncreasing
  <2> SUFFICES ASSUME NEW i \in Receivers, NEW a \in fwd[i], NEW b \in fwd[i], a.idx < b.idx
               PROVE  (b.out - a.out) % SeqMod \in 1..(b.idx - a.idx)
    BY DEF StrictlyIncreasing
  <2>1. /\ (b.out - a.out) % SeqMod = (b.idx - a.idx) % SeqMod
        /\ b.idx < index /\ a.idx \in Nat /\ b.idx \in Nat /\ index \in Nat
    BY <1>1, <1>3
  <2>2. b.idx - a.idx \in Seq16 /\ b.idx - a.idx \in 1..(b.idx - a.idx)
    BY <1>3, <2>1, SeqModAssumption DEF Seq16
  <2> QED BY <2>1, <2>2, SeqItself
<1> QED BY <1>2, <1>3, WholeInit, WholeNext, PTL DEF Spec

=============================================================================
