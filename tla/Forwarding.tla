----------------------------- MODULE Forwarding -----------------------------
(***************************************************************************)
(* One video stream on its way through the data plane: the sender's        *)
(* frames, the network between sender and SFU, and the actions of the      *)
(* stream's entry in the SFU table, which DataPlaneModel::_handleRTP       *)
(* (lib/data_plane_model.cc) goes through for every packet, with the       *)
(* switch agent changing decode targets while packets are on their way.    *)
(*                                                                         *)
(* The sender and the network are the environment: frames are numbered     *)
(* consecutively, the packets of a frame carry consecutive sequence        *)
(* numbers (both kinds of number wrap around), the first and the last one  *)
(* are flagged, and all packets of a frame carry the frame's template.  A  *)
(* packet that the data plane drops at random (rtpDropRate) is one the     *)
(* network lost.                                                           *)
(***************************************************************************)
EXTENDS SequenceRewriter, Sequences

CONSTANTS
    FirstSeq,     \* its first sequence number
    Templates,    \* template ids of the frames
    Targets,      \* decode targets the agent may set
    MaxRetargets, \* bound on the changes of decode targets
    MidFrame,     \* whether they may happen while a frame is under way
    Paths         \* the ways a stream may be treated on its way, see Path

\* A path says the number of receivers, the number of the first frame, how many
\* frames are sent and how many packets a frame may have, how many packets may be
\* in flight (with 1 they arrive in order), the marks of the packets the network
\* may lose, and the receivers whose decode target changes.
Path ==
    [receivers : Nat \ {0}, first : Frame16, frames : Nat \ {0}, lens : SUBSET (Nat \ {0}),
     window : Nat \ {0}, loses : SUBSET Mark, adaptive : SUBSET (Nat \ {0})]

\* av1::svc::L1T3: lo = 0, mid = 1, hi = 2; templates repeat every five.
Hi == 2

ASSUME ForwardingAssumption ==
    /\ FirstSeq \in Seq16
    /\ Templates \subseteq Nat
    /\ Hi \in Targets /\ Targets \subseteq 0..Hi
    /\ MaxRetargets \in Nat
    /\ MidFrame \in BOOLEAN
    /\ Paths \subseteq Path

VARIABLES
    path,      \* the path of the stream
    frame,     \* index of the frame being sent
    tmpl,      \* its template id
    len, pos,  \* its length, and how many of its packets were sent
    index,     \* packets sent so far
    net,       \* packets in flight, in sending order
    target,    \* decodeTarget of each action's svcConfig
    retargets, \* how often one was changed
    rw,        \* sequenceRewriter of each action
    due,       \* packets sent so far that each receiver is due
    lost,      \* the ranks of those the network lost
    fwd        \* what was forwarded to each receiver: the packet's index, its
               \* rank among those the receiver is due, and its new number

vars == <<path, frame, tmpl, len, pos, index, net, target, retargets, rw, due, lost, fwd>>

\* The actions of the entry, one for each receiver, in order.
Receivers == 1..path.receivers

-----------------------------------------------------------------------------

L1T3Drop(t, templateId) ==
    \/ t = 1 /\ templateId % 5 \in {3, 4}
    \/ t = 0 /\ templateId % 5 \in {2, 3, 4}

PacketType ==
    [frame : Frame16, seq : Seq16, mark : Mark, tmpl : Templates,
     idx : Nat, rank : [Receivers -> Nat]]

TypeOK ==
    /\ path \in Paths
    /\ frame \in 1..path.frames
    /\ tmpl \in Templates
    /\ len \in path.lens
    /\ pos \in 0..len
    /\ index \in Nat
    /\ net \in Seq(PacketType) /\ Len(net) <= path.window
    /\ target \in [Receivers -> Targets]
    /\ retargets \in 0..MaxRetargets
    /\ rw \in [Receivers -> RewriterType]
    /\ due \in [Receivers -> Nat]
    /\ lost \in [Receivers -> SUBSET Nat]
    /\ fwd \in [Receivers -> SUBSET [idx : Nat, rank : Nat, out : Seq16]]

Init ==
    /\ path \in Paths
    /\ frame = 1
    /\ tmpl \in Templates
    /\ len \in path.lens
    /\ pos = 0
    /\ index = 0
    /\ net = <<>>
    /\ target = [i \in Receivers |-> Hi]
    /\ retargets = 0
    /\ rw = [i \in Receivers |-> NewRewriter]
    /\ due = [i \in Receivers |-> 0]
    /\ lost = [i \in Receivers |-> {}]
    /\ fwd = [i \in Receivers |-> {}]

-----------------------------------------------------------------------------
(* Sender and network (environment) *)

Packet ==
    [frame |-> (path.first + frame - 1) % FrameMod,
     seq   |-> (FirstSeq + index) % SeqMod,
     mark  |-> markFromAV1FrameFlags(pos = 0, pos + 1 = len),
     tmpl  |-> tmpl,
     idx   |-> index,
     rank  |-> due]

Send ==
    /\ pos < len
    /\ Len(net) < path.window
    /\ \/ net' = Append(net, Packet) /\ UNCHANGED lost
       \/ /\ Packet.mark \in path.loses
          /\ lost' = [i \in Receivers |->
                       IF L1T3Drop(target[i], tmpl) THEN lost[i] ELSE lost[i] \cup {due[i]}]
          /\ UNCHANGED net
    /\ index' = index + 1
    /\ due' = [i \in Receivers |-> IF L1T3Drop(target[i], tmpl) THEN due[i] ELSE due[i] + 1]
    /\ pos' = pos + 1
    /\ UNCHANGED <<path, frame, tmpl, len, target, retargets, rw, fwd>>

NextFrame ==
    /\ pos = len
    /\ frame < path.frames
    /\ frame' = frame + 1
    /\ pos' = 0
    /\ len' \in path.lens
    /\ tmpl' \in Templates
    /\ UNCHANGED <<path, index, net, target, retargets, rw, due, lost, fwd>>

-----------------------------------------------------------------------------
(* Data plane *)

\* What the rewriter of action i is given for the packet k, while the packet
\* buffer holds the number seq.
Seen(i, k, seq) ==
    [frame |-> k.frame, seq |-> seq, mark |-> k.mark, drop |-> L1T3Drop(target[i], k.tmpl)]

\* The number in the packet buffer when the loop comes to action i: every action
\* writes its number into the same buffer.
BufferSeq(k) ==
    LET buf[i \in Receivers] ==
            IF i = 1 THEN k.seq ELSE RewrittenSeq(rw[i - 1], Seen(i - 1, k, buf[i - 1]))
    IN buf

\* Mutant: the drop decision of an action is taken before the action is run.
Reached_early(i, k) == \A j \in Receivers \cap 1..i : ~L1T3Drop(target[j], k.tmpl)

\* The loop returns at the first action that drops the packet.
Reached(i, k) == \A j \in 1..i - 1 : ~L1T3Drop(target[j], k.tmpl)

\* _handleRTP; any of the packets in flight may arrive next.
HandleRTP(n) ==
    LET k   == net[n]
        buf == BufferSeq(k)
    IN /\ net' = SubSeq(net, 1, n - 1) \o SubSeq(net, n + 1, Len(net))
       /\ rw' = [i \in Receivers |->
                   IF Reached(i, k) THEN Rewritten(rw[i], Seen(i, k, buf[i])) ELSE rw[i]]
       /\ fwd' = [i \in Receivers |->
                   IF Reached(i + 1, k)
                   THEN fwd[i] \cup {[idx |-> k.idx, rank |-> k.rank[i],
                                      out |-> RewrittenSeq(rw[i], Seen(i, k, buf[i]))]}
                   ELSE fwd[i]]
       /\ UNCHANGED <<path, frame, tmpl, len, pos, index, target, retargets, due, lost>>

\* The agent acts on a bandwidth estimate: between two frames or at any time.
AdjustDecodeTarget(i, t) ==
    /\ retargets < MaxRetargets
    /\ MidFrame \/ (net = <<>> /\ pos \in {0, len})
    /\ t # target[i]
    /\ target' = [target EXCEPT ![i] = t]
    /\ retargets' = retargets + 1
    /\ UNCHANGED <<path, frame, tmpl, len, pos, index, net, rw, due, lost, fwd>>

Next ==
    \/ Send
    \/ NextFrame
    \/ \E n \in 1..Len(net) : HandleRTP(n)
    \/ \E i \in path.adaptive \cap Receivers, t \in Targets : AdjustDecodeTarget(i, t)

Spec == Init /\ [][Next]_vars

-----------------------------------------------------------------------------
(* Properties *)

\* From one packet forwarded to a receiver to another the number moves exactly
\* by the packets between them that the receiver is due: dropped packets leave
\* no gap that the receiver would ask for again, and no number is used twice.
GapFree ==
    "end" \notin path.loses => \A i \in Receivers : \A a, b \in fwd[i] :
        (b.out - a.out) % SeqMod = (b.rank - a.rank) % SeqMod

\* Nothing is lost inside the SFU: once nothing is in flight, each receiver was
\* sent every packet it is due that the network did not lose, whatever the
\* targets of the receivers after it in the loop of _handleRTP.
NothingStarved ==
    net = <<>> =>
        \A i \in Receivers : {a.rank : a \in fwd[i]} = (0..due[i] - 1) \ lost[i]

\* sequence_rewriter.h:38 "applies a heuristic to produce stricly increasing
\* sequence numbers": a packet that was sent later gets a later number.
StrictlyIncreasing ==
    \A i \in Receivers : \A a, b \in fwd[i] :
        a.idx < b.idx => (b.out - a.out) % SeqMod \in 1..(b.idx - a.idx)

=============================================================================
