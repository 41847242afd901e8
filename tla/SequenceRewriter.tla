-------------------------- MODULE SequenceRewriter --------------------------
(***************************************************************************)
(* The sequence-number rewriter of one forwarding action                   *)
(* (lib/sequence_rewriter.cc).  It sees every packet of a video stream,    *)
(* with the verdict whether the packet is dropped, and gives each packet   *)
(* that is kept a sequence number from which the dropped ones are missing. *)
(*                                                                         *)
(* Sequence numbers are 16 bits wide in the code; SeqMod stands for 2^16.  *)
(* _dropCount is 32 bits wide, but only the low 16 bits of a difference    *)
(* ever reach the packet (htons), so it is kept modulo SeqMod as well.     *)
(* Frame numbers are 16 bits wide too, and FrameMod stands for their 2^16. *)
(* They are compared as plain integers, without wrap-around: C++ promotes  *)
(* them before it adds or compares.                                        *)
(***************************************************************************)
EXTENDS Integers

CONSTANTS SeqMod, FrameMod

ASSUME SeqModAssumption == SeqMod \in Nat \ {0} /\ FrameMod \in Nat \ {0}

Seq16 == 0..SeqMod - 1
Frame16 == 0..FrameMod - 1

Mark == {"start", "inter", "end"}

\* A packet that is both the first and the last of its frame counts as end.
markFromAV1FrameFlags(start, end) ==
    CASE end -> "end"
      [] ~end /\ start -> "start"
      [] OTHER -> "inter"

RewriterType ==
    [dropCount        : Seq16,
     maxFrame         : Frame16,
     dropMaxFrame     : BOOLEAN,
     maxFrameStartSeq : Seq16,
     maxFrameMaxSeq   : Seq16,
     maxFrameEndSeen  : BOOLEAN,
     maxDropFrame     : Frame16]

NewRewriter ==
    [dropCount        |-> 0,
     maxFrame         |-> 0,
     dropMaxFrame     |-> FALSE,
     maxFrameStartSeq |-> 0,
     maxFrameMaxSeq   |-> 0,
     maxFrameEndSeen  |-> FALSE,
     maxDropFrame     |-> 0]

SkipCadence == 2

-----------------------------------------------------------------------------
(* One operator per branch: the rewriter r after the packet k, which has   *)
(* the fields frame, seq, mark and drop.                                   *)

\* The start of a frame guessed from its packet k, and its highest number:
\* unless k closes the frame another packet is expected.
guessedStart(k) == IF k.mark = "start" THEN k.seq ELSE (k.seq - 1) % SeqMod

\* Mutant: the sum is not cut to 16 bits.
guessedMax_wide(k) == IF k.mark = "end" THEN k.seq ELSE k.seq + 1

guessedMax(k) == IF k.mark = "end" THEN k.seq ELSE (k.seq + 1) % SeqMod

firstPacket(r, k) ==
    [r EXCEPT !.maxFrame         = k.frame,
              !.dropMaxFrame     = k.drop,
              !.maxFrameStartSeq = guessedStart(k),
              !.maxFrameMaxSeq   = guessedMax(k),
              !.dropCount        = IF k.drop /\ k.mark = "end" THEN 2 % SeqMod ELSE @,
              !.maxFrameEndSeen  = @ \/ k.mark = "end"]

sameFrame(r, k) ==
    LET start == IF k.mark = "start" THEN k.seq
                 ELSE IF k.seq = r.maxFrameStartSeq THEN (k.seq - 1) % SeqMod
                 ELSE r.maxFrameStartSeq
    IN [r EXCEPT !.maxFrameStartSeq = start,
                 !.maxFrameMaxSeq   = IF k.mark = "end" \/ ~r.maxFrameEndSeen
                                      THEN guessedMax(k) ELSE @,
                 !.dropCount        = IF k.drop /\ k.mark = "end"
                                      THEN (@ + k.seq - start + 1) % SeqMod ELSE @,
                 !.maxFrameEndSeen  = @ \/ k.mark = "end"]

\* Whether the frame before is dropped and its end is still missing.
openDroppedFrame(r) == r.dropMaxFrame /\ ~r.maxFrameEndSeen

\* Mutant: a frame of a single packet that is dropped is not counted.
nextFrame_single(r, k) ==
    [r EXCEPT !.maxFrame         = k.frame,
              !.dropCount        = IF openDroppedFrame(r) /\ k.mark = "start"
                                   THEN (@ + k.seq - r.maxFrameStartSeq) % SeqMod ELSE @,
              !.dropMaxFrame     = k.drop,
              !.maxFrameStartSeq = guessedStart(k),
              !.maxFrameMaxSeq   = guessedMax(k),
              !.maxFrameEndSeen  = k.mark = "end"]

nextFrame(r, k) ==
    LET more == IF openDroppedFrame(r)
                THEN IF k.mark = "start" THEN k.seq - r.maxFrameStartSeq ELSE 3
                ELSE IF k.drop /\ k.mark = "end"
                THEN IF r.maxFrameEndSeen THEN k.seq - r.maxFrameMaxSeq ELSE 2
                ELSE 0
    IN [r EXCEPT !.maxFrame         = k.frame,
                 !.dropCount        = (@ + more) % SeqMod,
                 !.dropMaxFrame     = k.drop,
                 !.maxFrameStartSeq = guessedStart(k),
                 !.maxFrameMaxSeq   = guessedMax(k),
                 !.maxFrameEndSeen  = k.mark = "end"]

\* Mutant: every frame since the last one counts, with three packets.
futureFrame_all(r, k) ==
    [r EXCEPT !.maxFrame         = k.frame,
              !.dropCount        = (@ + 3 * (k.frame - r.maxFrame)) % SeqMod,
              !.dropMaxFrame     = k.drop,
              !.maxFrameStartSeq = guessedStart(k),
              !.maxFrameMaxSeq   = guessedMax(k),
              !.maxFrameEndSeen  = k.mark = "end"]

futureFrame(r, k) ==
    LET skipped == IF /\ ~r.dropMaxFrame
                      /\ ~k.drop
                      /\ k.frame - r.maxFrame + 1 >= SkipCadence
                   THEN 2 ELSE 0
        opened  == IF openDroppedFrame(r) THEN r.maxFrameMaxSeq - r.maxFrameStartSeq ELSE 0
        closed  == IF k.drop /\ k.mark = "end" THEN 2 ELSE 0
    IN [r EXCEPT !.maxFrame         = k.frame,
                 !.dropCount        = (@ + skipped + opened + closed) % SeqMod,
                 !.dropMaxFrame     = k.drop,
                 !.maxFrameStartSeq = IF k.mark = "end" /\ k.seq # @
                                      THEN (k.seq - 2) % SeqMod
                                      ELSE guessedStart(k),
                 !.maxFrameMaxSeq   = guessedMax(k),
                 !.maxFrameEndSeen  = k.mark = "end"]

-----------------------------------------------------------------------------
(* SequenceRewriter::operator() *)

isFirstPacket(r, k) == k.frame > 1 /\ r.maxFrame = 0

maxDropFrameAfter(r, k) ==
    IF k.drop /\ k.frame > r.maxDropFrame THEN k.frame ELSE r.maxDropFrame

\* The state after k.  A packet of a past frame only counts as dropped.
Rewritten(r, k) ==
    LET after == CASE isFirstPacket(r, k)         -> firstPacket(r, k)
                   [] ~isFirstPacket(r, k) /\ k.frame = r.maxFrame     -> sameFrame(r, k)
                   [] ~isFirstPacket(r, k) /\ k.frame = r.maxFrame + 1 -> nextFrame(r, k)
                   [] ~isFirstPacket(r, k) /\ k.frame > r.maxFrame + 1 -> futureFrame(r, k)
                   [] k.frame < r.maxFrame        -> r
    IN [after EXCEPT !.maxDropFrame = maxDropFrameAfter(r, k)]

\* A late packet of the frame before a dropped frame that is closed: that
\* frame does not count for it.
beforeClosedDrop(r, k) ==
    k.frame + 1 = r.maxFrame /\ r.dropMaxFrame /\ r.maxFrameEndSeen

\* The sequence number of k if it is not dropped (_dropWhenUnsure is FALSE).
RewrittenSeq(r, k) ==
    IF isFirstPacket(r, k) THEN k.seq
    ELSE IF beforeClosedDrop(r, k)
    THEN (k.seq - (r.dropCount - (r.maxFrameMaxSeq - r.maxFrameStartSeq + 1))) % SeqMod
    ELSE (k.seq - Rewritten(r, k).dropCount) % SeqMod

=============================================================================
