---------------------------- MODULE MCSwitchAgent ----------------------------
(* Small instances of SwitchAgent. *)
EXTENDS SwitchAgent

MCZeroAddr == <<0, 0, 0>>

\* Two participants each with audio and video, whose SSRCs may coincide;
\* announcements get lost.
Streams ==
    [sessions |-> {7}, pids |-> {1, 2}, mids |-> {1, 2}, videoMids |-> {2},
     ssrcs |-> {100, 200, 300}, mayCollide |-> TRUE, mayLose |-> TRUE, checkers |-> {},
     bitrates |-> {}, maxReport |-> 2, apiTargets |-> {}]

\* Three participants, one video stream; targets from both sources.
Targets ==
    [Streams EXCEPT !.pids = {1, 2, 3}, !.mids = {1}, !.videoMids = {1}, !.ssrcs = {100},
                    !.mayCollide = FALSE, !.mayLose = FALSE, !.checkers = {3},
                    !.bitrates = {1000, 1001, 2001}, !.apiTargets = {1, 2, 3}]

\* Two sessions that use the same SSRC.
Sessions ==
    [Streams EXCEPT !.sessions = {7, 8}, !.mids = {1}, !.videoMids = {1},
                    !.ssrcs = {100, 200}, !.mayCollide = FALSE]

MCSettings == {Streams, Targets, Sessions}

=============================================================================
