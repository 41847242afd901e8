--------------------------- MODULE MCTofinoSwitch ---------------------------
(* Small instances of TofinoSwitch.  The first two participants and the fourth *)
(* are behind the host of the clients, one is behind the controller, and one   *)
(* behind a host without a port.                                               *)
EXTENDS TofinoSwitch, TLC

a1 == <<CABMEATY02_IP, 1>>
a2 == <<CABMEATY02_IP, 2>>
a3 == <<CABMEATY02_IP, 3>>
b1 == <<CABERNET802_IP, 1>>
u1 == <<"10.0.211.9", 1>>

MCAddrs == {a1, a2, a3, b1, u1}

MCEgressPorts == CABERNET802_IP :> 4 @@ CABMEATY02_IP :> 44

Stream(mid, src, ssrc, rtx) == [mid |-> mid, src |-> src, ssrc |-> ssrc, rtx |-> rtx]

\* Video with retransmissions and audio in the first meeting; a second meeting,
\* one participant of which is also in the first.
MCStreams ==
    {Stream(1, a1, 10, 11), Stream(1, a2, 20, NoRtx),
     Stream(1, b1, 40, NoRtx), Stream(2, a3, 30, NoRtx), Stream(2, a1, 12, NoRtx),
     Stream(2, u1, 50, NoRtx)}

=============================================================================
