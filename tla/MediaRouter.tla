----------------------------- MODULE MediaRouter -----------------------------
(***************************************************************************)
(* What the control plane may rely on when it calls DataPlane::addStream   *)
(* (lib/data_plane.h), whichever data plane is behind it: media goes only  *)
(* where it was asked for, one request at a time and all of it, and what   *)
(* is forwarded stays forwarded until the tables are flushed.  A program   *)
(* that fails may leave the request it was busy with half done, and does   *)
(* nothing more until it is started again.                                 *)
(*                                                                         *)
(* A flow is <<from, ssrc, to>>.  A request is a set of flows: a stream    *)
(* and its retransmissions, on their way to one receiver.                  *)
(***************************************************************************)

CONSTANT Requests   \* the requests there may be

VARIABLES
    alive,          \* the program that fills the tables runs
    requested,      \* requests made since the tables were flushed
    forwarded       \* flows the data plane forwards

vars == <<alive, requested, forwarded>>

Init == alive = TRUE /\ requested = {} /\ forwarded = {}

\* The new requests; a request may never be carried out.
Request == alive /\ requested' \in SUBSET Requests /\ requested \subseteq requested'

\* A stream is announced, or one receiver is added or refused.
AddStream ==
    /\ Request
    /\ \/ UNCHANGED forwarded
       \/ \E r \in requested' : forwarded' = forwarded \cup r
    /\ UNCHANGED alive

Fail ==
    /\ Request
    /\ \/ UNCHANGED forwarded
       \/ \E r \in requested' : \E done \in SUBSET r : forwarded' = forwarded \cup done
    /\ alive' = FALSE

\* The program starts afresh and flushes the tables.
Restart == alive' = TRUE /\ requested' = {} /\ forwarded' = {}

Next == AddStream \/ Fail \/ Restart

Spec == Init /\ [][Next]_vars

=============================================================================
