---------------------------- MODULE MCNegotiation ----------------------------
(* A small instance of Negotiation: who joins third meets a transaction that is  *)
(* under way.  Candidates in the subnet, the better one second; the first one    *)
(* outside; none that the parser reads.                                          *)
EXTENDS Negotiation

MCClients == 1..3

MCMids == 1..2

MCKinds == {"audio", "video"}

MCCandidateLists ==
    {<<[net |-> "in", prio |-> 1], [net |-> "in", prio |-> 2]>>,
     <<[net |-> "out", prio |-> 3], [net |-> "in", prio |-> 1]>>,
     <<>>}

=============================================================================
