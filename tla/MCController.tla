---------------------------- MODULE MCController ----------------------------
EXTENDS Controller, TLC

CONSTANTS c1, c2, c3

MCSwitchPorts1 == {1}
MCSwitchPorts2 == {1, 2}
ClientSymmetry == Permutations(Clients)

=============================================================================
