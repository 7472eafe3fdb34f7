---------------------------- MODULE MCPollsetPlus ----------------------------
EXTENDS PollsetPlus
CONSTANTS p1, p2, w1, w2
MCSets == {p1, p2}
MCWorkers == {w1, w2}
MCTarget == [w \in MCWorkers |-> p1]
=============================================================================
