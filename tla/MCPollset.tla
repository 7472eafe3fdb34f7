------------------------------ MODULE MCPollset ------------------------------
EXTENDS Pollset
CONSTANTS f1, f2
MCFds == {f1, f2}
=============================================================================
