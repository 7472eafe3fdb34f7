-------------------------- MODULE MCTieringServer --------------------------
EXTENDS TieringServer
=============================================================================
