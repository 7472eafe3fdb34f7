------------------------------ MODULE MCRpcbind ------------------------------
EXTENDS Rpcbind

\* A server and its successor on one network, and one on the other.
MCNet == [old |-> "tcp", new |-> "tcp", six |-> "tcp6"]
MCAddresses == <<"tcp6", "tcp">>
=============================================================================
