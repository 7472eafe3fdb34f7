------------------------------ MODULE MCRpcSock ------------------------------
EXTENDS RpcSock

\* Xids of two one-bit bytes: a little-endian host swaps them, a big-endian one
\* does not.
MCSwap == [x \in Xids |-> 2 * (x % 2) + x \div 2]
MCIdentity == [x \in Xids |-> x]
=============================================================================
