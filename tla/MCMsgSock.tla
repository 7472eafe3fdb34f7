------------------------------ MODULE MCMsgSock ------------------------------
EXTENDS MsgSock

\* An empty message, an ordinary one, one that is too long and a fragment.
MCMessages ==
    {[len |-> 0, last |-> TRUE], [len |-> 2, last |-> TRUE],
     [len |-> 3, last |-> TRUE], [len |-> 1, last |-> FALSE]}

\* Messages that every receiver accepts.
MCGoodMessages == {[len |-> 0, last |-> TRUE], [len |-> 2, last |-> TRUE]}
=============================================================================
