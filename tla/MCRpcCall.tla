------------------------------ MODULE MCRpcCall ------------------------------
EXTENDS RpcCall

Call(prog, vers, proc, argsok, mode) ==
    [id |-> 0, type |-> "call", rpcvers |-> 2, prog |-> prog, vers |-> vers,
     proc |-> proc, argsok |-> argsok, mode |-> mode]

MCServices == {[prog |-> 1, vers |-> 2]}
\* In two modes, and with arguments that do not decode.
MCCalls == {Call(1, 2, 1, TRUE, 0), Call(1, 2, 1, TRUE, 1), Call(1, 2, 1, FALSE, 1)}
\* Another version of RPC, no such program, version or procedure, and no header at all.
MCAlien == {[Call(1, 2, 1, TRUE, 0) EXCEPT !.rpcvers = 1], Call(2, 2, 1, TRUE, 0),
            Call(1, 3, 1, TRUE, 0), Call(1, 2, 2, TRUE, 0),
            [Call(1, 2, 1, TRUE, 0) EXCEPT !.type = "garbled"]}
MCKinds == {<<"sync", "async">>, <<"tier", "alien">>}
=============================================================================
