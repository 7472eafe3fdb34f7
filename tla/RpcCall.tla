------------------------------- MODULE RpcCall -------------------------------
(***************************************************************************)
(* Clients and a server: a call from its invocation to its result.         *)
(*                                                                         *)
(* A client is a synchronous_client_base (cxx/xdrpp/xdrpp/srpc.h), an      *)
(* async_client_base or an async_tier (arpc.h), each on a connection of    *)
(* its own, or a peer that does not use the library and sends what it      *)
(* likes.  It turns the status of a reply into a result.                   *)
(***************************************************************************)
EXTENDS RpcServer

CONSTANTS
    Kinds,        \* the [Conns -> {"sync", "async", "tier", "alien"}] tried
    Calls,        \* the calls that clients make, without their number
    Alien,        \* the messages that only a peer of another make sends
    MaxCalls      \* bound on the messages sent

ASSUME CallAssumption ==
    /\ Kinds \subseteq [Conns -> {"sync", "async", "tier", "alien"}]
    /\ Calls \cup Alien \subseteq Messages
    /\ MaxCalls \in Nat

VARIABLES
    kind,         \* connection |-> kind of its client
    client,       \* connection |-> "on", "closed", or "crashed"
    ncalls,       \* number of messages sent
    waiting,      \* connection |-> calls without a result: calls_, or the one of invoke
    by,           \* call |-> the connection it was made on
    results       \* call |-> what its callback or its caller was told, in order

clientVars == <<kind, client, ncalls, by, waiting, results>>
vars == <<serverVars, clientVars>>

Init ==
    /\ ServerInit
    /\ kind \in Kinds
    /\ client = [c \in Conns |-> "on"]
    /\ ncalls = 0 /\ by = <<>>
    /\ waiting = [c \in Conns |-> {}]
    /\ results = [id \in 1..MaxCalls |-> <<>>]

-----------------------------------------------------------------------------
(* Clients. *)

Post(c, m) ==
    /\ ncalls < MaxCalls /\ ncalls' = ncalls + 1
    /\ by' = Append(by, c)
    /\ inq' = [inq EXCEPT ![c] = Append(@, [m EXCEPT !.id = ncalls + 1])]

\* invoke; the synchronous one returns before it can be called again.
Invoke(c) ==
    /\ kind[c] # "alien" /\ client[c] = "on" /\ sock[c] # "deleted"
    /\ kind[c] = "sync" => waiting[c] = {}
    /\ \E m \in Calls : Post(c, m)
    /\ waiting' = [waiting EXCEPT ![c] = @ \cup {ncalls'}]
    /\ UNCHANGED <<connVars, listener, outq, held, trace_mode, tallies, sent, kind, client, results>>

Provoke(c) ==
    /\ kind[c] = "alien" /\ client[c] = "on" /\ sock[c] # "deleted"
    /\ \E m \in Calls \cup Alien : Post(c, m)
    /\ UNCHANGED <<connVars, listener, outq, held, trace_mode, tallies, sent, kind, client, waiting, results>>

\* Every waiting call fails: abort_all_calls, or an exception of read_message.
FailAll(c) ==
    /\ waiting' = [waiting EXCEPT ![c] = {}]
    /\ results' = [id \in DOMAIN results |->
                     IF id \in waiting[c] THEN Append(results[id], "NETWORK_ERROR") ELSE results[id]]

\* The client closes its end, not while it is inside the synchronous invoke.
Hangup(c) ==
    /\ client[c] = "on" /\ sock[c] # "deleted"
    /\ kind[c] = "sync" => waiting[c] = {}
    /\ client' = [client EXCEPT ![c] = "closed"]
    /\ inq' = [inq EXCEPT ![c] = Append(@, [type |-> "eof"])]
    /\ FailAll(c)
    /\ UNCHANGED <<connVars, listener, outq, held, trace_mode, tallies, sent, kind, ncalls, by>>

Conclude_Kept(c, id, rs) ==
    /\ results' = [results EXCEPT ![id] = @ \o rs]
    /\ UNCHANGED waiting
Conclude(c, id, rs) ==
    /\ waiting' = [waiting EXCEPT ![c] = @ \ {id}]
    /\ results' = [results EXCEPT ![id] = @ \o rs]

\* synchronous_client_base::invoke: check_call_hdr comes before the test of the xid.
SyncResult(r, id) ==
    IF r.stat # "SUCCESS" THEN r.stat
    ELSE IF r.id # id THEN "BAD_XID"
    ELSE "SUCCESS"

TakeSync(c) ==
    /\ kind[c] = "sync"
    /\ \E id \in waiting[c] : Conclude(c, id, <<SyncResult(Head(outq[c]), id)>>)
    /\ UNCHANGED client

\* The path of an accepted reply that is an error cannot be read: a logic_error.
Fatal(r) == r.stat \notin {"SUCCESS", "RPC_MISMATCH"}

\* The callback that rpc_sock::recv_msg finds for a reply.
Match_Any(c, r) == waiting[c]
Match(c, r) == waiting[c] \cap {r.id}

\* A callback that throws an xdr_runtime_error is called again.
TakeAsync(c) ==
    LET r == Head(outq[c]) IN
    /\ kind[c] \in {"async", "tier"}
    /\ \/ /\ Match(c, r) = {}
          /\ UNCHANGED <<client, waiting, results>>
       \/ /\ kind[c] = "tier" /\ Fatal(r)
          /\ \E id \in Match(c, r) : Conclude(c, id, <<>>)
          /\ client' = [client EXCEPT ![c] = "crashed"]
       \/ /\ ~(kind[c] = "tier" /\ Fatal(r))
          /\ \E id \in Match(c, r), throws \in BOOLEAN :
                Conclude(c, id, IF throws THEN <<r.stat, "GARBAGE_RES">> ELSE <<r.stat>>)
          /\ UNCHANGED client

TakeAlien(c) == kind[c] = "alien" /\ UNCHANGED <<client, waiting, results>>

Take(c) ==
    /\ client[c] = "on" /\ outq[c] # <<>>
    /\ kind[c] = "sync" => waiting[c] # {}
    /\ outq' = [outq EXCEPT ![c] = Tail(@)]
    /\ TakeSync(c) \/ TakeAsync(c) \/ TakeAlien(c)
    /\ UNCHANGED <<connVars, listener, inq, held, trace_mode, tallies, sent, kind, ncalls, by>>

\* The end of the stream: the server has deleted the rpc_sock or died, or closed its
\* listening socket before it accepted the connection.  A client without servcb_ does not
\* survive it.
TakeEnd(c) ==
    /\ client[c] = "on" /\ outq[c] = <<>>
    /\ sock[c] = "deleted" \/ listener = "crashed" \/ (listener = "destroyed" /\ sock[c] = "none")
    /\ kind[c] = "sync" => waiting[c] # {}
    /\ client' = [client EXCEPT ![c] = IF kind[c] \in {"async", "tier"} THEN "crashed" ELSE "closed"]
    /\ FailAll(c)
    /\ UNCHANGED <<serverVars, kind, ncalls, by>>

ServerNext == (\/ \E c \in Conns : Served(c)
               \/ Settled
               \/ Owner) /\ UNCHANGED clientVars

Next ==
    \/ ServerNext
    \/ \E c \in Conns : Invoke(c) \/ Provoke(c) \/ Hangup(c) \/ Take(c) \/ TakeEnd(c)

Safety == Init /\ [][Next]_vars

\* The pollsets of both sides keep running, and the application gives back what it keeps.
Spec ==
    /\ Safety
    /\ \A c \in Conns : WF_vars(Served(c) /\ UNCHANGED clientVars)
    /\ \A c \in Conns : WF_vars(Take(c) \/ TakeEnd(c))
    /\ WF_vars(Settled /\ UNCHANGED clientVars)

-----------------------------------------------------------------------------
(* Properties. *)

Told(id) == {results[id][i] : i \in DOMAIN results[id]}
Sent(c, id) == {sent[c][i].stat : i \in {j \in DOMAIN sent[c] : sent[c][j].id = id}}

TypeOK ==
    /\ style \in Styles /\ servers \subseteq Services
    /\ listener \in {"up", "destroyed", "crashed"}
    /\ sock \in [Conns -> {"none", "open", "deleted"}]
    /\ session = [c \in Conns |-> [none |-> "none", open |-> "live", deleted |-> "freed"][sock[c]]]
    /\ client \in [Conns -> {"on", "closed", "crashed"}]
    /\ \A c \in Conns : waiting[c] \subseteq 1..ncalls
    /\ \A h \in held : h.m \in executed /\ sock[h.conn] # "none"

\* What a client is told of a call is the status the server has sent for this call --
\* unless a handler of the connection has thrown: the second reply that this causes is
\* taken by a synchronous client for the reply to its next call.  (And the variables keep
\* their types; sessions and sockets live and die together.)
OwnStatus ==
    /\ TypeOK
    /\ \A c \in Conns :
        \/ \A id \in 1..ncalls : by[id] = c => Told(id) \subseteq Sent(c, id) \cup {"GARBAGE_RES", "NETWORK_ERROR"}
        \/ \E i \in DOMAIN sent[c] : sent[c][i].id \in thrown

\* An accepted error reply has been sent to c, a tier, which has died of it.
Fallen(c) ==
    /\ kind[c] = "tier" /\ client[c] = "crashed"
    /\ \E i \in DOMAIN sent[c] : Fatal(sent[c][i])


\* A call that the client is told was refused has not been executed.
RefusedNotExecuted ==
    \A m \in executed :
        Told(m.id) \cap {"PROG_UNAVAIL", "PROG_MISMATCH", "PROC_UNAVAIL", "GARBAGE_ARGS"} = {}

\* The messages on their way to the server, and what its replies can say to a client.
Underway == UNION {{inq[c][i].id : i \in {j \in DOMAIN inq[c] : inq[c][j].type # "eof"}} : c \in Conns}
Statuses == {"SUCCESS", "RPC_MISMATCH", "PROG_UNAVAIL", "PROG_MISMATCH", "PROC_UNAVAIL",
             "GARBAGE_ARGS", "BAD_XID"}

Remote == INSTANCE RemoteCalls WITH
    made <- ncalls, underway <- Underway, run <- {m.id : m \in executed}, told <- results

\* A call is executed once at most, after it was made, and its caller is told the outcome
\* once: the status of a reply, and "success" only if the handler has run, or the failure
\* of the network (unless the callback throws and is called again) -- although replies
\* are kept, doubled by exceptions or lost, and connections break on either side.
CallsSpec == Remote!Spec
=============================================================================
