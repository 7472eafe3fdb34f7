------------------------------ MODULE RpcServer ------------------------------
(***************************************************************************)
(* An RPC server: a listener with its connections and sessions, dispatch   *)
(* of the calls to the registered services, and the replies, which an      *)
(* asynchronous service may keep and give later (cxx/xdrpp/xdrpp/server.cc,*)
(* server.h, the second half of arpc.h, and srpc_service of srpc.h).       *)
(*                                                                         *)
(* A message is a header and a number: the number is the xid on the wire,  *)
(* and tells the calls apart.  The peers are left open here: RpcCall adds  *)
(* the clients.                                                            *)
(***************************************************************************)
EXTENDS Integers, Sequences, FiniteSets

CONSTANTS
    Conns,        \* connections
    Services,     \* the [prog, vers] that may be registered
    Procs,        \* numbers of the procedures every service has
    Styles,       \* kinds of service tried: "arpc" and "srpc"
    MaxThrows     \* bound on the handlers that throw

ASSUME ServerAssumption ==
    /\ Styles \subseteq {"arpc", "srpc"}
    /\ MaxThrows \in Nat

\* What a message can hold, once the library has told the types apart.
Messages ==
    [id : Nat, type : {"call", "garbled"}, rpcvers : Nat, prog : Nat, vers : Nat,
     proc : Nat, argsok : BOOLEAN, mode : Nat]

VARIABLES
    style,        \* the kind of service the listener makes
    servers,      \* servers_: the registered [prog, vers]
    listener,     \* "up", "destroyed", or "crashed" with the whole process
    sock,         \* connection |-> "none", "open", "deleted": its rpc_sock
    session,      \* connection |-> "none", "live", "freed"
    inq,          \* connection |-> messages on their way to the server
    outq,         \* connection |-> replies on their way to the client
    held,         \* reply_cbs that a handler has kept
    trace_mode,   \* trace_mode_
    executed,     \* messages whose handler has run
    thrown,       \* calls whose handler has thrown
    overtaken,    \* calls kept while another call changed trace_mode_
    sent          \* connection |-> every reply that was sent, in order

connVars == <<style, servers, sock, session>>
tallies == <<executed, thrown, overtaken>>
serverVars == <<connVars, listener, inq, outq, held, trace_mode, tallies, sent>>

ServerInit ==
    /\ style \in Styles
    /\ servers = {} /\ listener = "up" /\ trace_mode = 0
    /\ sock = [c \in Conns |-> "none"] /\ session = [c \in Conns |-> "none"]
    /\ inq = [c \in Conns |-> <<>>] /\ outq = [c \in Conns |-> <<>>]
    /\ held = {} /\ executed = {} /\ thrown = {} /\ overtaken = {}
    /\ sent = [c \in Conns |-> <<>>]

-----------------------------------------------------------------------------
(* Replies: the status, the mode the reply is traced in, the mode asked for. *)

Reply(m, stat) == [id |-> m.id, stat |-> stat, mode |-> trace_mode', asked |-> m.mode]

\* rpc_sock_reply_t and write_message, for the replies to one call in their order.
Send(c, replies) ==
    /\ outq' = [outq EXCEPT ![c] = @ \o replies]
    /\ sent' = [sent EXCEPT ![c] = @ \o replies]

\* The dispatch of an arpc_service sets the global trace_mode_ before anything else.
SetMode_Never(m) == UNCHANGED <<trace_mode, overtaken>>
SetMode(m) ==
    IF style = "arpc"
    THEN /\ trace_mode' = m.mode
         /\ overtaken' = overtaken \cup {h.m.id : h \in {k \in held : k.m.mode # m.mode}}
    ELSE UNCHANGED <<trace_mode, overtaken>>

-----------------------------------------------------------------------------
(* The listener. *)

\* register_service: the new service replaces one of the same version.
Register(s) ==
    /\ listener = "up" /\ s \notin servers
    /\ servers' = servers \cup {s}
    /\ UNCHANGED <<style, listener, sock, session, inq, outq, held, trace_mode, tallies, sent>>

\* accept_cb: an rpc_sock and a session for the new connection.
Accept(c) ==
    /\ listener = "up" /\ sock[c] = "none"
    /\ sock' = [sock EXCEPT ![c] = "open"]
    /\ session' = [session EXCEPT ![c] = "live"]
    /\ UNCHANGED <<style, servers, listener, inq, outq, held, trace_mode, tallies, sent>>

\* The destructor of the listener leaves the connections, whose callbacks refer to it.
DestroyListener ==
    /\ listener = "up"
    /\ listener' = "destroyed"
    /\ UNCHANGED <<connVars, inq, outq, held, trace_mode, tallies, sent>>

-----------------------------------------------------------------------------
(* dispatch and what it calls. *)

HasProgram(m) == \E s \in servers : s.prog = m.prog
HasVersion_Any(m) == HasProgram(m)
HasVersion(m) == [prog |-> m.prog, vers |-> m.vers] \in servers

\* The tests of dispatch, of process and of the service's dispatch, in their order.
Refusal(m) ==
    IF m.rpcvers # 2 THEN "RPC_MISMATCH"
    ELSE IF ~HasProgram(m) THEN "PROG_UNAVAIL"
    ELSE IF ~HasVersion(m) THEN "PROG_MISMATCH"
    ELSE IF m.proc \notin Procs THEN "PROC_UNAVAIL"
    ELSE IF ~m.argsok THEN "GARBAGE_ARGS"
    ELSE "none"

Refuse(c, m) ==
    /\ Refusal(m) # "none"
    /\ IF Refusal(m) = "GARBAGE_ARGS" THEN SetMode(m) ELSE UNCHANGED <<trace_mode, overtaken>>
    /\ Send(c, <<Reply(m, Refusal(m))>>)
    /\ UNCHANGED <<held, executed, thrown>>

Unused(m) == <<Reply(m, "PROC_UNAVAIL")>>

\* A reply_cb that has been used: send_reply_msg has cleared cb_.
Used_NotCleared(m) == <<Reply(m, "SUCCESS"), Reply(m, "PROC_UNAVAIL")>>
Used(m) == <<Reply(m, "SUCCESS")>>

\* What a handler does with its reply_cb, and whether it throws.  To reject the call
\* looks like not using the reply_cb.  When it throws,
\* the reply_cb is destroyed first and then dispatch replies GARBAGE_ARGS.
Outcomes(m) ==
    LET Outcome(r, k, t) == [replies |-> r, kept |-> k, throws |-> t]
        garbage == <<Reply(m, "GARBAGE_ARGS")>>
    IN  IF style = "srpc"
        THEN {Outcome(Used(m), FALSE, FALSE), Outcome(garbage, FALSE, TRUE)}
        ELSE {Outcome(r, FALSE, FALSE) : r \in {Used(m), Unused(m)}}
             \cup {Outcome(r \o garbage, FALSE, TRUE) : r \in {Used(m), Unused(m)}}
             \cup {Outcome(<<>>, TRUE, FALSE), Outcome(garbage, TRUE, TRUE)}

Run(c, m) ==
    /\ Refusal(m) = "none"
    /\ SetMode(m)
    /\ executed' = executed \cup {m}
    /\ \E o \in Outcomes(m) :
        /\ o.throws => Cardinality(thrown) < MaxThrows
        /\ Send(c, o.replies)
        /\ held' = IF o.kept THEN held \cup {[conn |-> c, m |-> m]} ELSE held
        /\ thrown' = IF o.throws THEN thrown \cup {m.id} ELSE thrown

Ignore == UNCHANGED <<outq, held, trace_mode, tallies, sent>>

\* receive_cb with a message: one with a header that cannot be decoded is ignored.
Receive(c) ==
    /\ listener = "up" /\ sock[c] = "open" /\ inq[c] # <<>> /\ Head(inq[c]).type # "eof"
    /\ inq' = [inq EXCEPT ![c] = Tail(@)]
    /\ LET m == Head(inq[c]) IN
        \/ m.type = "garbled" /\ Ignore
        \/ m.type = "call" /\ Refuse(c, m)
        \/ m.type = "call" /\ Run(c, m)
    /\ UNCHANGED <<connVars, listener>>

\* receive_cb with nullptr: the end of the stream, or a message too short or of no type.
ReceiveEnd(c) ==
    /\ listener = "up" /\ sock[c] = "open" /\ inq[c] # <<>> /\ Head(inq[c]).type = "eof"
    /\ sock' = [sock EXCEPT ![c] = "deleted"]
    /\ session' = [session EXCEPT ![c] = "freed"]
    /\ inq' = [inq EXCEPT ![c] = <<>>]
    /\ Ignore
    /\ UNCHANGED <<style, servers, listener>>

\* A callback of a listener that is gone: taken to end the process.
ReceiveOrphan(c) ==
    /\ listener = "destroyed" /\ sock[c] = "open" /\ inq[c] # <<>>
    /\ listener' = "crashed"
    /\ Ignore
    /\ UNCHANGED <<connVars, inq>>

\* The application uses a reply_cb it has kept, or drops it.
Settle(h) ==
    /\ listener # "crashed"
    /\ h \in held /\ held' = held \ {h}
    /\ UNCHANGED <<connVars, inq, trace_mode, tallies>>
    /\ \/ /\ sock[h.conn] = "open"
          /\ \E r \in {Used(h.m), Unused(h.m)} : Send(h.conn, r)
          /\ UNCHANGED listener
       \* The rpc_sock is deleted: the process ends, or the message is lost.
       \/ /\ sock[h.conn] = "deleted"
          /\ listener' \in {listener, "crashed"}
          /\ UNCHANGED <<outq, sent>>

\* The steps the server takes on its own, and those of its owner.
Served(c) == Accept(c) \/ Receive(c) \/ ReceiveEnd(c) \/ ReceiveOrphan(c)
Settled == \E h \in held : Settle(h)
Owner == DestroyListener \/ \E s \in Services : Register(s)

-----------------------------------------------------------------------------
(* Properties. *)

\* A call gets one reply at most, though reply_cbs are copied, kept, dropped and
\* outlive their connection -- unless its handler has thrown an exception, when the
\* destructor of reply_cb_impl and the catch clause of dispatch both send one.
OneReply ==
    \A c \in Conns : \A i, j \in DOMAIN sent[c] :
        i # j /\ sent[c][i].id = sent[c][j].id => sent[c][i].id \in thrown

\* A handler runs for a call that dispatch, process and decode_arg have let through:
\* the right version of RPC, a registered service, a procedure it has, and arguments
\* that decode; and "success" is only told of calls whose handler has run.
OnlyServed ==
    /\ \A m \in executed :
        /\ m.type = "call" /\ m.rpcvers = 2 /\ m.proc \in Procs /\ m.argsok
        /\ [prog |-> m.prog, vers |-> m.vers] \in servers
    /\ \A c \in Conns : \A i \in DOMAIN sent[c] :
        sent[c][i].stat = "SUCCESS" => \E m \in executed : m.id = sent[c][i].id

\* A reply is traced in the mode that its own call has asked for, although the mode is
\* a global, unless the reply was kept while a call in another mode came.
OwnTraceMode ==
    style = "arpc" => \A c \in Conns : \A i \in DOMAIN sent[c] :
        LET r == sent[c][i] IN r.stat = "SUCCESS" /\ r.mode # r.asked => r.id \in overtaken
=============================================================================
