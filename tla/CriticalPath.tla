---------------------------- MODULE CriticalPath ----------------------------
(***************************************************************************)
(* How a tiering server builds the trace it returns (cxx/xdrpp/xdrpp/      *)
(* arpc.h): what async_tier::invoke records when a child answers, and what *)
(* reply_cb::operator() looks up when the server answers in turn.          *)
(*                                                                         *)
(* The two global maps are keyed by xid.  Entries are written under the    *)
(* xid of the call to the child, which the child connection numbers, and   *)
(* read under the xid of the incoming call, which the caller's connection  *)
(* numbers.  Nothing is ever erased.  A child whose connection ends        *)
(* answers with NETWORK_ERROR, which is counted like a reply and leaves no *)
(* entry.  The process may end at any time: put_cb exits on any failure,   *)
(* and an error reply or recv_call(nullptr) crashes it (TieringServer).    *)
(*                                                                         *)
(* Steps are whole critical sections of path_map_mutex; that the counter   *)
(* of a handler is safe to wait on is the subject of TieringServer.        *)
(***************************************************************************)
EXTENDS Integers, Sequences, FiniteSets

CONSTANTS
    Children,
    Callers,       \* incoming connections, each numbering its own calls
    Times,         \* quantized end_time of a child's reply, at least 1
    MaxRequests    \* bound on the number of incoming calls

ASSUME ConstantsAssumption ==
    /\ IsFiniteSet(Children)
    /\ Times \subseteq Nat \ {0}
    /\ MaxRequests \in Nat

Modes == {"OFF", "TRACING", "DISTRIBUTED"}
Kinds == {"put_or_get", "null"}     \* kv_null calls no child
Xids == 1..MaxRequests
NoKey == -1
\* A pushed (path, path_time) pair.  The path text is the child's, for the
\* call that request number req sent.
Entries == [child : Children, req : 1..MaxRequests, time : Times]

VARIABLES
    xdr_trace_server,\* set from the environment before main
    mpc,             \* "idle", "send", "spin", "reply", "down"
    req,             \* number of the call being handled; stands for the clock
    kind, xid,       \* its procedure and its xid
    trace_mode,      \* the global trace_mode_
    caller_xid,      \* rpc_sock::xid_ at each caller
    child_xid,       \* rpc_sock::xid_ of each child connection
    tosend, waiting, \* as in TieringServer
    calls,           \* calls children have not answered
    callbacks,       \* children whose callback has not run yet
    xid_string_map,  \* entries per xid; <<>> where there is no key
    xid_time_map,    \* start time per xid: a req, 0 by default insertion, or NoKey
    failed,          \* children whose connection has ended
    took             \* time each child reported for request req, 0 before it answers

vars == <<xdr_trace_server, mpc, req, kind, xid, trace_mode, caller_xid, child_xid, tosend, waiting,
          calls, callbacks, xid_string_map, xid_time_map, failed, took>>

-----------------------------------------------------------------------------
Init ==
    /\ xdr_trace_server \in BOOLEAN
    /\ mpc = "idle" /\ req = 0 /\ kind = "null" /\ xid = 0
    /\ trace_mode = "OFF"
    /\ caller_xid = [p \in Callers |-> 0]
    /\ child_xid = [c \in Children |-> 0]
    /\ tosend = {} /\ waiting = 0 /\ calls = {} /\ callbacks = {}
    /\ xid_string_map = [x \in Xids |-> <<>>]
    /\ xid_time_map = [x \in Xids |-> NoKey]
    /\ failed = {}
    /\ took = [c \in Children |-> 0]

\* Both insert and operator[] leave a key that is there alone.
Inserted(x, time) ==
    [xid_time_map EXCEPT ![x] = IF @ = NoKey THEN time ELSE @]

\* dispatch notes the start of a call only if the server is traced.
StartTime(x, now) == IF xdr_trace_server THEN Inserted(x, now) ELSE xid_time_map

\* rpc_sock::get_xid at caller p, then arpc_service::dispatch here.
Request(p, k, mode) ==
    /\ mpc = "idle" /\ req < MaxRequests
    /\ req' = req + 1 /\ kind' = k
    /\ caller_xid' = [caller_xid EXCEPT ![p] = @ + 1]
    /\ xid' = caller_xid[p] + 1
    /\ trace_mode' = mode
    /\ xid_time_map' = StartTime(xid', req')
    /\ took' = [c \in Children |-> 0]
    /\ IF k = "null"
       THEN mpc' = "reply" /\ UNCHANGED <<tosend, waiting>>
       ELSE /\ mpc' = IF Children = {} THEN "spin" ELSE "send"
            /\ tosend' = Children /\ waiting' = Cardinality(Children)
    /\ UNCHANGED <<xdr_trace_server, child_xid, calls, callbacks, xid_string_map, failed>>

\* async_tier::invoke: the callback keeps the mode, the call gets the child
\* connection's next xid.  What is sent to a failed child is lost.
Send(c) ==
    /\ mpc = "send" /\ c \in tosend
    /\ child_xid' = [child_xid EXCEPT ![c] = @ + 1]
    /\ calls' = calls \cup {[child |-> c, xid |-> child_xid[c] + 1,
                             mode |-> trace_mode, req |-> req]}
    /\ tosend' = tosend \ {c}
    /\ mpc' = IF tosend' = {} THEN "spin" ELSE "send"
    /\ UNCHANGED <<xdr_trace_server, req, kind, xid, trace_mode, caller_xid, waiting,
                   callbacks, xid_string_map, xid_time_map, failed, took>>

\* The entry that a reply leaves is appended to what is there.
Record_Overwrites(call, e) == [xid_string_map EXCEPT ![call.xid] = <<e>>]

Record(call, e) == [xid_string_map EXCEPT ![call.xid] = Append(@, e)]

\* The first half of invoke's callback: the entry goes into the map before
\* get_cb or put_cb is called.
ChildReply(call, t) ==
    /\ mpc # "down" /\ call.child \notin failed
    /\ calls' = calls \ {call}
    /\ callbacks' = callbacks \cup {call.child}
    /\ took' = [took EXCEPT ![call.child] = t]
    /\ xid_string_map' =
           IF call.mode = "OFF" THEN xid_string_map
           ELSE Record(call, [child |-> call.child, req |-> call.req, time |-> t])
    /\ UNCHANGED <<xdr_trace_server, mpc, req, kind, xid, trace_mode, caller_xid,
                   child_xid, tosend, waiting, xid_time_map, failed>>

\* The connection of c ends between two replies: abort_all_calls gives the callback of
\* a call under way a null message, which invoke's callback passes on as NETWORK_ERROR.
\* The thread of c does not poll again.
ChildLost(c) ==
    /\ mpc # "down" /\ c \notin failed \cup callbacks
    /\ failed' = failed \cup {c}
    /\ calls' = {call \in calls : call.child # c}
    /\ callbacks' = callbacks \cup {call.child : call \in calls \ calls'}
    /\ UNCHANGED <<xdr_trace_server, mpc, req, kind, xid, trace_mode, caller_xid,
                   child_xid, tosend, waiting, xid_string_map, xid_time_map, took>>

\* The second half: get_cb or put_cb.
Callback(c) ==
    /\ mpc # "down" /\ c \in callbacks
    /\ callbacks' = callbacks \ {c}
    /\ waiting' = waiting - 1
    /\ UNCHANGED <<xdr_trace_server, mpc, req, kind, xid, trace_mode, caller_xid,
                   child_xid, tosend, calls, xid_string_map, xid_time_map, failed, took>>

unspun == <<xdr_trace_server, req, kind, xid, trace_mode, caller_xid, child_xid, tosend,
            waiting, calls, callbacks, xid_string_map, xid_time_map, failed, took>>

SpinExit_OffByOne ==
    /\ mpc = "spin" /\ waiting <= 1
    /\ mpc' = "reply"
    /\ UNCHANGED unspun

SpinExit ==
    /\ mpc = "spin" /\ waiting = 0
    /\ mpc' = "reply"
    /\ UNCHANGED unspun

\* The start of the call as reply_cb::operator() finds it.
Started == Inserted(xid, 0)[xid]

\* reply_cb::operator() reads the maps, which may add a key, and sends; what it reads is
\* the subject of the operators below.
Reply ==
    /\ mpc = "reply"
    /\ mpc' = "idle"
    /\ xid_time_map' = Inserted(xid, 0)
    /\ UNCHANGED <<xdr_trace_server, req, kind, xid, trace_mode, caller_xid, child_xid,
                   tosend, waiting, calls, callbacks, xid_string_map, failed, took>>

Exit == mpc # "down" /\ mpc' = "down" /\ UNCHANGED unspun

Next ==
    \/ \E p \in Callers, k \in Kinds, mode \in Modes : Request(p, k, mode)
    \/ \E c \in Children : Send(c) \/ Callback(c) \/ ChildLost(c)
    \/ \E call \in calls, t \in Times : ChildReply(call, t)
    \/ SpinExit
    \/ Reply
    \/ Exit

Spec == Init /\ [][Next]_vars

-----------------------------------------------------------------------------
(* What reply_cb::operator() puts in the reply. *)

Longest_KeepsLast(entries) == entries[Len(entries)]

\* The scan of the TRACING branch keeps the first entry with the largest time (one is
\* found, because the initial max_time 0 is less than any time).
Longest(entries) ==
    LET longest == {i \in DOMAIN entries : \A j \in DOMAIN entries : entries[j].time <= entries[i].time}
    IN  entries[CHOOSE i \in longest : \A j \in longest : i <= j]

\* The entries whose paths end up in the reply.
Reported ==
    CASE trace_mode = "OFF"         -> <<>>
      [] trace_mode = "DISTRIBUTED" -> xid_string_map[xid]
      [] trace_mode = "TRACING"     ->
             IF xid_string_map[xid] = <<>> THEN <<>>
             ELSE <<Longest(xid_string_map[xid])>>

TypeOK ==
    /\ xdr_trace_server \in BOOLEAN
    /\ mpc \in {"idle", "send", "spin", "reply", "down"}
    /\ req \in 0..MaxRequests
    /\ kind \in {"null", "put_or_get"}
    /\ xid \in 0..MaxRequests
    /\ trace_mode \in Modes
    /\ caller_xid \in [Callers -> 0..MaxRequests]
    /\ child_xid \in [Children -> 0..MaxRequests]
    /\ tosend \in SUBSET Children
    /\ waiting \in 0..Cardinality(Children)
    /\ calls \subseteq [child : Children, xid : Xids, mode : Modes, req : 1..MaxRequests]
    /\ callbacks \in SUBSET Children
    /\ xid_string_map \in [Xids -> Seq(Entries)]
    /\ xid_time_map \in [Xids -> {NoKey} \cup 0..MaxRequests]
    /\ failed \in SUBSET Children
    /\ took \in [Children -> Times \cup {0}]

\* The calls of this request were sent under the number that it has itself.  They are if
\* every request so far was a put or a get of one caller.
Own == kind = "put_or_get" /\ \A c \in Children : child_xid[c] = xid

\* No other connection has used the xid of this request.
NewXid == \A p, q \in Callers : caller_xid[p] >= xid /\ caller_xid[q] >= xid => p = q

Answering == {c \in Children : took[c] # 0}

\* A traced reply to a request whose calls have its own number names the child that has
\* reported the largest time of those that answered it, which are all but failed ones
\* (and none if all have failed).  With any other number, nothing of this request is in
\* the reply.  (And the variables keep their types.)
CriticalPathIsSlowest ==
    /\ TypeOK
    /\ mpc = "reply" /\ kind # "null" => Children \ Answering \subseteq failed
    /\ mpc = "reply" /\ trace_mode = "TRACING" =>
        /\ ~Own => \A i \in DOMAIN Reported : Reported[i].req # req
        /\ Own /\ Answering = {} => Reported = <<>>
        /\ Own /\ Answering # {} =>
            /\ Len(Reported) = 1
            /\ LET e == Reported[1] IN
               /\ e.req = req /\ e.time = took[e.child]
               /\ \A c \in Children : took[c] <= e.time

\* A distributed trace names every child that has answered this request once, and
\* nothing else, if its calls have its own number, and otherwise nothing of it.  The
\* elapsed time in a reply is counted from the start of its own request exactly if the
\* server is traced and no earlier request came with the same xid.
DistributedTraceComplete ==
    /\ mpc = "reply" => (Started = req <=> xdr_trace_server /\ NewXid)
    /\ mpc = "reply" /\ trace_mode = "DISTRIBUTED" =>
        /\ ~Own => \A i \in DOMAIN Reported : Reported[i].req # req
        /\ Own =>
            /\ Len(Reported) = Cardinality(Answering)
            /\ \A c \in Answering : \E i \in DOMAIN Reported :
                   Reported[i] = [child |-> c, req |-> req, time |-> took[c]]

\* A request's entries are complete when it is answered: entries are filed only for the
\* request being handled, before its answer, and under the number of its own calls,
\* where there are none of another request.
AnsweredTracesStable ==
    [][\A x \in Xids : xid_string_map'[x] # xid_string_map[x] =>
           /\ mpc \in {"send", "spin"} /\ mpc' = mpc
           /\ \A c \in Children \ tosend : child_xid[c] = x
           /\ \A i \in DOMAIN xid_string_map'[x] : xid_string_map'[x][i].req = req]_vars
=============================================================================
