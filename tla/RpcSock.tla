------------------------------- MODULE RpcSock -------------------------------
(***************************************************************************)
(* An rpc_sock (cxx/xdrpp/xdrpp/msgsock.h:86, msgsock.cc:190): the xids it *)
(* gives its calls, the callbacks that wait in calls_ for the replies, and *)
(* what becomes of them when the connection fails or is deleted.           *)
(*                                                                         *)
(* calls_ is keyed by the first word of the marshaled message, the xid in  *)
(* wire order; get_xid looks up the xid in host order.  The peer answers   *)
(* in any order and more than once, sends calls of its own and messages    *)
(* that are neither, and may close the connection at any time.             *)
(***************************************************************************)
EXTENDS Integers, Sequences, FiniteSets

CONSTANTS
    XidMax,      \* the largest uint32_t
    Wire,        \* host to wire order: the identity, or a byte swap
    MaxCalls,    \* bound on the number of calls made
    MaxQueue     \* bound on the messages on their way from the peer

Xids == 0..XidMax
CallIds == 1..MaxCalls

ASSUME ConstantsAssumption ==
    /\ XidMax \in Nat
    /\ Wire \in [Xids -> Xids]
    /\ \A x, y \in Xids : Wire[x] = Wire[y] => x = y
    /\ MaxCalls \in Nat
    /\ MaxQueue \in Nat

None == 0        \* no call has this number

VARIABLES
    xid,         \* xid_
    wrapped,     \* xid_ has gone round
    calls,       \* calls_: for each key the call whose callback it holds
    made,        \* number of calls made; they are numbered from 1
    key,         \* key of each call made
    servcb,      \* whether servcb_ is set
    inq,         \* messages from the peer, and the end of the stream
    pc,          \* "poll"; "abort", "callback" in abort_all_calls;
                 \* "recv_call"; "gone" (deleted), "crashed"
    aborting,    \* calls left in the local map of abort_all_calls
    dying,       \* the destructor runs
    late,        \* calls made by callbacks that the destructor ran
    ran          \* what the callback of each call was given, in turn: the
                 \* number of the call that was answered, or None for null

vars == <<xid, wrapped, calls, made, key, servcb, inq, pc, aborting, dying, late, ran>>

Registered == {calls[k] : k \in Xids} \ {None}
NoCalls == [k \in Xids |-> None]

Init ==
    /\ xid = 0 /\ wrapped = FALSE
    /\ calls = NoCalls
    /\ made = 0 /\ key = [c \in CallIds |-> 0]
    /\ servcb \in BOOLEAN
    /\ inq = <<>> /\ pc = "poll" /\ aborting = {} /\ dying = FALSE /\ late = {}
    /\ ran = [c \in CallIds |-> <<>>]

-----------------------------------------------------------------------------
(* Calls. *)

\* xid_ after n increments.
Later(n) == (xid + n) % (XidMax + 1)

\* The loop of get_xid stops n increments on: at a number that is not a key of
\* calls_, or at 0.
StopsAt(n) == LET x == Later(n) IN calls[x] = None \/ x = 0

GetXid_Reuses(n) == StopsAt(n) /\ \A m \in 0..n-1 : ~StopsAt(m)

\* get_xid returns after n increments, of which there is at least one.
GetXid(n) == n > 0 /\ StopsAt(n) /\ \A m \in 1..n-1 : ~StopsAt(m)

\* unordered_map::emplace keeps what is there.
Emplace(k, c) == [calls EXCEPT ![k] = IF @ = None THEN c ELSE @]

\* invoke: get_xid, then send_call.  Outside poll or in a callback.
Call ==
    /\ pc \in {"poll", "callback"} /\ made < MaxCalls
    /\ made' = made + 1
    /\ \E n \in 0..XidMax + 1 :
          /\ GetXid(n)
          /\ xid' = Later(n)
          /\ wrapped' = (wrapped \/ xid + n > XidMax)
    /\ key' = [key EXCEPT ![made'] = Wire[xid']]
    /\ calls' = Emplace(Wire[xid'], made')
    /\ late' = IF dying THEN late \cup {made'} ELSE late
    /\ UNCHANGED <<servcb, inq, pc, aborting, dying, ran>>

Take_Keeps(k) == calls

\* What is left of calls_ when the callback of key k is taken out.
Take(k) == [calls EXCEPT ![k] = None]

\* recv_msg with a reply: the callback runs, unless the reply is to no call.
RecvReply ==
    /\ pc = "poll" /\ inq # <<>>
    /\ LET m == Head(inq) IN
       /\ m.type = "REPLY"
       /\ IF calls[m.key] = None
          THEN UNCHANGED <<calls, ran>>
          ELSE /\ calls' = Take(m.key)
               /\ ran' = [ran EXCEPT ![calls[m.key]] = Append(@, m.call)]
    /\ inq' = Tail(inq)
    /\ UNCHANGED <<xid, wrapped, made, key, servcb, pc, aborting, dying, late>>

\* recv_msg with a call: servcb_ gets it, or the peer is sent PROG_UNAVAIL.
RecvCall ==
    /\ pc = "poll" /\ inq # <<>>
    /\ Head(inq).type = "CALL"
    /\ inq' = Tail(inq)
    /\ UNCHANGED <<xid, wrapped, calls, made, key, servcb, pc, aborting, dying, late, ran>>

-----------------------------------------------------------------------------
(* Failure: recv_msg with end of file, or with what is no RPC message. *)

AbortAll_ClearsFirst == aborting' = {} /\ calls' = NoCalls /\ pc' = "abort"

\* abort_all_calls moves calls_ to a local map and empties it.
AbortAll == aborting' = Registered /\ calls' = NoCalls /\ pc' = "abort"

RecvFailure ==
    /\ pc = "poll" /\ inq # <<>>
    /\ Head(inq).type \in {"BAD", "EOF"}
    /\ inq' = Tail(inq)
    /\ AbortAll
    /\ UNCHANGED <<xid, wrapped, made, key, servcb, dying, late, ran>>

\* The next callback, in the order of the hash table, is given null.
AbortCall(c) ==
    /\ pc = "abort" /\ c \in aborting
    /\ aborting' = aborting \ {c}
    /\ ran' = [ran EXCEPT ![c] = Append(@, None)]
    /\ pc' = "callback"
    /\ UNCHANGED <<xid, wrapped, calls, made, key, servcb, inq, dying, late>>

CallbackReturns ==
    /\ pc = "callback"
    /\ pc' = "abort"
    /\ UNCHANGED <<xid, wrapped, calls, made, key, servcb, inq, aborting, dying, late, ran>>

\* The end of abort_all_calls: recv_call(nullptr), or the end of ~rpc_sock,
\* with which goes what is left in calls_.
AbortDone ==
    /\ pc = "abort" /\ aborting = {}
    /\ IF dying THEN pc' = "gone" /\ calls' = NoCalls
                ELSE pc' = "recv_call" /\ UNCHANGED calls
    /\ UNCHANGED <<xid, wrapped, made, key, servcb, inq, aborting, dying, late, ran>>

RecvNull_WithoutAbort ==
    /\ pc = "recv_call"
    /\ pc' = "gone" /\ calls' = NoCalls
    /\ UNCHANGED <<xid, wrapped, made, key, servcb, inq, aborting, dying, late, ran>>

\* receive_cb of server.cc, as servcb_, deletes the rpc_sock, whose destructor
\* aborts the calls made since; without servcb_ the null message is read.
RecvNull ==
    /\ pc = "recv_call"
    /\ \/ /\ servcb
          /\ dying' = TRUE /\ AbortAll
       \/ /\ ~servcb
          /\ pc' = "crashed"
          /\ UNCHANGED <<dying, aborting, calls>>
    /\ UNCHANGED <<xid, wrapped, made, key, servcb, inq, late, ran>>

\* The application deletes the rpc_sock of its own accord.
Delete ==
    /\ pc = "poll"
    /\ dying' = TRUE /\ AbortAll
    /\ UNCHANGED <<xid, wrapped, made, key, servcb, inq, late, ran>>

-----------------------------------------------------------------------------
(* The peer. *)

PeerSends(m) ==
    /\ Len(inq) < MaxQueue
    /\ \A n \in DOMAIN inq : inq[n].type # "EOF"
    /\ inq' = Append(inq, m)
    /\ UNCHANGED <<xid, wrapped, calls, made, key, servcb, pc, aborting, dying, late, ran>>

\* An answer, perhaps not the first, to a call it was sent.
PeerReplies(c) ==
    /\ c <= made
    /\ PeerSends([type |-> "REPLY", key |-> key[c], call |-> c])

Others == [type : {"CALL", "BAD", "EOF"}, key : {0}, call : {None}]

-----------------------------------------------------------------------------
Local ==
    \/ RecvReply \/ RecvCall \/ RecvFailure
    \/ (\E c \in CallIds : AbortCall(c))
    \/ CallbackReturns \/ AbortDone \/ RecvNull

Next ==
    \/ Call \/ Local \/ Delete
    \/ \E c \in CallIds : PeerReplies(c)
    \/ \E m \in Others : PeerSends(m)

\* The pollset keeps running.
Safety == Init /\ [][Next]_vars
Spec == Safety /\ WF_vars(Local)

-----------------------------------------------------------------------------
(* Properties. *)

Messages == [type : {"REPLY", "CALL", "BAD", "EOF"}, key : Xids, call : 0..MaxCalls]

\* The types, and that a callback is registered under the key of its call.
TypeOK ==
    /\ xid \in Xids /\ wrapped \in BOOLEAN
    /\ made \in 0..MaxCalls
    /\ key \in [CallIds -> Xids]
    /\ calls \in [Xids -> 0..made]
    /\ \A k \in Xids : calls[k] # None => key[calls[k]] = k
    /\ servcb \in BOOLEAN
    /\ inq \in Seq(Messages)
    /\ pc \in {"poll", "abort", "callback", "recv_call", "gone", "crashed"}
    /\ aborting \in SUBSET (1..made)
    /\ dying \in BOOLEAN
    /\ late \in SUBSET (1..made)
    /\ ran \in [CallIds -> Seq(0..MaxCalls)]

\* The callback of a call runs at most once, however often the peer answers and
\* however the connection ends, and not while it is still registered.
AtMostOnce ==
    \A c \in CallIds :
        /\ Len(ran[c]) <= 1
        /\ c \in Registered \cup aborting => ran[c] = <<>>

\* Until xid_ goes round, a callback is given null or the answer to its own
\* call, never that to another.
OwnReply ==
    ~wrapped => \A c \in CallIds : \A n \in DOMAIN ran[c] : ran[c][n] \in {None, c}

\* Until xid_ goes round, every call made still has its callback waiting or has
\* had it run; only a call made by a callback that the destructor itself runs
\* is forgotten.
NoneForgotten ==
    ~wrapped =>
        \A c \in 1..made :
            c \in Registered \cup aborting \/ ran[c] # <<>> \/ (pc = "gone" /\ c \in late)

\* After the end of the stream every call that was waiting is answered with null.
EofResolves ==
    \A c \in CallIds :
        (c \in Registered /\ ~wrapped /\ \E n \in DOMAIN inq : inq[n].type = "EOF")
            ~> (ran[c] # <<>> \/ c \in late \/ pc = "crashed" \/ wrapped)

\* msgsock.h:89-91: the calls given to send_call have a unique xid generated by
\* get_xid.  No waiting callback holds the key that the next call will get.
XidsUnique ==
    pc = "poll" =>
        \A n \in 1..XidMax + 1 : GetXid(n) => calls[Wire[Later(n)]] = None
=============================================================================
