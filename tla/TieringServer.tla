--------------------------- MODULE TieringServer ---------------------------
(***************************************************************************)
(* One tiering server (cxx/tiering_server.cc) and the key-value servers    *)
(* (cxx/async_server.cc) it fans every request out to.                     *)
(*                                                                         *)
(* The main thread runs the handlers kv_put and kv_get: it stores the      *)
(* number of children in put_waiting or get_waiting, sends one call per    *)
(* child, spins until the counter is 0 and answers its caller.  One more   *)
(* thread per child polls that child's connection and runs put_cb or       *)
(* get_cb, which decrement the same unprotected counter and, for a get,    *)
(* overwrite the global last_get.  The grain is one access to a shared     *)
(* variable per step: `x--' is a load and a store.                         *)
(***************************************************************************)
EXTENDS Integers, Sequences, FiniteSets

CONSTANTS Children,   \* the next-tier servers of next_tier_connections_
          Keys,
          Values,
          NoVal,      \* the key is not in vals_
          Empty,      \* the initial last_get
          Torn,       \* a string read or written during another write
          UintMax     \* the largest value of the uint32_t counters

ASSUME ConstantsAssumption ==
    /\ IsFiniteSet(Children)
    /\ UintMax \in Nat
    /\ Cardinality(Children) <= UintMax
    /\ NoVal \notin Values

Texts  == Values \cup {Empty, Torn}

Puts == [kind : {"put"}, key : Keys, val : Values]
Gets == [kind : {"get"}, key : Keys, val : {NoVal}]
Ops  == Puts \cup Gets
Results ==
    [kind : {"put"}, stat : {"SUCCESS"}, val : {NoVal}]
        \cup [kind : {"get"}, stat : {"SUCCESS"}, val : Values]
        \cup [kind : {"get"}, stat : {"NOTFOUND"}, val : {NoVal}]
        \cup [kind : {"put", "get"}, stat : {"NETWORK_ERROR"}, val : {NoVal}]

VARIABLES
    mpc,       \* main thread: "idle" (polling), "send", "spin", "reply", "down"
    op,        \* the request being handled, or the last one
    tosend,    \* children the send loop has not reached yet
    waiting,   \* put_waiting and get_waiting, indexed by the kind of request
    last_get,
    raced,     \* children assigning last_get since another assignment that overlaps
    cpc,       \* child thread: "poll", "load", "store", "body", "recv_call"
    reg,       \* the value a child thread has loaded to decrement
    res,       \* the call_result its callback was given
    calls,     \* rpc_sock::calls_ of each connection, oldest first
    inbox,     \* calls on their way to a child
    replies,   \* replies on their way back
    conn,      \* "up", or "eof" once the child's process is gone
    vals       \* vals_ of each child

mainVars == <<mpc, op, tosend>>
lastVars == <<last_get, raced>>
linkVars == <<calls, inbox, replies, conn>>
vars == <<mpc, op, tosend, waiting, lastVars, cpc, reg, res,
          calls, inbox, replies, conn, vals>>

\* Faulty variants of a definition stand before it, named <definition>_<fault>:
\* each is a bug that some property below must notice.
N_ForgetsOne == Cardinality(Children) - 1

N_CountsOneMore == Cardinality(Children) + 1

N == Cardinality(Children)
Up == mpc # "down"
Dec(n) == IF n = 0 THEN UintMax ELSE n - 1

-----------------------------------------------------------------------------
Init ==
    /\ mpc = "idle"
    /\ op \in Gets
    /\ tosend = {}
    /\ waiting = [k \in {"put", "get"} |-> 0]
    /\ last_get = Empty /\ raced = {}
    /\ cpc = [c \in Children |-> "poll"]
    /\ reg = [c \in Children |-> 0]
    /\ res = [c \in Children |-> [kind |-> "get", stat |-> "NOTFOUND", val |-> NoVal]]
    /\ calls = [c \in Children |-> <<>>]
    /\ inbox = [c \in Children |-> <<>>]
    /\ replies = [c \in Children |-> <<>>]
    /\ conn = [c \in Children |-> "up"]
    /\ vals = [c \in Children |-> [k \in Keys |-> NoVal]]

-----------------------------------------------------------------------------
(* The main thread. *)

Request_KeepsCounter(o) ==
    /\ mpc = "idle"
    /\ mpc' = "send" /\ op' = o /\ tosend' = Children
    /\ UNCHANGED <<waiting, lastVars, cpc, reg, res, linkVars, vals>>

\* A call arrives and its handler sets the counter.  No child thread touches
\* the counter before the first call of this request is sent.
Request(o) ==
    /\ mpc = "idle"
    /\ mpc' = "send"
    /\ op' = o
    /\ tosend' = Children
    /\ waiting' = [waiting EXCEPT ![o.kind] = N]
    /\ UNCHANGED <<lastVars, cpc, reg, res, linkVars, vals>>

\* One iteration of the loop over next_tier_connections_: the callback is
\* registered in calls_, then the message is written.  On a connection the
\* child has left the message is lost, or SIGPIPE ends the process.
Send(c) ==
    /\ mpc = "send"
    /\ c \in tosend
    /\ tosend' = tosend \ {c}
    /\ calls' = [calls EXCEPT ![c] = Append(@, op.kind)]
    /\ \/ /\ conn[c] = "up"
          /\ inbox' = [inbox EXCEPT ![c] = Append(@, op)]
          /\ UNCHANGED mpc
       \/ /\ conn[c] = "eof"
          /\ mpc' \in {"send", "down"}
          /\ UNCHANGED inbox
    /\ UNCHANGED <<op, waiting, lastVars, cpc, reg, res, replies, conn, vals>>

SentAll ==
    /\ mpc = "send"
    /\ tosend = {}
    /\ mpc' = "spin"
    /\ UNCHANGED <<op, tosend, waiting, lastVars, cpc, reg, res, linkVars, vals>>

SpinExit_OffByOne ==
    /\ mpc = "spin"
    /\ waiting[op.kind] <= 1
    /\ mpc' = "reply"
    /\ UNCHANGED <<op, tosend, waiting, lastVars, cpc, reg, res, linkVars, vals>>

\* The load of the spin loop that ends it.
SpinExit ==
    /\ mpc = "spin"
    /\ waiting[op.kind] = 0
    /\ mpc' = "reply"
    /\ UNCHANGED <<op, tosend, waiting, lastVars, cpc, reg, res, linkVars, vals>>

\* cb(SUCCESS), or cb(res) with a copy of last_get.
Reply ==
    /\ mpc = "reply"
    /\ mpc' = "idle"
    /\ UNCHANGED <<op, tosend, waiting, lastVars, cpc, reg, res, linkVars, vals>>

-----------------------------------------------------------------------------
(* The thread of child c: pollset::run on its connection. *)

RecvReply_Forgotten(c) ==
    /\ Up /\ cpc[c] = "poll" /\ replies[c] # <<>> /\ calls[c] # <<>>
    /\ replies' = [replies EXCEPT ![c] = Tail(@)]
    /\ UNCHANGED <<mainVars, waiting, lastVars, cpc, reg, res, calls, inbox, conn, vals>>

\* recv_msg matches the reply to its callback, which it takes out of calls_.
RecvReply(c) ==
    /\ Up /\ cpc[c] = "poll" /\ replies[c] # <<>> /\ calls[c] # <<>>
    /\ res' = [res EXCEPT ![c] = Head(replies[c])]
    /\ replies' = [replies EXCEPT ![c] = Tail(@)]
    /\ calls' = [calls EXCEPT ![c] = Tail(@)]
    /\ cpc' = [cpc EXCEPT ![c] = "load"]
    /\ UNCHANGED <<mainVars, waiting, lastVars, reg, inbox, conn, vals>>

\* End of file: abort_all_calls fails the pending call, of which there is at
\* most one (CountdownComplete), and recv_call(nullptr) follows.
RecvEof(c) ==
    /\ Up /\ cpc[c] = "poll" /\ conn[c] = "eof" /\ replies[c] = <<>>
    /\ IF calls[c] = <<>>
       THEN /\ cpc' = [cpc EXCEPT ![c] = "recv_call"]
            /\ UNCHANGED <<res, calls>>
       ELSE /\ cpc' = [cpc EXCEPT ![c] = "load"]
            /\ res' = [res EXCEPT ![c] = [kind |-> Head(calls[c]),
                                          stat |-> "NETWORK_ERROR", val |-> NoVal]]
            /\ calls' = [calls EXCEPT ![c] = Tail(@)]
    /\ UNCHANGED <<mainVars, waiting, lastVars, reg, inbox, replies, conn, vals>>

\* put_waiting-- or get_waiting--, first half.
Load(c) ==
    /\ Up /\ cpc[c] = "load"
    /\ reg' = [reg EXCEPT ![c] = waiting[res[c].kind]]
    /\ cpc' = [cpc EXCEPT ![c] = "store"]
    /\ UNCHANGED <<mainVars, waiting, lastVars, res, linkVars, vals>>

\* ... and second half.
Store(c) ==
    /\ Up /\ cpc[c] = "store"
    /\ waiting' = [waiting EXCEPT ![res[c].kind] = Dec(reg[c])]
    /\ cpc' = [cpc EXCEPT ![c] = "body"]
    /\ UNCHANGED <<mainVars, lastVars, reg, res, linkVars, vals>>

\* The thread goes back to poll, or after an aborted call to recv_call.
Return(c) ==
    cpc' = [cpc EXCEPT ![c] =
               IF res[c].stat = "NETWORK_ERROR" THEN "recv_call" ELSE "poll"]

\* The rest of put_cb: any failure ends the process.
PutBody(c) ==
    /\ Up /\ cpc[c] = "body" /\ res[c].kind = "put"
    /\ \/ /\ res[c].stat = "SUCCESS"
          /\ Return(c)
          /\ UNCHANGED mpc
       \/ /\ res[c].stat # "SUCCESS"
          /\ mpc' = "down"
          /\ UNCHANGED cpc
    /\ UNCHANGED <<op, tosend, waiting, lastVars, reg, res, linkVars, vals>>

\* c is about to assign, or is assigning, last_get.
Assigning(c) ==
    cpc[c] = "body" /\ res[c].kind = "get" /\ res[c].stat = "SUCCESS"

\* The rest of get_cb: last_get = res->value().  The string is unprotected, so
\* two overlapping assignments may leave anything, whichever ends last.  value() of a NOTFOUND
\* result throws xdr_wrong_union, which nothing on this thread catches.
GetBody(c) ==
    /\ Up /\ cpc[c] = "body" /\ res[c].kind = "get"
    /\ \/ /\ res[c].stat = "SUCCESS"
          /\ LET others == {d \in Children \ {c} : Assigning(d)} IN
              /\ last_get' \in {res[c].val} \cup {t \in {Torn} : others # {} \/ c \in raced}
              /\ raced' = (raced \cup others) \ {c}
          /\ Return(c)
          /\ UNCHANGED mpc
       \/ /\ res[c].stat = "NOTFOUND"
          /\ mpc' = "down"
          /\ UNCHANGED <<cpc, lastVars>>
       \/ /\ res[c].stat = "NETWORK_ERROR"
          /\ Return(c)
          /\ UNCHANGED <<mpc, lastVars>>
    /\ UNCHANGED <<op, tosend, waiting, reg, res, linkVars, vals>>

\* recv_call(nullptr) without a server callback reads the null message.
RecvCallNull(c) ==
    /\ Up /\ cpc[c] = "recv_call"
    /\ mpc' = "down"
    /\ UNCHANGED <<op, tosend, waiting, lastVars, cpc, reg, res, linkVars, vals>>

-----------------------------------------------------------------------------
(* A child, an async_server process. *)

ServePut(c) ==
    /\ conn[c] = "up" /\ inbox[c] # <<>>
    /\ LET o == Head(inbox[c]) IN
       /\ o.kind = "put"
       /\ vals' = [vals EXCEPT ![c] = [@ EXCEPT ![o.key] = o.val]]
       /\ replies' = [replies EXCEPT ![c] =
              Append(@, [kind |-> "put", stat |-> "SUCCESS", val |-> NoVal])]
    /\ inbox' = [inbox EXCEPT ![c] = Tail(@)]
    /\ UNCHANGED <<mainVars, waiting, lastVars, cpc, reg, res, calls, conn>>

ServeGet(c) ==
    /\ conn[c] = "up" /\ inbox[c] # <<>>
    /\ LET o == Head(inbox[c])
           v == vals[c][o.key] IN
       /\ o.kind = "get"
       /\ replies' = [replies EXCEPT ![c] =
              Append(@, [kind |-> "get", val |-> v,
                         stat |-> IF v = NoVal THEN "NOTFOUND" ELSE "SUCCESS"])]
    /\ inbox' = [inbox EXCEPT ![c] = Tail(@)]
    /\ UNCHANGED <<mainVars, waiting, lastVars, cpc, reg, res, calls, conn, vals>>

\* The child's process dies.  What it had not read is lost; replies it had
\* written may or may not still arrive.
ChildCrash(c) ==
    /\ conn[c] = "up"
    /\ conn' = [conn EXCEPT ![c] = "eof"]
    /\ inbox' = [inbox EXCEPT ![c] = <<>>]
    /\ replies' \in {replies, [replies EXCEPT ![c] = <<>>]}
    /\ UNCHANGED <<mainVars, waiting, lastVars, cpc, reg, res, calls, vals>>

-----------------------------------------------------------------------------
Main == (\E o \in Ops : Request(o)) \/ (\E c \in Children : Send(c))
            \/ SentAll \/ SpinExit \/ Reply

Thread(c) == RecvReply(c) \/ RecvEof(c) \/ Load(c) \/ Store(c)
                 \/ PutBody(c) \/ GetBody(c) \/ RecvCallNull(c)

Serve(c) == ServePut(c) \/ ServeGet(c)

Next == Main \/ \E c \in Children : Thread(c) \/ Serve(c) \/ ChildCrash(c)

\* Threads are scheduled and a live child serves what it receives.  Nothing
\* obliges a client to send a request or a child to crash.
Fairness ==
    /\ WF_vars(\E c \in Children : Send(c))
    /\ WF_vars(SentAll \/ SpinExit \/ Reply)
    /\ \A c \in Children : WF_vars(Thread(c)) /\ WF_vars(Serve(c))

Safety == Init /\ [][Next]_vars
Spec == Safety /\ Fairness

-----------------------------------------------------------------------------
(* Properties. *)

TypeOK ==
    /\ mpc \in {"idle", "send", "spin", "reply", "down"}
    /\ op \in Ops
    /\ tosend \in SUBSET Children
    /\ waiting \in [{"put", "get"} -> 0..UintMax]
    /\ last_get \in Texts /\ raced \subseteq Children
    /\ cpc \in [Children -> {"poll", "load", "store", "body", "recv_call"}]
    /\ reg \in [Children -> 0..UintMax]
    /\ res \in [Children -> Results]
    /\ calls \in [Children -> Seq({"put", "get"})]
    /\ inbox \in [Children -> Seq(Ops)]
    /\ replies \in [Children -> Seq(Results)]
    /\ conn \in [Children -> {"up", "eof"}]
    /\ vals \in [Children -> [Keys -> Values \cup {NoVal}]]

\* c's callback for the current request has finished its decrement.
Done(c) == c \notin tosend /\ calls[c] = <<>> /\ cpc[c] \notin {"load", "store"}

\* When put_waiting or get_waiting has reached 0 every child's callback has
\* run its decrement, whatever decrements were lost: a lost update leaves the
\* counter too high, never too low.  So no callback of one request can
\* decrement the counter of the next.
CountdownComplete == mpc \in {"idle", "reply"} => \A c \in Children : Done(c)

\* A child thread never decrements a counter that is already 0 (it would wrap
\* to 2^32 - 1 and the spin loop would not end); and the variables keep their types.
NoUnderflow ==
    /\ TypeOK
    /\ \A c \in Children : cpc[c] = "store" => reg[c] > 0

\* When kv_put answers SUCCESS every child that is still alive has stored the
\* value under the key.
PutAckedByAll ==
    mpc = "reply" /\ op.kind = "put" =>
        \A c \in Children : conn[c] = "up" => vals[c][op.key] = op.val

\* Between requests the live children hold the same map: puts reach all of
\* them in the same order, and none is left half way.
ReplicasAgree ==
    mpc = "idle" =>
        \A c, d \in Children : conn[c] = "up" /\ conn[d] = "up" => vals[c] = vals[d]

\* Every call is answered or failed, or the process ends: the child thread
\* does not lose a reply, and end of file fails what is pending.
CallsResolve == \A c \in Children : calls[c] # <<>> ~> (calls[c] = <<>> \/ ~Up)

\* Two child threads are inside the decrement at once, one of them between its
\* load and its store.
Overlap ==
    \E c, d \in Children :
        c # d /\ cpc[c] = "store" /\ cpc[d] \in {"load", "store"}

\* If no two decrements ever overlap, every request is answered (or the
\* process ends).
AnsweredUnlessOverlap == [](~Overlap) => (mpc = "send" ~> mpc \in {"idle", "down"})

\* tiering_server.cc:62 promises to wait for the longest request, no longer.
\* Two overlapping decrements lose one and the main thread spins for ever.
RequestsAnswered == mpc = "spin" ~> mpc # "spin"

\* What `res.value() = last_get' may copy.
ReadLast == {last_get} \cup {t \in {Torn} : \E c \in Children : Assigning(c)}

\* tiering_server.cc:78 waits for the longest request and then answers with
\* last_get: a get of a key that every child holds answers with its value.
GetFresh ==
    mpc = "reply" /\ op.kind = "get" =>
        \A v \in Values :
            (\A c \in Children : conn[c] = "up" /\ vals[c][op.key] = v)
                => ReadLast = {v}

\* With every child alive and every callback back from its assignment, a get answers with
\* the value the children hold, or with what two overlapping assignments have left: a late
\* callback of an earlier get, though it may run in between, does not have the last word.
GetFreshUnlessRaced ==
    mpc = "reply" /\ op.kind = "get" /\ last_get # Torn =>
        \/ \E c \in Children : conn[c] = "eof" \/ cpc[c] # "poll"
        \/ \A c \in Children : last_get = vals[c][op.key]
=============================================================================
