---------------------------- MODULE RpcCall_proofs ----------------------------
(***************************************************************************)
(* Safety of calls and replies for any connections, services, messages and *)
(* handlers.  The argument: a number belongs to one connection (Owned) and *)
(* to one message, which is on its way, or has run, or neither (Fresh); a  *)
(* call whose handler has not thrown has its reply ahead of it as long as  *)
(* the reply_cb is kept, and never two (Single).  So a synchronous client  *)
(* has at most one call under way, and everything about its connection is  *)
(* about this call (Lockstep).                                             *)
(***************************************************************************)
EXTENDS RpcCall, TLAPS

Eof == [type |-> "eof"]
Stats == {"SUCCESS", "RPC_MISMATCH", "PROG_UNAVAIL", "PROG_MISMATCH", "PROC_UNAVAIL", "GARBAGE_ARGS"}
Replies == [id : Nat, stat : Stats, mode : Nat, asked : Nat]
Results == Stats \cup {"BAD_XID", "GARBAGE_RES", "NETWORK_ERROR"}
Mine(c) == {id \in 1..ncalls : by[id] = c}

\* A message that waits to be received.
Queued(c, i) == i \in DOMAIN inq[c] /\ inq[c][i] # Eof

\* The replies sent on c are about calls whose handlers have not thrown.
Clean(c) == \A i \in DOMAIN sent[c] : sent[c][i].id \notin thrown

\* The variables keep their types.
TypeInv ==
    /\ style \in {"arpc", "srpc"} /\ servers \in SUBSET Services
    /\ listener \in {"up", "destroyed", "crashed"} /\ trace_mode \in Nat
    /\ sock \in [Conns -> {"none", "open", "deleted"}]
    /\ session \in [Conns -> {"none", "live", "freed"}]
    /\ inq \in [Conns -> Seq(Messages \cup {Eof})]
    /\ outq \in [Conns -> Seq(Replies)] /\ sent \in [Conns -> Seq(Replies)]
    /\ held \in SUBSET [conn : Conns, m : Messages]
    /\ executed \in SUBSET Messages /\ thrown \in SUBSET Nat /\ overtaken \in SUBSET Nat
    /\ kind \in [Conns -> {"sync", "async", "tier", "alien"}]
    /\ client \in [Conns -> {"on", "closed", "crashed"}]
    /\ ncalls \in 0..MaxCalls /\ by \in Seq(Conns) /\ Len(by) = ncalls
    /\ waiting \in [Conns -> SUBSET Nat]
    /\ results \in [1..MaxCalls -> Seq(Results)]

\* A number is that of one message, on the connection where it was sent.
Owned ==
    /\ \A c \in Conns :
        /\ \A i \in DOMAIN inq[c] : inq[c][i] # Eof => inq[c][i].id \in Mine(c)
        /\ \A i \in DOMAIN sent[c] : sent[c][i].id \in Mine(c)
        /\ \A i \in DOMAIN outq[c] : \E k \in DOMAIN sent[c] : outq[c][i] = sent[c][k]
        /\ waiting[c] \subseteq Mine(c)
    /\ \A h \in held : h.m.id \in Mine(h.conn)

\* Of a message that waits to be received nothing else has been heard.
Fresh ==
    \A c \in Conns : \A i \in DOMAIN inq[c] : inq[c][i] # Eof =>
        /\ \A j \in DOMAIN inq[c] : j # i /\ inq[c][j] # Eof => inq[c][j].id # inq[c][i].id
        /\ \A j \in DOMAIN sent[c] : sent[c][j].id # inq[c][i].id
        /\ \A h \in held : h.m.id # inq[c][i].id

\* A reply_cb that is kept is the only one of its call, which has no reply yet,
\* and no reply is twice in a queue, unless the handler has thrown.
Single ==
    /\ OneReply
    /\ \A c \in Conns : \A i, j \in DOMAIN outq[c] :
        i # j /\ outq[c][i].id = outq[c][j].id => outq[c][i].id \in thrown
    /\ \A h \in held :
        /\ h.m.id \in thrown \/ \A j \in DOMAIN sent[h.conn] : sent[h.conn][j].id # h.m.id
        /\ \A k \in held : k.m.id = h.m.id => k = h

\* The mode is the one a kept call has asked for, until the call is overtaken.
ModeInv == style = "arpc" => \A h \in held : h.m.mode = trace_mode \/ h.m.id \in overtaken

\* What there is on the connection of a synchronous client is about the call it waits for.
Lockstep ==
    \A c \in Conns : kind[c] = "sync" /\ client[c] = "on" =>
        /\ \A x, y \in waiting[c] : x = y
        /\ Clean(c) =>
            /\ \A i \in DOMAIN inq[c] : inq[c][i] # Eof => inq[c][i].id \in waiting[c]
            /\ \A i \in DOMAIN outq[c] : outq[c][i].id \in waiting[c]
            /\ \A h \in held : h.conn = c => h.m.id \in waiting[c] \cup thrown

\* What was told on a connection that is not Clean says nothing.
ToldInv ==
    /\ \A id \in 1..MaxCalls : id > ncalls => results[id] = <<>>
    /\ \A c \in Conns : Clean(c) => \A id \in 1..ncalls :
        by[id] = c => Told(id) \subseteq Sent(c, id) \cup {"GARBAGE_RES", "NETWORK_ERROR"}

IInv ==
    /\ TypeInv /\ TypeOK /\ Owned /\ Fresh /\ Single /\ OnlyServed
    /\ ModeInv /\ OwnTraceMode /\ Lockstep /\ ToldInv

-----------------------------------------------------------------------------
(* Sequences. *)

LEMMA TailFacts ==
    ASSUME NEW S, NEW s \in Seq(S), s # <<>>
    PROVE  /\ Tail(s) \in Seq(S) /\ 1 \in DOMAIN s /\ Head(s) = s[1] /\ Head(s) \in S
           /\ \A i \in DOMAIN Tail(s) :
                i + 1 \in DOMAIN s /\ i + 1 # 1 /\ Tail(s)[i] = s[i + 1] /\ i \in Nat
<1>1. Len(s) \in Nat /\ Len(s) > 0 /\ DOMAIN s = 1..Len(s)
  OBVIOUS
<1>2. Tail(s) \in Seq(S) /\ Len(Tail(s)) = Len(s) - 1 /\ DOMAIN Tail(s) = 1..(Len(s) - 1)
  BY <1>1
<1>3. \A i \in 1..(Len(s) - 1) : Tail(s)[i] = s[i + 1]
  BY <1>1
<1> QED
  BY <1>1, <1>2, <1>3

LEMMA TailBack ==
    ASSUME NEW S, NEW s \in Seq(S), s # <<>>
    PROVE  \A i \in DOMAIN s : i = 1 \/ (i - 1 \in DOMAIN Tail(s) /\ Tail(s)[i - 1] = s[i])
<1>1. /\ Len(s) \in Nat /\ DOMAIN s = 1..Len(s) /\ DOMAIN Tail(s) = 1..(Len(s) - 1)
      /\ \A i \in 1..(Len(s) - 1) : Tail(s)[i] = s[i + 1]
  OBVIOUS
<1> SUFFICES ASSUME NEW i \in DOMAIN s, i # 1 PROVE i - 1 \in DOMAIN Tail(s) /\ Tail(s)[i - 1] = s[i]
  OBVIOUS
<1>2. i - 1 \in 1..(Len(s) - 1) /\ (i - 1) + 1 = i
  BY <1>1
<1> QED
  BY <1>1, <1>2

LEMMA ConcatFacts ==
    ASSUME NEW S, NEW s \in Seq(S), NEW t \in Seq(S)
    PROVE  /\ s \o t \in Seq(S)
           /\ \A i \in DOMAIN s : i \in DOMAIN (s \o t) /\ (s \o t)[i] = s[i]
           /\ \A i \in DOMAIN (s \o t) : i \in Nat /\
                \/ i \in DOMAIN s /\ (s \o t)[i] = s[i]
                \/ i \notin DOMAIN s /\ i - Len(s) \in DOMAIN t /\ (s \o t)[i] = t[i - Len(s)]
           /\ \A j \in DOMAIN t : \E i \in DOMAIN (s \o t) : (s \o t)[i] = t[j]
<1>1. /\ Len(s) \in Nat /\ DOMAIN s = 1..Len(s) /\ Len(t) \in Nat /\ DOMAIN t = 1..Len(t)
      /\ s \o t \in Seq(S) /\ DOMAIN (s \o t) = 1..(Len(s) + Len(t))
  OBVIOUS
<1>2. \A i \in 1..(Len(s) + Len(t)) :
        (s \o t)[i] = IF i <= Len(s) THEN s[i] ELSE t[i - Len(s)]
  BY <1>1
<1>3. ASSUME NEW j \in DOMAIN t PROVE \E i \in DOMAIN (s \o t) : (s \o t)[i] = t[j]
  <2>1. /\ j + Len(s) \in DOMAIN (s \o t) /\ (j + Len(s)) - Len(s) = j
        /\ ~(j + Len(s) <= Len(s))
    BY <1>1
  <2>2. (s \o t)[j + Len(s)] = t[j]
    BY <1>1, <1>2, <2>1
  <2> QED
    BY <2>1, <2>2
<1>4. ASSUME NEW i \in DOMAIN s PROVE i \in DOMAIN (s \o t) /\ (s \o t)[i] = s[i]
  BY <1>1, <1>2
<1>5. ASSUME NEW i \in DOMAIN (s \o t)
      PROVE  i \in Nat /\
             \/ i \in DOMAIN s /\ (s \o t)[i] = s[i]
             \/ i \notin DOMAIN s /\ i - Len(s) \in DOMAIN t /\ (s \o t)[i] = t[i - Len(s)]
  BY <1>1, <1>2
<1> QED
  BY <1>1, <1>3, <1>4, <1>5

LEMMA AppendFacts ==
    ASSUME NEW S, NEW s \in Seq(S), NEW x \in S
    PROVE  /\ Append(s, x) \in Seq(S) /\ Len(Append(s, x)) = Len(s) + 1
           /\ \A i \in DOMAIN s : i \in DOMAIN Append(s, x) /\ Append(s, x)[i] = s[i]
           /\ \A i \in DOMAIN Append(s, x) : i \in Nat /\
                \/ i \in DOMAIN s /\ Append(s, x)[i] = s[i]
                \/ i = Len(s) + 1 /\ i \notin DOMAIN s /\ Append(s, x)[i] = x
           /\ Append(s, x)[Len(s) + 1] = x /\ Len(s) + 1 \in DOMAIN Append(s, x)
<1>1. /\ Len(s) \in Nat /\ DOMAIN s = 1..Len(s) /\ Append(s, x) \in Seq(S)
      /\ Len(Append(s, x)) = Len(s) + 1 /\ DOMAIN Append(s, x) = 1..(Len(s) + 1)
  OBVIOUS
<1>2. \A i \in 1..(Len(s) + 1) : Append(s, x)[i] = IF i <= Len(s) THEN s[i] ELSE x
  BY <1>1
<1> QED
  BY <1>1, <1>2

-----------------------------------------------------------------------------
(* Replies. *)

\* Messages have a type, the end of the stream has another one.
LEMMA EofFacts == /\ Eof.type = "eof" /\ \A m \in Messages : m # Eof /\ m.type # "eof" /\ m.id \in Nat
  BY DEF Eof, Messages

LEMMA ReplyFacts ==
    ASSUME NEW m \in Messages, NEW stat \in Stats, trace_mode' \in Nat
    PROVE  /\ Reply(m, stat) \in Replies
           /\ Reply(m, stat).id = m.id /\ Reply(m, stat).stat = stat
           /\ Reply(m, stat).mode = trace_mode' /\ Reply(m, stat).asked = m.mode
  BY DEF Reply, Replies, Messages

LEMMA PairFacts ==
    ASSUME NEW S, NEW a \in S, NEW b \in S
    PROVE  /\ <<a>> \o <<b>> \in Seq(S) /\ Len(<<a>> \o <<b>>) = 2
           /\ \A i \in DOMAIN (<<a>> \o <<b>>) : (<<a>> \o <<b>>)[i] \in {a, b}
<1>1. <<a>> \in Seq(S) /\ <<b>> \in Seq(S) /\ Len(<<a>>) = 1 /\ Len(<<b>>) = 1
  OBVIOUS
<1>2. \A i \in DOMAIN <<a>> : <<a>>[i] = a
  OBVIOUS
<1>3. \A i \in DOMAIN <<b>> : <<b>>[i] = b
  OBVIOUS
<1>4. Len(<<a>> \o <<b>>) = 2
  BY <1>1
<1> QED
  BY <1>1, <1>2, <1>3, <1>4, ConcatFacts

\* The replies of dispatch and of a reply_cb: two only when the handler has thrown, and
\* none, or that of the exception, as long as the reply_cb is kept.
Answer(m, rs) ==
    /\ rs \in Seq(Replies)
    /\ \A i \in DOMAIN rs : rs[i].id = m.id /\ rs[i].mode = trace_mode' /\ rs[i].asked = m.mode

LEMMA OutcomeFacts ==
    ASSUME NEW m \in Messages, trace_mode' \in Nat, NEW o \in Outcomes(m)
    PROVE  /\ Answer(m, o.replies) /\ o.kept \in BOOLEAN /\ o.throws \in BOOLEAN
           /\ ~o.throws => Len(o.replies) <= 1 /\ (o.kept => o.replies = <<>>)
<1> DEFINE s == Reply(m, "SUCCESS")
           u == Reply(m, "PROC_UNAVAIL")
           g == Reply(m, "GARBAGE_ARGS")
           good == {s, u, g}
<1>1. \A r \in good : r \in Replies /\ r.id = m.id /\ r.mode = trace_mode' /\ r.asked = m.mode
  <2>1. "SUCCESS" \in Stats /\ "PROC_UNAVAIL" \in Stats /\ "GARBAGE_ARGS" \in Stats
    BY DEF Stats
  <2>2. \A stat \in Stats : LET r == Reply(m, stat) IN
          r \in Replies /\ r.id = m.id /\ r.mode = trace_mode' /\ r.asked = m.mode
    BY ReplyFacts
  <2> QED
    BY <2>1, <2>2
<1>2. ASSUME NEW r \in good PROVE Answer(m, <<r>>) /\ Len(<<r>>) = 1
  BY <1>1 DEF Answer
<1>3. ASSUME NEW r \in good PROVE Answer(m, <<r>> \o <<g>>)
  BY <1>1, PairFacts DEF Answer
<1>4. Answer(m, <<>>) /\ Len(<<>>) = 0
  BY DEF Answer
<1>5. \/ o = [replies |-> <<s>>, kept |-> FALSE, throws |-> FALSE]
      \/ o = [replies |-> <<u>>, kept |-> FALSE, throws |-> FALSE]
      \/ o = [replies |-> <<g>>, kept |-> FALSE, throws |-> TRUE]
      \/ o = [replies |-> <<s>> \o <<g>>, kept |-> FALSE, throws |-> TRUE]
      \/ o = [replies |-> <<u>> \o <<g>>, kept |-> FALSE, throws |-> TRUE]
      \/ o = [replies |-> <<>>, kept |-> TRUE, throws |-> FALSE]
      \/ o = [replies |-> <<g>>, kept |-> TRUE, throws |-> TRUE]
  BY Zenon DEF Outcomes, Used, Unused
<1> DEFINE Fine(rs, k, t) == /\ Answer(m, rs) /\ k \in BOOLEAN /\ t \in BOOLEAN
                             /\ ~t => Len(rs) <= 1 /\ (k => rs = <<>>)
<1>6. ASSUME NEW rs, NEW k \in BOOLEAN, NEW t \in BOOLEAN, o = [replies |-> rs, kept |-> k, throws |-> t],
             Fine(rs, k, t)
      PROVE  Fine(o.replies, o.kept, o.throws)
  <2>1. o.replies = rs /\ o.kept = k /\ o.throws = t
    BY <1>6, Zenon
  <2> HIDE DEF Fine
  <2> QED
    BY <1>6, <2>1, Zenon
<1>7. s \in good /\ u \in good /\ g \in good
  OBVIOUS
<1>8. Fine(<<s>>, FALSE, FALSE) /\ Fine(<<u>>, FALSE, FALSE)
  BY <1>2, <1>7
<1>9. ASSUME NEW k \in BOOLEAN, NEW r \in good PROVE Fine(<<r>>, k, TRUE) /\ Fine(<<r>> \o <<g>>, k, TRUE)
  BY <1>2, <1>3
<1>10. Fine(<<>>, TRUE, FALSE)
  BY <1>4
<1> HIDE DEF s, u, g, good, Fine
<1>11. Fine(o.replies, o.kept, o.throws)
  BY <1>5, <1>6, <1>7, <1>8, <1>9, <1>10
<1> QED
  BY <1>11 DEF Fine

-----------------------------------------------------------------------------
(* The variables keep their types. *)

LEMMA SetModeFacts ==
    ASSUME TypeInv, NEW m \in Messages, SetMode(m) \/ UNCHANGED <<trace_mode, overtaken>>
    PROVE  trace_mode' \in Nat /\ overtaken' \in SUBSET Nat /\ overtaken \subseteq overtaken'
<1>1. \A h \in held : h.m \in Messages /\ h.m.id \in Nat
  BY DEF TypeInv, Messages
<1>2. m.mode \in Nat
  BY DEF Messages
<1>3. {h.m.id : h \in {k \in held : k.m.mode # m.mode}} \in SUBSET Nat
  BY <1>1
<1>4. CASE SetMode(m) /\ style = "arpc"
  BY <1>2, <1>3, <1>4 DEF TypeInv, SetMode
<1>5. CASE UNCHANGED <<trace_mode, overtaken>>
  BY <1>5 DEF TypeInv
<1> QED
  BY <1>4, <1>5 DEF SetMode

LEMMA RefusalFacts == ASSUME NEW m \in Messages, Refusal(m) # "none"
                      PROVE  Refusal(m) \in Stats \ {"SUCCESS"}
  BY DEF Refusal, Stats

\* What dispatch does with a call, whether it refuses it or runs its handler.
Replied(c, m, rs) ==
    /\ Answer(m, rs) /\ Send(c, rs)
    /\ held' \in {held, held \cup {[conn |-> c, m |-> m]}}
    /\ thrown' \in {thrown, thrown \cup {m.id}}
    /\ m.id \notin thrown' => Len(rs) <= 1 /\ (held' # held => rs = <<>>)

LEMMA Dispatched ==
    ASSUME TypeInv, NEW c \in Conns, NEW m \in Messages, Refuse(c, m) \/ Run(c, m)
    PROVE  /\ trace_mode' \in Nat /\ overtaken' \in SUBSET Nat
           /\ \E rs : Replied(c, m, rs)
<1>1. trace_mode' \in Nat /\ overtaken' \in SUBSET Nat
  <2>1. SetMode(m) \/ UNCHANGED <<trace_mode, overtaken>>
    BY DEF Refuse, Run
  <2> QED
    BY <2>1, SetModeFacts
<1>2. CASE Refuse(c, m)
  <2> DEFINE r == Reply(m, Refusal(m))
  <2>1. r \in Replies /\ r.id = m.id /\ r.mode = trace_mode' /\ r.asked = m.mode
    BY <1>1, <1>2, RefusalFacts, ReplyFacts DEF Refuse
  <2>2. Send(c, <<r>>) /\ held' = held /\ thrown' = thrown
    BY <1>2 DEF Refuse
  <2> HIDE DEF r
  <2>3. Answer(m, <<r>>) /\ Len(<<r>>) = 1
    BY <2>1 DEF Answer
  <2>4. PICK rs : rs = <<r>>
    OBVIOUS
  <2>5. Replied(c, m, rs)
    BY <2>2, <2>3, <2>4 DEF Replied
  <2> QED
    BY <1>1, <2>5
<1>3. CASE Run(c, m)
  <2>1. PICK o \in Outcomes(m) :
            /\ Send(c, o.replies)
            /\ held' = IF o.kept THEN held \cup {[conn |-> c, m |-> m]} ELSE held
            /\ thrown' = IF o.throws THEN thrown \cup {m.id} ELSE thrown
    BY <1>3 DEF Run
  <2>2. /\ Answer(m, o.replies) /\ o.kept \in BOOLEAN /\ o.throws \in BOOLEAN
        /\ ~o.throws => Len(o.replies) <= 1 /\ (o.kept => o.replies = <<>>)
    BY <1>1, OutcomeFacts
  <2>3. Replied(c, m, o.replies)
    BY <2>1, <2>2 DEF Replied
  <2> QED
    BY <1>1, <2>3
<1> QED
  BY <1>2, <1>3

LEMMA SendTypes ==
    ASSUME TypeInv, NEW c \in Conns, NEW rs \in Seq(Replies), Send(c, rs)
    PROVE  outq' \in [Conns -> Seq(Replies)] /\ sent' \in [Conns -> Seq(Replies)]
<1>1. \A s \in Seq(Replies) : s \o rs \in Seq(Replies)
  BY ConcatFacts
<1> QED
  BY <1>1 DEF TypeInv, Send

\* The message a server receives, and what is left behind it.
LEMMA InqFacts ==
    ASSUME TypeInv, NEW c \in Conns, inq[c] # <<>>
    PROVE  /\ Head(inq[c]) \in Messages \cup {Eof} /\ Head(inq[c]) = inq[c][1] /\ 1 \in DOMAIN inq[c]
           /\ Tail(inq[c]) \in Seq(Messages \cup {Eof})
           /\ \A i \in DOMAIN Tail(inq[c]) :
                i + 1 \in DOMAIN inq[c] /\ i + 1 # 1 /\ Tail(inq[c])[i] = inq[c][i + 1] /\ i \in Nat
<1>1. inq[c] \in Seq(Messages \cup {Eof})
  BY DEF TypeInv
<1> QED
  BY <1>1, TailFacts

\* The reply a client takes, and what is left behind it.
LEMMA OutqFacts ==
    ASSUME TypeInv, NEW c \in Conns, outq[c] # <<>>
    PROVE  /\ Head(outq[c]) \in Replies /\ Head(outq[c]) = outq[c][1] /\ 1 \in DOMAIN outq[c]
           /\ Tail(outq[c]) \in Seq(Replies)
           /\ \A i \in DOMAIN Tail(outq[c]) :
                i + 1 \in DOMAIN outq[c] /\ i + 1 # 1 /\ Tail(outq[c])[i] = outq[c][i + 1] /\ i \in Nat
<1>1. outq[c] \in Seq(Replies)
  BY DEF TypeInv
<1> QED
  BY <1>1, TailFacts

LEMMA ServerTypeStep ==
    ASSUME TypeInv, UNCHANGED clientVars, NEW c \in Conns, Served(c)
    PROVE  TypeInv'
<1> USE DEF clientVars
<1>1. CASE Accept(c)
  BY <1>1 DEF TypeInv, Accept, tallies
<1>2. CASE Receive(c)
  <2> DEFINE m == Head(inq[c])
  <2>1. m \in Messages \cup {Eof} /\ inq' \in [Conns -> Seq(Messages \cup {Eof})]
    <3>1. inq[c] # <<>> /\ inq' = [inq EXCEPT ![c] = Tail(@)]
      BY <1>2 DEF Receive
    <3> QED
      BY <3>1, InqFacts DEF TypeInv
  <2>2. m # Eof
    BY <1>2, EofFacts DEF Receive
  <2>3. CASE Ignore
    BY <1>2, <2>1, <2>3 DEF TypeInv, Receive, Ignore, tallies, connVars
  <2>4. CASE Refuse(c, m) \/ Run(c, m)
    <3>1. PICK rs : Replied(c, m, rs)
      BY <2>1, <2>2, <2>4, Dispatched
    <3>2. trace_mode' \in Nat /\ overtaken' \in SUBSET Nat
      BY <2>1, <2>2, <2>4, Dispatched
    <3>3. outq' \in [Conns -> Seq(Replies)] /\ sent' \in [Conns -> Seq(Replies)]
      BY <3>1, SendTypes DEF Replied, Answer
    <3>4. held' \in SUBSET [conn : Conns, m : Messages] /\ thrown' \in SUBSET Nat
      <4>1. [conn |-> c, m |-> m] \in [conn : Conns, m : Messages] /\ m.id \in Nat
        BY <2>1, <2>2, EofFacts
      <4> QED
        BY <3>1, <4>1 DEF Replied, TypeInv
    <3>5. executed' \in SUBSET Messages
      BY <2>1, <2>2, <2>4 DEF Refuse, Run, TypeInv
    <3> QED
      BY <1>2, <2>1, <3>2, <3>3, <3>4, <3>5 DEF TypeInv, Receive, connVars
  <2> QED
    BY <1>2, <2>3, <2>4 DEF Receive
<1>3. CASE ReceiveEnd(c)
  BY <1>3 DEF TypeInv, ReceiveEnd, Ignore, tallies
<1>4. CASE ReceiveOrphan(c)
  BY <1>4 DEF TypeInv, ReceiveOrphan, Ignore, tallies, connVars
<1> QED
  BY <1>1, <1>2, <1>3, <1>4 DEF Served

\* Using or dropping a reply_cb sends one reply, or none when the rpc_sock is gone.
LEMMA SettleFacts ==
    ASSUME TypeInv, NEW h \in held, Settle(h)
    PROVE  /\ h.conn \in Conns /\ h.m \in Messages /\ trace_mode' = trace_mode
           /\ UNCHANGED <<inq, thrown>>
           /\ held' = held \ {h}
           /\ \E rs : Answer(h.m, rs) /\ Len(rs) <= 1 /\ Send(h.conn, rs)
<1>1. h.conn \in Conns /\ h.m \in Messages /\ trace_mode' = trace_mode /\ trace_mode \in Nat
  BY DEF TypeInv, Settle
<1>2. UNCHANGED <<inq, thrown>> /\ held' = held \ {h}
  BY DEF Settle, tallies
<1>3. CASE \E r \in {Used(h.m), Unused(h.m)} : Send(h.conn, r)
  <2>1. PICK r \in {Reply(h.m, "SUCCESS"), Reply(h.m, "PROC_UNAVAIL")} : Send(h.conn, <<r>>)
    BY <1>3, Zenon DEF Used, Unused
  <2>2. r \in Replies /\ r.id = h.m.id /\ r.mode = trace_mode' /\ r.asked = h.m.mode
    <3>1. "SUCCESS" \in Stats /\ "PROC_UNAVAIL" \in Stats
      BY DEF Stats
    <3> QED
      BY <1>1, <3>1, ReplyFacts
  <2>3. Answer(h.m, <<r>>) /\ Len(<<r>>) = 1
    BY <2>2 DEF Answer
  <2>4. PICK rs : rs = <<r>>
    OBVIOUS
  <2>5. Answer(h.m, rs) /\ Len(rs) <= 1 /\ Send(h.conn, rs)
    BY <2>1, <2>3, <2>4
  <2> QED
    BY <1>1, <1>2, <2>5
<1>4. CASE UNCHANGED <<outq, sent>>
  <2>1. \A s \in Seq(Replies) : s \o <<>> = s
    OBVIOUS
  <2>2. Answer(h.m, <<>>) /\ Len(<<>>) = 0
    BY DEF Answer
  <2>3. Send(h.conn, <<>>)
    BY <1>1, <1>4, <2>1 DEF Send, TypeInv
  <2> QED
    BY <1>1, <1>2, <2>2, <2>3
<1> QED
  BY <1>3, <1>4 DEF Settle

\* A new message gets the next number.
LEMMA PostFacts ==
    ASSUME TypeInv, NEW c \in Conns, NEW m \in Messages, Post(c, m)
    PROVE  /\ ncalls' = ncalls + 1 /\ ncalls' \in 0..MaxCalls
           /\ by' \in Seq(Conns) /\ Len(by') = ncalls' /\ by'[ncalls'] = c
           /\ \A id \in 1..ncalls : by'[id] = by[id]
           /\ inq' \in [Conns -> Seq(Messages \cup {Eof})]
           /\ \A b \in Conns : b # c => inq'[b] = inq[b]
           /\ \A i \in DOMAIN inq'[c] :
                \/ i \in DOMAIN inq[c] /\ inq'[c][i] = inq[c][i]
                \/ /\ i = Len(inq[c]) + 1 /\ inq'[c][i] # Eof
                   /\ inq'[c][i].id = ncalls + 1 /\ i \notin DOMAIN inq[c]
<1>1. /\ ncalls \in Nat /\ MaxCalls \in Nat /\ ncalls' = ncalls + 1 /\ ncalls < MaxCalls
      /\ by \in Seq(Conns) /\ Len(by) = ncalls /\ by' = Append(by, c)
  BY CallAssumption DEF Post, TypeInv
<1>2. DOMAIN by = 1..ncalls
  BY <1>1
<1> DEFINE x == [m EXCEPT !.id = ncalls + 1]
<1>3. x \in Messages /\ x.id = ncalls + 1
  BY <1>1 DEF Messages
<1>4. inq' = [inq EXCEPT ![c] = Append(@, x)] /\ inq \in [Conns -> Seq(Messages \cup {Eof})]
  BY DEF Post, TypeInv
<1> HIDE DEF x
<1>5. x # Eof
  BY <1>3, EofFacts
<1>6. inq'[c] = Append(inq[c], x) /\ x \in Messages \cup {Eof} /\ inq[c] \in Seq(Messages \cup {Eof})
  BY <1>3, <1>4
<1>7. inq' \in [Conns -> Seq(Messages \cup {Eof})] /\ \A b \in Conns : b # c => inq'[b] = inq[b]
  BY <1>4, <1>6, AppendFacts
<1>8. /\ by' \in Seq(Conns) /\ Len(by') = ncalls' /\ by'[ncalls'] = c
      /\ \A id \in 1..ncalls : by'[id] = by[id]
  BY <1>1, <1>2, AppendFacts
<1> QED
  BY <1>1, <1>3, <1>5, <1>6, <1>7, <1>8, AppendFacts

\* What a client makes of a reply: it concludes a call, or none.
Taken(c, id, rs) ==
    /\ id \in waiting[c] /\ rs \in Seq(Results) /\ Conclude(c, id, rs)
    /\ kind[c] # "sync" => Head(outq[c]).id = id
    /\ Head(outq[c]).id = id => \A i \in DOMAIN rs : rs[i] \in {Head(outq[c]).stat, "GARBAGE_RES"}

LEMMA TakeFacts ==
    ASSUME TypeInv, NEW c \in Conns, Take(c)
    PROVE  /\ outq[c] # <<>> /\ outq' = [outq EXCEPT ![c] = Tail(@)]
           /\ UNCHANGED <<connVars, listener, inq, held, trace_mode, tallies, sent, kind, ncalls, by>>
           /\ client' \in {client, [client EXCEPT ![c] = "crashed"]}
           /\ kind[c] = "sync" => client' = client
           /\ \/ kind[c] # "sync" /\ UNCHANGED <<waiting, results>>
              \/ \E id, rs : Taken(c, id, rs)
<1> DEFINE r == Head(outq[c])
<1>1. /\ outq[c] # <<>> /\ outq' = [outq EXCEPT ![c] = Tail(@)]
      /\ UNCHANGED <<connVars, listener, inq, held, trace_mode, tallies, sent, kind, ncalls, by>>
  BY DEF Take
<1>2. r \in Replies /\ r.stat \in Results
  <2>1. r \in Replies
    BY <1>1, OutqFacts
  <2> QED
    BY <2>1 DEF Replies, Results
<1>3. "BAD_XID" \in Results /\ "GARBAGE_RES" \in Results /\ "SUCCESS" \in Results
  BY DEF Results, Stats
<1>4. CASE TakeSync(c)
  <2>1. PICK id \in waiting[c] : Conclude(c, id, <<SyncResult(r, id)>>)
    BY <1>4 DEF TakeSync
  <2>2. PICK rs : rs = <<SyncResult(r, id)>>
    OBVIOUS
  <2>3. SyncResult(r, id) \in Results /\ (r.id = id => SyncResult(r, id) = r.stat)
    BY <1>2, <1>3 DEF SyncResult
  <2>4. rs \in Seq(Results) /\ \A i \in DOMAIN rs : rs[i] = SyncResult(r, id)
    BY <2>2, <2>3
  <2>5. Taken(c, id, rs)
    <3>1. kind[c] = "sync" /\ Conclude(c, id, rs)
      BY <1>4, <2>1, <2>2 DEF TakeSync
    <3> QED
      BY <2>3, <2>4, <3>1 DEF Taken
  <2> QED
    BY <1>1, <1>4, <2>5 DEF TakeSync
<1>5. CASE TakeAsync(c)
  <2>1. CASE UNCHANGED <<client, waiting, results>>
    BY <1>1, <1>5, <2>1 DEF TakeAsync
  <2>2. ASSUME NEW id \in Match(c, r), Conclude(c, id, <<>>), client' = [client EXCEPT ![c] = "crashed"]
        PROVE  \E x, rs : Taken(c, x, rs)
    <3>1. id \in waiting[c] /\ r.id = id
      BY DEF Match
    <3>2. PICK rs : rs = <<>>
      OBVIOUS
    <3>3. rs \in Seq(Results) /\ DOMAIN rs = {}
      BY <3>2
    <3>4. Taken(c, id, rs)
      BY <2>2, <3>1, <3>2, <3>3 DEF Taken
    <3> QED
      BY <3>4
  <2>3. ASSUME NEW id \in Match(c, r), NEW throws \in BOOLEAN,
               Conclude(c, id, IF throws THEN <<r.stat, "GARBAGE_RES">> ELSE <<r.stat>>)
        PROVE  \E x, rs : Taken(c, x, rs)
    <3>1. id \in waiting[c] /\ r.id = id
      BY DEF Match
    <3>2. PICK rs : rs = IF throws THEN <<r.stat, "GARBAGE_RES">> ELSE <<r.stat>>
      OBVIOUS
    <3>3. rs \in Seq(Results) /\ \A i \in DOMAIN rs : rs[i] \in {r.stat, "GARBAGE_RES"}
      <4>1. CASE throws
        <5>1. rs = <<r.stat, "GARBAGE_RES">>
          BY <3>2, <4>1
        <5> QED
          BY <1>2, <1>3, <5>1
      <4>2. CASE ~throws
        <5>1. rs = <<r.stat>>
          BY <3>2, <4>2
        <5> QED
          BY <1>2, <1>3, <5>1
      <4> QED
        BY <4>1, <4>2
    <3>4. Conclude(c, id, rs)
      BY <2>3, <3>2
    <3>5. Taken(c, id, rs)
      BY <3>1, <3>3, <3>4 DEF Taken
    <3> QED
      BY <3>5
  <2>4. kind[c] # "sync"
    BY <1>5 DEF TakeAsync
  <2> QED
    BY <1>1, <1>5, <2>1, <2>2, <2>3, <2>4 DEF TakeAsync
<1>6. CASE TakeAlien(c)
  BY <1>1, <1>6 DEF TakeAlien
<1> QED
  BY <1>4, <1>5, <1>6 DEF Take

LEMMA TypeStep == TypeInv /\ [Next]_vars => TypeInv'
<1> SUFFICES ASSUME TypeInv, [Next]_vars PROVE TypeInv'
  OBVIOUS
<1>1. CASE UNCHANGED vars
  BY <1>1 DEF TypeInv, vars, serverVars, connVars, tallies, clientVars
<1>2. ASSUME UNCHANGED clientVars, NEW c \in Conns, Served(c) PROVE TypeInv'
  BY <1>2, ServerTypeStep
<1>3. ASSUME UNCHANGED clientVars, NEW h \in held, Settle(h) PROVE TypeInv'
  <2>1. PICK rs : Answer(h.m, rs) /\ Send(h.conn, rs)
    BY <1>3, SettleFacts
  <2>2. outq' \in [Conns -> Seq(Replies)] /\ sent' \in [Conns -> Seq(Replies)]
    BY <1>3, <2>1, SettleFacts, SendTypes DEF Answer
  <2> QED
    BY <1>3, <2>2 DEF TypeInv, Settle, clientVars, connVars, tallies
<1>4. ASSUME UNCHANGED clientVars, Owner PROVE TypeInv'
  BY <1>4 DEF TypeInv, Owner, DestroyListener, Register, clientVars, connVars, tallies
<1>a. \A s \in Seq(Results), t \in Seq(Results) : s \o t \in Seq(Results)
  BY ConcatFacts
<1>b. ASSUME NEW c \in Conns, FailAll(c)
      PROVE  waiting' \in [Conns -> SUBSET Nat] /\ results' \in [1..MaxCalls -> Seq(Results)]
  <2>1. "NETWORK_ERROR" \in Results
    BY DEF Results
  <2>2. \A s \in Seq(Results) : Append(s, "NETWORK_ERROR") \in Seq(Results)
    BY <2>1, AppendFacts
  <2> QED
    BY <1>b, <2>2 DEF FailAll, TypeInv
<1>5. ASSUME NEW c \in Conns, Invoke(c) \/ Provoke(c) PROVE TypeInv'
  <2>1. PICK m \in Messages : Post(c, m)
    BY <1>5, CallAssumption DEF Invoke, Provoke
  <2>2. /\ ncalls' = ncalls + 1 /\ ncalls' \in 0..MaxCalls /\ by' \in Seq(Conns) /\ Len(by') = ncalls'
        /\ inq' \in [Conns -> Seq(Messages \cup {Eof})]
    BY <2>1, PostFacts
  <2>3. waiting' \in [Conns -> SUBSET Nat]
    <3>1. ncalls' \in Nat /\ waiting \in [Conns -> SUBSET Nat]
      BY <2>2, CallAssumption DEF TypeInv
    <3>2. waiting' = waiting \/ waiting' = [waiting EXCEPT ![c] = @ \cup {ncalls'}]
      BY <1>5 DEF Invoke, Provoke
    <3>3. waiting[c] \cup {ncalls'} \in SUBSET Nat
      BY <3>1
    <3> QED
      BY <3>1, <3>2, <3>3, Zenon
  <2> QED
    BY <1>5, <2>2, <2>3 DEF TypeInv, Invoke, Provoke, connVars, tallies
<1>6. ASSUME NEW c \in Conns, Hangup(c) PROVE TypeInv'
  <2>1. inq' \in [Conns -> Seq(Messages \cup {Eof})]
    <3>1. \A s \in Seq(Messages \cup {Eof}) : Append(s, Eof) \in Seq(Messages \cup {Eof})
      BY AppendFacts
    <3> QED
      BY <1>6, <3>1 DEF TypeInv, Hangup, Eof
  <2> QED
    BY <1>6, <1>b, <2>1 DEF TypeInv, Hangup, connVars, tallies
<1>7. ASSUME NEW c \in Conns, Take(c) PROVE TypeInv'
  <2>1. outq' \in [Conns -> Seq(Replies)]
    <3>1. outq[c] # <<>> /\ outq' = [outq EXCEPT ![c] = Tail(@)]
      BY <1>7 DEF Take
    <3> QED
      BY <3>1, OutqFacts DEF TypeInv
  <2>2. waiting' \in [Conns -> SUBSET Nat] /\ results' \in [1..MaxCalls -> Seq(Results)]
    <3>1. CASE UNCHANGED <<waiting, results>>
      BY <3>1 DEF TypeInv
    <3>2. ASSUME NEW id, NEW rs, Taken(c, id, rs)
          PROVE  waiting' \in [Conns -> SUBSET Nat] /\ results' \in [1..MaxCalls -> Seq(Results)]
      BY <1>a, <3>2 DEF TypeInv, Taken, Conclude
    <3> QED
      BY <1>7, <3>1, <3>2, TakeFacts
  <2>3. client' \in [Conns -> {"on", "closed", "crashed"}]
    BY <1>7, TakeFacts DEF TypeInv
  <2> QED
    BY <1>7, <2>1, <2>2, <2>3 DEF TypeInv, Take, connVars, tallies
<1>8. ASSUME NEW c \in Conns, TakeEnd(c) PROVE TypeInv'
  BY <1>8, <1>b DEF TypeInv, TakeEnd, serverVars, connVars, tallies
<1> QED
  BY <1>1, <1>2, <1>3, <1>4, <1>5, <1>6, <1>7, <1>8 DEF Next, ServerNext, Settled

-----------------------------------------------------------------------------
(* Steps of the server. *)

\* After replies about one call.
LEMMA SendFacts ==
    ASSUME TypeInv, NEW c \in Conns, NEW m \in Messages, NEW rs, Answer(m, rs), Send(c, rs)
    PROVE  /\ \A b \in Conns : b # c => sent'[b] = sent[b] /\ outq'[b] = outq[b]
           /\ \A b \in Conns : \A i \in DOMAIN sent[b] : i \in DOMAIN sent'[b] /\ sent'[b][i] = sent[b][i]
           /\ \A i \in DOMAIN sent'[c] :
                \/ i \in DOMAIN sent[c] /\ sent'[c][i] = sent[c][i]
                \/ i \notin DOMAIN sent[c] /\ sent'[c][i].id = m.id /\ rs # <<>>
           /\ \A i \in DOMAIN outq'[c] :
                \/ i \in DOMAIN outq[c] /\ outq'[c][i] = outq[c][i]
                \/ /\ i \notin DOMAIN outq[c] /\ outq'[c][i].id = m.id /\ rs # <<>>
                   /\ \E k \in DOMAIN sent'[c] : outq'[c][i] = sent'[c][k]
           /\ Len(rs) <= 1 =>
                /\ \A i, j \in DOMAIN sent'[c] : i \notin DOMAIN sent[c] /\ j \notin DOMAIN sent[c] => i = j
                /\ \A i, j \in DOMAIN outq'[c] : i \notin DOMAIN outq[c] /\ j \notin DOMAIN outq[c] => i = j
<1>1. /\ sent[c] \in Seq(Replies) /\ outq[c] \in Seq(Replies) /\ rs \in Seq(Replies)
      /\ sent'[c] = sent[c] \o rs /\ outq'[c] = outq[c] \o rs
      /\ \A b \in Conns : b # c => sent'[b] = sent[b] /\ outq'[b] = outq[b]
  BY DEF TypeInv, Send, Answer
<1>2. \A i \in DOMAIN rs : rs[i].id = m.id /\ rs # <<>>
  BY <1>1 DEF Answer
<1>3. ASSUME NEW s \in Seq(Replies), NEW i \in DOMAIN (s \o rs)
      PROVE  \/ i \in DOMAIN s /\ (s \o rs)[i] = s[i]
             \/ i \notin DOMAIN s /\ i - Len(s) \in DOMAIN rs /\ (s \o rs)[i] = rs[i - Len(s)]
  BY <1>1, ConcatFacts
<1>4. ASSUME NEW s \in Seq(Replies), NEW i \in DOMAIN s
      PROVE  i \in DOMAIN (s \o rs) /\ (s \o rs)[i] = s[i]
  BY <1>1, ConcatFacts
<1>5. ASSUME NEW s \in Seq(Replies), Len(rs) <= 1,
             NEW i \in DOMAIN (s \o rs), NEW j \in DOMAIN (s \o rs), i \notin DOMAIN s, j \notin DOMAIN s
      PROVE  i = j
  <2>1. i - Len(s) \in DOMAIN rs /\ j - Len(s) \in DOMAIN rs
    BY <1>3, <1>5
  <2>2. DOMAIN rs = 1..Len(rs) /\ Len(rs) \in Nat /\ Len(s) \in Nat
    BY <1>1
  <2>3. i \in Nat /\ j \in Nat
    BY <1>1, ConcatFacts
  <2> QED
    BY <1>5, <2>1, <2>2, <2>3
<1>6. \A j \in DOMAIN rs : \E k \in DOMAIN (sent[c] \o rs) : (sent[c] \o rs)[k] = rs[j]
  BY <1>1, ConcatFacts
<1>7. \A b \in Conns : \A i \in DOMAIN sent[b] : i \in DOMAIN sent'[b] /\ sent'[b][i] = sent[b][i]
  <2> TAKE b \in Conns
  <2>1. CASE b = c
    BY <1>1, <1>4, <2>1
  <2>2. CASE b # c
    BY <1>1, <2>2
  <2> QED
    BY <2>1, <2>2
<1>8. \A i \in DOMAIN sent'[c] :
        \/ i \in DOMAIN sent[c] /\ sent'[c][i] = sent[c][i]
        \/ i \notin DOMAIN sent[c] /\ sent'[c][i].id = m.id /\ rs # <<>>
  BY <1>1, <1>2, <1>3
<1>9. \A i \in DOMAIN outq'[c] :
        \/ i \in DOMAIN outq[c] /\ outq'[c][i] = outq[c][i]
        \/ /\ i \notin DOMAIN outq[c] /\ outq'[c][i].id = m.id /\ rs # <<>>
           /\ \E k \in DOMAIN sent'[c] : outq'[c][i] = sent'[c][k]
  <2> TAKE i \in DOMAIN outq'[c]
  <2>1. \/ i \in DOMAIN outq[c] /\ outq'[c][i] = outq[c][i]
        \/ i \notin DOMAIN outq[c] /\ i - Len(outq[c]) \in DOMAIN rs /\ outq'[c][i] = rs[i - Len(outq[c])]
    BY <1>1, <1>3
  <2>2. \A j \in DOMAIN rs : \E k \in DOMAIN sent'[c] : sent'[c][k] = rs[j]
    BY <1>1, <1>6
  <2> QED
    BY <1>2, <2>1, <2>2
<1> QED
  BY <1>1, <1>5, <1>7, <1>8, <1>9

\* What the server has sent, and whose handlers have thrown, only grows.
Grows ==
    /\ thrown \subseteq thrown'
    /\ \A b \in Conns : \A i \in DOMAIN sent[b] : i \in DOMAIN sent'[b] /\ sent'[b][i] = sent[b][i]

LEMMA CleanBefore == ASSUME Grows, NEW c \in Conns, Clean(c)' PROVE Clean(c)
<1>1. \A i \in DOMAIN sent'[c] : sent'[c][i].id \notin thrown'
  BY DEF Clean
<1> QED
  BY <1>1 DEF Grows, Clean

LEMMA ToldServer == ASSUME Grows, ToldInv, UNCHANGED clientVars PROVE ToldInv'
<1> SUFFICES ASSUME NEW c \in Conns, Clean(c)', NEW id \in 1..ncalls, by[id] = c
             PROVE  Told(id)' \subseteq Sent(c, id)' \cup {"GARBAGE_RES", "NETWORK_ERROR"}
  BY DEF ToldInv, clientVars
<1>1. Told(id) \subseteq Sent(c, id) \cup {"GARBAGE_RES", "NETWORK_ERROR"}
  BY CleanBefore DEF ToldInv
<1>2. Told(id)' = Told(id)
  BY DEF Told, clientVars
<1>3. Sent(c, id) \subseteq Sent(c, id)'
  BY DEF Sent, Grows
<1> QED
  BY <1>1, <1>2, <1>3

Exchange == Owned /\ Fresh /\ Single /\ Lockstep

\* A message is received and replied to, or ignored.
LEMMA ReceiveKeeps ==
    ASSUME TypeInv, Exchange, NEW c \in Conns, NEW m \in Messages, NEW rs,
           inq[c] # <<>>, Head(inq[c]) = m, inq' = [inq EXCEPT ![c] = Tail(@)],
           Replied(c, m, rs), UNCHANGED clientVars
    PROVE  Exchange' /\ Grows
<1>a. inq[c][1] = m /\ 1 \in DOMAIN inq[c] /\ m # Eof
  BY InqFacts, EofFacts
<1>b. /\ \A b \in Conns : b # c => inq'[b] = inq[b]
      /\ \A i \in DOMAIN inq'[c] :
            i + 1 \in DOMAIN inq[c] /\ i + 1 # 1 /\ inq'[c][i] = inq[c][i + 1] /\ i \in Nat
  <2>1. inq'[c] = Tail(inq[c])
    BY DEF TypeInv
  <2> QED
    BY <2>1, InqFacts DEF TypeInv
<1>c. Answer(m, rs) /\ Send(c, rs)
  BY DEF Replied
<1>d. /\ held' \subseteq held \cup {[conn |-> c, m |-> m]} /\ held \subseteq held'
      /\ thrown' \subseteq thrown \cup {m.id} /\ thrown \subseteq thrown'
      /\ m.id \notin thrown' => Len(rs) <= 1 /\ (held' # held => rs = <<>>)
  BY DEF Replied
<1>e. /\ m.id \in Mine(c)
      /\ \A i \in DOMAIN inq[c] : i # 1 /\ inq[c][i] # Eof => inq[c][i].id # m.id
      /\ \A i \in DOMAIN sent[c] : sent[c][i].id # m.id
      /\ \A h \in held : h.m.id # m.id
  BY <1>a DEF Exchange, Owned, Fresh
<1>f. \A b \in Conns : Mine(b)' = Mine(b)
  BY DEF Mine, clientVars
<1>g. \A b \in Conns : b # c => m.id \notin Mine(b)
  BY <1>e DEF Mine
<1>h. \A h \in held' : h \in held \/ (h.conn = c /\ h.m = m)
  BY <1>d
<1>1. Grows
  BY <1>c, <1>d, SendFacts DEF Grows
<1>2. Owned'
  <2>1. ASSUME NEW b \in Conns
        PROVE  /\ \A i \in DOMAIN inq'[b] : inq'[b][i] # Eof => inq'[b][i].id \in Mine(b)
               /\ \A i \in DOMAIN sent'[b] : sent'[b][i].id \in Mine(b)
               /\ \A i \in DOMAIN outq'[b] : \E k \in DOMAIN sent'[b] : outq'[b][i] = sent'[b][k]
    <3>1. CASE b = c
      <4>1. \A i \in DOMAIN inq'[b] : inq'[b][i] # Eof => inq'[b][i].id \in Mine(b)
        BY <1>b, <3>1 DEF Exchange, Owned
      <4>2. \A i \in DOMAIN sent'[b] : sent'[b][i].id \in Mine(b)
        BY <1>c, <1>e, <3>1, SendFacts DEF Exchange, Owned
      <4>3. \A i \in DOMAIN outq'[b] : \E k \in DOMAIN sent'[b] : outq'[b][i] = sent'[b][k]
        BY <1>1, <1>c, <3>1, SendFacts DEF Exchange, Owned, Grows
      <4> QED
        BY <4>1, <4>2, <4>3
    <3>2. CASE b # c
      BY <1>b, <1>c, <3>2, SendFacts DEF Exchange, Owned
    <3> QED
      BY <3>1, <3>2
  <2>2. \A h \in held' : h.m.id \in Mine(h.conn) /\ h.conn \in Conns
    BY <1>e, <1>h DEF Exchange, Owned, TypeInv
  <2>3. UNCHANGED waiting
    BY DEF clientVars
  <2> QED
    BY <1>f, <2>1, <2>2, <2>3 DEF Exchange, Owned
<1>3. Fresh'
  <2> SUFFICES ASSUME NEW b \in Conns, NEW i \in DOMAIN inq'[b], inq'[b][i] # Eof
               PROVE  /\ \A j \in DOMAIN inq'[b] : j # i /\ inq'[b][j] # Eof => inq'[b][j].id # inq'[b][i].id
                      /\ \A j \in DOMAIN sent'[b] : sent'[b][j].id # inq'[b][i].id
                      /\ \A h \in held' : h.m.id # inq'[b][i].id
    BY DEF Fresh
  <2>1. CASE b = c
    <3>1. i + 1 \in DOMAIN inq[c] /\ i + 1 # 1 /\ inq'[c][i] = inq[c][i + 1] /\ inq[c][i + 1].id # m.id
      BY <1>b, <1>e, <2>1
    <3>2. ASSUME NEW j \in DOMAIN inq'[b], j # i, inq'[b][j] # Eof PROVE inq'[b][j].id # inq'[b][i].id
      <4>1. j + 1 \in DOMAIN inq[c] /\ inq'[c][j] = inq[c][j + 1] /\ j + 1 # i + 1
        BY <1>b, <2>1, <3>2
      <4> QED
        BY <2>1, <3>1, <3>2, <4>1 DEF Exchange, Fresh
    <3>3. \A j \in DOMAIN sent'[b] : sent'[b][j].id # inq'[b][i].id
      BY <1>c, <2>1, <3>1, SendFacts DEF Exchange, Fresh
    <3>4. \A h \in held' : h.m.id # inq'[b][i].id
      BY <1>h, <2>1, <3>1 DEF Exchange, Fresh
    <3> QED
      BY <3>2, <3>3, <3>4
  <2>2. CASE b # c
    <3>1. inq'[b] = inq[b] /\ sent'[b] = sent[b] /\ inq[b][i].id # m.id
      BY <1>b, <1>c, <1>g, <2>2, SendFacts DEF Exchange, Owned
    <3>2. \A h \in held : h.m.id # inq[b][i].id
      BY <3>1 DEF Exchange, Fresh
    <3>3. \A h \in held' : h.m.id # inq[b][i].id
      BY <1>h, <3>1, <3>2
    <3>4. /\ \A j \in DOMAIN inq[b] : j # i /\ inq[b][j] # Eof => inq[b][j].id # inq[b][i].id
          /\ \A j \in DOMAIN sent[b] : sent[b][j].id # inq[b][i].id
      BY <3>1 DEF Exchange, Fresh
    <3> QED
      BY <3>1, <3>3, <3>4
  <2> QED
    BY <2>1, <2>2
<1>4. Single'
  <2>1. OneReply'
    <3> SUFFICES ASSUME NEW b \in Conns, NEW i \in DOMAIN sent'[b], NEW j \in DOMAIN sent'[b],
                        i # j, sent'[b][i].id = sent'[b][j].id, sent'[b][i].id \notin thrown'
                 PROVE  FALSE
      BY DEF OneReply
    <3>1. ~(i \in DOMAIN sent[b] /\ j \in DOMAIN sent[b])
      BY <1>1 DEF Exchange, Single, OneReply, Grows
    <3>2. b = c
      BY <1>c, <3>1, SendFacts
    <3>3. i \notin DOMAIN sent[c] /\ j \notin DOMAIN sent[c] /\ sent'[b][i].id = m.id
      BY <1>c, <1>e, <3>1, <3>2, SendFacts
    <3> QED
      BY <1>c, <1>d, <3>2, <3>3, SendFacts
  <2>2. \A b \in Conns : \A i, j \in DOMAIN outq'[b] :
            i # j /\ outq'[b][i].id = outq'[b][j].id => outq'[b][i].id \in thrown'
    <3> SUFFICES ASSUME NEW b \in Conns, NEW i \in DOMAIN outq'[b], NEW j \in DOMAIN outq'[b],
                        i # j, outq'[b][i].id = outq'[b][j].id, outq'[b][i].id \notin thrown'
                 PROVE  FALSE
      OBVIOUS
    <3>1. b = c
      BY <1>1, <1>c, SendFacts DEF Exchange, Single, Grows
    <3>2. \A k \in DOMAIN outq[c] : outq[c][k].id # m.id
      BY <1>e DEF Exchange, Owned
    <3>3. ~(i \in DOMAIN outq[b] /\ j \in DOMAIN outq[b])
      BY <1>1, <1>c, <3>1, SendFacts DEF Exchange, Single, Grows
    <3>4. i \notin DOMAIN outq[c] /\ j \notin DOMAIN outq[c] /\ outq'[b][i].id = m.id
      BY <1>c, <3>1, <3>2, <3>3, SendFacts
    <3> QED
      BY <1>c, <1>d, <3>1, <3>4, SendFacts
  <2>3. ASSUME NEW h \in held'
        PROVE  /\ h.m.id \in thrown' \/ \A j \in DOMAIN sent'[h.conn] : sent'[h.conn][j].id # h.m.id
               /\ \A k \in held' : k.m.id = h.m.id => k = h
    <3>1. CASE h \in held
      <4>1. h.m.id # m.id /\ h.conn \in Conns
        BY <1>e, <3>1 DEF TypeInv
      <4>2. h.m.id \in thrown' \/ \A j \in DOMAIN sent'[h.conn] : sent'[h.conn][j].id # h.m.id
        <5>1. h.m.id \in thrown' \/ \A j \in DOMAIN sent[h.conn] : sent[h.conn][j].id # h.m.id
          BY <1>1, <3>1 DEF Exchange, Single, Grows
        <5>2. \A j \in DOMAIN sent'[h.conn] :
                sent'[h.conn][j].id = m.id \/ (j \in DOMAIN sent[h.conn] /\ sent'[h.conn][j] = sent[h.conn][j])
          BY <1>c, <4>1, SendFacts
        <5> QED
          BY <4>1, <5>1, <5>2
      <4>3. \A k \in held' : k.m.id = h.m.id => k = h
        BY <1>h, <3>1, <4>1 DEF Exchange, Single
      <4> QED
        BY <4>2, <4>3
    <3>2. CASE h \notin held
      <4>1. h = [conn |-> c, m |-> m] /\ h.conn = c /\ h.m = m
        BY <1>d, <3>2
      <4>2. \A k \in held' : k.m.id = h.m.id => k = h
        BY <1>d, <1>e, <4>1
      <4>3. ASSUME m.id \notin thrown' PROVE \A j \in DOMAIN sent'[c] : sent'[c][j].id # m.id
        <5>1. rs = <<>>
          BY <1>d, <3>2, <4>3
        <5> QED
          BY <1>c, <1>e, <5>1, SendFacts
      <4> QED
        BY <4>1, <4>2, <4>3
    <3> QED
      BY <3>1, <3>2
  <2> QED
    BY <2>1, <2>2, <2>3 DEF Single
<1>5. Lockstep'
  <2> SUFFICES ASSUME NEW b \in Conns, kind[b] = "sync", client[b] = "on"
               PROVE  /\ \A x, y \in waiting[b] : x = y
                      /\ Clean(b)' =>
                        /\ \A i \in DOMAIN inq'[b] : inq'[b][i] # Eof => inq'[b][i].id \in waiting[b]
                        /\ \A i \in DOMAIN outq'[b] : outq'[b][i].id \in waiting[b]
                        /\ \A h \in held' : h.conn = b => h.m.id \in waiting[b] \cup thrown'
    BY DEF Lockstep, clientVars
  <2>1. \A x, y \in waiting[b] : x = y
    BY DEF Exchange, Lockstep
  <2>2. ASSUME Clean(b)'
        PROVE  /\ \A i \in DOMAIN inq'[b] : inq'[b][i] # Eof => inq'[b][i].id \in waiting[b]
               /\ \A i \in DOMAIN outq'[b] : outq'[b][i].id \in waiting[b]
               /\ \A h \in held' : h.conn = b => h.m.id \in waiting[b] \cup thrown'
    <3>1. Clean(b)
      BY <1>1, <2>2, CleanBefore
    <3>2. CASE b = c
      <4>1. m.id \in waiting[b]
        BY <1>a, <3>1, <3>2 DEF Exchange, Lockstep
      <4>2. \A i \in DOMAIN inq'[b] : inq'[b][i] # Eof => inq'[b][i].id \in waiting[b]
        BY <1>b, <3>1, <3>2 DEF Exchange, Lockstep
      <4>3. \A i \in DOMAIN outq'[b] : outq'[b][i].id \in waiting[b]
        BY <1>c, <3>1, <3>2, <4>1, SendFacts DEF Exchange, Lockstep
      <4>4. \A h \in held' : h.conn = b => h.m.id \in waiting[b] \cup thrown'
        BY <1>d, <1>h, <3>1, <4>1 DEF Exchange, Lockstep
      <4> QED
        BY <4>2, <4>3, <4>4
    <3>3. CASE b # c
      <4>1. inq'[b] = inq[b] /\ outq'[b] = outq[b]
        BY <1>b, <1>c, <3>3, SendFacts
      <4> QED
        BY <1>d, <1>h, <3>1, <3>3, <4>1 DEF Exchange, Lockstep
    <3> QED
      BY <3>2, <3>3
  <2> QED
    BY <2>1, <2>2
<1> QED
  BY <1>1, <1>2, <1>3, <1>4, <1>5 DEF Exchange

\* A reply_cb that was kept is used or dropped.
LEMMA SettleKeeps ==
    ASSUME TypeInv, Exchange, NEW h \in held, Settle(h), UNCHANGED clientVars
    PROVE  Exchange' /\ Grows
<1> DEFINE c == h.conn
           m == h.m
<1>a. c \in Conns /\ m \in Messages /\ inq' = inq /\ thrown' = thrown /\ held' = held \ {h}
  BY SettleFacts
<1>b. PICK rs : Answer(m, rs) /\ Len(rs) <= 1 /\ Send(c, rs)
  BY SettleFacts
<1>c. /\ m.id \in Mine(c)
      /\ m.id \in thrown \/ \A j \in DOMAIN sent[c] : sent[c][j].id # m.id
      /\ \A k \in held : k.m.id = m.id => k = h
  BY DEF Exchange, Owned, Single
<1>d. \A b \in Conns : Mine(b)' = Mine(b)
  BY DEF Mine, clientVars
<1>e. \A b \in Conns : \A i \in DOMAIN inq[b] : inq[b][i] # Eof => inq[b][i].id # m.id
  BY DEF Exchange, Fresh
<1> HIDE DEF c, m
<1>1. Grows
  BY <1>a, <1>b, SendFacts DEF Grows
<1>2. Owned'
  <2>1. ASSUME NEW b \in Conns
        PROVE  /\ \A i \in DOMAIN sent'[b] : sent'[b][i].id \in Mine(b)
               /\ \A i \in DOMAIN outq'[b] : \E k \in DOMAIN sent'[b] : outq'[b][i] = sent'[b][k]
    <3>1. CASE b = c
      <4>1. \A i \in DOMAIN sent'[b] : sent'[b][i].id \in Mine(b)
        BY <1>a, <1>b, <1>c, <3>1, SendFacts DEF Exchange, Owned
      <4>2. \A i \in DOMAIN outq'[b] : \E k \in DOMAIN sent'[b] : outq'[b][i] = sent'[b][k]
        BY <1>1, <1>a, <1>b, <3>1, SendFacts DEF Exchange, Owned, Grows
      <4> QED
        BY <4>1, <4>2
    <3>2. CASE b # c
      BY <1>a, <1>b, <3>2, SendFacts DEF Exchange, Owned
    <3> QED
      BY <3>1, <3>2
  <2>2. \A k \in held' : k.m.id \in Mine(k.conn) /\ k.conn \in Conns
    BY <1>a DEF Exchange, Owned, TypeInv
  <2>3. UNCHANGED waiting
    BY DEF clientVars
  <2> QED
    BY <1>a, <1>d, <2>1, <2>2, <2>3 DEF Exchange, Owned
<1>3. Fresh'
  <2> SUFFICES ASSUME NEW b \in Conns, NEW i \in DOMAIN inq[b], inq[b][i] # Eof
               PROVE  /\ \A j \in DOMAIN inq[b] : j # i /\ inq[b][j] # Eof => inq[b][j].id # inq[b][i].id
                      /\ \A j \in DOMAIN sent'[b] : sent'[b][j].id # inq[b][i].id
                      /\ \A k \in held' : k.m.id # inq[b][i].id
    BY <1>a DEF Fresh
  <2>1. /\ \A j \in DOMAIN inq[b] : j # i /\ inq[b][j] # Eof => inq[b][j].id # inq[b][i].id
        /\ \A j \in DOMAIN sent[b] : sent[b][j].id # inq[b][i].id
        /\ \A k \in held : k.m.id # inq[b][i].id
    BY DEF Exchange, Fresh
  <2>2. \A j \in DOMAIN sent'[b] :
            sent'[b][j].id = m.id \/ (j \in DOMAIN sent[b] /\ sent'[b][j] = sent[b][j])
    BY <1>a, <1>b, SendFacts
  <2> QED
    BY <1>a, <1>e, <2>1, <2>2
<1>4. Single'
  <2>1. OneReply'
    <3> SUFFICES ASSUME NEW b \in Conns, NEW i \in DOMAIN sent'[b], NEW j \in DOMAIN sent'[b],
                        i # j, sent'[b][i].id = sent'[b][j].id, sent'[b][i].id \notin thrown
                 PROVE  FALSE
      BY <1>a DEF OneReply
    <3>1. ~(i \in DOMAIN sent[b] /\ j \in DOMAIN sent[b])
      BY <1>1 DEF Exchange, Single, OneReply, Grows
    <3>2. b = c
      BY <1>a, <1>b, <3>1, SendFacts
    <3>3. i \notin DOMAIN sent[c] /\ j \notin DOMAIN sent[c]
      BY <1>a, <1>b, <1>c, <3>1, <3>2, SendFacts
    <3> QED
      BY <1>a, <1>b, <3>2, <3>3, SendFacts
  <2>2. \A b \in Conns : \A i, j \in DOMAIN outq'[b] :
            i # j /\ outq'[b][i].id = outq'[b][j].id => outq'[b][i].id \in thrown'
    <3> SUFFICES ASSUME NEW b \in Conns, NEW i \in DOMAIN outq'[b], NEW j \in DOMAIN outq'[b],
                        i # j, outq'[b][i].id = outq'[b][j].id, outq'[b][i].id \notin thrown
                 PROVE  FALSE
      BY <1>a
    <3>1. b = c
      BY <1>a, <1>b, SendFacts DEF Exchange, Single
    <3>2. \A k \in DOMAIN outq[c] : outq[c][k].id \in thrown \/ outq[c][k].id # m.id
      BY <1>a, <1>c DEF Exchange, Owned
    <3>3. ~(i \in DOMAIN outq[b] /\ j \in DOMAIN outq[b])
      BY <1>a, <1>b, <3>1, SendFacts DEF Exchange, Single
    <3>4. i \notin DOMAIN outq[c] /\ j \notin DOMAIN outq[c]
      BY <1>a, <1>b, <3>1, <3>2, <3>3, SendFacts
    <3> QED
      BY <1>a, <1>b, <3>1, <3>4, SendFacts
  <2>3. ASSUME NEW k \in held'
        PROVE  /\ k.m.id \in thrown' \/ \A j \in DOMAIN sent'[k.conn] : sent'[k.conn][j].id # k.m.id
               /\ \A l \in held' : l.m.id = k.m.id => l = k
    <3>1. k \in held /\ k.m.id # m.id /\ k.conn \in Conns
      BY <1>a, <1>c DEF TypeInv
    <3>2. \A j \in DOMAIN sent'[k.conn] :
            sent'[k.conn][j].id = m.id \/ (j \in DOMAIN sent[k.conn] /\ sent'[k.conn][j] = sent[k.conn][j])
      BY <1>a, <1>b, <3>1, SendFacts
    <3>3. k.m.id \in thrown \/ \A j \in DOMAIN sent[k.conn] : sent[k.conn][j].id # k.m.id
      BY <3>1 DEF Exchange, Single
    <3>4. \A l \in held' : l.m.id = k.m.id => l = k
      BY <1>a, <3>1 DEF Exchange, Single
    <3> QED
      BY <1>a, <3>1, <3>2, <3>3, <3>4
  <2> QED
    BY <2>1, <2>2, <2>3 DEF Single
<1>5. Lockstep'
  <2> SUFFICES ASSUME NEW b \in Conns, kind[b] = "sync", client[b] = "on"
               PROVE  /\ \A x, y \in waiting[b] : x = y
                      /\ Clean(b)' =>
                        /\ \A i \in DOMAIN inq[b] : inq[b][i] # Eof => inq[b][i].id \in waiting[b]
                        /\ \A i \in DOMAIN outq'[b] : outq'[b][i].id \in waiting[b]
                        /\ \A k \in held' : k.conn = b => k.m.id \in waiting[b] \cup thrown
    BY <1>a DEF Lockstep, clientVars
  <2>1. \A x, y \in waiting[b] : x = y
    BY DEF Exchange, Lockstep
  <2>2. ASSUME Clean(b)'
        PROVE  /\ \A i \in DOMAIN inq[b] : inq[b][i] # Eof => inq[b][i].id \in waiting[b]
               /\ \A i \in DOMAIN outq'[b] : outq'[b][i].id \in waiting[b]
               /\ \A k \in held' : k.conn = b => k.m.id \in waiting[b] \cup thrown
    <3>1. Clean(b)
      BY <1>1, <2>2, CleanBefore
    <3>2. ASSUME NEW i \in DOMAIN outq'[b] PROVE outq'[b][i].id \in waiting[b]
      <4>1. CASE i \in DOMAIN outq[b] /\ outq'[b][i] = outq[b][i]
        BY <3>1, <4>1 DEF Exchange, Lockstep
      <4>2. CASE b = c /\ outq'[c][i].id = m.id
        <5>1. m.id \in waiting[b] \cup thrown
          BY <3>1, <4>2 DEF Exchange, Lockstep, c, m
        <5>2. outq'[b][i].id \notin thrown
          BY <1>2, <1>a, <2>2 DEF Owned, Clean
        <5> QED
          BY <4>2, <5>1, <5>2
      <4> QED
        BY <1>a, <1>b, <4>1, <4>2, SendFacts
    <3>3. /\ \A i \in DOMAIN inq[b] : inq[b][i] # Eof => inq[b][i].id \in waiting[b]
          /\ \A k \in held' : k.conn = b => k.m.id \in waiting[b] \cup thrown
      BY <1>a, <3>1 DEF Exchange, Lockstep
    <3> QED
      BY <3>2, <3>3
  <2> QED
    BY <2>1, <2>2
<1> QED
  BY <1>1, <1>2, <1>3, <1>4, <1>5 DEF Exchange

\* What is queued on c is dropped, or nothing of all this changes.
LEMMA DropKeeps ==
    ASSUME TypeInv, Exchange, UNCHANGED <<outq, sent, held, thrown>>, UNCHANGED clientVars,
           inq' = inq \/ \E c \in Conns : inq' = [inq EXCEPT ![c] = <<>>]
    PROVE  Exchange' /\ Grows
<1>1. \A b : Mine(b)' = Mine(b) /\ (Clean(b)' <=> Clean(b))
  BY DEF Mine, Clean, clientVars
<1>2. \A b \in Conns : \A i \in DOMAIN inq'[b] : inq'[b] = inq[b]
  BY DEF TypeInv
<1>3. Grows
  BY DEF Grows
<1>4. Owned'
  BY <1>1, <1>2 DEF Exchange, Owned, clientVars
<1>5. Fresh'
  BY <1>2 DEF Exchange, Fresh
<1>6. Single'
  BY DEF Exchange, Single, OneReply
<1>7. Lockstep'
  BY <1>1, <1>2 DEF Exchange, Lockstep, clientVars
<1> QED
  BY <1>3, <1>4, <1>5, <1>6, <1>7 DEF Exchange

LEMMA ServerKeeps == ASSUME TypeInv, Exchange, ServerNext PROVE Exchange' /\ Grows
<1>0. UNCHANGED clientVars
  BY DEF ServerNext
<1>1. ASSUME NEW c \in Conns, Receive(c) PROVE Exchange' /\ Grows
  <2> DEFINE m == Head(inq[c])
  <2>1. inq[c] # <<>> /\ inq' = [inq EXCEPT ![c] = Tail(@)] /\ m.type # "eof"
    BY <1>1 DEF Receive
  <2>2. m \in Messages
    BY <2>1, InqFacts, EofFacts
  <2>3. \E rs : Replied(c, m, rs)
    <3>1. CASE Ignore
      <4>1. \A s \in Seq(Replies) : s \o <<>> = s
        OBVIOUS
      <4>2. Send(c, <<>>)
        BY <3>1, <4>1 DEF Ignore, Send, TypeInv
      <4>3. Answer(m, <<>>) /\ Len(<<>>) = 0
        BY DEF Answer
      <4>4. Replied(c, m, <<>>)
        BY <3>1, <4>2, <4>3 DEF Replied, Ignore, tallies
      <4> QED
        BY <4>4
    <3>2. CASE Refuse(c, m) \/ Run(c, m)
      BY <2>2, <3>2, Dispatched
    <3> QED
      BY <1>1, <3>1, <3>2 DEF Receive
  <2> QED
    BY <1>0, <2>1, <2>2, <2>3, ReceiveKeeps
<1>2. ASSUME NEW c \in Conns, Accept(c) \/ ReceiveEnd(c) \/ ReceiveOrphan(c) PROVE Exchange' /\ Grows
  <2>1. UNCHANGED <<outq, sent, held, thrown>> /\ (inq' = inq \/ inq' = [inq EXCEPT ![c] = <<>>])
    BY <1>2 DEF Accept, ReceiveEnd, ReceiveOrphan, Ignore, tallies
  <2> QED
    BY <1>0, <2>1, DropKeeps
<1>3. ASSUME NEW h \in held, Settle(h) PROVE Exchange' /\ Grows
  BY <1>0, <1>3, SettleKeeps
<1>4. ASSUME Owner PROVE Exchange' /\ Grows
  <2>1. UNCHANGED <<outq, sent, held, thrown, inq>>
    BY <1>4 DEF Owner, DestroyListener, Register, tallies
  <2> QED
    BY <1>0, <2>1, DropKeeps
<1> QED
  BY <1>1, <1>2, <1>3, <1>4 DEF ServerNext, Settled, Served

-----------------------------------------------------------------------------
(* Steps of the clients: the server's side of things does not change. *)

ServerStill == UNCHANGED <<held, thrown, sent>>

LEMMA PostKeeps ==
    ASSUME TypeInv, Exchange, ToldInv, NEW c \in Conns, NEW m \in Messages, Post(c, m),
           ServerStill, UNCHANGED <<outq, kind, client, results>>,
           \/ kind[c] # "sync" /\ waiting' = waiting
           \/ /\ waiting' = [waiting EXCEPT ![c] = @ \cup {ncalls'}]
              /\ kind[c] = "sync" => waiting[c] = {}
    PROVE  Exchange' /\ ToldInv'
<1> DEFINE n == ncalls + 1
<1>a. /\ ncalls \in Nat /\ ncalls' = n /\ n \in Nat /\ n \in 1..MaxCalls
      /\ by'[n] = c /\ \A id \in 1..ncalls : by'[id] = by[id]
      /\ \A b \in Conns : b # c => inq'[b] = inq[b]
      /\ \A i \in DOMAIN inq'[c] :
            \/ i \in DOMAIN inq[c] /\ inq'[c][i] = inq[c][i]
            \/ i = Len(inq[c]) + 1 /\ inq'[c][i] # Eof /\ inq'[c][i].id = n /\ i \notin DOMAIN inq[c]
  <2>1. ncalls \in Nat /\ MaxCalls \in Nat /\ ncalls' = ncalls + 1 /\ ncalls' \in 0..MaxCalls
    BY PostFacts, CallAssumption DEF TypeInv
  <2>2. n \in Nat /\ n \in 1..MaxCalls
    BY <2>1
  <2> QED
    BY <2>1, <2>2, PostFacts
<1>b. \A b : Mine(b) \subseteq Mine(b)' /\ n \notin Mine(b)
  BY <1>a DEF Mine
<1>c. n \in Mine(c)'
  BY <1>a DEF Mine
<1>d. /\ \A b \in Conns : b # c => waiting'[b] = waiting[b]
      /\ waiting'[c] \in {waiting[c], waiting[c] \cup {n}}
      /\ kind[c] = "sync" => waiting[c] = {} /\ waiting'[c] = {n}
  BY <1>a DEF TypeInv
<1>e. \A b \in Conns : Clean(b)' <=> Clean(b)
  BY DEF Clean, ServerStill
<1> HIDE DEF n
<1>1. Owned'
  <2>1. ASSUME NEW b \in Conns
        PROVE  /\ \A i \in DOMAIN inq'[b] : inq'[b][i] # Eof => inq'[b][i].id \in Mine(b)'
               /\ waiting'[b] \subseteq Mine(b)'
    <3>1. CASE b = c
      BY <1>a, <1>b, <1>c, <1>d, <3>1 DEF Exchange, Owned
    <3>2. CASE b # c
      BY <1>a, <1>b, <1>d, <3>2 DEF Exchange, Owned
    <3> QED
      BY <3>1, <3>2
  <2>2. ASSUME NEW b \in Conns
        PROVE  /\ \A i \in DOMAIN sent'[b] : sent'[b][i].id \in Mine(b)'
               /\ \A i \in DOMAIN outq'[b] : \E k \in DOMAIN sent'[b] : outq'[b][i] = sent'[b][k]
    BY <1>b DEF Exchange, Owned, ServerStill
  <2>3. \A h \in held' : h.m.id \in Mine(h.conn)'
    BY <1>b DEF Exchange, Owned, ServerStill
  <2> QED
    BY <2>1, <2>2, <2>3 DEF Owned
<1>2. Fresh'
  <2> SUFFICES ASSUME NEW b \in Conns, NEW i \in DOMAIN inq'[b], inq'[b][i] # Eof
               PROVE  /\ \A j \in DOMAIN inq'[b] : j # i /\ inq'[b][j] # Eof => inq'[b][j].id # inq'[b][i].id
                      /\ \A j \in DOMAIN sent[b] : sent[b][j].id # inq'[b][i].id
                      /\ \A h \in held : h.m.id # inq'[b][i].id
    BY DEF Fresh, ServerStill
  <2>1. CASE i \in DOMAIN inq[b] /\ inq'[b][i] = inq[b][i]
    <3>1. /\ \A j \in DOMAIN inq[b] : j # i /\ inq[b][j] # Eof => inq[b][j].id # inq[b][i].id
          /\ \A j \in DOMAIN sent[b] : sent[b][j].id # inq[b][i].id
          /\ \A h \in held : h.m.id # inq[b][i].id
          /\ inq[b][i].id # n
      BY <1>b, <2>1 DEF Exchange, Fresh, Owned
    <3>2. \A j \in DOMAIN inq'[b] : (j \in DOMAIN inq[b] /\ inq'[b][j] = inq[b][j]) \/ inq'[b][j].id = n
      BY <1>a
    <3> QED
      BY <2>1, <3>1, <3>2
  <2>2. CASE b = c /\ i = Len(inq[c]) + 1 /\ inq'[c][i].id = n
    <3>1. \A j \in DOMAIN inq'[b] : j # i =>
            j \in DOMAIN inq[b] /\ inq'[b][j] = inq[b][j]
      BY <1>a, <2>2
    <3>2. \A j \in DOMAIN inq[b] : inq[b][j] # Eof => inq[b][j].id # n
      BY <1>b DEF Exchange, Owned
    <3>3. \A j \in DOMAIN sent[b] : sent[b][j].id # n
      BY <1>b DEF Exchange, Owned
    <3>4. \A h \in held : h.m.id # n
      BY <1>b DEF Exchange, Owned
    <3> QED
      BY <2>2, <3>1, <3>2, <3>3, <3>4
  <2> QED
    BY <1>a, <2>1, <2>2
<1>3. Single'
  BY DEF Exchange, Single, OneReply, ServerStill
<1>4. Lockstep'
  <2> SUFFICES ASSUME NEW b \in Conns, kind[b] = "sync", client[b] = "on"
               PROVE  /\ \A x, y \in waiting'[b] : x = y
                      /\ Clean(b) =>
                        /\ \A i \in DOMAIN inq'[b] : inq'[b][i] # Eof => inq'[b][i].id \in waiting'[b]
                        /\ \A i \in DOMAIN outq[b] : outq[b][i].id \in waiting'[b]
                        /\ \A h \in held : h.conn = b => h.m.id \in waiting'[b] \cup thrown
    BY <1>e DEF Lockstep, ServerStill
  <2>1. CASE b = c
    BY <1>a, <1>d, <2>1 DEF Exchange, Lockstep
  <2>2. CASE b # c
    BY <1>a, <1>d, <2>2 DEF Exchange, Lockstep
  <2> QED
    BY <2>1, <2>2
<1>5. ToldInv'
  <2>1. \A id \in 1..MaxCalls : id > ncalls' => results'[id] = <<>>
    BY <1>a DEF ToldInv, n
  <2>2. ASSUME NEW b \in Conns, Clean(b)', NEW id \in 1..ncalls', by'[id] = b
        PROVE  Told(id)' \subseteq Sent(b, id)' \cup {"GARBAGE_RES", "NETWORK_ERROR"}
    <3>1. Told(id)' = Told(id) /\ Sent(b, id)' = Sent(b, id)
      BY DEF Told, Sent, ServerStill
    <3>2. CASE id \in 1..ncalls
      BY <1>a, <1>e, <2>2, <3>1, <3>2 DEF ToldInv
    <3>3. CASE id = n
      <4>1. results[id] = <<>>
        BY <1>a, <3>3 DEF ToldInv, n
      <4>2. Told(id) = {}
        BY <4>1 DEF Told
      <4> QED
        BY <3>1, <4>2
    <3> QED
      BY <1>a, <3>2, <3>3 DEF n
  <2> QED
    BY <2>1, <2>2 DEF ToldInv
<1> QED
  BY <1>1, <1>2, <1>3, <1>4, <1>5 DEF Exchange

\* The end of a client, or of its connection.
LEMMA FailKeeps ==
    ASSUME TypeInv, Exchange, ToldInv, NEW c \in Conns, FailAll(c), ServerStill,
           UNCHANGED <<outq, kind, ncalls, by>>,
           \E x \in {"closed", "crashed"} : client' = [client EXCEPT ![c] = x],
           inq' = inq \/ inq' = [inq EXCEPT ![c] = Append(@, Eof)]
    PROVE  Exchange' /\ ToldInv'
<1>a. /\ \A b \in Conns : b # c => inq'[b] = inq[b] /\ client'[b] = client[b] /\ waiting'[b] = waiting[b]
      /\ client'[c] # "on" /\ waiting'[c] = {}
  BY DEF TypeInv, FailAll
<1>b. \A i \in DOMAIN inq'[c] : inq'[c][i] # Eof => i \in DOMAIN inq[c] /\ inq'[c][i] = inq[c][i]
  <2>1. CASE inq' = inq
    BY <2>1
  <2>2. CASE inq' = [inq EXCEPT ![c] = Append(@, Eof)]
    <3>1. inq[c] \in Seq(Messages \cup {Eof}) /\ inq'[c] = Append(inq[c], Eof)
      BY <2>2 DEF TypeInv
    <3> QED
      BY <3>1, AppendFacts
  <2> QED
    BY <2>1, <2>2
<1>c. \A b : Mine(b)' = Mine(b) /\ (Clean(b)' <=> Clean(b))
  BY DEF Mine, Clean, ServerStill
<1>d. \A b \in Conns : \A i \in DOMAIN inq'[b] :
        inq'[b][i] # Eof => i \in DOMAIN inq[b] /\ inq'[b][i] = inq[b][i]
  BY <1>a, <1>b
<1>1. Owned'
  BY <1>a, <1>c, <1>d DEF Exchange, Owned, ServerStill
<1>2. Fresh'
  BY <1>d DEF Exchange, Fresh, ServerStill
<1>3. Single'
  BY DEF Exchange, Single, OneReply, ServerStill
<1>4. Lockstep'
  BY <1>a, <1>c DEF Exchange, Lockstep, ServerStill
<1>5. ToldInv'
  <2>a. \A id \in 1..MaxCalls : results'[id] =
            IF id \in waiting[c] THEN Append(results[id], "NETWORK_ERROR") ELSE results[id]
    BY DEF TypeInv, FailAll
  <2>b. waiting[c] \subseteq 1..ncalls
    BY DEF Exchange, Owned, Mine
  <2>1. \A id \in 1..MaxCalls : id > ncalls' => results'[id] = <<>>
    BY <2>a, <2>b DEF ToldInv, TypeInv
  <2>2. ASSUME NEW b \in Conns, Clean(b)', NEW id \in 1..ncalls, by[id] = b
        PROVE  Told(id)' \subseteq Sent(b, id)' \cup {"GARBAGE_RES", "NETWORK_ERROR"}
    <3>1. Sent(b, id)' = Sent(b, id)
      BY DEF Sent, ServerStill
    <3>2. Told(id) \subseteq Sent(b, id) \cup {"GARBAGE_RES", "NETWORK_ERROR"}
      BY <1>c, <2>2 DEF ToldInv
    <3>3. id \in 1..MaxCalls /\ results[id] \in Seq(Results)
      BY CallAssumption DEF TypeInv
    <3>4. Told(id)' \subseteq Told(id) \cup {"NETWORK_ERROR"}
      <4>1. "NETWORK_ERROR" \in Results
        BY DEF Results
      <4>2. \A i \in DOMAIN results'[id] :
                results'[id][i] = "NETWORK_ERROR" \/ (i \in DOMAIN results[id] /\ results'[id][i] = results[id][i])
        <5>1. CASE results'[id] = results[id]
          BY <5>1
        <5>2. CASE results'[id] = Append(results[id], "NETWORK_ERROR")
          BY <3>3, <4>1, <5>2, AppendFacts
        <5> QED
          BY <2>a, <3>3, <5>1, <5>2
      <4> QED
        BY <4>2 DEF Told
    <3> QED
      BY <3>1, <3>2, <3>4
  <2> QED
    BY <2>1, <2>2 DEF ToldInv
<1> QED
  BY <1>1, <1>2, <1>3, <1>4, <1>5 DEF Exchange

LEMMA TakeKeeps ==
    ASSUME TypeInv, Exchange, ToldInv, NEW c \in Conns, Take(c)
    PROVE  Exchange' /\ ToldInv'
<1> DEFINE r == Head(outq[c])
<1>a. /\ outq[c] # <<>> /\ outq' = [outq EXCEPT ![c] = Tail(@)]
      /\ UNCHANGED <<inq, held, thrown, sent, kind, ncalls, by>>
      /\ client' \in {client, [client EXCEPT ![c] = "crashed"]}
      /\ kind[c] = "sync" => client' = client
      /\ \/ kind[c] # "sync" /\ UNCHANGED <<waiting, results>>
         \/ \E id, rs : Taken(c, id, rs)
  BY TakeFacts DEF tallies
<1>b. /\ r = outq[c][1] /\ 1 \in DOMAIN outq[c]
      /\ \A i \in DOMAIN outq'[c] :
            i + 1 \in DOMAIN outq[c] /\ i + 1 # 1 /\ outq'[c][i] = outq[c][i + 1] /\ i \in Nat
      /\ \A b \in Conns : b # c => outq'[b] = outq[b]
  <2>1. outq'[c] = Tail(outq[c])
    BY <1>a DEF TypeInv
  <2> QED
    BY <1>a, <2>1, OutqFacts DEF TypeInv
<1>c. \A b : Mine(b)' = Mine(b) /\ (Clean(b)' <=> Clean(b))
  BY <1>a DEF Mine, Clean
<1>d. \A b \in Conns : waiting'[b] \subseteq waiting[b] /\ (b # c => waiting'[b] = waiting[b] /\ client'[b] = client[b])
  BY <1>a DEF Taken, Conclude, TypeInv
<1>e. PICK k \in DOMAIN sent[c] : sent[c][k] = r
  BY <1>b DEF Exchange, Owned
<1> HIDE DEF r
<1>1. Owned'
  <2>1. \A b \in Conns : \A i \in DOMAIN outq'[b] : \E l \in DOMAIN sent[b] : outq'[b][i] = sent[b][l]
    BY <1>b DEF Exchange, Owned
  <2> QED
    BY <1>a, <1>c, <1>d, <2>1 DEF Exchange, Owned
<1>2. Fresh'
  BY <1>a DEF Exchange, Fresh
<1>3. Single'
  <2>1. OneReply'
    BY <1>a DEF Exchange, Single, OneReply
  <2>2. ASSUME NEW b \in Conns, NEW i \in DOMAIN outq'[b], NEW j \in DOMAIN outq'[b],
               i # j, outq'[b][i].id = outq'[b][j].id
        PROVE  outq'[b][i].id \in thrown
    <3>1. CASE b = c
      <4>1. i + 1 \in DOMAIN outq[c] /\ j + 1 \in DOMAIN outq[c] /\ i + 1 # j + 1
        BY <1>b, <2>2, <3>1
      <4> QED
        BY <1>b, <2>2, <3>1, <4>1 DEF Exchange, Single
    <3>2. CASE b # c
      BY <1>b, <2>2, <3>2 DEF Exchange, Single
    <3> QED
      BY <3>1, <3>2
  <2>3. UNCHANGED <<held, sent, thrown>>
    BY <1>a
  <2>4. (\A h \in held :
            /\ h.m.id \in thrown \/ \A j \in DOMAIN sent[h.conn] : sent[h.conn][j].id # h.m.id
            /\ \A g \in held : g.m.id = h.m.id => g = h)'
    BY <2>3 DEF Exchange, Single
  <2> QED
    BY <2>1, <2>2, <2>3, <2>4 DEF Single
<1>4. Lockstep'
  <2> SUFFICES ASSUME NEW b \in Conns, kind[b] = "sync", client'[b] = "on"
               PROVE  /\ \A x, y \in waiting'[b] : x = y
                      /\ Clean(b) =>
                        /\ \A i \in DOMAIN inq[b] : inq[b][i] # Eof => inq[b][i].id \in waiting'[b]
                        /\ \A i \in DOMAIN outq'[b] : outq'[b][i].id \in waiting'[b]
                        /\ \A h \in held : h.conn = b => h.m.id \in waiting'[b] \cup thrown
    BY <1>a, <1>c DEF Lockstep
  <2>1. CASE b # c
    BY <1>b, <1>d, <2>1 DEF Exchange, Lockstep
  <2>2. CASE b = c
    <3>1. client[b] = "on" /\ \A x, y \in waiting[b] : x = y
      BY <1>a, <2>2 DEF Exchange, Lockstep
    <3>2. ASSUME Clean(b)
          PROVE  /\ \A i \in DOMAIN inq[b] : inq[b][i] = Eof
                 /\ DOMAIN outq'[b] = {}
                 /\ \A h \in held : h.conn = b => h.m.id \in thrown
      <4>1. r.id \in waiting[b] /\ r.id \notin thrown
        BY <1>b, <1>e, <2>2, <3>1, <3>2 DEF Exchange, Lockstep, Clean
      <4>2. \A x \in waiting[b] : x = r.id
        BY <3>1, <4>1
      <4>3. \A i \in DOMAIN inq[b] : inq[b][i] = Eof
        <5>1. \A i \in DOMAIN inq[b] : inq[b][i] # Eof => inq[b][i].id = r.id
          BY <2>2, <3>1, <3>2, <4>2 DEF Exchange, Lockstep
        <5>2. \A i \in DOMAIN inq[b] : inq[b][i] # Eof => inq[b][i].id # r.id
          BY <1>e, <2>2 DEF Exchange, Fresh
        <5> QED
          BY <5>1, <5>2
      <4>4. ASSUME NEW i \in DOMAIN outq'[b] PROVE FALSE
        <5>1. i + 1 \in DOMAIN outq[b] /\ i + 1 # 1
          BY <1>b, <2>2
        <5>2. outq[b][i + 1].id = r.id
          BY <2>2, <3>1, <3>2, <4>2, <5>1 DEF Exchange, Lockstep
        <5> QED
          BY <1>b, <2>2, <4>1, <5>1, <5>2 DEF Exchange, Single
      <4>5. ASSUME NEW h \in held, h.conn = b PROVE h.m.id \in thrown
        <5>1. h.m.id = r.id \/ h.m.id \in thrown
          BY <2>2, <3>1, <3>2, <4>2, <4>5 DEF Exchange, Lockstep
        <5>2. h.m.id # r.id \/ h.m.id \in thrown
          BY <1>e, <2>2, <4>5 DEF Exchange, Single
        <5> QED
          BY <5>1, <5>2
      <4> QED
        BY <4>3, <4>4, <4>5
    <3> QED
      BY <1>d, <3>1, <3>2
  <2> QED
    BY <2>1, <2>2
<1>5. ToldInv'
  <2>1. CASE UNCHANGED <<waiting, results>>
    <3>1. \A b, id : Told(id)' = Told(id) /\ Sent(b, id)' = Sent(b, id)
      BY <1>a, <2>1 DEF Told, Sent
    <3> QED
      BY <1>a, <1>c, <2>1, <3>1 DEF ToldInv
  <2>2. ASSUME NEW id, NEW rs, Taken(c, id, rs) PROVE ToldInv'
    <3>1. /\ id \in waiting[c] /\ rs \in Seq(Results) /\ results' = [results EXCEPT ![id] = @ \o rs]
          /\ kind[c] # "sync" => r.id = id
          /\ r.id = id => \A i \in DOMAIN rs : rs[i] \in {r.stat, "GARBAGE_RES"}
      BY <2>2 DEF Taken, Conclude, r
    <3>2. id \in 1..ncalls /\ by[id] = c /\ ncalls \in Nat /\ ncalls <= MaxCalls /\ MaxCalls \in Nat
      BY <3>1, CallAssumption DEF Exchange, Owned, Mine, TypeInv
    <3>3. \A l \in 1..MaxCalls : l # id => results'[l] = results[l]
      BY <3>1 DEF TypeInv
    <3>4. \A l \in 1..MaxCalls : l > ncalls' => results'[l] = <<>>
      BY <1>a, <3>2, <3>3 DEF ToldInv
    <3>5. ASSUME NEW b \in Conns, Clean(b), NEW l \in 1..ncalls, by[l] = b
          PROVE  Told(l)' \subseteq Sent(b, l)' \cup {"GARBAGE_RES", "NETWORK_ERROR"}
      <4>1. Sent(b, l)' = Sent(b, l) /\ Told(l) \subseteq Sent(b, l) \cup {"GARBAGE_RES", "NETWORK_ERROR"}
        BY <1>a, <3>5 DEF Sent, ToldInv
      <4>2. CASE l # id
        <5>1. Told(l)' = Told(l)
          BY <3>2, <3>3, <4>2 DEF Told
        <5> QED
          BY <4>1, <5>1
      <4>3. CASE l = id
        <5>1. b = c
          BY <3>2, <3>5, <4>3
        <5>2. r.id = id
          <6>1. CASE kind[c] = "sync"
            <7>1. client[c] = "on"
              BY DEF Take
            <7>2. r.id \in waiting[c]
              BY <1>b, <3>5, <5>1, <6>1, <7>1 DEF Exchange, Lockstep
            <7> QED
              BY <3>1, <6>1, <7>1, <7>2 DEF Exchange, Lockstep
          <6> QED
            BY <3>1, <6>1
        <5>3. r.stat \in Sent(c, id)
          <6>1. k \in {j \in DOMAIN sent[c] : sent[c][j].id = id} /\ sent[c][k].stat = r.stat
            BY <1>e, <5>2
          <6> QED
            BY <6>1 DEF Sent
        <5>4. results'[id] = results[id] \o rs /\ results[id] \in Seq(Results)
          <6>1. id \in 1..MaxCalls /\ results \in [1..MaxCalls -> Seq(Results)]
            BY <3>2 DEF TypeInv
          <6> QED
            BY <3>1, <6>1, Zenon
        <5>5. \A i \in DOMAIN results'[id] :
                \/ i \in DOMAIN results[id] /\ results'[id][i] = results[id][i]
                \/ results'[id][i] \in {r.stat, "GARBAGE_RES"}
          BY <3>1, <5>2, <5>4, ConcatFacts
        <5>6. Told(id)' \subseteq Told(id) \cup {r.stat, "GARBAGE_RES"}
          BY <5>5 DEF Told
        <5> QED
          BY <4>1, <4>3, <5>1, <5>3, <5>6
      <4> QED
        BY <4>2, <4>3
    <3> QED
      BY <1>a, <1>c, <3>4, <3>5 DEF ToldInv
  <2> QED
    BY <1>a, <2>1, <2>2
<1> QED
  BY <1>1, <1>2, <1>3, <1>4, <1>5 DEF Exchange

LEMMA ExchangeStep ==
    ASSUME TypeInv, Exchange, ToldInv, [Next]_vars
    PROVE  Exchange' /\ ToldInv'
<1>1. CASE UNCHANGED vars
  <2>1. UNCHANGED <<outq, sent, held, thrown, inq>> /\ UNCHANGED clientVars
    BY <1>1 DEF vars, serverVars, tallies
  <2> QED
    BY <2>1, DropKeeps, ToldServer
<1>2. CASE ServerNext
  <2>1. UNCHANGED clientVars
    BY <1>2 DEF ServerNext
  <2> QED
    BY <1>2, <2>1, ServerKeeps, ToldServer
<1>3. ASSUME NEW c \in Conns, Invoke(c) PROVE Exchange' /\ ToldInv'
  <2>1. PICK m \in Messages : Post(c, m)
    BY <1>3, CallAssumption DEF Invoke
  <2>2. /\ ServerStill /\ UNCHANGED <<outq, kind, client, results>>
        /\ waiting' = [waiting EXCEPT ![c] = @ \cup {ncalls'}]
        /\ kind[c] = "sync" => waiting[c] = {}
    BY <1>3 DEF Invoke, ServerStill, tallies
  <2> QED
    BY <2>1, <2>2, PostKeeps
<1>4. ASSUME NEW c \in Conns, Provoke(c) PROVE Exchange' /\ ToldInv'
  <2>1. PICK m \in Messages : Post(c, m)
    BY <1>4, CallAssumption DEF Provoke
  <2>2. /\ ServerStill /\ UNCHANGED <<outq, kind, client, results>>
        /\ kind[c] # "sync" /\ waiting' = waiting
    BY <1>4 DEF Provoke, ServerStill, tallies
  <2> QED
    BY <2>1, <2>2, PostKeeps
<1>5. ASSUME NEW c \in Conns, Hangup(c) \/ TakeEnd(c) PROVE Exchange' /\ ToldInv'
  <2>1. /\ ServerStill /\ UNCHANGED <<outq, kind, ncalls, by>> /\ FailAll(c)
        /\ \E x \in {"closed", "crashed"} : client' = [client EXCEPT ![c] = x]
        /\ inq' = inq \/ inq' = [inq EXCEPT ![c] = Append(@, Eof)]
    BY <1>5 DEF Hangup, TakeEnd, ServerStill, tallies, serverVars, Eof
  <2> QED
    BY <2>1, FailKeeps
<1>6. ASSUME NEW c \in Conns, Take(c) PROVE Exchange' /\ ToldInv'
  BY <1>6, TakeKeeps
<1> QED
  BY <1>1, <1>2, <1>3, <1>4, <1>5, <1>6 DEF Next

-----------------------------------------------------------------------------
(* What is executed, what success means, and the mode. *)

Serving == TypeOK /\ OnlyServed /\ ModeInv /\ OwnTraceMode

LEMMA ServingStill ==
    ASSUME Serving, UNCHANGED <<style, servers, sock, session, held, trace_mode, executed, overtaken, sent>>,
           listener' \in {"up", "destroyed", "crashed"},
           client' \in [Conns -> {"on", "closed", "crashed"}],
           \A c \in Conns : waiting'[c] \subseteq 1..ncalls'
    PROVE  Serving'
  BY DEF Serving, TypeOK, OnlyServed, ModeInv, OwnTraceMode

\* After replies about one call: success when its handler has run, in its mode.
LEMMA ServingSend ==
    ASSUME TypeInv, Serving, NEW c \in Conns, NEW m \in Messages, NEW rs, Answer(m, rs), Send(c, rs),
           executed \subseteq executed', overtaken \subseteq overtaken', style' = style,
           \A i \in DOMAIN rs : rs[i].stat = "SUCCESS" =>
                /\ m \in executed'
                /\ style = "arpc" => m.mode = trace_mode' \/ m.id \in overtaken'
    PROVE  /\ \A b \in Conns : \A i \in DOMAIN sent'[b] :
                sent'[b][i].stat = "SUCCESS" => \E x \in executed' : x.id = sent'[b][i].id
           /\ OwnTraceMode'
<1>1. ASSUME NEW b \in Conns, NEW i \in DOMAIN sent'[b]
      PROVE  \/ i \in DOMAIN sent[b] /\ sent'[b][i] = sent[b][i]
             \/ \E j \in DOMAIN rs : sent'[b][i] = rs[j]
  <2>1. CASE b = c
    <3>1. sent[c] \in Seq(Replies) /\ rs \in Seq(Replies) /\ sent'[c] = sent[c] \o rs
      BY DEF TypeInv, Send, Answer
    <3> QED
      BY <2>1, <3>1, ConcatFacts
  <2>2. CASE b # c
    BY <2>2, SendFacts
  <2> QED
    BY <2>1, <2>2
<1>2. \A j \in DOMAIN rs : rs[j].id = m.id /\ rs[j].mode = trace_mode' /\ rs[j].asked = m.mode
  BY DEF Answer
<1>3. \A b \in Conns : \A i \in DOMAIN sent'[b] :
        sent'[b][i].stat = "SUCCESS" => \E x \in executed' : x.id = sent'[b][i].id
  <2> SUFFICES ASSUME NEW b \in Conns, NEW i \in DOMAIN sent'[b], sent'[b][i].stat = "SUCCESS"
               PROVE  \E x \in executed' : x.id = sent'[b][i].id
    OBVIOUS
  <2>1. CASE i \in DOMAIN sent[b] /\ sent'[b][i] = sent[b][i]
    BY <2>1 DEF Serving, OnlyServed
  <2>2. CASE \E j \in DOMAIN rs : sent'[b][i] = rs[j]
    BY <1>2, <2>2
  <2> QED
    BY <1>1, <2>1, <2>2
<1>4. OwnTraceMode'
  <2> SUFFICES ASSUME style = "arpc", NEW b \in Conns, NEW i \in DOMAIN sent'[b],
                      sent'[b][i].stat = "SUCCESS", sent'[b][i].mode # sent'[b][i].asked
               PROVE  sent'[b][i].id \in overtaken'
    BY DEF OwnTraceMode
  <2>1. CASE i \in DOMAIN sent[b] /\ sent'[b][i] = sent[b][i]
    BY <2>1 DEF Serving, OwnTraceMode
  <2>2. CASE \E j \in DOMAIN rs : sent'[b][i] = rs[j]
    BY <1>2, <2>2
  <2> QED
    BY <1>1, <2>1, <2>2
<1> QED
  BY <1>3, <1>4

LEMMA ServedExecutes ==
    ASSUME NEW m \in Messages, Refusal(m) = "none"
    PROVE  m.rpcvers = 2 /\ m.proc \in Procs /\ m.argsok /\ [prog |-> m.prog, vers |-> m.vers] \in servers
<1>1. m.rpcvers = 2 /\ m.proc \in Procs /\ HasVersion(m)
  BY DEF Refusal
<1>2. m.argsok
  BY <1>1 DEF Refusal
<1> QED
  BY <1>1, <1>2 DEF HasVersion

LEMMA ServingDispatch ==
    ASSUME TypeInv, TypeInv', Serving, NEW c \in Conns, NEW m \in Messages, m.type = "call",
           Refuse(c, m) \/ Run(c, m), sock[c] = "open", UNCHANGED <<connVars, listener, clientVars>>
    PROVE  Serving'
<1>a. PICK rs : Replied(c, m, rs)
  BY Dispatched
<1>b. Answer(m, rs) /\ Send(c, rs) /\ held' \in {held, held \cup {[conn |-> c, m |-> m]}}
  BY <1>a DEF Replied
<1>c. style' = style /\ servers' = servers /\ sock' = sock /\ session' = session
  BY DEF connVars
<1>d. SetMode(m) \/ UNCHANGED <<trace_mode, overtaken>>
  BY DEF Refuse, Run
<1>e. /\ overtaken \subseteq overtaken'
      /\ style = "arpc" => \A h \in held : h.m.mode = trace_mode' \/ h.m.id \in overtaken'
  <2>1. CASE UNCHANGED <<trace_mode, overtaken>>
    BY <2>1 DEF Serving, ModeInv
  <2>2. CASE SetMode(m) /\ style = "arpc"
    <3>1. /\ trace_mode' = m.mode
          /\ overtaken' = overtaken \cup {h.m.id : h \in {k \in held : k.m.mode # m.mode}}
      BY <2>2 DEF SetMode
    <3> QED
      BY <3>1
  <2> QED
    BY <1>d, <2>1, <2>2 DEF SetMode
<1>1. CASE Refuse(c, m)
  <2>1. held' = held /\ executed' = executed /\ Send(c, <<Reply(m, Refusal(m))>>)
    BY <1>1 DEF Refuse
  <2>2. \E ss : Answer(m, ss) /\ Send(c, ss) /\ \A i \in DOMAIN ss : ss[i].stat # "SUCCESS"
    <3> DEFINE r == Reply(m, Refusal(m))
    <3>1. /\ r \in Replies /\ r.id = m.id /\ r.mode = trace_mode' /\ r.asked = m.mode
          /\ r.stat # "SUCCESS"
      BY <1>1, RefusalFacts, ReplyFacts, Dispatched DEF Refuse
    <3>2. PICK ss : ss = <<r>>
      OBVIOUS
    <3>3. Send(c, ss)
      BY <2>1, <3>2
    <3> HIDE DEF r
    <3>4. Answer(m, ss) /\ \A i \in DOMAIN ss : ss[i].stat # "SUCCESS"
      BY <3>1, <3>2 DEF Answer
    <3> QED
      BY <3>3, <3>4
  <2>3. /\ \A b \in Conns : \A i \in DOMAIN sent'[b] :
            sent'[b][i].stat = "SUCCESS" => \E x \in executed' : x.id = sent'[b][i].id
        /\ OwnTraceMode'
    BY <1>c, <1>e, <2>1, <2>2, ServingSend
  <2>4. OnlyServed'
    BY <1>c, <2>1, <2>3 DEF Serving, OnlyServed
  <2>5. ModeInv' /\ TypeOK'
    BY <1>c, <1>e, <2>1 DEF Serving, ModeInv, TypeOK, clientVars
  <2> QED
    BY <2>3, <2>4, <2>5 DEF Serving
<1>2. CASE Run(c, m)
  <2>1. executed' = executed \cup {m} /\ Refusal(m) = "none" /\ SetMode(m)
    BY <1>2 DEF Run
  <2>2. style = "arpc" => m.mode = trace_mode'
    BY <2>1 DEF SetMode
  <2>3. /\ \A b \in Conns : \A i \in DOMAIN sent'[b] :
            sent'[b][i].stat = "SUCCESS" => \E x \in executed' : x.id = sent'[b][i].id
        /\ OwnTraceMode'
    BY <1>b, <1>c, <1>e, <2>1, <2>2, ServingSend
  <2>4. OnlyServed'
    <3>1. m.rpcvers = 2 /\ m.proc \in Procs /\ m.argsok /\ [prog |-> m.prog, vers |-> m.vers] \in servers
      BY <2>1, ServedExecutes
    <3> QED
      BY <1>c, <2>1, <2>3, <3>1 DEF Serving, OnlyServed
  <2>5. \A h \in held' : h \in held \/ (h.conn = c /\ h.m = m)
    BY <1>b
  <2>6. ModeInv'
    BY <1>c, <1>e, <2>2, <2>5 DEF ModeInv
  <2>7. TypeOK'
    BY <1>c, <2>1, <2>5 DEF Serving, TypeOK, clientVars
  <2> QED
    BY <2>3, <2>4, <2>6, <2>7 DEF Serving
<1> QED
  BY <1>1, <1>2

LEMMA ServingStep ==
    ASSUME TypeInv, TypeInv', Owned', Serving, [Next]_vars
    PROVE  Serving'
<1>w. /\ \A c \in Conns : waiting'[c] \subseteq 1..ncalls'
      /\ client' \in [Conns -> {"on", "closed", "crashed"}]
      /\ listener' \in {"up", "destroyed", "crashed"}
  BY DEF Owned, Mine, TypeInv
<1>1. CASE UNCHANGED vars
  BY <1>1, <1>w, ServingStill DEF vars, serverVars, connVars, tallies
<1>2. ASSUME NEW c \in Conns,
             Invoke(c) \/ Provoke(c) \/ Hangup(c) \/ Take(c) \/ TakeEnd(c)
      PROVE  Serving'
  <2>1. UNCHANGED <<style, servers, sock, session, held, trace_mode, executed, overtaken, sent>>
    BY <1>2 DEF Invoke, Provoke, Hangup, Take, TakeEnd, serverVars, connVars, tallies
  <2> QED
    BY <1>w, <2>1, ServingStill
<1>3. ASSUME UNCHANGED clientVars, NEW c \in Conns, Accept(c) PROVE Serving'
  <2>1. /\ sock' = [sock EXCEPT ![c] = "open"] /\ session' = [session EXCEPT ![c] = "live"]
        /\ UNCHANGED <<style, servers, listener, held, trace_mode, executed, overtaken, sent>>
    BY <1>3 DEF Accept, tallies
  <2>2. \A b \in Conns : session'[b] = [none |-> "none", open |-> "live", deleted |-> "freed"][sock'[b]]
    BY <2>1 DEF Serving, TypeOK
  <2>3. session' = [b \in Conns |-> [none |-> "none", open |-> "live", deleted |-> "freed"][sock'[b]]]
    BY <2>2 DEF TypeInv
  <2>4. \A h \in held' : h.m \in executed' /\ sock'[h.conn] # "none"
    BY <2>1 DEF Serving, TypeOK, TypeInv
  <2>5. TypeOK'
    BY <1>w, <2>1, <2>3, <2>4 DEF Serving, TypeOK, TypeInv
  <2> QED
    BY <2>1, <2>5 DEF Serving, OnlyServed, ModeInv, OwnTraceMode
<1>4. ASSUME UNCHANGED clientVars, NEW c \in Conns, ReceiveEnd(c) PROVE Serving'
  <2>1. /\ sock' = [sock EXCEPT ![c] = "deleted"] /\ session' = [session EXCEPT ![c] = "freed"]
        /\ UNCHANGED <<style, servers, listener, held, trace_mode, executed, overtaken, sent>>
    BY <1>4 DEF ReceiveEnd, Ignore, tallies
  <2>2. \A b \in Conns : session'[b] = [none |-> "none", open |-> "live", deleted |-> "freed"][sock'[b]]
    BY <2>1 DEF Serving, TypeOK
  <2>3. session' = [b \in Conns |-> [none |-> "none", open |-> "live", deleted |-> "freed"][sock'[b]]]
    BY <2>2 DEF TypeInv
  <2>4. \A h \in held' : h.m \in executed' /\ sock'[h.conn] # "none"
    BY <2>1 DEF Serving, TypeOK, TypeInv
  <2>5. TypeOK'
    BY <1>w, <2>1, <2>3, <2>4 DEF Serving, TypeOK, TypeInv
  <2> QED
    BY <2>1, <2>5 DEF Serving, OnlyServed, ModeInv, OwnTraceMode
<1>5. ASSUME UNCHANGED clientVars, NEW c \in Conns, Receive(c) PROVE Serving'
  <2> DEFINE m == Head(inq[c])
  <2>1. inq[c] # <<>> /\ m.type # "eof" /\ sock[c] = "open" /\ UNCHANGED <<connVars, listener>>
    BY <1>5 DEF Receive
  <2>2. m \in Messages
    BY <2>1, InqFacts, EofFacts
  <2>3. CASE Ignore
    BY <1>w, <2>1, <2>3, ServingStill DEF Ignore, connVars, tallies
  <2>4. CASE m.type = "call" /\ (Refuse(c, m) \/ Run(c, m))
    BY <1>5, <2>1, <2>2, <2>4, ServingDispatch
  <2> QED
    BY <1>5, <2>3, <2>4 DEF Receive
<1>6. ASSUME NEW c \in Conns, ReceiveOrphan(c) PROVE Serving'
  BY <1>6, <1>w, ServingStill DEF ReceiveOrphan, Ignore, connVars, tallies
<1>7. ASSUME UNCHANGED clientVars, NEW h \in held, Settle(h) PROVE Serving'
  <2>1. PICK rs : Answer(h.m, rs) /\ Send(h.conn, rs)
    BY <1>7, SettleFacts
  <2>2. h.conn \in Conns /\ h.m \in Messages /\ held' = held \ {h} /\ h.m \in executed
    BY <1>7, SettleFacts DEF Serving, TypeOK
  <2>3. UNCHANGED <<style, servers, sock, session, trace_mode, executed, overtaken>>
    BY <1>7 DEF Settle, connVars, tallies
  <2>4. style = "arpc" => h.m.mode = trace_mode' \/ h.m.id \in overtaken'
    BY <2>3 DEF Serving, ModeInv
  <2>5. /\ \A b \in Conns : \A i \in DOMAIN sent'[b] :
            sent'[b][i].stat = "SUCCESS" => \E x \in executed' : x.id = sent'[b][i].id
        /\ OwnTraceMode'
    BY <2>1, <2>2, <2>3, <2>4, ServingSend
  <2>6. OnlyServed'
    BY <2>3, <2>5 DEF Serving, OnlyServed
  <2>7. ModeInv' /\ TypeOK'
    BY <1>w, <2>2, <2>3 DEF Serving, ModeInv, TypeOK
  <2> QED
    BY <2>5, <2>6, <2>7 DEF Serving
<1>8. CASE DestroyListener
  BY <1>8, <1>w, ServingStill DEF DestroyListener, connVars, tallies
<1>9. ASSUME UNCHANGED clientVars, NEW s \in Services, Register(s) PROVE Serving'
  <2>1. servers' = servers \cup {s} /\
        UNCHANGED <<style, sock, session, held, trace_mode, executed, overtaken, sent>>
    BY <1>9 DEF Register, tallies
  <2>2. TypeOK'
    BY <1>w, <2>1 DEF Serving, TypeOK
  <2> QED
    BY <2>1, <2>2 DEF Serving, OnlyServed, ModeInv, OwnTraceMode
<1> QED
  BY <1>1, <1>2, <1>3, <1>4, <1>5, <1>6, <1>7, <1>8, <1>9 DEF Next, ServerNext, Served, Settled, Owner

-----------------------------------------------------------------------------
LEMMA InvParts == IInv <=> TypeInv /\ Serving /\ Exchange /\ ToldInv
  BY DEF IInv, Serving, Exchange

LEMMA InitInv == Init => IInv
<1> SUFFICES ASSUME Init PROVE IInv
  OBVIOUS
<1> USE DEF Init, ServerInit
<1>1. TypeInv
  <2>1. kind \in [Conns -> {"sync", "async", "tier", "alien"}] /\ style \in {"arpc", "srpc"}
    BY CallAssumption, ServerAssumption
  <2>2. 0 \in 0..MaxCalls /\ <<>> \in Seq(Conns) /\ Len(<<>>) = 0
    BY CallAssumption
  <2> QED
    BY <2>1, <2>2 DEF TypeInv
<1>2. Serving
  BY DEF Serving, TypeOK, OnlyServed, ModeInv, OwnTraceMode
<1>3. Exchange
  BY DEF Exchange, Owned, Fresh, Single, OneReply, Lockstep
<1>4. ToldInv
  BY CallAssumption DEF ToldInv
<1> QED
  BY <1>1, <1>2, <1>3, <1>4, InvParts

LEMMA StepInv == IInv /\ [Next]_vars => IInv'
<1> SUFFICES ASSUME IInv, [Next]_vars PROVE IInv'
  OBVIOUS
<1>1. TypeInv /\ Serving /\ Exchange /\ ToldInv
  BY InvParts
<1>2. TypeInv'
  BY <1>1, TypeStep
<1>3. Exchange' /\ ToldInv'
  BY <1>1, ExchangeStep
<1>4. Serving'
  BY <1>1, <1>2, <1>3, ServingStep DEF Exchange
<1> QED
  BY <1>2, <1>3, <1>4 DEF IInv, Serving, Exchange

LEMMA Invariance == Spec => []IInv
  BY InitInv, StepInv, PTL DEF Spec, Safety

\* A call gets one reply at most unless its handler throws (reply_cb_impl, arpc.h:240),
\* for any number of connections, of calls and of reply_cbs that are kept.
THEOREM RepliesAreSingle == Spec => []OneReply
<1>1. IInv => OneReply
  BY DEF IInv, Single
<1> QED
  BY <1>1, Invariance, PTL

\* Only calls that all tests of dispatch let through are executed, and only executed
\* calls succeed (rpc_server_base::dispatch, server.cc:79), whatever is registered when.
THEOREM DispatchIsSound == Spec => []OnlyServed
<1>1. IInv => OnlyServed
  BY DEF IInv
<1> QED
  BY <1>1, Invariance, PTL

\* A reply is traced in the mode of its call unless another call overtook it
\* (trace_mode_, arpc.h:367), for any modes.
THEOREM TraceModeIsOwn == Spec => []OwnTraceMode
<1>1. IInv => OwnTraceMode
  BY DEF IInv
<1> QED
  BY <1>1, Invariance, PTL

\* Clients of all kinds are told the status that was sent for their call
\* (synchronous_client_base::invoke, srpc.h:45, and async_client_base::invoke, arpc.h:63),
\* on every connection where no handler has thrown.
THEOREM ClientsLearnTheirStatus == Spec => []OwnStatus
<1>1. IInv => OwnStatus
  <2> SUFFICES ASSUME IInv PROVE OwnStatus
    OBVIOUS
  <2>1. ASSUME NEW c \in Conns, ~Clean(c)
        PROVE  \E i \in DOMAIN sent[c] : sent[c][i].id \in thrown
    BY <2>1 DEF Clean
  <2> QED
    BY <2>1 DEF IInv, ToldInv, OwnStatus
<1> QED
  BY <1>1, Invariance, PTL

-----------------------------------------------------------------------------
(* RemoteCalls is implemented. *)

\* A call that waits has not been concluded.
Waits == \A c \in Conns : \A id \in waiting[c] : results[id] = <<>>

RemoteVars == <<ncalls, Underway, {m.id : m \in executed}, results>>
RemoteStep == [Remote!Next]_RemoteVars

\* What RemoteCalls says of one step, whatever the other variables do.
LEMMA Steps ==
    /\ UNCHANGED <<ncalls, Underway, executed, results>> => RemoteStep
    /\ Remote!Make => RemoteStep
    /\ \A id \in Underway : Remote!Execute(id) => RemoteStep
    /\ \A ids \in SUBSET Underway : Remote!Lose(ids) => RemoteStep
    /\ \A id \in 1..ncalls, status \in Statuses : Remote!Answer(id, status) => RemoteStep
    /\ \A ids \in SUBSET (1..ncalls) : Remote!Fail(ids) => RemoteStep
<1>1. UNCHANGED <<ncalls, Underway, executed, results>> => RemoteStep
  BY DEF RemoteStep, RemoteVars
<1> USE DEF RemoteStep, Remote!Next
<1>2. Remote!Make => RemoteStep
  OBVIOUS
<1>3. \A id \in Underway : Remote!Execute(id) => RemoteStep
  OBVIOUS
<1>4. \A ids \in SUBSET Underway : Remote!Lose(ids) => RemoteStep
  OBVIOUS
<1>5. \A id \in 1..ncalls, status \in Statuses : Remote!Answer(id, status) => RemoteStep
  OBVIOUS
<1>6. \A ids \in SUBSET (1..ncalls) : Remote!Fail(ids) => RemoteStep
  OBVIOUS
<1> QED
  BY <1>1, <1>2, <1>3, <1>4, <1>5, <1>6

\* The calls among the messages of q, which is inq before or after a step.
Among(q) == UNION {{q[c][i].id : i \in {j \in DOMAIN q[c] : q[c][j].type # "eof"}} : c \in Conns}
IsAmong(q, id) == \E c \in Conns : \E i \in DOMAIN q[c] : q[c][i] # Eof /\ q[c][i].id = id

LEMMA AmongFacts ==
    ASSUME NEW q \in [Conns -> Seq(Messages \cup {Eof})]
    PROVE  \A id : id \in Among(q) <=> IsAmong(q, id)
<1>1. \A c \in Conns : \A i \in DOMAIN q[c] : (q[c][i].type # "eof") <=> (q[c][i] # Eof)
  <2>1. \A c \in Conns : \A i \in DOMAIN q[c] : q[c][i] \in Messages \cup {Eof}
    OBVIOUS
  <2> QED
    BY <2>1, EofFacts
<1> QED
  BY <1>1 DEF Among, IsAmong

LEMMA UnderwayFacts ==
    /\ Underway = Among(inq) /\ Underway' = Among(inq')
  BY DEF Underway, Among

\* The owners of calls.
LEMMA WaitFacts ==
    ASSUME TypeInv, Owned, NEW c \in Conns
    PROVE  /\ waiting[c] \subseteq 1..ncalls /\ waiting[c] \subseteq 1..MaxCalls
           /\ \A b \in Conns : b # c => waiting[b] \cap waiting[c] = {}
<1>1. ncalls \in Nat /\ MaxCalls \in Nat /\ ncalls <= MaxCalls
  BY CallAssumption DEF TypeInv
<1>2. \A b \in Conns : waiting[b] \subseteq Mine(b)
  BY DEF Owned
<1> QED
  BY <1>1, <1>2 DEF Mine

LEMMA RemoteReceive ==
    ASSUME IInv, Waits, NEW c \in Conns, Receive(c), UNCHANGED clientVars
    PROVE  Waits' /\ RemoteStep
<1> DEFINE m == Head(inq[c])
<1>1. TypeInv /\ Owned /\ Fresh
  BY DEF IInv
<1>2. inq[c] # <<>> /\ inq' = [inq EXCEPT ![c] = Tail(@)] /\ m.type # "eof"
  BY DEF Receive
<1>3. inq[c][1] = m /\ 1 \in DOMAIN inq[c] /\ m # Eof /\ m \in Messages
  BY <1>1, <1>2, InqFacts, EofFacts
<1>4. /\ \A b \in Conns : b # c => inq'[b] = inq[b]
      /\ inq'[c] = Tail(inq[c])
  BY <1>1, <1>2 DEF TypeInv
<1>5. /\ \A i \in DOMAIN inq'[c] :
            i + 1 \in DOMAIN inq[c] /\ i + 1 # 1 /\ inq'[c][i] = inq[c][i + 1]
      /\ \A i \in DOMAIN inq[c] : i = 1 \/ (i - 1 \in DOMAIN inq'[c] /\ inq'[c][i - 1] = inq[c][i])
  <2>1. inq[c] \in Seq(Messages \cup {Eof})
    BY <1>1 DEF TypeInv
  <2>2. \A i \in DOMAIN inq'[c] : i + 1 \in DOMAIN inq[c] /\ i + 1 # 1 /\ inq'[c][i] = inq[c][i + 1]
    BY <1>1, <1>2, <1>4, InqFacts, Zenon
  <2>3. \A i \in DOMAIN inq[c] : i = 1 \/ (i - 1 \in DOMAIN inq'[c] /\ inq'[c][i - 1] = inq[c][i])
    BY <1>2, <1>4, <2>1, TailBack, Zenon
  <2> QED
    BY <2>2, <2>3, Zenon
<1>6. \A b \in Conns : \A i \in DOMAIN inq[b] :
        inq[b][i] # Eof => (inq[b][i].id = m.id <=> b = c /\ i = 1)
  <2>1. m.id \in Mine(c) /\ \A b \in Conns : b # c => m.id \notin Mine(b)
    BY <1>1, <1>3 DEF Owned, Mine
  <2> QED
    BY <1>1, <1>3, <2>1 DEF Owned, Fresh
<1> HIDE DEF m
<1>7. TypeInv'
  BY TypeStep, <1>1 DEF Next, ServerNext, Served
<1>8. Underway' = Underway \ {m.id} /\ m.id \in Underway
  <2>1. \A id : (id \in Underway' <=> IsAmong(inq', id)) /\ (id \in Underway <=> IsAmong(inq, id))
    BY <1>1, <1>7, AmongFacts, UnderwayFacts DEF TypeInv
  <2>2. IsAmong(inq, m.id)
    BY <1>3 DEF IsAmong
  <2>3. ASSUME NEW id, IsAmong(inq', id) PROVE IsAmong(inq, id) /\ id # m.id
    <3>1. PICK b \in Conns : \E i \in DOMAIN inq'[b] : inq'[b][i] # Eof /\ inq'[b][i].id = id
      BY <2>3 DEF IsAmong
    <3>2. PICK i \in DOMAIN inq[b] : inq[b][i] # Eof /\ inq[b][i].id = id /\ ~(b = c /\ i = 1)
      <4>1. CASE b = c
        BY <1>5, <3>1, <4>1
      <4>2. CASE b # c
        BY <1>4, <3>1, <4>2
      <4> QED
        BY <4>1, <4>2
    <3> QED
      BY <1>6, <3>2 DEF IsAmong
  <2>4. ASSUME NEW id, IsAmong(inq, id), id # m.id PROVE IsAmong(inq', id)
    <3>1. PICK b \in Conns : \E i \in DOMAIN inq[b] : inq[b][i] # Eof /\ inq[b][i].id = id
      BY <2>4 DEF IsAmong
    <3>2. PICK i \in DOMAIN inq[b] : inq[b][i] # Eof /\ inq[b][i].id = id
      BY <3>1
    <3>3. \E j \in DOMAIN inq'[b] : inq'[b][j] = inq[b][i]
      <4>1. CASE b = c
        <5>1. i # 1
          BY <1>3, <2>4, <3>2, <4>1
        <5> QED
          BY <1>5, <4>1, <5>1
      <4>2. CASE b # c
        BY <1>4, <4>2
      <4> QED
        BY <4>1, <4>2
    <3> QED
      BY <3>2, <3>3 DEF IsAmong
  <2> QED
    BY <2>1, <2>2, <2>3, <2>4
<1>9. Waits' /\ UNCHANGED <<ncalls, results>>
  BY DEF Waits, clientVars
<1>10. CASE executed' = executed
  <2>1. Remote!Lose({m.id})
    BY <1>8, <1>9, <1>10 DEF Remote!Lose
  <2>2. \A ids \in SUBSET Underway : Remote!Lose(ids) => RemoteStep
    BY Steps
  <2> QED
    BY <1>8, <1>9, <2>1, <2>2
<1>11. CASE executed' = executed \cup {m}
  <2>1. {x.id : x \in executed'} = {x.id : x \in executed} \cup {m.id}
    BY <1>11
  <2>2. PICK id \in Underway : id = m.id
    BY <1>8
  <2>3. Remote!Execute(id)
    BY <1>8, <1>9, <2>1, <2>2 DEF Remote!Execute
  <2> QED
    BY <1>9, <2>2, <2>3, Steps
<1> QED
  BY <1>9, <1>10, <1>11 DEF Receive, Ignore, Refuse, Run, tallies, m

LEMMA RemoteServer ==
    ASSUME IInv, Waits, ServerNext PROVE Waits' /\ RemoteStep
<1>0. UNCHANGED clientVars
  BY DEF ServerNext
<1>1. ASSUME NEW c \in Conns, Receive(c) PROVE Waits' /\ RemoteStep
  BY <1>0, <1>1, RemoteReceive
<1>2. Waits' /\ UNCHANGED <<ncalls, results>>
  BY <1>0 DEF Waits, clientVars
<1>3. ASSUME UNCHANGED <<inq, executed>> PROVE RemoteStep
  <2>1. Underway' = Underway
    BY <1>3 DEF Underway
  <2> QED
    BY <1>2, <1>3, <2>1, Steps
<1>4. ASSUME NEW c \in Conns, Accept(c) \/ ReceiveOrphan(c) PROVE RemoteStep
  <2>1. UNCHANGED <<inq, executed>>
    BY <1>4 DEF Accept, ReceiveOrphan, Ignore, tallies
  <2> QED
    BY <1>3, <2>1
<1>5. ASSUME NEW c \in Conns, ReceiveEnd(c) PROVE RemoteStep
  <2>1. inq' = [inq EXCEPT ![c] = <<>>] /\ executed' = executed
    BY <1>5 DEF ReceiveEnd, Ignore, tallies
  <2>2. \A b \in Conns : inq'[b] = inq[b] \/ DOMAIN inq'[b] = {}
    BY <2>1 DEF IInv, TypeInv
  <2>3. Underway' \subseteq Underway
    BY <2>2 DEF Underway
  <2>4. PICK ids \in SUBSET Underway : Underway' = Underway \ ids
    <3>1. Underway' = Underway \ (Underway \ Underway')
      BY <2>3
    <3> QED
      BY <3>1
  <2>5. Remote!Lose(ids)
    BY <1>2, <2>1, <2>4 DEF Remote!Lose
  <2> QED
    BY <2>5, Steps
<1>6. ASSUME NEW h \in held, Settle(h) PROVE RemoteStep
  BY <1>3, <1>6 DEF Settle, tallies
<1>7. ASSUME Owner PROVE RemoteStep
  BY <1>3, <1>7 DEF Owner, DestroyListener, Register, tallies
<1> QED
  BY <1>1, <1>2, <1>4, <1>5, <1>6, <1>7 DEF ServerNext, Settled, Served

LEMMA RemotePost ==
    ASSUME IInv, Waits, NEW c \in Conns, NEW m \in Messages, Post(c, m),
           UNCHANGED <<executed, results>>,
           waiting' = waiting \/ waiting' = [waiting EXCEPT ![c] = @ \cup {ncalls'}]
    PROVE  Waits' /\ RemoteStep
<1>1. TypeInv /\ ToldInv
  BY DEF IInv
<1>2. ncalls \in Nat /\ ncalls' = ncalls + 1 /\ ncalls < MaxCalls /\ MaxCalls \in Nat
  BY <1>1, CallAssumption DEF Post, TypeInv
<1>3. Waits'
  <2>1. results[ncalls'] = <<>>
    BY <1>1, <1>2 DEF ToldInv
  <2>2. \A b \in Conns : waiting'[b] \subseteq waiting[b] \cup {ncalls'}
    <3>1. DOMAIN waiting = Conns
      BY <1>1 DEF TypeInv
    <3>2. CASE waiting' = waiting
      BY <3>2
    <3>3. CASE waiting' = [waiting EXCEPT ![c] = @ \cup {ncalls'}]
      BY <3>1, <3>3
    <3> QED
      BY <3>2, <3>3
  <2> QED
    BY <2>1, <2>2 DEF Waits
<1> DEFINE x == [m EXCEPT !.id = ncalls + 1]
<1>4. x \in Messages /\ x.id = ncalls' /\ x.type # "eof"
  BY <1>2 DEF Messages
<1>5. inq' = [inq EXCEPT ![c] = Append(@, x)]
  BY DEF Post
<1> HIDE DEF x
<1>6. inq[c] \in Seq(Messages \cup {Eof}) /\ inq'[c] = Append(inq[c], x) /\ x \in Messages \cup {Eof}
  BY <1>1, <1>4, <1>5 DEF TypeInv
<1>7. \A b \in Conns : b # c => inq'[b] = inq[b]
  BY <1>1, <1>5 DEF TypeInv
<1>8. /\ \A i \in DOMAIN inq[c] : i \in DOMAIN inq'[c] /\ inq'[c][i] = inq[c][i]
      /\ \A i \in DOMAIN inq'[c] : (i \in DOMAIN inq[c] /\ inq'[c][i] = inq[c][i]) \/ inq'[c][i] = x
      /\ \E i \in DOMAIN inq'[c] : inq'[c][i] = x
  BY <1>6, AppendFacts
<1>9. Underway' = Underway \cup {ncalls'}
  <2>1. \A id \in Underway' : id \in Underway \/ id = ncalls'
    BY <1>4, <1>7, <1>8 DEF Underway
  <2>2. ncalls' \in Underway'
    BY <1>4, <1>8 DEF Underway
  <2>3. \A id \in Underway : id \in Underway'
    BY <1>7, <1>8 DEF Underway
  <2> QED
    BY <2>1, <2>2, <2>3
<1>10. Remote!Make
  BY <1>2, <1>9 DEF Remote!Make
<1> QED
  BY <1>3, <1>10, Steps

LEMMA RemoteFail ==
    ASSUME IInv, Waits, NEW c \in Conns, FailAll(c), UNCHANGED <<ncalls, executed>>,
           inq' = inq \/ inq' = [inq EXCEPT ![c] = Append(@, Eof)]
    PROVE  Waits' /\ RemoteStep
<1>1. TypeInv /\ Owned
  BY DEF IInv
<1>2. /\ waiting[c] \subseteq 1..ncalls /\ waiting[c] \subseteq 1..MaxCalls
      /\ \A b \in Conns : b # c => waiting[b] \cap waiting[c] = {} /\ waiting[b] \subseteq 1..MaxCalls
  BY <1>1, WaitFacts
<1>3. DOMAIN results = 1..MaxCalls /\ \A id \in waiting[c] : results[id] = <<>>
  BY <1>1 DEF TypeInv, Waits
<1>4. results' = [id \in 1..MaxCalls |-> IF id \in waiting[c] THEN <<"NETWORK_ERROR">> ELSE results[id]]
  <2>0. Append(<<>>, "NETWORK_ERROR") = <<"NETWORK_ERROR">>
    OBVIOUS
  <2>1. \A id \in waiting[c] : Append(results[id], "NETWORK_ERROR") = <<"NETWORK_ERROR">>
    BY <1>3, <2>0, Zenon
  <2>2. results' = [id \in 1..MaxCalls |->
                      IF id \in waiting[c] THEN Append(results[id], "NETWORK_ERROR") ELSE results[id]]
    BY <1>3 DEF FailAll
  <2> QED
    BY <2>1, <2>2
<1>5. Waits'
  <2>1. \A b \in Conns : \A id \in waiting'[b] : b # c /\ id \in waiting[b]
    BY <1>1 DEF FailAll, TypeInv
  <2> QED
    BY <1>2, <1>4, <2>1 DEF Waits
<1>6. Underway' = Underway
  <2>1. CASE inq' = inq
    BY <2>1 DEF Underway
  <2>2. CASE inq' = [inq EXCEPT ![c] = Append(@, Eof)]
    <3>1. inq[c] \in Seq(Messages \cup {Eof}) /\ inq'[c] = Append(inq[c], Eof)
          /\ \A b \in Conns : b # c => inq'[b] = inq[b]
      BY <1>1, <2>2 DEF TypeInv
    <3>2. /\ \A i \in DOMAIN inq[c] : i \in DOMAIN inq'[c] /\ inq'[c][i] = inq[c][i]
          /\ \A i \in DOMAIN inq'[c] : (i \in DOMAIN inq[c] /\ inq'[c][i] = inq[c][i]) \/ inq'[c][i] = Eof
      BY <3>1, AppendFacts
    <3>3. \A id \in Underway' : id \in Underway
      BY <3>1, <3>2, EofFacts DEF Underway
    <3>4. \A id \in Underway : id \in Underway'
      BY <3>1, <3>2 DEF Underway
    <3> QED
      BY <3>3, <3>4
  <2> QED
    BY <2>1, <2>2
<1>7. Remote!Fail(waiting[c])
  BY <1>3, <1>4, <1>6 DEF Remote!Fail
<1> QED
  BY <1>2, <1>5, <1>7, Steps

\* The results a client can make of a reply.
Heard(c, id, status, rs) ==
    /\ id \in waiting[c] /\ status \in Statuses /\ Conclude(c, id, rs)
    /\ rs \in {<<status>>, <<status, "GARBAGE_RES">>}
    /\ status = "SUCCESS" => Head(outq[c]).stat = "SUCCESS" /\ Head(outq[c]).id = id

LEMMA TakeHears ==
    ASSUME TypeInv, NEW c \in Conns, Take(c)
    PROVE  \/ UNCHANGED <<waiting, results>>
           \/ \E id \in waiting[c] : Conclude(c, id, <<>>)
           \/ \E id, status, rs : Heard(c, id, status, rs)
<1> DEFINE r == Head(outq[c])
<1>1. r.stat \in Stats /\ \A s \in Stats : s \in Statuses
  BY OutqFacts DEF Replies, Stats, Statuses, Take
<1>2. CASE TakeSync(c)
  <2>1. PICK id \in waiting[c] : Conclude(c, id, <<SyncResult(r, id)>>)
    BY <1>2 DEF TakeSync
  <2>2. SyncResult(r, id) \in Statuses /\ (SyncResult(r, id) = "SUCCESS" => r.stat = "SUCCESS" /\ r.id = id)
    BY <1>1 DEF SyncResult, Statuses
  <2>3. Heard(c, id, SyncResult(r, id), <<SyncResult(r, id)>>)
    BY <2>1, <2>2 DEF Heard
  <2> QED
    BY <2>3
<1>3. ASSUME NEW id \in Match(c, r), NEW throws \in BOOLEAN,
             Conclude(c, id, IF throws THEN <<r.stat, "GARBAGE_RES">> ELSE <<r.stat>>)
      PROVE  \E x, status, rs : Heard(c, x, status, rs)
  <2>1. id \in waiting[c] /\ r.id = id
    BY DEF Match
  <2>2. PICK rs : rs = IF throws THEN <<r.stat, "GARBAGE_RES">> ELSE <<r.stat>>
    OBVIOUS
  <2>3. Heard(c, id, r.stat, rs)
    BY <1>1, <1>3, <2>1, <2>2 DEF Heard
  <2> QED
    BY <2>3
<1>4. CASE TakeAsync(c)
  BY <1>3, <1>4 DEF TakeAsync, Match
<1>5. CASE TakeAlien(c)
  BY <1>5 DEF TakeAlien
<1> QED
  BY <1>2, <1>4, <1>5 DEF Take

LEMMA RemoteTake ==
    ASSUME IInv, Waits, NEW c \in Conns, Take(c)
    PROVE  Waits' /\ RemoteStep
<1> DEFINE r == Head(outq[c])
<1>1. TypeInv /\ Owned /\ OnlyServed
  BY DEF IInv
<1>2. outq[c] # <<>> /\ UNCHANGED <<inq, executed, ncalls>>
  BY DEF Take, tallies
<1>3. Underway' = Underway
  BY <1>2 DEF Underway
<1>4. /\ DOMAIN results = 1..MaxCalls /\ DOMAIN waiting = Conns
      /\ waiting[c] \subseteq 1..ncalls /\ waiting[c] \subseteq 1..MaxCalls
      /\ \A b \in Conns : b # c => waiting[b] \cap waiting[c] = {} /\ waiting[b] \subseteq 1..MaxCalls
  BY <1>1, WaitFacts DEF TypeInv
<1>5. r.stat = "SUCCESS" => r.id \in {m.id : m \in executed}
  <2>1. PICK k \in DOMAIN sent[c] : sent[c][k] = r
    BY <1>1, <1>2, OutqFacts DEF Owned
  <2> QED
    BY <1>1, <2>1 DEF OnlyServed
<1> HIDE DEF r
<1>6. ASSUME NEW id \in waiting[c], NEW rs, Conclude(c, id, rs)
      PROVE  /\ Waits'
             /\ results[id] = <<>> /\ id \in 1..MaxCalls
             /\ results' = [results EXCEPT ![id] = <<>> \o rs]
  <2>1. results[id] = <<>> /\ id \in 1..MaxCalls
    BY <1>4 DEF Waits
  <2>2. results' = [results EXCEPT ![id] = <<>> \o rs]
    BY <1>4, <1>6, <2>1 DEF Conclude
  <2>3. \A b \in Conns : \A x \in waiting'[b] : x # id /\ x \in waiting[b] /\ x \in 1..MaxCalls
    BY <1>4, <1>6 DEF Conclude
  <2>4. Waits'
    BY <1>4, <2>2, <2>3 DEF Waits
  <2> QED
    BY <2>1, <2>2, <2>4
<1>7. CASE UNCHANGED <<waiting, results>>
  BY <1>2, <1>3, <1>7, Steps DEF Waits
<1>8. CASE \E id \in waiting[c] : Conclude(c, id, <<>>)
  <2>1. PICK id \in waiting[c] : Conclude(c, id, <<>>)
    BY <1>8
  <2>2. Waits' /\ results[id] = <<>> /\ results' = [results EXCEPT ![id] = <<>> \o <<>>]
    BY <1>6, <2>1
  <2>3. <<>> \o <<>> = <<>>
    OBVIOUS
  <2>4. results' = results
    BY <1>1, <2>2, <2>3 DEF TypeInv
  <2> QED
    BY <1>2, <1>3, <2>2, <2>4, Steps
<1>9. CASE \E id, status, rs : Heard(c, id, status, rs)
  <2>1. PICK id, status, rs : Heard(c, id, status, rs)
    BY <1>9
  <2>2. id \in waiting[c] /\ status \in Statuses /\ Conclude(c, id, rs)
    BY <2>1 DEF Heard
  <2>3. Waits' /\ results[id] = <<>> /\ results' = [results EXCEPT ![id] = <<>> \o rs]
    BY <1>6, <2>2
  <2>4. rs \in {<<status>>, <<status, "GARBAGE_RES">>}
    BY <2>1 DEF Heard
  <2>5. <<>> \o rs = rs
    <3>1. <<>> \o <<status>> = <<status>> /\ <<>> \o <<status, "GARBAGE_RES">> = <<status, "GARBAGE_RES">>
      BY <2>2
    <3> QED
      BY <2>4, <3>1
  <2>6. status = "SUCCESS" => id \in {m.id : m \in executed}
    BY <1>5, <2>1 DEF Heard, r
  <2>7. results' = [results EXCEPT ![id] = rs]
    BY <2>3, <2>5
  <2>8. Remote!Answer(id, status)
    BY <1>2, <1>3, <2>3, <2>4, <2>6, <2>7 DEF Remote!Answer
  <2> QED
    BY <1>4, <2>2, <2>3, <2>8, Steps
<1> QED
  BY <1>1, <1>7, <1>8, <1>9, TakeHears

LEMMA RemoteInv == IInv /\ Waits /\ [Next]_vars => Waits' /\ RemoteStep
<1> SUFFICES ASSUME IInv, Waits, [Next]_vars PROVE Waits' /\ RemoteStep
  OBVIOUS
<1>1. CASE UNCHANGED vars
  <2>1. UNCHANGED <<ncalls, inq, executed, results, waiting>>
    BY <1>1 DEF vars, serverVars, tallies, clientVars
  <2>2. Underway' = Underway
    BY <2>1 DEF Underway
  <2> QED
    BY <2>1, <2>2, Steps DEF Waits
<1>2. CASE ServerNext
  BY <1>2, RemoteServer
<1>3. ASSUME NEW c \in Conns, Invoke(c) \/ Provoke(c) PROVE Waits' /\ RemoteStep
  <2>1. PICK m \in Messages : Post(c, m)
    BY <1>3, CallAssumption DEF Invoke, Provoke
  <2>2. /\ UNCHANGED <<executed, results>>
        /\ waiting' = waiting \/ waiting' = [waiting EXCEPT ![c] = @ \cup {ncalls'}]
    BY <1>3 DEF Invoke, Provoke, tallies
  <2> QED
    BY <2>1, <2>2, RemotePost
<1>4. ASSUME NEW c \in Conns, Hangup(c) \/ TakeEnd(c) PROVE Waits' /\ RemoteStep
  <2>1. /\ FailAll(c) /\ UNCHANGED <<ncalls, executed>>
        /\ inq' = inq \/ inq' = [inq EXCEPT ![c] = Append(@, Eof)]
    BY <1>4 DEF Hangup, TakeEnd, tallies, serverVars, Eof
  <2> QED
    BY <2>1, RemoteFail
<1>5. ASSUME NEW c \in Conns, Take(c) PROVE Waits' /\ RemoteStep
  BY <1>5, RemoteTake
<1> QED
  BY <1>1, <1>2, <1>3, <1>4, <1>5 DEF Next

\* Clients, connections and servers implement RemoteCalls: a call is executed once at
\* most, and concluded once at most, with "success" only after its handler has run
\* (rpc_server_base::dispatch, server.cc:79, and the two invokes, srpc.h:45, arpc.h:63).
THEOREM CallsAtMostOnce == Spec => CallsSpec
<1>1. Init => Waits /\ Remote!Init
  <2> SUFFICES ASSUME Init PROVE Waits /\ Remote!Init
    OBVIOUS
  <2>1. Underway = {}
    BY DEF Init, ServerInit, Underway
  <2> QED
    BY <2>1 DEF Init, ServerInit, Waits, Remote!Init
<1>2. Spec => []IInv
  BY Invariance
<1>3. IInv /\ Waits /\ [Next]_vars => Waits' /\ [Remote!Next]_RemoteVars
  BY RemoteInv DEF RemoteStep
<1>4. Spec => Remote!Init /\ [][Remote!Next]_RemoteVars
  BY <1>1, <1>2, <1>3, PTL DEF Spec, Safety
<1>5. CallsSpec <=> Remote!Init /\ [][Remote!Next]_RemoteVars
  BY DEF CallsSpec, Remote!Spec, RemoteVars
<1> QED
  BY <1>4, <1>5
=============================================================================
