------------------------------- MODULE MsgSock -------------------------------
(***************************************************************************)
(* One direction of a stream between two msg_socks (cxx/xdrpp/xdrpp/       *)
(* msgsock.cc): the sender's write queue, the bytes the kernels hold, and  *)
(* the receiver's input() loop, which cuts the bytes up into messages      *)
(* again.                                                                  *)
(*                                                                         *)
(* The messages are numbered in the order of the putmsg calls.  A byte is  *)
(* a pair <<k, b>>: byte b of message k, whose first Hdr bytes are its     *)
(* length word.  One step is one system call with what the code does with  *)
(* its result, or one parsed length word.  A process that writes to a      *)
(* closed stream ignores SIGPIPE, as tests/msgsock.cc does.                *)
(***************************************************************************)
EXTENDS Integers, Sequences

CONSTANTS
    Messages,    \* records [len, last]; last is the high bit of the length
                 \* word, set by every msg_sock but not by every peer
    MaxMsgLen,   \* maxmsglen_ of the receiver
    Hdr,         \* bytes in a length word (4 in the code)
    MaxIov,      \* maxiov (8 in the code)
    Capacity,    \* bytes the kernels hold between the two sockets
    MaxSends,    \* bound on the number of messages sent
    NoMsg        \* rdmsg_ is null

ASSUME ConstantsAssumption ==
    /\ Messages \subseteq [len : Nat, last : BOOLEAN]
    /\ MaxMsgLen \in Nat
    /\ Hdr \in Nat \ {0}
    /\ MaxIov \in Nat \ {0}
    /\ Capacity \in Nat \ {0}
    /\ MaxSends \in Nat
    /\ NoMsg \notin Nat

Corrupt == 0     \* number of a message that nobody sent

VARIABLES
    sent,       \* every message given to putmsg
    wqueue,     \* wqueue_: number and length of each message
    wsize, wstart, wfail,
    wcb,        \* a Write callback is registered
    closed,     \* the sender's msg_sock is destroyed
    net,        \* bytes written and not yet read
    ipc,        \* input(): "poll" (not running), "loop", "parse"
    i,          \* its loop counter
    rdlen,      \* size of rdmsg_, or NoMsg
    rbuf,       \* the rdpos_ bytes read into rdmsg_ and, past its end, nextlen_
    rcb,        \* a Read callback is registered
    rfail,      \* why rcb_(nullptr) was last called; "no" if it was not
    got,        \* numbers of the messages passed to rcb_
    destroyed   \* the receiver's *destroyed_

sender == <<sent, wqueue, wsize, wstart, wfail, wcb, closed>>
receiver == <<ipc, i, rdlen, rbuf, rcb, rfail, got, destroyed>>
vars == <<sender, net, receiver>>

Least(m, n) == IF m < n THEN m ELSE n
Take(s, n) == SubSeq(s, 1, n)
Drop(s, n) == SubSeq(s, n + 1, Len(s))

RawSize(m) == Hdr + m.len

\* The bytes of the first j messages of s, for each j.
Upto(s) ==
    LET f[j \in 0..Len(s)] == IF j = 0 THEN 0 ELSE f[j - 1] + RawSize(s[j])
    IN  f

Init ==
    /\ sent = <<>> /\ wqueue = <<>> /\ wsize = 0 /\ wstart = 0
    /\ wfail = FALSE /\ wcb = FALSE /\ closed = FALSE
    /\ net = <<>>
    /\ ipc = "poll" /\ i = 0 /\ rdlen = NoMsg /\ rbuf = <<>>
    /\ rcb = TRUE /\ rfail = "no" /\ got = <<>> /\ destroyed = FALSE

-----------------------------------------------------------------------------
(* The sender. *)

QueueBytes(q) == Upto(q)[Len(q)]

\* How many messages at the front of q lie within its first n bytes.
Covered(q, n) ==
    CHOOSE j \in 0..Len(q) : Upto(q)[j] <= n /\ (j < Len(q) => n < Upto(q)[j + 1])

PopWbytes_KeepsStart(q, start, n) ==
    LET j == Covered(q, start + n)
    IN  [queue |-> Drop(q, j), start |-> IF j > 0 THEN start ELSE start + n]

\* pop_wbytes: the queue and the start left when n more bytes are written.
PopWbytes(q, start, n) ==
    LET j == Covered(q, start + n)
    IN  [queue |-> Drop(q, j), start |-> start + n - Upto(q)[j]]

\* The n-th of the bytes in q.
ByteAt(q, n) ==
    LET j == Covered(q, n - 1)
    IN  <<q[j + 1].k, n - Upto(q)[j]>>

\* What writev is offered: the first MaxIov messages, less wstart_ bytes.
Offered(q, start) ==
    [n \in 1..(Upto(q)[Least(MaxIov, Len(q))] - start) |-> ByteAt(q, start + n)]

WriteCallback_NeverUnset(size, cbset) == wcb \/ (size > 0 /\ ~cbset)

\* Whether a Write callback is registered after a write that left size bytes.
WriteCallback(size, cbset) ==
    CASE size > 0 /\ ~cbset -> TRUE
      [] size = 0 /\ cbset  -> FALSE
      [] OTHER              -> wcb

\* output(cbset) with q in wqueue_ and size in wsize_.  writev takes what fits,
\* or says EAGAIN if nothing does.  It fails if the receiver is gone, and
\* returns 0, which counts as a failure, if there is nothing to write.
Output(q, size, cbset) ==
    LET bytes == Offered(q, wstart) IN
    \/ \E n \in 1..Least(Len(bytes), Capacity - Len(net)) :
           /\ net' = net \o Take(bytes, n)
           /\ LET p == PopWbytes(q, wstart, n)
              IN  wqueue' = p.queue /\ wstart' = p.start
           /\ wsize' = size - n
           /\ wcb' = WriteCallback(wsize', cbset)
           /\ UNCHANGED wfail
    \/ /\ bytes # <<>> /\ Len(net) = Capacity
       /\ wqueue' = q /\ wsize' = size
       /\ UNCHANGED <<net, wstart, wcb, wfail>>
    \/ /\ bytes = <<>> \/ destroyed
       /\ wfail' = TRUE /\ wqueue' = <<>> /\ wsize' = 0 /\ wstart' = 0
       /\ UNCHANGED <<net, wcb>>

Putmsg_NoSize(m) ==
    /\ ~closed /\ Len(sent) < MaxSends
    /\ sent' = Append(sent, m)
    /\ LET q == Append(wqueue, [k |-> Len(sent'), len |-> m.len]) IN
       \/ wfail /\ UNCHANGED <<wqueue, wsize, wstart, wfail, wcb, net>>
       \/ ~wfail /\ wsize = 0 /\ Output(q, RawSize(m), FALSE)
       \/ /\ ~wfail /\ wsize > 0
          /\ wqueue' = q
          /\ UNCHANGED <<wsize, wstart, wfail, wcb, net>>
    /\ UNCHANGED <<closed, receiver>>

\* putmsg: dropped after a failure; written at once if the queue was empty.
Putmsg(m) ==
    /\ ~closed /\ Len(sent) < MaxSends
    /\ sent' = Append(sent, m)
    /\ LET q == Append(wqueue, [k |-> Len(sent'), len |-> m.len])
           size == wsize + RawSize(m) IN
       \/ wfail /\ UNCHANGED <<wqueue, wsize, wstart, wfail, wcb, net>>
       \/ ~wfail /\ wsize = 0 /\ Output(q, size, FALSE)
       \/ /\ ~wfail /\ wsize > 0
          /\ wqueue' = q /\ wsize' = size
          /\ UNCHANGED <<wstart, wfail, wcb, net>>
    /\ UNCHANGED <<closed, receiver>>

\* The pollset finds the socket writable, or in error, and calls output(true).
PollOut ==
    /\ wcb
    /\ Len(net) < Capacity \/ destroyed
    /\ Output(wqueue, wsize, TRUE)
    /\ UNCHANGED <<sent, closed, receiver>>

\* ~msg_sock: what is still queued is never written.
Close ==
    /\ ~closed
    /\ closed' = TRUE /\ wcb' = FALSE /\ wqueue' = <<>> /\ wsize' = 0 /\ wstart' = 0
    /\ UNCHANGED <<sent, wfail, net, receiver>>

-----------------------------------------------------------------------------
(* The receiver: input(). *)

Return == ipc' = "poll" /\ i' = 0

Loop == IF i < 2 THEN ipc' = "loop" /\ i' = i + 1 ELSE Return

\* rcb_ runs: it may destroy the msg_sock, whose destructor unregisters the
\* callbacks.  registered is whether the Read callback was set before.
Callback(registered) ==
    /\ destroyed' \in BOOLEAN
    /\ rcb' = (registered /\ ~destroyed')

AfterCallback_Unchecked(next) == next

\* What input() does when rcb_ returns: nothing more if it is destroyed.
AfterCallback(next) == IF destroyed' THEN Return ELSE next

Fail(reason, registered, next) ==
    /\ rfail' = reason
    /\ Callback(registered)
    /\ AfterCallback(next)
    /\ UNCHANGED <<net, rdlen, rbuf, got>>

Eof == closed /\ net = <<>>

\* The pollset finds the socket readable and calls input().
PollIn ==
    /\ ipc = "poll" /\ rcb /\ (net # <<>> \/ Eof)
    /\ ipc' = "loop"
    /\ UNCHANGED <<sender, net, i, rdlen, rbuf, rcb, rfail, got, destroyed>>

\* The rest of rdmsg_ and the next length word, or the rest of a length word.
Wanted == (IF rdlen = NoMsg THEN 0 ELSE rdlen) + Hdr - Len(rbuf)

\* The number of the message with the given body.
Received(body) ==
    LET k == body[1][1] IN
    IF body = [b \in 1..sent[k].len |-> <<k, Hdr + b>>] THEN k ELSE Corrupt

ToParse_Later == Return

\* Line 83: go on only with a whole length word and no message being read.
ToParse == IF rdlen' = NoMsg /\ Len(rbuf') = Hdr
           THEN ipc' = "parse" /\ UNCHANGED i
           ELSE Return

\* readv or read returns bytes, which do not complete a message.
ReadPart ==
    /\ ipc = "loop"
    /\ \E n \in 1..Least(Wanted, Len(net)) :
           /\ rdlen # NoMsg => Len(rbuf) + n < rdlen
           /\ net' = Drop(net, n)
           /\ rbuf' = rbuf \o Take(net, n)
    /\ UNCHANGED rdlen /\ ToParse
    /\ UNCHANGED <<sender, rcb, rfail, got, destroyed>>

ReadMessage_KeepsRdpos ==
    /\ ipc = "loop" /\ rdlen # NoMsg
    /\ \E n \in 1..Least(Wanted, Len(net)) :
           LET b == rbuf \o Take(net, n) IN
           /\ Len(b) >= rdlen
           /\ net' = Drop(net, n)
           /\ got' = Append(got, Received(Take(b, rdlen)))
           /\ rbuf' = <<>>
    /\ rdlen' = NoMsg
    /\ Callback(rcb) /\ AfterCallback(ToParse)
    /\ UNCHANGED <<sender, rfail>>

\* readv completes rdmsg_, perhaps with some of the next length word.
ReadMessage ==
    /\ ipc = "loop" /\ rdlen # NoMsg
    /\ \E n \in 1..Least(Wanted, Len(net)) :
           LET b == rbuf \o Take(net, n) IN
           /\ Len(b) >= rdlen
           /\ net' = Drop(net, n)
           /\ got' = Append(got, Received(Take(b, rdlen)))
           /\ rbuf' = Drop(b, rdlen)
    /\ rdlen' = NoMsg
    /\ Callback(rcb) /\ AfterCallback(ToParse)
    /\ UNCHANGED <<sender, rfail>>

ReadNothing ==
    /\ ipc = "loop" /\ Wanted > 0 /\ net = <<>>
    /\ \/ Eof /\ Fail("eof", rcb, Return)
       \/ ~Eof /\ Return /\ UNCHANGED <<net, rdlen, rbuf, rcb, rfail, got, destroyed>>
    /\ UNCHANGED sender

\* A length word that a failed parse has left in nextlen_ is parsed again.
Reparse ==
    /\ ipc = "loop" /\ Wanted = 0
    /\ ipc' = "parse"
    /\ UNCHANGED <<sender, net, i, rdlen, rbuf, rcb, rfail, got, destroyed>>

\* The message whose length word is in nextlen_.  Bytes that are no length
\* word stand for some excessive length.
Next_k == IF rbuf = [b \in 1..Hdr |-> <<rbuf[1][1], b>>] THEN rbuf[1][1] ELSE Corrupt
NextLen == IF Next_k = Corrupt THEN [len |-> MaxMsgLen + 1, last |-> TRUE]
                               ELSE sent[Next_k]

ParseFragment ==
    /\ ipc = "parse" /\ ~NextLen.last
    /\ Fail("framing", rcb, Return)
    /\ UNCHANGED sender

ParseEmpty ==
    /\ ipc = "parse" /\ NextLen.last /\ NextLen.len = 0
    /\ rbuf' = <<>>
    /\ got' = Append(got, Next_k)
    /\ Callback(rcb) /\ AfterCallback(Loop)
    /\ UNCHANGED <<sender, net, rdlen, rfail>>

ParseAcceptable == ipc = "parse" /\ NextLen.last /\ NextLen.len \in 1..MaxMsgLen

ParseAlloc ==
    /\ ParseAcceptable
    /\ rdlen' = NextLen.len /\ rbuf' = <<>>
    /\ Loop
    /\ UNCHANGED <<sender, net, rcb, rfail, got, destroyed>>

ParseAllocFails ==
    /\ ParseAcceptable
    /\ Fail("alloc", rcb, Loop)
    /\ UNCHANGED sender

\* Reading stops for good, but the loop goes round again.
ParseTooLong ==
    /\ ipc = "parse" /\ NextLen.last /\ NextLen.len > MaxMsgLen
    /\ Fail("framing", FALSE, Loop)
    /\ UNCHANGED sender

\* The application destroys the receiving msg_sock of its own accord.
Destroy ==
    /\ ipc = "poll" /\ ~destroyed
    /\ destroyed' = TRUE /\ rcb' = FALSE
    /\ UNCHANGED <<sender, net, ipc, i, rdlen, rbuf, rfail, got>>

-----------------------------------------------------------------------------
Input == PollIn \/ ReadPart \/ ReadMessage \/ ReadNothing \/ Reparse
             \/ ParseFragment \/ ParseEmpty \/ ParseAlloc \/ ParseAllocFails
             \/ ParseTooLong

Next == (\E m \in Messages : Putmsg(m)) \/ PollOut \/ Close \/ Input \/ Destroy

\* Both processes keep polling.  Nothing obliges an application to send or to
\* close.
Fairness == WF_vars(PollOut) /\ WF_vars(Input)

Safety == Init /\ [][Next]_vars
Spec == Safety /\ Fairness

-----------------------------------------------------------------------------
(* Properties. *)

TypeOK ==
    /\ sent \in Seq(Messages)
    /\ wqueue \in Seq([k : 1..MaxSends, len : Nat])
    /\ wsize \in Nat /\ wstart \in Nat
    /\ wfail \in BOOLEAN /\ wcb \in BOOLEAN /\ closed \in BOOLEAN
    /\ net \in Seq((1..MaxSends) \X Nat) /\ Len(net) <= Capacity
    /\ ipc \in {"poll", "loop", "parse"} /\ i \in 0..2
    /\ rdlen \in 1..MaxMsgLen \cup {NoMsg}
    /\ rbuf \in Seq((1..MaxSends) \X Nat)
    /\ Wanted >= 0
    /\ rcb \in BOOLEAN /\ destroyed \in BOOLEAN
    /\ rfail \in {"no", "eof", "framing", "alloc"}
    /\ got \in Seq(0..MaxSends)

\* msgsock.h:15: a series of delimited messages.  The messages the receiver's
\* callback is given are the first ones that were sent, whole and in order, and
\* after end of file, a framing error or its own close it is given no more.
Channel == INSTANCE MsgChannel WITH
    Messages <- 1..MaxSends,
    sent <- [k \in DOMAIN sent |-> k],
    got <- got,
    broken <- destroyed \/ rfail \in {"eof", "framing"}

ChannelSpec == Channel!Spec

\* wsize() is what is left to write: of the queue, all but the first wstart_
\* bytes, which are fewer than its first message has (and the variables keep their
\* types).
WsizeMatches ==
    /\ TypeOK
    /\ wsize = QueueBytes(wqueue) - wstart
    /\ IF wqueue = <<>> THEN wstart = 0 ELSE wstart < RawSize(Head(wqueue))

\* input() does not go on once a callback has destroyed the msg_sock.
NoUseAfterDestroy == destroyed => ipc = "poll" /\ ~rcb

\* A receiver is told of a framing error only when the next message that was
\* sent is too long or a fragment, and of end of file only after a close.
FailuresAreCaused ==
    /\ rfail = "framing" =>
           /\ Len(got) < Len(sent)
           /\ LET m == sent[Len(got) + 1] IN m.len > MaxMsgLen \/ ~m.last
    /\ rfail = "eof" => closed

\* A Write callback is not left registered when there is nothing to write,
\* which would make the pollset spin.  (After a failed write it is.)
NoIdleWakeups == wcb => wsize > 0 \/ wfail

\* Bytes are queued and nothing will ever write them.
Stalled == wsize > 0 /\ ~wcb /\ ~wfail

GivenUp == closed \/ destroyed \/ wfail \/ rfail # "no"

\* Unless the writer stalls, whatever is sent arrives, or one of the two sides
\* has closed or was told of a failure.
ReceivedUnlessStalled ==
    [](~Stalled) => (Len(got) < Len(sent) ~> Len(got) = Len(sent) \/ GivenUp)

\* msgsock.h:15 promises to send a series of messages.  When writev says EAGAIN
\* to the first write of a queue, no Write callback is registered, and every
\* later putmsg finds the queue non-empty and does not write either.
SentIsReceived == Len(got) < Len(sent) ~> Len(got) = Len(sent) \/ GivenUp
=============================================================================
