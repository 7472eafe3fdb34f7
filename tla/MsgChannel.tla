------------------------------ MODULE MsgChannel ------------------------------
(***************************************************************************)
(* What a pair of msg_socks promises its users (cxx/xdrpp/xdrpp/           *)
(* msgsock.h:15): a series of delimited messages, received whole, in the   *)
(* order they were sent, with none left out; once the receiver has been    *)
(* told that the stream failed, or has closed it, nothing more.            *)
(***************************************************************************)
EXTENDS Sequences, Naturals

CONSTANT Messages

VARIABLES sent,     \* messages given to putmsg
          got,      \* messages passed to the receive callback
          broken    \* the receiver has given up on the stream

Init == sent = <<>> /\ got = <<>> /\ broken = FALSE

Submit(m) ==
    /\ sent' = Append(sent, m)
    /\ UNCHANGED <<got, broken>>

Deliver ==
    /\ ~broken
    /\ Len(got) < Len(sent)
    /\ got' = Append(got, sent[Len(got) + 1])
    /\ broken' \in BOOLEAN      \* the callback may close the stream
    /\ UNCHANGED sent

Break ==
    /\ broken' = TRUE
    /\ UNCHANGED <<sent, got>>

Next == (\E m \in Messages : Submit(m)) \/ Deliver \/ Break

Spec == Init /\ [][Next]_<<sent, got, broken>>
=============================================================================
