------------------------ MODULE TieringServer_proofs ------------------------
(***************************************************************************)
(* Safety of the tiering server for every finite set of children and every *)
(* set of keys and values.  The argument: the counter is never below the   *)
(* number of children whose decrement is still to come (Left), because a   *)
(* lost update only leaves it too high.                                    *)
(***************************************************************************)
EXTENDS TieringServer, FiniteSetTheorems, SequenceTheorems, TLAPS

\* The children whose callback for the current request is still to come.
Left == {c \in Children : ~Done(c)}

\* At most one call is outstanding on a connection, it is the current
\* request's, and it is in exactly one place: on its way to the child, on its
\* way back, or lost with the child.
InFlight(c) ==
    /\ calls[c] = <<op.kind>>
    /\ c \notin tosend
    /\ cpc[c] \notin {"load", "store"}
    /\ \/ inbox[c] = <<op>> /\ replies[c] = <<>> /\ conn[c] = "up"
       \/ inbox[c] = <<>> /\ \E r \in Results : replies[c] = <<r>> /\ r.kind = op.kind
       \/ inbox[c] = <<>> /\ replies[c] = <<>> /\ conn[c] = "eof"

Quiet(c) == calls[c] = <<>> /\ inbox[c] = <<>> /\ replies[c] = <<>>

LinkOK(c) ==
    /\ Quiet(c) \/ InFlight(c)
    /\ cpc[c] \in {"load", "store"} => c \notin tosend /\ res[c].kind = op.kind

LinkInv == \A c \in Children : LinkOK(c)

PhaseInv == mpc \in {"idle", "spin", "reply"} => tosend = {}

\* No counter value that is stored or about to be is below Cardinality(Left).
CounterInv ==
    /\ waiting[op.kind] >= Cardinality(Left)
    /\ \A c \in Children : cpc[c] = "store" => reg[c] >= Cardinality(Left)

\* A live child that has been sent a put and has no call left to read has
\* stored it.
StoredInv ==
    \A c \in Children :
        op.kind = "put" /\ c \notin tosend /\ conn[c] = "up" /\ inbox[c] = <<>>
            => vals[c][op.key] = op.val

\* Live children can differ only in the key of a put in progress.
AgreeInv ==
    \A c, d \in Children : conn[c] = "up" /\ conn[d] = "up" =>
        \A k \in Keys : (op.kind = "put" /\ k = op.key) \/ vals[c][k] = vals[d][k]

\* c's thread has read the answer to the current request.
Answered(c) == c \notin tosend /\ calls[c] = <<>>

\* During a get a child answers with what it holds, or it is gone.
Fresh(c, r) == r.stat # "NETWORK_ERROR" /\ r.val = vals[c][op.key]
AnswerOK(c) ==
    /\ replies[c] # <<>> => Fresh(c, Head(replies[c]))
    /\ Answered(c) =>
        /\ res[c].kind = "get"
        /\ Fresh(c, res[c]) \/ (res[c].stat = "NETWORK_ERROR" /\ conn[c] = "eof")
AnswerInv == op.kind = "get" => \A c \in Children : AnswerOK(c)

\* Every child lives, has answered the current get, and its thread has assigned last_get.
AllBack ==
    /\ op.kind = "get" /\ mpc \in {"send", "spin", "reply"} /\ Children # {}
    /\ \A c \in Children : Answered(c) /\ cpc[c] = "poll" /\ conn[c] = "up"

\* Then the last assignment was that of such an answer.
LastInv == AllBack => last_get \in {Torn} \cup {res[c].val : c \in Children}

IInv == TypeOK /\ PhaseInv /\ LinkInv /\ CounterInv /\ CountdownComplete
            /\ StoredInv /\ AgreeInv /\ AnswerInv /\ LastInv

-----------------------------------------------------------------------------
\* What the queue operations return.
LEMMA QueueFacts ==
    ASSUME NEW S, NEW s \in Seq(S)
    PROVE  /\ Len(s) \in Nat
           /\ Len(s) = 0 <=> s = <<>>
           /\ \A e \in S : /\ Append(s, e) \in Seq(S)
                           /\ Append(s, e) # <<>>
                           /\ Len(Append(s, e)) = Len(s) + 1
                           /\ s = <<>> => Head(Append(s, e)) = e
           /\ s # <<>> => /\ Head(s) \in S
                          /\ Tail(s) \in Seq(S)
                          /\ Len(Tail(s)) = Len(s) - 1
           /\ <<>> \in Seq(S)
  BY HeadTailProperties, EmptySeq, LenProperties, AppendProperties

\* The type invariant alone is inductive.
LEMMA TypeStep == TypeOK /\ [Next]_vars => TypeOK'
<1> SUFFICES ASSUME TypeOK, [Next]_vars PROVE TypeOK'
  OBVIOUS
<1> USE ConstantsAssumption DEF TypeOK, Ops, Puts, Gets, Results, Texts, lastVars
<1>0. N \in 0..UintMax
  BY FS_CardinalityType DEF N
<1>1. ASSUME NEW o \in Ops, Request(o) PROVE TypeOK'
  BY <1>0, <1>1 DEF Request, linkVars
<1>2. ASSUME NEW c \in Children, Send(c) PROVE TypeOK'
  <2>1. op.kind \in {"put", "get"}
    OBVIOUS
  <2>2. calls' \in [Children -> Seq({"put", "get"})]
    BY <1>2, <2>1, QueueFacts DEF Send
  <2>3. inbox' \in [Children -> Seq(Ops)]
    <3>1. CASE conn[c] = "up"
      <4>1. inbox' = [inbox EXCEPT ![c] = Append(@, op)]
        BY <1>2, <3>1 DEF Send
      <4>2. Append(inbox[c], op) \in Seq(Ops)
        BY QueueFacts
      <4> QED
        BY <4>1, <4>2
    <3>2. CASE conn[c] # "up"
      BY <1>2, <3>2 DEF Send
    <3> QED
      BY <3>1, <3>2
  <2> QED
    BY <1>2, <2>2, <2>3 DEF Send
<1>3. CASE SentAll
  BY <1>3 DEF SentAll, linkVars
<1>4. CASE SpinExit
  BY <1>4 DEF SpinExit, linkVars
<1>5. CASE Reply
  BY <1>5 DEF Reply, linkVars
<1>6. ASSUME NEW c \in Children, RecvReply(c) PROVE TypeOK'
  <2>1. /\ calls' \in [Children -> Seq({"put", "get"})]
        /\ replies' \in [Children -> Seq(Results)]
        /\ res' \in [Children -> Results]
    BY <1>6, QueueFacts DEF RecvReply
  <2> QED
    BY <1>6, <2>1 DEF RecvReply, mainVars
<1>7. ASSUME NEW c \in Children, RecvEof(c) PROVE TypeOK'
  <2>1. /\ calls' \in [Children -> Seq({"put", "get"})]
        /\ res' \in [Children -> Results]
    <3>1. CASE calls[c] = <<>>
      BY <1>7, <3>1 DEF RecvEof
    <3>2. CASE calls[c] # <<>>
      <4>1. /\ res' = [res EXCEPT ![c] = [kind |-> Head(calls[c]),
                                         stat |-> "NETWORK_ERROR", val |-> NoVal]]
            /\ calls' = [calls EXCEPT ![c] = Tail(@)]
        BY <1>7, <3>2 DEF RecvEof
      <4>2. Head(calls[c]) \in {"put", "get"} /\ Tail(calls[c]) \in Seq({"put", "get"})
        BY <3>2, QueueFacts
      <4>3. [kind |-> Head(calls[c]), stat |-> "NETWORK_ERROR", val |-> NoVal] \in Results
        BY <4>2
      <4> QED
        BY <4>1, <4>2, <4>3
    <3> QED
      BY <3>1, <3>2
  <2> QED
    BY <1>7, <2>1 DEF RecvEof, mainVars
<1>8. ASSUME NEW c \in Children, Load(c) PROVE TypeOK'
  BY <1>8 DEF Load, mainVars, linkVars
<1>9. ASSUME NEW c \in Children, Store(c) PROVE TypeOK'
  <2>1. Dec(reg[c]) \in 0..UintMax
    BY DEF Dec
  <2> QED
    BY <1>9, <2>1 DEF Store, mainVars, linkVars
<1>10. ASSUME NEW c \in Children, PutBody(c) PROVE TypeOK'
  BY <1>10 DEF PutBody, Return, linkVars
<1>11. ASSUME NEW c \in Children, GetBody(c) PROVE TypeOK'
  <2>1. mpc' \in {"idle", "send", "spin", "reply", "down"}
    BY <1>11 DEF GetBody
  <2>2. cpc' \in [Children -> {"poll", "load", "store", "body", "recv_call"}]
    BY <1>11 DEF GetBody, Return
  <2>3. last_get' \in Texts
    <3>1. CASE res[c].stat = "SUCCESS"
      <4>1. res[c].val \in Values
        BY <1>11, <3>1 DEF GetBody
      <4> QED
        BY <1>11, <3>1, <4>1 DEF GetBody
    <3>2. CASE res[c].stat # "SUCCESS"
      BY <1>11, <3>2 DEF GetBody
    <3> QED
      BY <3>1, <3>2
  <2>4. raced' \subseteq Children
    BY <1>11 DEF GetBody
  <2> QED
    BY <1>11, <2>1, <2>2, <2>3, <2>4 DEF GetBody, linkVars
<1>12. ASSUME NEW c \in Children, RecvCallNull(c) PROVE TypeOK'
  BY <1>12 DEF RecvCallNull, linkVars
<1>13. ASSUME NEW c \in Children, ServePut(c) PROVE TypeOK'
  <2>1. PICK o \in Ops : /\ o = Head(inbox[c]) /\ o.kind = "put"
                         /\ vals' = [vals EXCEPT ![c] = [@ EXCEPT ![o.key] = o.val]]
    BY <1>13, QueueFacts DEF ServePut
  <2>2. vals' \in [Children -> [Keys -> Values \cup {NoVal}]]
    BY <2>1
  <2>3. [kind |-> "put", stat |-> "SUCCESS", val |-> NoVal] \in Results
    OBVIOUS
  <2>4. /\ replies' \in [Children -> Seq(Results)]
        /\ inbox' \in [Children -> Seq(Ops)]
    BY <1>13, <2>3, QueueFacts DEF ServePut
  <2> QED
    BY <1>13, <2>2, <2>4 DEF ServePut, mainVars
<1>14. ASSUME NEW c \in Children, ServeGet(c) PROVE TypeOK'
  <2> DEFINE v == vals[c][Head(inbox[c]).key]
             r == [kind |-> "get", val |-> v,
                   stat |-> IF v = NoVal THEN "NOTFOUND" ELSE "SUCCESS"]
  <2>1. Head(inbox[c]) \in Ops /\ inbox' \in [Children -> Seq(Ops)]
    BY <1>14, QueueFacts DEF ServeGet
  <2>2. r \in Results
    <3>1. v \in Values \cup {NoVal}
      BY <2>1
    <3>2. CASE v = NoVal
      BY <3>2
    <3>3. CASE v # NoVal
      BY <3>1, <3>3
    <3> QED
      BY <3>2, <3>3
  <2>3. replies' \in [Children -> Seq(Results)]
    BY <1>14, <2>2, QueueFacts DEF ServeGet
  <2> QED
    BY <1>14, <2>1, <2>3 DEF ServeGet, mainVars
<1>15. ASSUME NEW c \in Children, ChildCrash(c) PROVE TypeOK'
  <2>1. /\ inbox' \in [Children -> Seq(Ops)]
        /\ replies' \in [Children -> Seq(Results)]
    <3>1. <<>> \in Seq(Ops) /\ <<>> \in Seq(Results)
      BY EmptySeq
    <3>2. inbox' = [inbox EXCEPT ![c] = <<>>]
      BY <1>15 DEF ChildCrash
    <3>3. replies' = replies \/ replies' = [replies EXCEPT ![c] = <<>>]
      BY <1>15 DEF ChildCrash
    <3>4. inbox' \in [Children -> Seq(Ops)]
      BY <3>1, <3>2
    <3>5. [replies EXCEPT ![c] = <<>>] \in [Children -> Seq(Results)]
      BY <3>1
    <3> QED
      BY <3>3, <3>4, <3>5
  <2> QED
    BY <1>15, <2>1 DEF ChildCrash, mainVars
<1>16. CASE UNCHANGED vars
  BY <1>16 DEF vars
<1> QED
  BY <1>1, <1>2, <1>3, <1>4, <1>5, <1>6, <1>7, <1>8, <1>9, <1>10, <1>11, <1>12,
     <1>13, <1>14, <1>15, <1>16 DEF Next, Main, Thread, Serve

-----------------------------------------------------------------------------
LEMMA Singletons ==
    ASSUME NEW x
    PROVE  /\ Append(<<>>, x) = <<x>>
           /\ Head(<<x>>) = x
           /\ Tail(<<x>>) = <<>>
           /\ <<x>> # <<>>
  OBVIOUS

LEMMA PhaseStep == PhaseInv /\ [Next]_vars => PhaseInv'
<1> USE DEF PhaseInv
<1>1. ASSUME PhaseInv, Main PROVE PhaseInv'
  BY <1>1 DEF Main, Request, Send, SentAll, SpinExit, Reply
<1>2. ASSUME PhaseInv, NEW c \in Children, Thread(c) PROVE PhaseInv'
  BY <1>2 DEF Thread, mainVars, RecvReply, RecvEof, Load, Store, PutBody,
              GetBody, RecvCallNull
<1>3. ASSUME PhaseInv, NEW c \in Children, Serve(c) \/ ChildCrash(c) PROVE PhaseInv'
  BY <1>3 DEF Serve, mainVars, ServePut, ServeGet, ChildCrash
<1>4. ASSUME PhaseInv, UNCHANGED vars PROVE PhaseInv'
  BY <1>4 DEF vars
<1> QED
  BY <1>1, <1>2, <1>3, <1>4 DEF Next

LEMMA LinkStep == TypeOK /\ LinkInv /\ CountdownComplete /\ [Next]_vars => LinkInv'
<1> SUFFICES ASSUME TypeOK, LinkInv, CountdownComplete, [Next]_vars,
                    NEW e \in Children
             PROVE  LinkOK(e)'
  BY DEF LinkInv
<1>0. LinkOK(e)
  BY DEF LinkInv
<1> USE DEF LinkOK, Quiet, InFlight
<1>1. ASSUME NEW o \in Ops, Request(o) PROVE LinkOK(e)'
  <2>1. Quiet(e) /\ cpc[e] \notin {"load", "store"}
    BY <1>0, <1>1, Singletons DEF Request, CountdownComplete, Done
  <2> QED
    BY <1>1, <2>1 DEF Request, linkVars
<1>2. ASSUME NEW c \in Children, Send(c) PROVE LinkOK(e)'
  <2>1. CASE e # c
    BY <1>0, <1>2, <2>1 DEF Send, TypeOK
  <2>2. CASE e = c
    <3>1. Quiet(e) /\ cpc[e] \notin {"load", "store"}
      BY <1>0, <1>2, <2>2 DEF Send
    <3>2. /\ calls'[e] = <<op.kind>> /\ e \notin tosend'
          /\ \/ inbox'[e] = <<op>> /\ conn[e] = "up"
             \/ inbox'[e] = <<>> /\ conn[e] = "eof"
          /\ op' = op /\ cpc' = cpc /\ replies' = replies /\ conn' = conn
      BY <1>2, <2>2, <3>1, Singletons DEF Send, TypeOK
    <3> QED
      BY <3>1, <3>2
  <2> QED
    BY <2>1, <2>2
<1>3. CASE SentAll \/ SpinExit \/ Reply
  BY <1>0, <1>3 DEF SentAll, SpinExit, Reply, linkVars
<1>4. ASSUME NEW c \in Children, RecvReply(c) PROVE LinkOK(e)'
  <2>1. CASE e # c
    BY <1>0, <1>4, <2>1 DEF RecvReply, TypeOK, mainVars
  <2>2. CASE e = c
    <3>1. PICK r \in Results : /\ calls[e] = <<op.kind>> /\ e \notin tosend
                               /\ inbox[e] = <<>>
                               /\ replies[e] = <<r>> /\ r.kind = op.kind
      BY <1>0, <1>4, <2>2 DEF RecvReply
    <3>2. /\ calls'[e] = <<>> /\ replies'[e] = <<>> /\ inbox' = inbox
          /\ res'[e] = r /\ op' = op /\ tosend' = tosend
      BY <1>4, <2>2, <3>1, Singletons DEF RecvReply, TypeOK, mainVars
    <3> QED
      BY <3>1, <3>2
  <2> QED
    BY <2>1, <2>2
<1>5. ASSUME NEW c \in Children, RecvEof(c) PROVE LinkOK(e)'
  <2>1. CASE e # c
    BY <1>0, <1>5, <2>1 DEF RecvEof, TypeOK, mainVars
  <2>2. CASE e = c /\ calls[c] = <<>>
    BY <1>0, <1>5, <2>2 DEF RecvEof, TypeOK, mainVars
  <2>3. CASE e = c /\ calls[c] # <<>>
    <3>1. /\ calls[e] = <<op.kind>> /\ e \notin tosend
          /\ inbox[e] = <<>> /\ replies[e] = <<>>
      BY <1>0, <1>5, <2>3, Singletons DEF RecvEof
    <3>2. /\ calls'[e] = <<>> /\ replies' = replies /\ inbox' = inbox
          /\ res'[e].kind = op.kind /\ op' = op /\ tosend' = tosend
      BY <1>5, <2>3, <3>1, Singletons DEF RecvEof, TypeOK, mainVars
    <3> QED
      BY <3>1, <3>2
  <2> QED
    BY <2>1, <2>2, <2>3
<1>6. ASSUME NEW c \in Children, Load(c) PROVE LinkOK(e)'
  BY <1>0, <1>6 DEF Load, TypeOK, mainVars, linkVars
<1>7. ASSUME NEW c \in Children, Store(c) PROVE LinkOK(e)'
  BY <1>0, <1>7 DEF Store, TypeOK, mainVars, linkVars
<1>8. ASSUME NEW c \in Children, PutBody(c) PROVE LinkOK(e)'
  BY <1>0, <1>8 DEF PutBody, Return, TypeOK, linkVars
<1>9. ASSUME NEW c \in Children, GetBody(c) PROVE LinkOK(e)'
  BY <1>0, <1>9 DEF GetBody, Return, TypeOK, linkVars
<1>10. ASSUME NEW c \in Children, RecvCallNull(c) PROVE LinkOK(e)'
  BY <1>0, <1>10 DEF RecvCallNull, linkVars
<1>11. ASSUME NEW c \in Children, ServePut(c) \/ ServeGet(c) PROVE LinkOK(e)'
  <2>1. CASE e # c
    BY <1>0, <1>11, <2>1 DEF ServePut, ServeGet, TypeOK, mainVars
  <2>2. CASE e = c
    <3>1. /\ calls[e] = <<op.kind>> /\ e \notin tosend /\ inbox[e] = <<op>>
          /\ replies[e] = <<>> /\ cpc[e] \notin {"load", "store"}
      BY <1>0, <1>11, <2>2 DEF ServePut, ServeGet
    <3>2. /\ inbox'[e] = <<>> /\ calls' = calls /\ cpc' = cpc
          /\ op' = op /\ tosend' = tosend /\ res' = res
      BY <1>11, <2>2, <3>1, Singletons DEF ServePut, ServeGet, TypeOK, mainVars
    <3>3. \E r \in Results : replies'[e] = <<r>> /\ r.kind = op.kind
      <4>1. CASE ServePut(c)
        <5>1. [kind |-> "put", stat |-> "SUCCESS", val |-> NoVal] \in Results
          BY DEF Results
        <5>2. op.kind = "put" /\ replies'[e] =
                  <<[kind |-> "put", stat |-> "SUCCESS", val |-> NoVal]>>
          BY <2>2, <3>1, <4>1, Singletons DEF ServePut, TypeOK
        <5> QED
          BY <5>1, <5>2
      <4>2. CASE ServeGet(c)
        <5> DEFINE v == vals[c][op.key]
                   r == [kind |-> "get", val |-> v,
                         stat |-> IF v = NoVal THEN "NOTFOUND" ELSE "SUCCESS"]
        <5>1. v \in Values \cup {NoVal}
          BY DEF TypeOK, Ops, Puts, Gets
        <5>2. r \in Results
          <6>1. CASE v = NoVal
            BY <6>1 DEF Results
          <6>2. CASE v # NoVal
            BY <5>1, <6>2 DEF Results
          <6> QED
            BY <6>1, <6>2
        <5>3. replies'[e] = <<r>> /\ op.kind = "get"
          BY <2>2, <3>1, <4>2, Singletons DEF ServeGet, TypeOK
        <5> QED
          BY <5>2, <5>3
      <4> QED
        BY <1>11, <4>1, <4>2
    <3> QED
      BY <3>1, <3>2, <3>3
  <2> QED
    BY <2>1, <2>2
<1>12. ASSUME NEW c \in Children, ChildCrash(c) PROVE LinkOK(e)'
  <2>1. CASE e # c
    BY <1>0, <1>12, <2>1 DEF ChildCrash, TypeOK, mainVars
  <2>2. CASE e = c
    <3>1. /\ inbox'[e] = <<>> /\ conn'[e] = "eof"
          /\ replies'[e] = replies[e] \/ replies'[e] = <<>>
          /\ calls' = calls /\ cpc' = cpc /\ op' = op /\ tosend' = tosend /\ res' = res
      BY <1>12, <2>2 DEF ChildCrash, TypeOK, mainVars
    <3> QED
      BY <1>0, <3>1
  <2> QED
    BY <2>1, <2>2
<1>13. CASE UNCHANGED vars
  BY <1>0, <1>13 DEF vars
<1> QED
  BY <1>1, <1>2, <1>3, <1>4, <1>5, <1>6, <1>7, <1>8, <1>9, <1>10, <1>11, <1>12, <1>13
     DEF Next, Main, Thread, Serve

-----------------------------------------------------------------------------
\* The children whose callback is to come form a finite set.
LEMMA LeftType ==
    /\ IsFiniteSet(Left)
    /\ Cardinality(Left) \in Nat
    /\ \A T : T \subseteq Left => Cardinality(T) \in Nat /\ Cardinality(T) <= Cardinality(Left)
<1>1. IsFiniteSet(Left)
  BY ConstantsAssumption, FS_Subset DEF Left
<1>2. ASSUME NEW T, T \subseteq Left
      PROVE  Cardinality(T) \in Nat /\ Cardinality(T) <= Cardinality(Left)
  BY <1>1, <1>2, FS_Subset, FS_CardinalityType
<1> QED
  BY <1>1, <1>2, FS_CardinalityType

\* A child that is done stays done until the next request.
LEMMA DoneKept ==
    ASSUME TypeOK, LinkInv, [Next]_vars, ~\E o \in Ops : Request(o),
           NEW e \in Children, Done(e)
    PROVE  Done(e)'
<1> USE DEF Done
<1>0. Quiet(e)
  BY Singletons DEF LinkInv, LinkOK, InFlight
<1>1. ASSUME NEW c \in Children, Send(c) PROVE Done(e)'
  BY <1>1 DEF Send, TypeOK
<1>2. CASE SentAll \/ SpinExit \/ Reply
  BY <1>2 DEF SentAll, SpinExit, Reply, linkVars
<1>3. ASSUME NEW c \in Children, RecvReply(c) PROVE Done(e)'
  BY <1>3 DEF RecvReply, TypeOK, mainVars
<1>4. ASSUME NEW c \in Children, RecvEof(c) PROVE Done(e)'
  BY <1>4 DEF RecvEof, TypeOK, mainVars
<1>5. ASSUME NEW c \in Children, Load(c) \/ Store(c) PROVE Done(e)'
  BY <1>5 DEF Load, Store, TypeOK, mainVars, linkVars
<1>6. ASSUME NEW c \in Children, PutBody(c) PROVE Done(e)'
  BY <1>6 DEF PutBody, Return, TypeOK, linkVars
<1>7. ASSUME NEW c \in Children, GetBody(c) PROVE Done(e)'
  BY <1>7 DEF GetBody, Return, TypeOK, linkVars
<1>8. ASSUME NEW c \in Children, RecvCallNull(c) PROVE Done(e)'
  BY <1>8 DEF RecvCallNull, linkVars
<1>9. ASSUME NEW c \in Children, Serve(c) \/ ChildCrash(c) PROVE Done(e)'
  BY <1>9 DEF Serve, ServePut, ServeGet, ChildCrash, mainVars
<1>10. CASE UNCHANGED vars
  BY <1>10 DEF vars
<1> QED
  BY <1>1, <1>2, <1>3, <1>4, <1>5, <1>6, <1>7, <1>8, <1>9, <1>10 DEF Next, Main, Thread

\* Losing an update leaves the counter too high, never too low.
LEMMA CounterStep ==
    TypeOK /\ LinkInv /\ CounterInv /\ CountdownComplete /\ [Next]_vars => CounterInv'
<1> SUFFICES ASSUME TypeOK, LinkInv, CounterInv, CountdownComplete, [Next]_vars
             PROVE  CounterInv'
  OBVIOUS
<1>1. ASSUME NEW o \in Ops, Request(o) PROVE CounterInv'
  <2>1. Left' = Children
    BY <1>1 DEF Left, Done, Request
  <2>2. waiting'[op'.kind] = Cardinality(Children)
    BY <1>1 DEF Request, TypeOK, N, Ops, Puts, Gets
  <2>3. \A c \in Children : cpc'[c] # "store"
    BY <1>1 DEF Request, CountdownComplete, Done
  <2>4. Cardinality(Children) \in Nat
    BY FS_CardinalityType, ConstantsAssumption
  <2> QED
    BY <2>1, <2>2, <2>3, <2>4 DEF CounterInv
<1> SUFFICES ASSUME ~\E o \in Ops : Request(o) PROVE CounterInv'
  BY <1>1
<1>2. Left' \subseteq Left
  BY DoneKept DEF Left
<1>3. Cardinality(Left') \in Nat /\ Cardinality(Left') <= Cardinality(Left)
  BY <1>2, LeftType
<1>4. /\ op.kind \in {"put", "get"}
      /\ waiting[op.kind] \in Nat
      /\ \A c \in Children : reg[c] \in Nat /\ res[c].kind \in {"put", "get"}
  BY ConstantsAssumption DEF TypeOK, Ops, Puts, Gets, Results
\* What most steps do: they leave the counter and the loaded values alone.
<1> DEFINE Idle == /\ waiting' = waiting /\ reg' = reg /\ op' = op
                   /\ \A c \in Children : cpc'[c] = "store" => cpc[c] = "store"
<1>5. ASSUME Idle PROVE CounterInv'
  BY <1>3, <1>4, <1>5, LeftType DEF CounterInv
<1>6. ASSUME NEW c \in Children, Load(c) PROVE CounterInv'
  <2>1. waiting' = waiting /\ op' = op /\ reg'[c] = waiting[op.kind]
    BY <1>6 DEF Load, LinkInv, LinkOK, TypeOK, mainVars
  <2>2. \A d \in Children : d # c => reg'[d] = reg[d] /\ cpc'[d] = cpc[d]
    BY <1>6 DEF Load, TypeOK
  <2> QED
    BY <1>3, <1>4, <2>1, <2>2, LeftType DEF CounterInv
<1>7. ASSUME NEW c \in Children, Store(c) PROVE CounterInv'
  <2>1. c \in Left /\ res[c].kind = op.kind
    BY <1>7 DEF Store, Left, Done, LinkInv, LinkOK
  <2>2. c \notin Left'
    <3>1. tosend' = tosend /\ calls' = calls /\ cpc'[c] = "body"
      BY <1>7 DEF Store, TypeOK, mainVars, linkVars
    <3>2. c \notin tosend /\ calls[c] = <<>>
      BY <1>7, Singletons DEF Store, LinkInv, LinkOK, Quiet, InFlight
    <3> QED
      BY <3>1, <3>2 DEF Left, Done
  <2>3. Cardinality(Left') < Cardinality(Left)
    <3>1. Left' \subseteq Left \ {c}
      BY <1>2, <2>2
    <3>2. /\ IsFiniteSet(Left \ {c})
          /\ Cardinality(Left \ {c}) = Cardinality(Left) - 1
      BY <2>1, LeftType, FS_RemoveElement
    <3>3. Cardinality(Left') <= Cardinality(Left \ {c})
      BY <3>1, <3>2, FS_Subset
    <3> QED
      BY <1>3, <3>2, <3>3, LeftType
  <2>4. reg[c] >= Cardinality(Left)
    BY <1>7 DEF Store, CounterInv
  <2>5. reg[c] > 0 /\ Dec(reg[c]) = reg[c] - 1
    BY <1>3, <1>4, <2>3, <2>4, LeftType DEF Dec
  <2>6. waiting'[op'.kind] = reg[c] - 1
    BY <1>4, <1>7, <2>1, <2>5 DEF Store, TypeOK, mainVars
  <2>7. \A d \in Children : cpc'[d] = "store" => cpc[d] = "store" /\ reg'[d] = reg[d]
    BY <1>7 DEF Store, TypeOK
  <2> QED
    BY <1>3, <1>4, <2>3, <2>4, <2>6, <2>7, LeftType DEF CounterInv
<1>8. ASSUME NEW c \in Children, Send(c) PROVE Idle
  BY <1>8 DEF Send
<1>9. CASE SentAll \/ SpinExit \/ Reply
  BY <1>5, <1>9 DEF SentAll, SpinExit, Reply
<1>10. ASSUME NEW c \in Children, RecvReply(c) PROVE Idle
  BY <1>10 DEF RecvReply, TypeOK, mainVars
<1>11. ASSUME NEW c \in Children, RecvEof(c) PROVE Idle
  BY <1>11 DEF RecvEof, TypeOK, mainVars
<1>12. ASSUME NEW c \in Children, PutBody(c) PROVE Idle
  BY <1>12 DEF PutBody, Return, TypeOK
<1>13. ASSUME NEW c \in Children, GetBody(c) PROVE Idle
  BY <1>13 DEF GetBody, Return, TypeOK
<1>14. ASSUME NEW c \in Children, RecvCallNull(c) PROVE Idle
  BY <1>14 DEF RecvCallNull
<1>15. ASSUME NEW c \in Children, Serve(c) \/ ChildCrash(c) PROVE Idle
  BY <1>15 DEF Serve, ServePut, ServeGet, ChildCrash, mainVars
<1>16. CASE UNCHANGED vars
  BY <1>5, <1>16 DEF vars
<1> QED
  BY <1>5, <1>6, <1>7, <1>8, <1>9, <1>10, <1>11, <1>12, <1>13, <1>14, <1>15, <1>16
     DEF Next, Main, Thread

\* The spin loop ends only when no callback is left.
LEMMA CountdownStep ==
    TypeOK /\ LinkInv /\ CounterInv /\ CountdownComplete /\ [Next]_vars
        => CountdownComplete'
<1> SUFFICES ASSUME TypeOK, LinkInv, CounterInv, CountdownComplete, [Next]_vars,
                    mpc' \in {"idle", "reply"}, NEW e \in Children
             PROVE  Done(e)'
  BY DEF CountdownComplete
<1>1. ~\E o \in Ops : Request(o)
  BY DEF Request
<1>2. CASE SpinExit
  <2>1. Cardinality(Left) = 0
    BY <1>2, LeftType DEF SpinExit, CounterInv
  <2>2. Done(e)
    BY <2>1, LeftType, FS_EmptySet DEF Left
  <2> QED
    BY <1>1, <2>2, DoneKept
<1>3. CASE ~SpinExit
  <2>1. mpc \in {"idle", "reply"}
    BY <1>1, <1>3 DEF Next, Main, Thread, Serve, vars, mainVars, Send, SentAll, Reply,
           RecvReply, RecvEof, Load, Store, PutBody, GetBody, RecvCallNull,
           ServePut, ServeGet, ChildCrash
  <2> QED
    BY <1>1, <2>1, DoneKept DEF CountdownComplete
<1> QED
  BY <1>2, <1>3

LEMMA StoredStep == TypeOK /\ LinkInv /\ StoredInv /\ [Next]_vars => StoredInv'
<1> SUFFICES ASSUME TypeOK, LinkInv, StoredInv, [Next]_vars, NEW e \in Children,
                    (op.kind = "put" /\ e \notin tosend /\ conn[e] = "up"
                        /\ inbox[e] = <<>>)'
             PROVE  (vals[e][op.key] = op.val)'
  BY DEF StoredInv
<1> DEFINE Same == /\ op' = op /\ tosend' = tosend /\ conn' = conn
                   /\ inbox' = inbox /\ vals' = vals
<1>1. ASSUME Same PROVE (vals[e][op.key] = op.val)'
  BY <1>1 DEF StoredInv
<1>2. ASSUME NEW o \in Ops, Request(o) PROVE FALSE
  BY <1>2 DEF Request
<1>3. ASSUME NEW c \in Children, Send(c) PROVE (vals[e][op.key] = op.val)'
  <2>1. e # c
    <3>1. ASSUME e = c PROVE inbox'[e] # <<>>
      <4>1. inbox[e] = <<>>
        BY <1>3, <3>1, Singletons DEF Send, LinkInv, LinkOK, InFlight, Quiet
      <4> QED
        BY <1>3, <3>1, <4>1, Singletons DEF Send, TypeOK
    <3> QED
      BY <3>1
  <2>2. /\ op' = op /\ e \notin tosend /\ conn' = conn /\ inbox'[e] = inbox[e]
        /\ vals' = vals
    BY <1>3, <2>1 DEF Send, TypeOK
  <2> QED
    BY <2>2 DEF StoredInv
<1>4. CASE SentAll \/ SpinExit \/ Reply
  BY <1>1, <1>4 DEF SentAll, SpinExit, Reply, linkVars
<1>5. ASSUME NEW c \in Children, Thread(c) PROVE Same
  BY <1>5 DEF Thread, RecvReply, RecvEof, Load, Store, PutBody, GetBody,
              RecvCallNull, mainVars, linkVars
<1>6. ASSUME NEW c \in Children, ServePut(c) PROVE (vals[e][op.key] = op.val)'
  <2>1. inbox[c] = <<op>> /\ op \in Ops /\ op.kind = "put"
    BY <1>6, Singletons DEF ServePut, LinkInv, LinkOK, InFlight, Quiet, TypeOK
  <2>2. /\ vals' = [vals EXCEPT ![c] = [@ EXCEPT ![op.key] = op.val]]
        /\ inbox' = [inbox EXCEPT ![c] = Tail(@)]
        /\ op' = op /\ tosend' = tosend /\ conn' = conn
    BY <1>6, <2>1, Singletons DEF ServePut, mainVars
  <2>3. op.key \in Keys
    BY <2>1 DEF Ops, Puts, Gets
  <2> QED
    BY <2>2, <2>3 DEF StoredInv, TypeOK
<1>7. ASSUME NEW c \in Children, ServeGet(c) PROVE (vals[e][op.key] = op.val)'
  <2>1. op.kind = "get"
    BY <1>7, Singletons DEF ServeGet, LinkInv, LinkOK, InFlight, Quiet
  <2> QED
    BY <1>7, <2>1 DEF ServeGet, mainVars
<1>8. ASSUME NEW c \in Children, ChildCrash(c) PROVE (vals[e][op.key] = op.val)'
  <2>1. e # c
    BY <1>8 DEF ChildCrash, TypeOK
  <2> QED
    BY <1>8, <2>1 DEF ChildCrash, StoredInv, TypeOK, mainVars
<1>9. CASE UNCHANGED vars
  BY <1>1, <1>9 DEF vars
<1> QED
  BY <1>1, <1>2, <1>3, <1>4, <1>5, <1>6, <1>7, <1>8, <1>9 DEF Next, Main, Serve

\* Once every child is done the live ones hold the same map.
LEMMA AllAgree ==
    ASSUME TypeOK, PhaseInv, LinkInv, CountdownComplete, StoredInv, AgreeInv
    PROVE  /\ PutAckedByAll
           /\ ReplicasAgree
<1>1. ASSUME mpc \in {"idle", "reply"}, NEW c \in Children
      PROVE  c \notin tosend /\ inbox[c] = <<>>
  BY <1>1, Singletons DEF PhaseInv, CountdownComplete, Done, LinkInv, LinkOK, InFlight, Quiet
<1>2. PutAckedByAll
  BY <1>1 DEF PutAckedByAll, StoredInv
<1>3. ASSUME mpc = "idle", NEW c \in Children, NEW d \in Children,
             conn[c] = "up", conn[d] = "up"
      PROVE  vals[c] = vals[d]
  <2>1. ASSUME NEW k \in Keys PROVE vals[c][k] = vals[d][k]
    BY <1>1, <1>3, <2>1 DEF StoredInv, AgreeInv
  <2> QED
    BY <2>1 DEF TypeOK
<1> QED
  BY <1>2, <1>3 DEF ReplicasAgree

LEMMA AgreeStep ==
    TypeOK /\ PhaseInv /\ LinkInv /\ CountdownComplete /\ StoredInv /\ AgreeInv
        /\ [Next]_vars => AgreeInv'
<1> SUFFICES ASSUME TypeOK, PhaseInv, LinkInv, CountdownComplete, StoredInv, AgreeInv,
                    [Next]_vars, NEW a \in Children, NEW b \in Children,
                    (conn[a] = "up" /\ conn[b] = "up")', NEW k \in Keys,
                    ~(op.kind = "put" /\ k = op.key)'
             PROVE  (vals[a][k] = vals[b][k])'
  BY DEF AgreeInv
<1> DEFINE Same == op' = op /\ conn' = conn /\ vals' = vals
<1>1. ASSUME Same PROVE (vals[a][k] = vals[b][k])'
  BY <1>1 DEF AgreeInv
<1>2. ASSUME NEW o \in Ops, Request(o) PROVE (vals[a][k] = vals[b][k])'
  BY <1>2, AllAgree DEF Request, ReplicasAgree, linkVars
<1>3. ASSUME NEW c \in Children, Send(c) \/ Thread(c) PROVE Same
  BY <1>3 DEF Send, Thread, RecvReply, RecvEof, Load, Store, PutBody, GetBody,
              RecvCallNull, mainVars, linkVars
<1>4. CASE SentAll \/ SpinExit \/ Reply
  BY <1>1, <1>4 DEF SentAll, SpinExit, Reply, linkVars
<1>5. ASSUME NEW c \in Children, ServePut(c) PROVE (vals[a][k] = vals[b][k])'
  <2>1. inbox[c] = <<op>> /\ op \in Ops /\ op.kind = "put"
    BY <1>5, Singletons DEF ServePut, LinkInv, LinkOK, InFlight, Quiet, TypeOK
  <2>2. /\ vals' = [vals EXCEPT ![c] = [@ EXCEPT ![op.key] = op.val]]
        /\ op' = op /\ conn' = conn
    BY <1>5, <2>1, Singletons DEF ServePut, mainVars
  <2>3. k # op.key
    BY <2>1, <2>2
  <2>4. vals'[a][k] = vals[a][k] /\ vals'[b][k] = vals[b][k]
    BY <2>2, <2>3 DEF TypeOK
  <2> QED
    BY <2>2, <2>3, <2>4 DEF AgreeInv
<1>6. ASSUME NEW c \in Children, ServeGet(c) PROVE Same
  BY <1>6 DEF ServeGet, mainVars
<1>7. ASSUME NEW c \in Children, ChildCrash(c) PROVE (vals[a][k] = vals[b][k])'
  <2>1. conn[a] = "up" /\ conn[b] = "up"
    BY <1>7 DEF ChildCrash, TypeOK
  <2> QED
    BY <1>7, <2>1 DEF ChildCrash, AgreeInv, mainVars
<1>8. CASE UNCHANGED vars
  BY <1>1, <1>8 DEF vars
<1> QED
  BY <1>1, <1>2, <1>3, <1>4, <1>5, <1>6, <1>7, <1>8 DEF Next, Main, Serve

-----------------------------------------------------------------------------
\* What is answered to a get.
LEMMA AnswerStep == TypeOK /\ LinkInv /\ CountdownComplete /\ AnswerInv /\ [Next]_vars => AnswerInv'
<1> SUFFICES ASSUME TypeOK, LinkInv, CountdownComplete, AnswerInv, [Next]_vars,
                    op'.kind = "get", NEW e \in Children
             PROVE  AnswerOK(e)'
  BY DEF AnswerInv
<1>0. LinkOK(e)
  BY DEF LinkInv
\* Most steps leave alone all that AnswerOK speaks of.
<1> DEFINE Same == /\ op' = op /\ vals' = vals /\ conn'[e] = conn[e] /\ replies'[e] = replies[e]
                   /\ res'[e] = res[e] /\ calls'[e] = calls[e] /\ (e \in tosend' <=> e \in tosend)
<1>1. ASSUME Same PROVE AnswerOK(e)'
  BY <1>1 DEF AnswerInv, AnswerOK, Answered, Fresh
<1>2. ASSUME NEW o \in Ops, Request(o) PROVE AnswerOK(e)'
  <2>1. replies[e] = <<>>
    BY <1>0, <1>2, Singletons DEF Request, CountdownComplete, Done, LinkOK, Quiet, InFlight
  <2> QED
    BY <1>2, <2>1 DEF Request, linkVars, AnswerOK, Answered
<1>3. ASSUME NEW c \in Children, Send(c) PROVE AnswerOK(e)'
  <2>1. CASE e = c
    <3>1. calls'[e] # <<>>
      <4>1. op.kind \in {"put", "get"} /\ calls[e] \in Seq({"put", "get"})
        BY DEF TypeOK, Ops, Puts, Gets
      <4>2. calls'[e] = Append(calls[e], op.kind)
        BY <1>3, <2>1 DEF Send, TypeOK
      <4> QED
        BY <4>1, <4>2, QueueFacts
    <3>2. UNCHANGED <<op, vals, replies>>
      BY <1>3 DEF Send
    <3> QED
      BY <3>1, <3>2 DEF AnswerInv, AnswerOK, Answered, Fresh
  <2>2. CASE e # c
    BY <1>1, <1>3, <2>2 DEF Send, TypeOK
  <2> QED
    BY <2>1, <2>2
<1>4. CASE SentAll \/ SpinExit \/ Reply
  BY <1>1, <1>4 DEF SentAll, SpinExit, Reply, linkVars
<1>5. ASSUME NEW c \in Children, RecvReply(c) PROVE AnswerOK(e)'
  <2>1. CASE e # c
    BY <1>1, <1>5, <2>1 DEF RecvReply, TypeOK, mainVars
  <2>2. CASE e = c
    <3>1. PICK r \in Results : replies[e] = <<r>> /\ r.kind = op.kind
      BY <1>0, <1>5, <2>2 DEF RecvReply, LinkOK, Quiet, InFlight
    <3>2. UNCHANGED <<op, vals>> /\ replies'[e] = <<>> /\ res'[e] = r
      BY <1>5, <2>2, <3>1, Singletons DEF RecvReply, TypeOK, mainVars
    <3>3. Fresh(e, r)
      BY <3>1, <3>2, Singletons DEF AnswerInv, AnswerOK
    <3> QED
      BY <3>1, <3>2, <3>3 DEF AnswerOK, Fresh
  <2> QED
    BY <2>1, <2>2
<1>6. ASSUME NEW c \in Children, RecvEof(c) PROVE AnswerOK(e)'
  <2>1. CASE e # c \/ calls[c] = <<>>
    BY <1>1, <1>6, <2>1 DEF RecvEof, TypeOK, mainVars
  <2>2. CASE e = c /\ calls[c] # <<>>
    <3>1. calls[e] = <<op.kind>>
      BY <1>0, <2>2 DEF LinkOK, Quiet, InFlight
    <3>2. /\ op' = op /\ replies'[e] = <<>> /\ conn'[e] = "eof"
          /\ res'[e].kind = op.kind /\ res'[e].stat = "NETWORK_ERROR"
      BY <1>6, <2>2, <3>1, Singletons DEF RecvEof, TypeOK, mainVars
    <3> QED
      BY <3>2 DEF AnswerOK
  <2> QED
    BY <2>1, <2>2
<1>7. ASSUME NEW c \in Children,
             Load(c) \/ Store(c) \/ PutBody(c) \/ GetBody(c) \/ RecvCallNull(c)
      PROVE  AnswerOK(e)'
  BY <1>1, <1>7 DEF Load, Store, PutBody, GetBody, RecvCallNull, mainVars, linkVars
<1>8. ASSUME NEW c \in Children, ServePut(c) \/ ServeGet(c) PROVE AnswerOK(e)'
  <2>1. inbox[c] = <<op>> /\ replies[c] = <<>> /\ calls[c] # <<>>
    BY <1>8, Singletons DEF ServePut, ServeGet, LinkInv, LinkOK, InFlight, Quiet
  <2>2. ServeGet(c)
    BY <1>8, <2>1, Singletons DEF ServePut, mainVars
  <2>3. CASE e # c
    BY <1>1, <2>2, <2>3 DEF ServeGet, TypeOK, mainVars
  <2>4. CASE e = c
    <3> DEFINE v == vals[c][op.key]
               r == [kind |-> "get", val |-> v,
                     stat |-> IF v = NoVal THEN "NOTFOUND" ELSE "SUCCESS"]
    <3>1. replies'[e] = <<r>> /\ UNCHANGED <<op, vals, calls>>
      BY <2>1, <2>2, <2>4, Singletons DEF ServeGet, TypeOK, mainVars
    <3>2. Head(replies'[e]) = r /\ r.val = v /\ r.stat # "NETWORK_ERROR"
      BY <3>1, Singletons
    <3> QED
      BY <2>1, <2>4, <3>1, <3>2 DEF AnswerOK, Answered, Fresh
  <2> QED
    BY <2>3, <2>4
<1>9. ASSUME NEW c \in Children, ChildCrash(c) PROVE AnswerOK(e)'
  <2>1. CASE e # c
    BY <1>1, <1>9, <2>1 DEF ChildCrash, TypeOK, mainVars
  <2>2. CASE e = c
    <3>1. /\ conn'[e] = "eof" /\ replies'[e] \in {replies[e], <<>>}
          /\ UNCHANGED <<op, vals, res, calls, tosend>>
      BY <1>9, <2>2 DEF ChildCrash, TypeOK, mainVars
    <3> QED
      BY <3>1 DEF AnswerInv, AnswerOK, Answered, Fresh
  <2> QED
    BY <2>1, <2>2
<1>10. CASE UNCHANGED vars
  BY <1>1, <1>10 DEF vars
<1> QED
  BY <1>2, <1>3, <1>4, <1>5, <1>6, <1>7, <1>8, <1>9, <1>10 DEF Next, Main, Thread, Serve

\* The thread that comes back last assigns an answer to the current get.
LEMMA LastStep == TypeOK /\ AnswerInv /\ LastInv /\ [Next]_vars => LastInv'
<1> SUFFICES ASSUME TypeOK, AnswerInv, LastInv, [Next]_vars, AllBack'
             PROVE  (last_get \in {Torn} \cup {res[c].val : c \in Children})'
  BY DEF LastInv
<1>0. /\ op'.kind = "get" /\ mpc' \in {"send", "spin", "reply"} /\ Children # {}
      /\ \A c \in Children : c \notin tosend' /\ calls'[c] = <<>> /\ cpc'[c] = "poll" /\ conn'[c] = "up"
  BY DEF AllBack, Answered
<1> DEFINE Same == /\ op' = op /\ conn' = conn /\ cpc' = cpc /\ calls' = calls /\ tosend' = tosend
                   /\ mpc \in {"send", "spin", "reply"} /\ last_get' = last_get /\ res' = res
<1>1. ~Same \/ (last_get \in {Torn} \cup {res[c].val : c \in Children})'
  BY <1>0 DEF LastInv, AllBack, Answered
<1>2. ~\E o \in Ops : Request(o)
  BY <1>0 DEF Request
<1>3. ~\E c \in Children : Send(c)
  BY <1>0, QueueFacts DEF Send, TypeOK, Ops, Puts, Gets
<1>4. CASE SentAll \/ SpinExit \/ Reply
  BY <1>0, <1>1, <1>4 DEF SentAll, SpinExit, Reply, linkVars, lastVars
<1>5. ASSUME NEW c \in Children, RecvReply(c) \/ RecvEof(c) \/ Load(c) \/ Store(c) PROVE FALSE
  <2>1. cpc'[c] # "poll"
    BY <1>5 DEF RecvReply, RecvEof, Load, Store, TypeOK
  <2> QED
    BY <1>0, <2>1
<1>6. ASSUME NEW c \in Children, PutBody(c) PROVE FALSE
  <2>1. res[c].kind = "put" /\ op' = op /\ tosend' = tosend /\ calls' = calls
    BY <1>6 DEF PutBody, linkVars
  <2> QED
    BY <1>0, <2>1 DEF AnswerInv, AnswerOK, Answered
<1>7. ASSUME NEW c \in Children, GetBody(c) PROVE (last_get \in {Torn} \cup {res[d].val : d \in Children})'
  <2>1. res[c].stat # "NOTFOUND"
    BY <1>0, <1>7 DEF GetBody
  <2>2. res[c].stat # "NETWORK_ERROR"
    <3>1. ASSUME res[c].stat = "NETWORK_ERROR" PROVE cpc'[c] = "recv_call"
      BY <1>7, <3>1 DEF GetBody, Return, TypeOK
    <3> QED
      BY <1>0, <3>1
  <2> QED
    BY <1>7, <2>1, <2>2 DEF GetBody
<1>8. ASSUME NEW c \in Children, RecvCallNull(c) \/ ChildCrash(c) PROVE FALSE
  BY <1>0, <1>8 DEF RecvCallNull, ChildCrash, TypeOK
<1>9. ASSUME NEW c \in Children, Serve(c) PROVE Same
  BY <1>0, <1>9 DEF Serve, ServePut, ServeGet, mainVars, lastVars
<1>10. CASE UNCHANGED vars
  BY <1>0, <1>1, <1>10 DEF vars, lastVars
<1> QED
  BY <1>1, <1>2, <1>3, <1>4, <1>5, <1>6, <1>7, <1>8, <1>9, <1>10 DEF Next, Main, Thread

-----------------------------------------------------------------------------
LEMMA Initially == Init => IInv
<1> SUFFICES ASSUME Init PROVE IInv
  OBVIOUS
<1>1. TypeOK
  BY ConstantsAssumption, EmptySeq
     DEF Init, TypeOK, Ops, Puts, Gets, Results, Texts
<1>2. LinkInv /\ CountdownComplete /\ PhaseInv
  BY DEF Init, LinkInv, LinkOK, Quiet, CountdownComplete, Done, PhaseInv
<1>3. CounterInv
  <2>1. Left = {}
    BY DEF Init, Left, Done
  <2> QED
    BY <2>1, FS_EmptySet DEF Init, CounterInv, Gets
<1>4. StoredInv /\ AgreeInv
  BY DEF Init, StoredInv, AgreeInv, Gets
<1>5. AnswerInv /\ LastInv
  BY DEF Init, AnswerInv, AnswerOK, Fresh, LastInv, AllBack, Gets
<1> QED
  BY <1>1, <1>2, <1>3, <1>4, <1>5 DEF IInv

LEMMA Inductive == IInv /\ [Next]_vars => IInv'
  BY TypeStep, PhaseStep, LinkStep, CounterStep, CountdownStep, StoredStep,
     AgreeStep, AnswerStep, LastStep DEF IInv

\* Every reachable state satisfies the inductive invariant.
LEMMA Invariance == Spec => []IInv
  BY Initially, Inductive, PTL DEF Spec, Safety

\* Every variable keeps its type; the counters stay within a uint32_t.
THEOREM TypeCorrect == Spec => []TypeOK
<1>1. IInv => TypeOK
  BY DEF IInv
<1> QED
  BY <1>1, Invariance, PTL

\* kv_put and kv_get answer only after every callback has run its decrement:
\* the counter never reaches 0 too early, however the decrements interleave.
THEOREM CountdownIsComplete == Spec => []CountdownComplete
<1>1. IInv => CountdownComplete
  BY DEF IInv
<1> QED
  BY <1>1, Invariance, PTL

\* NoUnderflow: no decrement wraps the counter around.
THEOREM CountersNeverWrap == Spec => []NoUnderflow
<1>1. IInv => NoUnderflow
  <2> SUFFICES ASSUME IInv, NEW c \in Children, cpc[c] = "store" PROVE reg[c] > 0
    BY DEF NoUnderflow, IInv
  <2>1. c \in Left /\ reg[c] >= Cardinality(Left) /\ reg[c] \in Nat
    BY ConstantsAssumption DEF IInv, TypeOK, CounterInv, Left, Done
  <2>2. Cardinality(Left) # 0
    BY <2>1, LeftType, FS_EmptySet
  <2> QED
    BY <2>1, <2>2, LeftType
<1> QED
  BY <1>1, Invariance, PTL

\* A put is acknowledged only when every live child has stored it.
THEOREM PutsReachEveryChild == Spec => []PutAckedByAll
<1>1. IInv => PutAckedByAll
  BY AllAgree DEF IInv
<1> QED
  BY <1>1, Invariance, PTL

\* Between requests the live children are replicas of one another.
THEOREM ReplicasStayEqual == Spec => []ReplicasAgree
<1>1. IInv => ReplicasAgree
  BY AllAgree DEF IInv
<1> QED
  BY <1>1, Invariance, PTL

\* kv_get answers with the value that the living children hold, unless a callback has yet
\* to assign last_get or two assignments have overlapped (get_cb, tiering_server.cc:12):
\* of the callbacks of this get and of earlier ones, one of this get assigns it last.
THEOREM GetsAreFreshUnlessRaced == Spec => []GetFreshUnlessRaced
<1>1. IInv => GetFreshUnlessRaced
  <2> SUFFICES ASSUME IInv, mpc = "reply", op.kind = "get", last_get # Torn,
                      \A c \in Children : conn[c] = "up" /\ cpc[c] = "poll", NEW c \in Children
               PROVE  last_get = vals[c][op.key]
    BY DEF IInv, TypeOK, GetFreshUnlessRaced
  <2>1. \A d \in Children : Answered(d)
    BY DEF IInv, CountdownComplete, Done, Answered
  <2>2. PICK d \in Children : last_get = res[d].val
    BY <2>1 DEF IInv, LastInv, AllBack
  <2>3. res[d].val = vals[d][op.key]
    BY <2>1 DEF IInv, AnswerInv, AnswerOK, Fresh
  <2>4. vals[d][op.key] = vals[c][op.key]
    BY DEF IInv, AgreeInv, TypeOK, Ops, Puts, Gets
  <2> QED
    BY <2>2, <2>3, <2>4
<1> QED
  BY <1>1, Invariance, PTL
=============================================================================
