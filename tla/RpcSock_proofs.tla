--------------------------- MODULE RpcSock_proofs ---------------------------
(***************************************************************************)
(* Safety of rpc_sock for every xid range, every byte order and any number *)
(* of calls.  The argument: until xid_ goes round, the n-th increment      *)
(* gives a number above all earlier ones, so no two calls share a key      *)
(* (KeysInv), emplace never meets a waiting callback, and the reply that   *)
(* carries a key is to the one call that has it (InqInv).                  *)
(***************************************************************************)
EXTENDS RpcSock, SequenceTheorems, TLAPS

\* A call has been answered or its callback waits in one place.
OnceInv ==
    \A c \in CallIds :
        /\ ran[c] = <<>> \/ \E x \in 0..MaxCalls : ran[c] = <<x>>
        /\ c \in Registered \cup aborting => ran[c] = <<>>
        /\ c \in aborting => c \notin Registered
        /\ c > made => ran[c] = <<>>

\* Only abort_all_calls has a local map.
PhaseInv == pc \notin {"abort", "callback"} => aborting = {}

\* Keys are the wire forms of distinct numbers that xid_ has passed.
KeysInv ==
    ~wrapped =>
        /\ \A c \in 1..made : \E x \in 1..xid : key[c] = Wire[x]
        /\ \A c, d \in 1..made : key[c] = key[d] => c = d

\* A reply carries the key of the call it answers.
ReplyOK(m) == m.type = "REPLY" => m.call \in 1..made /\ m.key = key[m.call]
InqInv == \A n \in DOMAIN inq : ReplyOK(inq[n])

OwnInv ==
    ~wrapped => \A c \in CallIds : ran[c] \in {<<>>, <<None>>, <<c>>}

\* The destructor has emptied calls_, so only late calls are in it.
DyingInv == dying => Registered \subseteq late

IInv == TypeOK /\ OnceInv /\ PhaseInv /\ KeysInv /\ InqInv /\ OwnInv /\ DyingInv
            /\ NoneForgotten

-----------------------------------------------------------------------------
LEMMA RegisteredDef ==
    \A c : c \in Registered <=> c # None /\ \E k \in Xids : calls[k] = c
  BY DEF Registered

\* What the queue operations return.
LEMMA QueueFacts ==
    ASSUME NEW S, NEW s \in Seq(S)
    PROVE  /\ \A e \in S : Append(s, e) \in Seq(S)
           /\ \A e : Append(<<>>, e) = <<e>>
           /\ s # <<>> => Head(s) \in S /\ Tail(s) \in Seq(S)
<1>1. \A e \in S : Append(s, e) \in Seq(S)
  BY AppendProperties
<1>2. \A e : Append(<<>>, e) = <<e>>
  OBVIOUS
<1>3. s # <<>> => Head(s) \in S /\ Tail(s) \in Seq(S)
  BY HeadTailProperties
<1> QED
  BY <1>1, <1>2, <1>3

\* A property of every message survives reading one and adding a good one.
LEMMA QueueAll ==
    ASSUME NEW S, NEW s \in Seq(S), NEW P \in SUBSET S,
           \A n \in DOMAIN s : s[n] \in P
    PROVE  /\ s # <<>> => Head(s) \in P /\ \A n \in DOMAIN Tail(s) : Tail(s)[n] \in P
           /\ \A e \in P : \A n \in DOMAIN Append(s, e) : Append(s, e)[n] \in P
<1>1. s \in Seq(P)
  BY ElementOfSeq, LenProperties, IsASeq
<1> QED
  BY <1>1, HeadTailProperties, AppendProperties, ElementOfSeq, LenProperties

\* The xid of a call is in range; until it goes round it is above the last one.
LEMMA GetXidFacts ==
    ASSUME TypeOK, NEW n \in 0..XidMax + 1, GetXid(n)
    PROVE  /\ Later(n) \in Xids
           /\ xid + n <= XidMax => Later(n) = xid + n /\ n > 0
<1>1. XidMax \in Nat /\ xid \in 0..XidMax /\ xid + n \in Nat
  BY ConstantsAssumption DEF TypeOK, Xids
<1>2. \A a, b \in Nat : b > 0 => a % b \in 0..b-1 /\ (a < b => a % b = a)
  OBVIOUS
<1>3. XidMax + 1 \in Nat /\ XidMax + 1 > 0
  BY <1>1
<1>4. (xid + n) % (XidMax + 1) \in 0..XidMax
  BY <1>1, <1>2, <1>3
<1>5. xid + n <= XidMax => (xid + n) % (XidMax + 1) = xid + n
  BY <1>1, <1>2, <1>3
<1> QED
  BY <1>4, <1>5 DEF Xids, Later, GetXid

\* The type invariant alone is inductive.
LEMMA TypeStep == TypeOK /\ [Next]_vars => TypeOK'
<1> SUFFICES ASSUME TypeOK, [Next]_vars PROVE TypeOK'
  OBVIOUS
<1> USE ConstantsAssumption DEF TypeOK, None
<1>a. NoCalls \in [Xids -> 0..made] /\ \A k \in Xids : NoCalls[k] = None
  BY DEF NoCalls
<1>b. Registered \in SUBSET (1..made)
  BY RegisteredDef
<1>1. CASE Call
  <2> USE <1>1 DEF Call
  <2>1. PICK n \in 0..XidMax + 1 :
           GetXid(n) /\ xid' = Later(n) /\ wrapped' = (wrapped \/ xid + n > XidMax)
    OBVIOUS
  <2>2. xid' \in Xids /\ wrapped' \in BOOLEAN
    BY <2>1, GetXidFacts DEF Xids
  <2>3. Wire[xid'] \in Xids /\ made' \in 0..MaxCalls /\ made' \in CallIds /\ made' = made + 1
    BY <2>2 DEF CallIds
  <2>4. key' \in [CallIds -> Xids]
    BY <2>3
  <2>5. calls' \in [Xids -> 0..made']
    BY <2>3 DEF Emplace
  <2>6. \A k \in Xids : calls'[k] # None => key'[calls'[k]] = k
    <3> SUFFICES ASSUME NEW k \in Xids, calls'[k] # None PROVE key'[calls'[k]] = k
      OBVIOUS
    <3>1. CASE k = Wire[xid'] /\ calls[k] = None
      <4>1. calls'[k] = made'
        BY <2>3, <3>1 DEF Emplace
      <4> QED
        BY <2>3, <3>1, <4>1
    <3>2. CASE ~(k = Wire[xid'] /\ calls[k] = None)
      <4>1. calls'[k] = calls[k]
        BY <3>2 DEF Emplace
      <4>2. calls[k] \in 1..made /\ key[calls[k]] = k
        BY <4>1
      <4>3. calls[k] \in CallIds /\ calls[k] # made'
        BY <2>3, <4>2 DEF CallIds
      <4> QED
        BY <2>3, <4>1, <4>2, <4>3
    <3> QED
      BY <3>1, <3>2
  <2>7. late' \in SUBSET (1..made') /\ aborting' \in SUBSET (1..made')
    BY <2>3
  <2> QED
    BY <2>2, <2>3, <2>4, <2>5, <2>6, <2>7
<1>2. CASE RecvReply
  <2> USE <1>2 DEF RecvReply
  <2>1. Head(inq) \in Messages /\ inq' \in Seq(Messages)
    BY QueueFacts
  <2>2. Head(inq).key \in Xids /\ Head(inq).call \in 0..MaxCalls
    BY <2>1 DEF Messages
  <2>3. CASE calls[Head(inq).key] = None
    BY <2>1, <2>3
  <2>4. CASE calls[Head(inq).key] # None
    <3>1. calls' \in [Xids -> 0..made] /\ \A k \in Xids : calls'[k] # None => key[calls'[k]] = k
      <4>1. calls' = [calls EXCEPT ![Head(inq).key] = None]
        BY <2>4 DEF Take
      <4>2. \A k \in Xids : calls'[k] = IF k = Head(inq).key THEN None ELSE calls[k]
        BY <4>1, <2>2
      <4> QED
        BY <4>1, <4>2, <2>2
    <3>2. Append(ran[calls[Head(inq).key]], Head(inq).call) \in Seq(0..MaxCalls)
      BY <2>2, <2>4, QueueFacts DEF CallIds
    <3>3. ran' \in [CallIds -> Seq(0..MaxCalls)]
      BY <2>4, <3>2
    <3> QED
      BY <2>1, <3>1, <3>3
  <2> QED
    BY <2>3, <2>4
<1>3. CASE RecvCall
  BY <1>3, QueueFacts DEF RecvCall
<1>4. CASE RecvFailure
  BY <1>4, <1>a, <1>b, QueueFacts DEF RecvFailure, AbortAll
<1>5. ASSUME NEW c \in CallIds, AbortCall(c) PROVE TypeOK'
  <2>1. Append(ran[c], None) \in Seq(0..MaxCalls)
    BY QueueFacts
  <2> QED
    BY <1>5, <2>1 DEF AbortCall
<1>6. CASE CallbackReturns
  BY <1>6 DEF CallbackReturns
<1>7. CASE AbortDone
  BY <1>7, <1>a DEF AbortDone
<1>8. CASE RecvNull
  BY <1>8, <1>a, <1>b DEF RecvNull, AbortAll
<1>9. CASE Delete
  BY <1>9, <1>a, <1>b DEF Delete, AbortAll
<1>10. ASSUME NEW m \in Messages, PeerSends(m) PROVE TypeOK'
  BY <1>10, QueueFacts DEF PeerSends
<1>11. ASSUME NEW c \in CallIds, PeerReplies(c) PROVE TypeOK'
  <2>1. [type |-> "REPLY", key |-> key[c], call |-> c] \in Messages
    BY DEF Messages, CallIds
  <2> QED
    BY <1>10, <1>11, <2>1 DEF PeerReplies
<1>12. Others \subseteq Messages
  BY DEF Others, Messages, Xids
<1>13. CASE UNCHANGED vars
  BY <1>13 DEF vars
<1> QED
  BY <1>1, <1>2, <1>3, <1>4, <1>5, <1>6, <1>7, <1>8, <1>9, <1>10, <1>11, <1>12, <1>13
     DEF Next, Local

-----------------------------------------------------------------------------
(* The registered callbacks after each change of calls_. *)

LEMMA RegisteredType == TypeOK => Registered \subseteq 1..made
  BY RegisteredDef DEF TypeOK, None

LEMMA RegisteredAfterTake ==
    ASSUME TypeOK, NEW k \in Xids, calls[k] # None, calls' = Take(k)
    PROVE  /\ Registered' = Registered \ {calls[k]}
           /\ calls[k] \in Registered
<1>1. \A j \in Xids : calls'[j] = IF j = k THEN None ELSE calls[j]
  BY DEF TypeOK, Take
<1>2. \A j \in Xids : calls[j] = calls[k] => j = k
  BY DEF TypeOK
<1>3. calls[k] \in Registered
  BY DEF Registered
<1>4. ASSUME NEW c \in Registered' PROVE c \in Registered \ {calls[k]}
  <2>1. PICK j \in Xids : calls'[j] = c /\ c # None
    BY <1>4 DEF Registered
  <2> QED
    BY <1>1, <1>2, <2>1 DEF Registered
<1>5. ASSUME NEW c \in Registered \ {calls[k]} PROVE c \in Registered'
  <2>1. PICK j \in Xids : calls[j] = c /\ c # None
    BY <1>5 DEF Registered
  <2>2. j # k /\ calls'[j] = c
    BY <1>1, <1>5, <2>1
  <2> QED
    BY <2>1, <2>2 DEF Registered
<1> QED
  BY <1>3, <1>4, <1>5

LEMMA RegisteredAfterAbort == calls' = NoCalls => Registered' = {}
  BY DEF Registered, NoCalls

\* Until xid_ goes round, the new call's key is free.
LEMMA CallFacts ==
    ASSUME TypeOK, KeysInv, Call
    PROVE  /\ made' = made + 1 /\ made' \in CallIds /\ made \in Nat
           /\ key' = [key EXCEPT ![made'] = Wire[xid']]
           /\ Registered' \subseteq Registered \cup {made'}
           /\ Registered \subseteq Registered'
           /\ ~wrapped' => /\ ~wrapped
                           /\ xid \in Nat /\ xid' \in Xids /\ xid < xid'
                           /\ made' \in Registered'
<1>1. made' = made + 1 /\ made' \in CallIds /\ made \in Nat
  BY ConstantsAssumption DEF TypeOK, CallIds, Call
<1>2. PICK n \in 0..XidMax + 1 :
         GetXid(n) /\ xid' = Later(n) /\ wrapped' = (wrapped \/ xid + n > XidMax)
  BY DEF Call
<1>3. xid' \in Xids /\ Wire[xid'] \in Xids /\ xid \in 0..XidMax /\ XidMax \in Nat
  BY <1>2, GetXidFacts, ConstantsAssumption DEF TypeOK, Xids
<1>4. \A k \in Xids : calls'[k] = IF k = Wire[xid'] /\ calls[k] = None THEN made' ELSE calls[k]
  BY <1>3 DEF TypeOK, Call, Emplace
<1>5. made' # None
  BY <1>1 DEF None
<1>6. Registered' \subseteq Registered \cup {made'}
  BY <1>4, <1>5 DEF Registered
<1>7. ASSUME NEW c \in Registered PROVE c \in Registered'
  <2>1. PICK j \in Xids : calls[j] = c /\ c # None
    BY <1>7 DEF Registered
  <2>2. calls'[j] = c
    BY <1>4, <2>1
  <2> QED
    BY <2>1, <2>2 DEF Registered
<1>8. ASSUME ~wrapped'
      PROVE  ~wrapped /\ xid \in Nat /\ xid' \in Xids /\ xid < xid' /\ made' \in Registered'
  <2>1. ~wrapped
    BY <1>2, <1>8
  <2>2. xid + n <= XidMax
    <3>1. ~(xid + n > XidMax)
      BY <1>2, <1>8, Zenon
    <3> QED
      BY <1>3, <3>1
  <2>3. xid' = xid + n /\ n > 0
    BY <1>2, <2>2, GetXidFacts
  <2>4. xid < xid'
    BY <1>3, <2>3
  <2>5. ASSUME calls[Wire[xid']] # None PROVE FALSE
    <3>1. calls[Wire[xid']] \in 1..made /\ key[calls[Wire[xid']]] = Wire[xid']
      <4>1. calls[Wire[xid']] \in 0..made
        BY <1>3 DEF TypeOK
      <4>2. key[calls[Wire[xid']]] = Wire[xid']
        BY <1>3, <2>5 DEF TypeOK
      <4> QED
        BY <1>1, <2>5, <4>1, <4>2 DEF None
    <3>2. PICK x \in 1..xid : Wire[x] = Wire[xid']
      BY <2>1, <3>1 DEF KeysInv
    <3>3. x \in Xids /\ x # xid'
      BY <1>3, <2>4 DEF Xids
    <3> QED
      BY <1>3, <3>2, <3>3, ConstantsAssumption
  <2>6. calls'[Wire[xid']] = made'
    BY <1>3, <1>4, <2>5
  <2>7. made' \in Registered'
    BY <1>3, <1>5, <2>6 DEF Registered
  <2> QED
    BY <1>3, <2>1, <2>4, <2>7
<1> QED
  BY <1>1, <1>6, <1>7, <1>8 DEF Call

\* A reply with a waiting callback: whose callback runs, and with what.
LEMMA ReplyFacts ==
    ASSUME TypeOK, OnceInv, InqInv, RecvReply, calls[Head(inq).key] # None
    PROVE  \E c \in Registered, x \in 1..made :
              /\ c \in CallIds /\ key[c] = key[x]
              /\ ran[c] = <<>>
              /\ ran' = [ran EXCEPT ![c] = <<x>>]
              /\ Registered' = Registered \ {c}
<1> DEFINE m == Head(inq)
           c == calls[m.key]
<1>1. m \in Messages /\ ReplyOK(m) /\ m.type = "REPLY"
  <2>1. inq \in Seq(Messages) /\ inq # <<>>
    BY DEF TypeOK, RecvReply
  <2> DEFINE P == {e \in Messages : ReplyOK(e)}
  <2>2. \A n \in DOMAIN inq : inq[n] \in P
    BY <2>1, ElementOfSeq, LenProperties DEF InqInv
  <2>3. P \in SUBSET Messages
    OBVIOUS
  <2> HIDE DEF P
  <2>4. m \in P
    BY <2>1, <2>2, <2>3, QueueAll
  <2> QED
    BY <2>4 DEF P, RecvReply
<1>2. m.key \in Xids /\ m.call \in 1..made /\ m.key = key[m.call]
  BY <1>1 DEF Messages, ReplyOK
<1>3. calls' = Take(m.key) /\ ran' = [ran EXCEPT ![c] = Append(@, m.call)]
  BY DEF RecvReply
<1>4. c \in Registered /\ Registered' = Registered \ {c}
  BY <1>2, <1>3, RegisteredAfterTake
<1>5. c \in CallIds /\ key[c] = m.key
  <2>1. c \in 1..made /\ made \in 0..MaxCalls
    BY <1>4, RegisteredType DEF TypeOK
  <2>2. c \in CallIds
    BY <2>1, ConstantsAssumption DEF CallIds
  <2>3. c # None
    BY <1>4, RegisteredDef
  <2>4. \A k \in Xids : calls[k] # None => key[calls[k]] = k
    BY DEF TypeOK
  <2> QED
    BY <1>2, <2>2, <2>3, <2>4
<1>6. ran[c] = <<>>
  BY <1>4, <1>5 DEF OnceInv
<1>7. ran' = [ran EXCEPT ![c] = <<m.call>>]
  BY <1>3, <1>5, <1>6, QueueFacts DEF TypeOK
<1> HIDE DEF m, c
<1> QED
  BY <1>2, <1>4, <1>5, <1>6, <1>7

\* The steps of a failure or a deletion.
Aborts == pc \in {"poll", "recv_call"} /\ AbortAll /\ UNCHANGED <<xid, wrapped, made, key, late, ran>>

LEMMA AbortSteps == RecvFailure \/ Delete => Aborts
  BY DEF RecvFailure, Delete, Aborts

LEMMA NullSteps ==
    RecvNull => \/ Aborts
                \/ UNCHANGED <<calls, dying, aborting, xid, wrapped, made, key, late, ran>> /\ pc' = "crashed"
  BY DEF RecvNull, Aborts

-----------------------------------------------------------------------------
LEMMA PhaseStep == TypeOK /\ PhaseInv /\ [Next]_vars => PhaseInv'
  BY DEF PhaseInv, Next, Local, Call, RecvReply, RecvCall, RecvFailure, AbortCall, CallbackReturns,
         AbortDone, RecvNull, Delete, PeerReplies, PeerSends, AbortAll, vars

LEMMA OnceStep ==
    TypeOK /\ OnceInv /\ KeysInv /\ InqInv /\ [Next]_vars => OnceInv'
<1> SUFFICES ASSUME TypeOK, OnceInv, KeysInv, InqInv, [Next]_vars PROVE OnceInv'
  OBVIOUS
<1>0. ASSUME UNCHANGED <<calls, aborting, made, ran>> PROVE OnceInv'
  BY <1>0 DEF OnceInv, Registered
<1>1. CASE Call
  <2>1. made' \notin aborting /\ ran[made'] = <<>>
    BY <1>1, CallFacts DEF TypeOK, OnceInv
  <2>2. aborting' = aborting /\ ran' = ran
    BY <1>1 DEF Call
  <2>3. \A c \in CallIds : c > made' => c > made
    BY <1>1, CallFacts DEF CallIds
  <2> QED
    BY <1>1, <2>1, <2>2, <2>3, CallFacts DEF OnceInv
<1>2. CASE RecvReply
  <2>1. CASE calls[Head(inq).key] = None
    BY <1>0, <1>2, <2>1 DEF RecvReply
  <2>2. CASE calls[Head(inq).key] # None
    <3>1. PICK c \in Registered, x \in 1..made :
              /\ c \in CallIds
              /\ ran' = [ran EXCEPT ![c] = <<x>>]
              /\ Registered' = Registered \ {c}
      BY <1>2, <2>2, ReplyFacts
    <3>2. c \notin aborting /\ c \in 1..made /\ x \in 0..MaxCalls
      BY <3>1, RegisteredType, ConstantsAssumption DEF OnceInv, TypeOK
    <3>3. aborting' = aborting /\ made' = made
      BY <1>2 DEF RecvReply
    <3>4. \A d \in CallIds : ran'[d] = IF d = c THEN <<x>> ELSE ran[d]
      BY <3>1 DEF TypeOK
    <3> SUFFICES ASSUME NEW d \in CallIds
                 PROVE  /\ ran'[d] = <<>> \/ \E y \in 0..MaxCalls : ran'[d] = <<y>>
                        /\ d \in Registered' \cup aborting' => ran'[d] = <<>>
                        /\ d \in aborting' => d \notin Registered'
                        /\ d > made' => ran'[d] = <<>>
      BY DEF OnceInv
    <3>5. CASE d = c
      <4>1. ~(c > made)
        BY <3>2 DEF TypeOK
      <4>2. c \notin Registered' /\ c \notin aborting'
        BY <3>1, <3>2, <3>3
      <4> QED
        BY <3>2, <3>3, <3>4, <3>5, <4>1, <4>2
    <3>6. CASE d # c
      BY <3>1, <3>3, <3>4, <3>6 DEF OnceInv
    <3> QED
      BY <3>5, <3>6
  <2> QED
    BY <2>1, <2>2
<1>3. ASSUME Aborts PROVE OnceInv'
  BY <1>3, RegisteredAfterAbort DEF Aborts, AbortAll, OnceInv
<1>4. ASSUME NEW c \in CallIds, AbortCall(c) PROVE OnceInv'
  <2>1. c \in aborting /\ ran[c] = <<>> /\ c \in 1..made
    BY <1>4 DEF AbortCall, OnceInv, TypeOK
  <2>2. ran' = [ran EXCEPT ![c] = <<None>>]
    BY <1>4, <2>1, QueueFacts DEF AbortCall, TypeOK
  <2>3. \A d \in CallIds : ran'[d] = IF d = c THEN <<None>> ELSE ran[d]
    BY <2>2 DEF TypeOK
  <2>4. Registered' = Registered /\ aborting' = aborting \ {c} /\ made' = made
    BY <1>4 DEF AbortCall, Registered
  <2>5. None \in 0..MaxCalls
    BY ConstantsAssumption DEF None
  <2> SUFFICES ASSUME NEW d \in CallIds
               PROVE  /\ ran'[d] = <<>> \/ \E y \in 0..MaxCalls : ran'[d] = <<y>>
                      /\ d \in Registered' \cup aborting' => ran'[d] = <<>>
                      /\ d \in aborting' => d \notin Registered'
                      /\ d > made' => ran'[d] = <<>>
    BY DEF OnceInv
  <2>6. CASE d = c
    <3>1. ~(c > made) /\ c \notin Registered
      BY <2>1 DEF OnceInv, TypeOK
    <3> QED
      BY <2>3, <2>4, <2>5, <2>6, <3>1
  <2>7. CASE d # c
    BY <2>3, <2>4, <2>7 DEF OnceInv
  <2> QED
    BY <2>6, <2>7
<1>5. CASE AbortDone
  <2>1. Registered' \subseteq Registered /\ aborting' = aborting /\ made' = made /\ ran' = ran
    BY <1>5, RegisteredAfterAbort DEF AbortDone, Registered
  <2> QED
    BY <2>1 DEF OnceInv
<1> QED
  BY <1>0, <1>1, <1>2, <1>3, <1>4, <1>5, AbortSteps, NullSteps
     DEF Next, Local, RecvCall, CallbackReturns, PeerReplies, PeerSends, vars

LEMMA KeysStep == TypeOK /\ KeysInv /\ [Next]_vars => KeysInv'
<1> SUFFICES ASSUME TypeOK, KeysInv, [Next]_vars PROVE KeysInv'
  OBVIOUS
<1>1. ASSUME UNCHANGED <<xid, wrapped, made, key>> PROVE KeysInv'
  BY <1>1 DEF KeysInv
<1>2. CASE Call
  <2> SUFFICES ASSUME ~wrapped'
               PROVE  /\ \A c \in 1..made' : \E x \in 1..xid' : key'[c] = Wire[x]
                      /\ \A c, d \in 1..made' : key'[c] = key'[d] => c = d
    BY DEF KeysInv
  <2>1. /\ ~wrapped /\ xid \in Nat /\ xid' \in Xids /\ xid < xid'
        /\ made' = made + 1 /\ made \in Nat /\ made' \in CallIds
        /\ key' = [key EXCEPT ![made'] = Wire[xid']]
    BY <1>2, CallFacts
  <2>2. key'[made'] = Wire[xid'] /\ \A c \in 1..made : c \in CallIds /\ key'[c] = key[c]
    BY <2>1, ConstantsAssumption DEF TypeOK, CallIds
  <2>3. ASSUME NEW c \in 1..made PROVE \E x \in 1..xid : key'[c] = Wire[x]
    BY <2>1, <2>2 DEF KeysInv
  <2>4. ASSUME NEW c \in 1..made PROVE key'[c] # key'[made']
    <3>1. PICK x \in 1..xid : key'[c] = Wire[x]
      BY <2>3
    <3>2. x \in Xids /\ x # xid'
      BY <2>1, ConstantsAssumption DEF Xids
    <3> QED
      BY <2>1, <2>2, <3>1, <3>2, ConstantsAssumption
  <2>5. xid' \in 1..xid' /\ 1..xid \subseteq 1..xid'
    BY <2>1, ConstantsAssumption DEF Xids
  <2>6. \A c \in 1..made' : c = made' \/ c \in 1..made
    BY <2>1
  <2>7. \A c \in 1..made' : \E x \in 1..xid' : key'[c] = Wire[x]
    BY <2>2, <2>3, <2>5, <2>6
  <2>8. \A c, d \in 1..made : key'[c] = key'[d] => c = d
    BY <2>1, <2>2 DEF KeysInv
  <2> QED
    BY <2>4, <2>6, <2>7, <2>8
<1> QED
  BY <1>1, <1>2, AbortSteps, NullSteps
     DEF Aborts, Next, Local, RecvReply, RecvCall, AbortCall, CallbackReturns, AbortDone,
         PeerReplies, PeerSends, vars

LEMMA InqStep == TypeOK /\ InqInv /\ [Next]_vars => InqInv'
<1> SUFFICES ASSUME TypeOK, InqInv, [Next]_vars PROVE InqInv'
  OBVIOUS
<1> DEFINE P == {m \in Messages : ReplyOK(m)}
<1>0. inq \in Seq(Messages) /\ P \in SUBSET Messages /\ \A n \in DOMAIN inq : inq[n] \in P
  BY ElementOfSeq, LenProperties DEF TypeOK, InqInv
<1>1. ASSUME UNCHANGED <<inq, made, key>> PROVE InqInv'
  BY <1>1 DEF InqInv, ReplyOK
<1>2. ASSUME inq # <<>>, inq' = Tail(inq), UNCHANGED <<made, key>> PROVE InqInv'
  <2>1. \A n \in DOMAIN inq' : inq'[n] \in P
    <3> HIDE DEF P
    <3> QED
      BY <1>0, <1>2, QueueAll
  <2> QED
    BY <1>2, <2>1 DEF InqInv, ReplyOK
<1>3. ASSUME NEW m \in P, PeerSends(m) PROVE InqInv'
  <2>1. inq' = Append(inq, m) /\ UNCHANGED <<made, key>>
    BY <1>3 DEF PeerSends
  <2>2. \A n \in DOMAIN inq' : inq'[n] \in P
    <3> HIDE DEF P
    <3> QED
      BY <1>0, <2>1, QueueAll
  <2> QED
    BY <2>1, <2>2 DEF InqInv, ReplyOK
<1>4. CASE Call
  <2>1. /\ inq' = inq /\ made' = made + 1 /\ made \in 0..MaxCalls
        /\ key' = [key EXCEPT ![made'] = Wire[xid']]
    BY <1>4 DEF Call, TypeOK
  <2>2. \A c \in 1..made : c \in 1..made' /\ key'[c] = key[c]
    BY <2>1, ConstantsAssumption DEF TypeOK, CallIds
  <2> QED
    BY <2>1, <2>2 DEF InqInv, ReplyOK
<1>5. Others \subseteq P
  BY ConstantsAssumption DEF Others, Messages, ReplyOK, Xids, None
<1>6. ASSUME NEW c \in CallIds, PeerReplies(c) PROVE InqInv'
  <2>1. [type |-> "REPLY", key |-> key[c], call |-> c] \in P
    BY <1>6, ConstantsAssumption DEF PeerReplies, TypeOK, Messages, ReplyOK, CallIds
  <2> QED
    BY <1>3, <1>6, <2>1 DEF PeerReplies
<1> HIDE DEF P
<1> QED
  BY <1>1, <1>2, <1>3, <1>4, <1>5, <1>6
     DEF Next, Local, RecvReply, RecvCall, RecvFailure, AbortCall, CallbackReturns, AbortDone,
         RecvNull, Delete, vars

LEMMA OwnStep ==
    TypeOK /\ OnceInv /\ KeysInv /\ InqInv /\ OwnInv /\ [Next]_vars => OwnInv'
<1> SUFFICES ASSUME TypeOK, OnceInv, KeysInv, InqInv, OwnInv, [Next]_vars PROVE OwnInv'
  OBVIOUS
<1>1. ASSUME UNCHANGED <<wrapped, ran>> PROVE OwnInv'
  BY <1>1 DEF OwnInv
<1>2. CASE Call
  <2>1. ran' = ran
    BY <1>2 DEF Call
  <2> QED
    BY <1>2, <2>1, CallFacts DEF OwnInv
<1>3. CASE RecvReply
  <2>0. wrapped' = wrapped
    BY <1>3 DEF RecvReply
  <2>1. CASE calls[Head(inq).key] = None
    BY <1>1, <1>3, <2>0, <2>1 DEF RecvReply
  <2>2. CASE calls[Head(inq).key] # None
    <3>1. PICK c \in Registered, x \in 1..made :
              c \in CallIds /\ key[c] = key[x] /\ ran' = [ran EXCEPT ![c] = <<x>>]
      BY <1>3, <2>2, ReplyFacts
    <3>2. ~wrapped => x = c
      BY <3>1, RegisteredType DEF KeysInv
    <3> QED
      BY <2>0, <3>1, <3>2 DEF OwnInv, TypeOK
  <2> QED
    BY <2>1, <2>2
<1>4. ASSUME NEW c \in CallIds, AbortCall(c) PROVE OwnInv'
  <2>1. ran[c] = <<>>
    BY <1>4 DEF AbortCall, OnceInv
  <2>2. ran' = [ran EXCEPT ![c] = <<None>>] /\ wrapped' = wrapped
    BY <1>4, <2>1, QueueFacts DEF AbortCall, TypeOK
  <2> QED
    BY <2>2 DEF OwnInv, TypeOK
<1> QED
  BY <1>1, <1>2, <1>3, <1>4, AbortSteps, NullSteps
     DEF Aborts, Next, Local, RecvCall, CallbackReturns, AbortDone, PeerReplies, PeerSends, vars

LEMMA DyingStep ==
    TypeOK /\ OnceInv /\ KeysInv /\ InqInv /\ DyingInv /\ [Next]_vars => DyingInv'
<1> SUFFICES ASSUME TypeOK, OnceInv, KeysInv, InqInv, DyingInv, [Next]_vars PROVE DyingInv'
  OBVIOUS
<1>1. ASSUME UNCHANGED <<calls, dying, late>> PROVE DyingInv'
  BY <1>1 DEF DyingInv, Registered
<1>2. CASE Call
  BY <1>2, CallFacts DEF DyingInv, Call
<1>3. CASE RecvReply
  <2>1. CASE calls[Head(inq).key] = None
    BY <1>1, <1>3, <2>1 DEF RecvReply
  <2>2. CASE calls[Head(inq).key] # None
    BY <1>3, <2>2, ReplyFacts DEF DyingInv, RecvReply
  <2> QED
    BY <2>1, <2>2
<1>4. ASSUME calls' = NoCalls PROVE DyingInv'
  BY <1>4, RegisteredAfterAbort DEF DyingInv
<1> QED
  BY <1>1, <1>2, <1>3, <1>4
     DEF AbortAll, Next, Local, RecvCall, RecvFailure, AbortCall, CallbackReturns, AbortDone,
         RecvNull, Delete, PeerReplies, PeerSends, vars

LEMMA ForgottenStep ==
    TypeOK /\ OnceInv /\ PhaseInv /\ KeysInv /\ InqInv /\ DyingInv /\ NoneForgotten /\ [Next]_vars
        => NoneForgotten'
<1> SUFFICES ASSUME TypeOK, OnceInv, PhaseInv, KeysInv, InqInv, DyingInv, NoneForgotten, [Next]_vars,
                    ~wrapped', NEW c \in 1..made'
             PROVE  c \in Registered' \cup aborting' \/ ran'[c] # <<>> \/ (pc' = "gone" /\ c \in late')
  BY DEF NoneForgotten
<1> DEFINE Goal == c \in Registered' \cup aborting' \/ ran'[c] # <<>> \/ (pc' = "gone" /\ c \in late')
<1>0. ASSUME ~wrapped, c \in 1..made
      PROVE  c \in Registered \cup aborting \/ ran[c] # <<>> \/ (pc = "gone" /\ c \in late)
  BY <1>0 DEF NoneForgotten
<1>1. ASSUME UNCHANGED <<calls, wrapped, made, aborting, ran>>,
             pc = "gone" => UNCHANGED <<pc, late>>
      PROVE  Goal
  BY <1>0, <1>1 DEF Registered
<1>2. CASE Call
  <2>1. /\ ~wrapped /\ made' \in Registered' /\ Registered \subseteq Registered'
        /\ c = made' \/ c \in 1..made
    BY <1>2, CallFacts
  <2>2. aborting' = aborting /\ ran' = ran /\ pc # "gone"
    BY <1>2 DEF Call
  <2> QED
    BY <1>0, <2>1, <2>2
<1>3. CASE RecvReply
  <2>1. CASE calls[Head(inq).key] = None
    BY <1>1, <1>3, <2>1 DEF RecvReply
  <2>2. CASE calls[Head(inq).key] # None
    <3>1. PICK d \in Registered, x \in 1..made :
              /\ d \in CallIds /\ Registered' = Registered \ {d}
              /\ ran' = [ran EXCEPT ![d] = <<x>>]
      BY <1>3, <2>2, ReplyFacts
    <3>2. UNCHANGED <<wrapped, made, aborting>> /\ pc # "gone"
      BY <1>3 DEF RecvReply
    <3>3. c \in CallIds
      BY <3>2, ConstantsAssumption DEF TypeOK, CallIds
    <3>4. ran'[c] = IF c = d THEN <<x>> ELSE ran[c]
      BY <3>1, <3>3 DEF TypeOK
    <3>5. <<x>> # <<>>
      OBVIOUS
    <3> QED
      BY <1>0, <3>1, <3>2, <3>4, <3>5
  <2> QED
    BY <2>1, <2>2
<1>4. CASE Aborts
  <2>1. aborting = {} /\ aborting' = Registered /\ pc # "gone" /\ UNCHANGED <<wrapped, made, ran>>
    BY <1>4 DEF Aborts, AbortAll, PhaseInv
  <2> QED
    BY <1>0, <2>1
<1>5. ASSUME NEW d \in CallIds, AbortCall(d) PROVE Goal
  <2>1. ran[d] = <<>>
    BY <1>5 DEF AbortCall, OnceInv
  <2>2. /\ ran' = [ran EXCEPT ![d] = <<None>>] /\ UNCHANGED <<wrapped, made>>
        /\ aborting' = aborting \ {d} /\ Registered' = Registered /\ pc # "gone"
    BY <1>5, <2>1, QueueFacts DEF AbortCall, TypeOK, Registered
  <2>3. c \in CallIds
    BY <2>2, ConstantsAssumption DEF TypeOK, CallIds
  <2>4. ran'[c] = IF c = d THEN <<None>> ELSE ran[c]
    BY <2>2, <2>3 DEF TypeOK
  <2>5. <<None>> # <<>>
    OBVIOUS
  <2> QED
    BY <1>0, <2>2, <2>4, <2>5
<1>6. CASE AbortDone
  <2>1. CASE dying
    BY <1>0, <1>6, <2>1 DEF AbortDone, DyingInv
  <2>2. CASE ~dying
    BY <1>1, <1>6, <2>2 DEF AbortDone
  <2> QED
    BY <2>1, <2>2
<1>7. CASE RecvNull
  <2>1. CASE UNCHANGED <<calls, dying, aborting, xid, wrapped, made, key, late, ran>> /\ pc' = "crashed"
    BY <1>1, <1>7, <2>1 DEF RecvNull
  <2> QED
    BY <1>4, <1>7, <2>1, NullSteps
<1>8. CASE RecvCall
  BY <1>1, <1>8 DEF RecvCall
<1>9. CASE CallbackReturns
  BY <1>1, <1>9 DEF CallbackReturns
<1>10. ASSUME NEW m, PeerSends(m) PROVE Goal
  <2>1. UNCHANGED <<calls, wrapped, made, aborting, ran, pc, late>>
    BY <1>10 DEF PeerSends
  <2> QED
    BY <1>1, <2>1
<1>11. CASE UNCHANGED vars
  BY <1>1, <1>11 DEF vars
<1>12. ASSUME NEW d \in CallIds, PeerReplies(d) PROVE Goal
  BY <1>10, <1>12 DEF PeerReplies
<1> QED
  BY <1>2, <1>3, <1>4, <1>5, <1>6, <1>7, <1>8, <1>9, <1>10, <1>11, <1>12, AbortSteps
     DEF Next, Local

-----------------------------------------------------------------------------
LEMMA InitInv == Init => IInv
<1> SUFFICES ASSUME Init PROVE IInv
  OBVIOUS
<1>1. Registered = {}
  BY DEF Init, Registered, NoCalls
<1>2. TypeOK
  <2>1. \A k \in Xids : calls[k] = None
    BY DEF Init, NoCalls
  <2>2. /\ xid \in Xids /\ made \in 0..MaxCalls /\ key \in [CallIds -> Xids]
        /\ calls \in [Xids -> 0..made]
    BY ConstantsAssumption DEF Init, NoCalls, Xids, None
  <2>3. inq \in Seq(Messages) /\ ran \in [CallIds -> Seq(0..MaxCalls)]
    <3>1. \A S : <<>> \in Seq(S)
      BY EmptySeq
    <3> QED
      BY <3>1 DEF Init
  <2>4. /\ wrapped \in BOOLEAN /\ servcb \in BOOLEAN /\ dying \in BOOLEAN
        /\ pc \in {"poll", "abort", "callback", "recv_call", "gone", "crashed"}
        /\ aborting \in SUBSET (1..made) /\ late \in SUBSET (1..made)
    BY DEF Init
  <2> QED
    BY <2>1, <2>2, <2>3, <2>4 DEF TypeOK
<1>3. OnceInv /\ PhaseInv /\ KeysInv /\ OwnInv /\ DyingInv
  BY <1>1 DEF Init, OnceInv, PhaseInv, KeysInv, OwnInv, DyingInv
<1>4. InqInv /\ NoneForgotten
  BY <1>1 DEF Init, InqInv, NoneForgotten
<1> QED
  BY <1>2, <1>3, <1>4 DEF IInv

LEMMA StepInv == IInv /\ [Next]_vars => IInv'
  BY TypeStep, OnceStep, PhaseStep, KeysStep, InqStep, OwnStep, DyingStep, ForgottenStep DEF IInv

LEMMA Invariance == Spec => []IInv
  BY InitInv, StepInv, PTL DEF Spec, Safety

\* Every variable keeps its type, and every entry of calls_ is under the key of
\* its call (emplace in msgsock.cc:233), for every xid range and byte order.
THEOREM TypeCorrect == Spec => []TypeOK
<1>1. IInv => TypeOK
  BY DEF IInv
<1> QED
  BY <1>1, Invariance, PTL

\* The callback of a call runs at most once: recv_msg (msgsock.cc:250) and
\* abort_all_calls (msgsock.cc:206) take it out before they run it.
THEOREM CallbacksRunAtMostOnce == Spec => []AtMostOnce
<1>1. IInv => AtMostOnce
  <2> SUFFICES ASSUME IInv, NEW c \in CallIds
               PROVE  Len(ran[c]) <= 1 /\ (c \in Registered \cup aborting => ran[c] = <<>>)
    BY DEF AtMostOnce
  <2>1. ran[c] = <<>> \/ \E x \in 0..MaxCalls : ran[c] = <<x>>
    BY DEF IInv, OnceInv
  <2>2. Len(<<>>) = 0 /\ \A x : Len(<<x>>) = 1
    OBVIOUS
  <2>3. Len(ran[c]) = 0 \/ Len(ran[c]) = 1
    BY <2>1, <2>2
  <2>4. Len(ran[c]) <= 1
    <3>1. \A y : y = 0 \/ y = 1 => y <= 1
      OBVIOUS
    <3> QED
      BY <2>3, <3>1, Zenon
  <2> QED
    BY <2>4 DEF IInv, OnceInv
<1> QED
  BY <1>1, Invariance, PTL

\* Until xid_ goes round no callback is given the reply to another call, in
\* whatever order the peer answers and however often (get_xid, msgsock.h:120).
THEOREM RepliesReachTheirCall == Spec => []OwnReply
<1>1. IInv => OwnReply
  <2> SUFFICES ASSUME IInv, ~wrapped, NEW c \in CallIds, NEW n \in DOMAIN ran[c]
               PROVE  ran[c][n] \in {None, c}
    BY DEF OwnReply
  <2>1. ran[c] \in {<<>>, <<None>>, <<c>>}
    BY DEF IInv, OwnInv
  <2> QED
    BY <2>1
<1> QED
  BY <1>1, Invariance, PTL

\* Until xid_ goes round no call is lost track of: its callback waits or has
\* run, except for a call made while the destructor runs (msgsock.cc:190).
THEOREM NoCallIsForgotten == Spec => []NoneForgotten
<1>1. IInv => NoneForgotten
  BY DEF IInv
<1> QED
  BY <1>1, Invariance, PTL
=============================================================================
