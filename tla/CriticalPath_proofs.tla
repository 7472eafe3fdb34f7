------------------------- MODULE CriticalPath_proofs -------------------------
(***************************************************************************)
(* The traces of a server, for any children, callers, times, failures and  *)
(* number of requests.                                                     *)
(*                                                                         *)
(* The maps are written under the xid of the child connection and read     *)
(* under the xid of the caller's.  Each put or get takes the same number   *)
(* on every child connection, one that no other request has (NumbersInv),  *)
(* and no reply outlives its request: the counter is the number of         *)
(* children that the request still waits for (CountInv).  So what is filed *)
(* under the number of the request's calls is one entry for each child     *)
(* that has answered, and nothing of the request is anywhere else          *)
(* (TraceInv).  A key of xid_time_map is a number that some caller has     *)
(* used (TimeInv).                                                         *)
(***************************************************************************)
EXTENDS CriticalPath, FiniteSetTheorems, FunctionTheorems, SequenceTheorems, WellFoundedInduction, TLAPS

\* Children that have a call of this request under way, or are still to be sent one.
Called == {call.child : call \in calls}
Owing == tosend \cup Called

\* The number that this request has, or the last one had, at child c.
Num(c) == IF c \in tosend THEN child_xid[c] + 1 ELSE child_xid[c]
Busy == mpc # "idle" /\ kind = "put_or_get"

NumbersInv ==
    /\ \A q \in Callers : caller_xid[q] <= req
    /\ \A c \in Children : Num(c) <= req
    /\ \A c, d \in Children : Num(c) = Num(d)
    /\ Busy => \A c \in Children : 1 <= Num(c)
    /\ mpc # "idle" => 1 <= req
    /\ mpc # "send" => tosend = {}
    /\ mpc \in {"send", "spin"} => kind = "put_or_get"

\* A child is sent one call, in the mode of the request.
CallsInv ==
    /\ \A call \in calls :
        /\ call.xid = Num(call.child) /\ call.req = req /\ call.mode = trace_mode
        /\ call.child \notin tosend \cup callbacks
        /\ \A other \in calls : other.child = call.child => other = call
    /\ tosend \cap callbacks = {}

CountInv ==
    /\ waiting = Cardinality(Owing \cup callbacks)
    /\ mpc \in {"idle", "reply"} => waiting = 0

TookInv ==
    Busy => \A c \in Children : IF took[c] = 0 THEN c \in Owing \cup failed ELSE c \notin Owing

\* Entries s are one for each child that has answered, with the time it took.
Complete(s) ==
    /\ \A i \in DOMAIN s :
        s[i].child \in Answering /\ s[i].req = req /\ s[i].time = took[s[i].child]
    /\ \A i, j \in DOMAIN s : s[i].child = s[j].child => i = j
    /\ \A c \in Answering : \E i \in DOMAIN s : s[i].child = c

Foreign(s) == \A i \in DOMAIN s : s[i].req < req

TraceInv ==
    /\ \A x \in Xids, c \in Children : x > Num(c) => xid_string_map[x] = <<>>
    /\ \A x \in Xids : \A i \in DOMAIN xid_string_map[x] : xid_string_map[x][i].req <= req
    /\ Busy => \A x \in Xids, c \in Children : x # Num(c) => Foreign(xid_string_map[x])
    /\ mpc = "reply" /\ kind = "null" => \A x \in Xids : Foreign(xid_string_map[x])
    /\ Busy /\ trace_mode = "OFF" => \A c \in Children : xid_string_map[Num(c)] = <<>>
    /\ Busy /\ trace_mode # "OFF" => \A c \in Children : Complete(xid_string_map[Num(c)])

TimeInv ==
    /\ \A x \in Xids : xid_time_map[x] <= req
    /\ mpc # "idle" => xid \in Xids
    /\ ~xdr_trace_server => \A x \in Xids : xid_time_map[x] \in {NoKey, 0}
    /\ xdr_trace_server =>
        /\ \A x \in Xids : xid_time_map[x] = NoKey <=> \A q \in Callers : caller_xid[q] < x
        /\ mpc # "idle" => /\ xid_time_map[xid] # NoKey
                           /\ xid_time_map[xid] = req <=> NewXid

Parts == NumbersInv /\ CallsInv /\ CountInv /\ TookInv /\ TraceInv /\ TimeInv
IInv == TypeOK /\ (mpc # "down" => Parts)

-----------------------------------------------------------------------------
LEMMA LeastOf == ASSUME NEW S \in SUBSET Nat, S # {} PROVE \E s \in S : \A t \in S : s <= t
<1>1. PICK s \in S : \A t \in S : <<t, s>> \notin OpToRel(<, Nat)
  BY NatLessThanWellFounded, WFMin
<1>2. ASSUME NEW t \in S PROVE s <= t
  <2>1. <<t, s>>[1] = t /\ <<t, s>>[2] = s /\ <<t, s>> \in Nat \X Nat
    OBVIOUS
  <2>2. ~(t < s)
    BY <1>1, <2>1 DEF OpToRel
  <2> QED
    BY <2>2
<1> QED
  BY <1>2

\* The scan of reply_cb::operator() finds an entry that has the largest time.
LEMMA LongestIsSlowest ==
    ASSUME NEW s \in Seq(Entries), s # <<>>
    PROVE  \E i \in DOMAIN s : Longest(s) = s[i] /\ \A j \in DOMAIN s : s[j].time <= s[i].time
<1> DEFINE Above(i) == {j \in DOMAIN s : s[j].time > s[i].time}
           Ranks == {n \in Nat : \E i \in DOMAIN s : n = Cardinality(Above(i))}
           longest == {i \in DOMAIN s : \A j \in DOMAIN s : s[j].time <= s[i].time}
<1>1. Len(s) \in Nat /\ DOMAIN s = 1..Len(s) /\ Len(s) >= 1 /\ \A j \in DOMAIN s : s[j].time \in Nat
  <2>1. Len(s) \in Nat /\ DOMAIN s = 1..Len(s) /\ Len(s) >= 1 /\ \A j \in DOMAIN s : s[j] \in Entries
    OBVIOUS
  <2> QED
    BY <2>1, ConstantsAssumption DEF Entries
<1>2. IsFiniteSet(DOMAIN s)
  BY <1>1, FS_Interval
<1>3. ASSUME NEW i \in DOMAIN s PROVE IsFiniteSet(Above(i)) /\ Cardinality(Above(i)) \in Nat
  BY <1>2, FS_Subset, FS_CardinalityType
<1>4. Ranks # {}
  <2>1. 1 \in DOMAIN s
    BY <1>1
  <2>2. Cardinality(Above(1)) \in Ranks
    BY <1>3, <2>1
  <2> QED
    BY <2>2
<1>5. PICK n \in Ranks : \A m \in Ranks : n <= m
  <2>1. Ranks \in SUBSET Nat
    OBVIOUS
  <2> HIDE DEF Ranks
  <2> QED
    BY <1>4, <2>1, LeastOf
<1>6. PICK i \in DOMAIN s : n = Cardinality(Above(i))
  BY <1>5
<1>7. i \in longest
  <2> SUFFICES ASSUME NEW j \in DOMAIN s, ~(s[j].time <= s[i].time) PROVE FALSE
    OBVIOUS
  <2>1. s[j].time > s[i].time
    BY <1>1
  <2>2. Above(j) \subseteq Above(i)
    <3> SUFFICES ASSUME NEW k \in Above(j) PROVE k \in Above(i)
      OBVIOUS
    <3>1. k \in DOMAIN s /\ s[k].time > s[j].time
      OBVIOUS
    <3>2. s[k].time \in Nat /\ s[j].time \in Nat /\ s[i].time \in Nat
      BY <1>1, <3>1
    <3> QED
      BY <2>1, <3>1, <3>2
  <2>3. j \in Above(i) /\ j \notin Above(j)
    <3>1. s[j].time \in Nat
      BY <1>1
    <3> QED
      BY <2>1, <3>1
  <2> HIDE DEF Above
  <2>4. Cardinality(Above(j)) <= Cardinality(Above(i)) /\ Cardinality(Above(j)) # Cardinality(Above(i))
    <3>1. IsFiniteSet(Above(i)) /\ Above(j) # Above(i)
      BY <1>3, <2>3
    <3> QED
      BY <2>2, <3>1, FS_Subset
  <2>5. Cardinality(Above(j)) \in Ranks
    BY <1>3
  <2> QED
    BY <1>3, <1>5, <1>6, <2>4, <2>5
<1>8. \E k \in longest : \A j \in longest : k <= j
  <2>1. longest \subseteq DOMAIN s
    OBVIOUS
  <2> HIDE DEF longest
  <2>2. longest \in SUBSET Nat /\ longest # {}
    BY <1>1, <1>7, <2>1
  <2> QED
    BY <2>2, LeastOf
<1>9. PICK k : k = CHOOSE l \in longest : \A j \in longest : l <= j
  OBVIOUS
<1>10. k \in longest
  <2> HIDE DEF longest
  <2> QED
    BY <1>8, <1>9
<1>11. Longest(s) = s[k]
  BY <1>9 DEF Longest
<1> QED
  BY <1>10, <1>11

-----------------------------------------------------------------------------
(* The inductive invariant. *)

LEMMA InitInv == ASSUME Init PROVE IInv
<1>1. Cardinality(Children) \in Nat
  BY ConstantsAssumption, FS_CardinalityType
<1>2. TypeOK
  <2>1. [x \in Xids |-> <<>>] \in [Xids -> Seq(Entries)]
    OBVIOUS
  <2> QED
    BY <1>1, <2>1, ConstantsAssumption DEF Init, TypeOK, Modes
<1>3. Owing = {} /\ callbacks = {}
  BY DEF Init, Owing, Called
<1>4. NumbersInv /\ CallsInv /\ TookInv
  BY DEF Init, NumbersInv, CallsInv, TookInv, Busy, Num
<1>5. CountInv
  BY <1>3, FS_EmptySet DEF Init, CountInv
<1>6. TraceInv
  <2>1. \A x \in Xids : xid_string_map[x] = <<>> /\ DOMAIN xid_string_map[x] = {}
    BY DEF Init
  <2> QED
    BY <2>1 DEF Init, TraceInv, Busy
<1>7. TimeInv
  BY ConstantsAssumption DEF Init, TimeInv, NoKey, Xids
<1> QED
  BY <1>2, <1>4, <1>5, <1>6, <1>7 DEF IInv, Parts

LEMMA Counts ==
    ASSUME TypeOK
    PROVE  /\ IsFiniteSet(Owing \cup callbacks) /\ Owing \subseteq Children
           /\ Cardinality(Owing \cup callbacks) \in Nat /\ Cardinality(Children) \in Nat
           /\ Cardinality(Owing \cup callbacks) = 0 => Owing = {} /\ callbacks = {}
           /\ Owing = {} => tosend = {} /\ calls = {}
<1>1. Owing \subseteq Children /\ callbacks \subseteq Children
  BY DEF TypeOK, Owing, Called
<1>2. IsFiniteSet(Owing \cup callbacks)
  BY <1>1, ConstantsAssumption, FS_Subset
<1>3. Cardinality(Owing \cup callbacks) \in Nat /\ Cardinality(Children) \in Nat
  BY <1>2, ConstantsAssumption, FS_CardinalityType
<1>4. Cardinality(Owing \cup callbacks) = 0 => Owing \cup callbacks = {}
  BY <1>2, FS_EmptySet
<1>5. Owing = {} => tosend = {} /\ calls = {}
  BY DEF Owing, Called
<1> QED
  BY <1>1, <1>2, <1>3, <1>4, <1>5

\* Numbers are natural numbers, and those of a put or get under way can be xids.
LEMMA Numbers ==
    ASSUME TypeOK, NumbersInv
    PROVE  /\ req \in Nat /\ MaxRequests \in Nat /\ req <= MaxRequests
           /\ \A c \in Children : child_xid[c] \in Nat /\ Num(c) \in Nat
           /\ Busy => \A c \in Children : Num(c) \in Xids
<1>1. req \in Nat /\ MaxRequests \in Nat /\ req <= MaxRequests
  BY ConstantsAssumption DEF TypeOK
<1>2. \A c \in Children : child_xid[c] \in Nat
  BY <1>1 DEF TypeOK
<1>3. \A c \in Children : Num(c) \in Nat
  BY <1>2 DEF Num
<1>4. \A c \in Children : Num(c) <= req
  BY DEF NumbersInv
<1>5. ASSUME Busy, NEW c \in Children PROVE Num(c) \in Xids
  <2>1. 1 <= Num(c)
    BY <1>5 DEF NumbersInv
  <2> QED
    BY <1>1, <1>3, <1>4, <2>1 DEF Xids
<1> QED
  BY <1>1, <1>2, <1>3, <1>5

\* A new request takes the next number on all connections to children, where nothing is left.
LEMMA RequestStep ==
    ASSUME TypeOK, Parts, NEW p \in Callers, NEW k \in Kinds, NEW mode \in Modes, Request(p, k, mode)
    PROVE  TypeOK' /\ Parts'
<1>a. NumbersInv /\ CallsInv /\ CountInv /\ TookInv /\ TraceInv /\ TimeInv
  BY DEF Parts
<1>b. /\ mpc = "idle" /\ req < MaxRequests /\ req' = req + 1 /\ kind' = k /\ k \in {"null", "put_or_get"}
      /\ caller_xid' = [caller_xid EXCEPT ![p] = @ + 1] /\ xid' = caller_xid[p] + 1 /\ trace_mode' = mode
      /\ xid_time_map' = StartTime(xid', req') /\ took' = [c \in Children |-> 0]
      /\ UNCHANGED <<xdr_trace_server, child_xid, calls, callbacks, xid_string_map, failed>>
  BY DEF Request, Kinds
<1>n. /\ k = "null" => mpc' = "reply" /\ tosend' = tosend /\ waiting' = waiting
      /\ k # "null" => /\ mpc' \in {"spin", "send"} /\ (mpc' = "spin" => Children = {})
                       /\ tosend' = Children /\ waiting' = Cardinality(Children)
  BY DEF Request
<1>c. tosend = {} /\ calls = {} /\ callbacks = {} /\ waiting = 0 /\ Owing = {}
  BY <1>a, <1>b, Counts DEF CountInv
<1>d. Called' = {} /\ (k = "null" => tosend' = {} /\ Owing' = {}) /\ (k # "null" => Owing' = Children)
  BY <1>b, <1>c, <1>n DEF Owing, Called
<1>e. /\ req \in Nat /\ MaxRequests \in Nat /\ req' \in Xids /\ caller_xid[p] \in Nat /\ caller_xid[p] <= req
      /\ xid' \in Xids /\ xid' \in 0..MaxRequests /\ \A c \in Children : child_xid[c] \in Nat
  <2>1. req \in Nat /\ MaxRequests \in Nat /\ req <= MaxRequests /\ \A c \in Children : child_xid[c] \in Nat
    BY <1>a, Numbers
  <2>2. caller_xid[p] \in Nat /\ caller_xid[p] <= req
    BY <1>a, <2>1 DEF TypeOK, NumbersInv
  <2> QED
    BY <1>b, <2>1, <2>2 DEF Xids
<1>f. /\ \A q \in Callers : caller_xid[q] \in Nat /\ caller_xid'[q] = IF q = p THEN caller_xid[p] + 1 ELSE caller_xid[q]
      /\ caller_xid' \in [Callers -> 0..MaxRequests]
  BY <1>b, <1>e DEF TypeOK
<1>g. /\ xid_time_map \in [Xids -> {NoKey} \cup 0..MaxRequests] /\ NoKey = -1
      /\ ~xdr_trace_server => xid_time_map' = xid_time_map
      /\ xdr_trace_server => xid_time_map' = [xid_time_map EXCEPT ![xid'] = IF @ = NoKey THEN req' ELSE @]
  BY <1>b DEF TypeOK, StartTime, Inserted, NoKey
<1>h. /\ \A c \in Children : Num(c) = child_xid[c]
      /\ \A c \in Children : Num(c)' = IF k = "null" THEN child_xid[c] ELSE child_xid[c] + 1
  BY <1>b, <1>c, <1>d, <1>n DEF Num
<1>1. TypeOK'
  <2>1. /\ mpc' \in {"idle", "send", "spin", "reply", "down"} /\ req' \in 0..MaxRequests
        /\ kind' \in {"null", "put_or_get"} /\ xid' \in 0..MaxRequests /\ trace_mode' \in Modes
        /\ xdr_trace_server' \in BOOLEAN
    BY <1>b, <1>e, <1>n DEF Xids, TypeOK
  <2>2. child_xid' \in [Children -> 0..MaxRequests]
    BY <1>b DEF TypeOK
  <2>3. /\ callbacks' \in SUBSET Children /\ failed' \in SUBSET Children
        /\ calls' \subseteq [child : Children, xid : Xids, mode : Modes, req : 1..MaxRequests]
        /\ xid_string_map' \in [Xids -> Seq(Entries)]
    BY <1>b DEF TypeOK
  <2>4. tosend' \in SUBSET Children /\ waiting' \in 0..Cardinality(Children)
    BY <1>b, <1>n, Counts DEF TypeOK
  <2>5. xid_time_map' \in [Xids -> {NoKey} \cup 0..MaxRequests]
    BY <1>e, <1>g, <2>1
  <2>6. took' \in [Children -> Times \cup {0}]
    BY <1>b
  <2> QED
    BY <1>f, <2>1, <2>2, <2>3, <2>4, <2>5, <2>6 DEF TypeOK
<1>2. NumbersInv'
  <2>1. \A q \in Callers : caller_xid'[q] <= req'
    BY <1>a, <1>b, <1>e, <1>f DEF NumbersInv
  <2>2. \A c \in Children : child_xid[c] <= req
    BY <1>a, <1>h DEF NumbersInv
  <2>3. \A c, d \in Children : child_xid[c] = child_xid[d]
    BY <1>a, <1>h DEF NumbersInv
  <2>4. \A c \in Children : Num(c)' <= req'
    BY <1>b, <1>e, <1>h, <2>2
  <2>5. \A c, d \in Children : Num(c)' = Num(d)'
    BY <1>h, <2>3
  <2>6. Busy' => \A c \in Children : 1 <= Num(c)'
    BY <1>b, <1>e, <1>h DEF Busy
  <2>7. 1 <= req' /\ (mpc' # "send" => tosend' = {}) /\ (mpc' \in {"send", "spin"} => kind' = "put_or_get")
    BY <1>b, <1>d, <1>e, <1>n
  <2> QED
    BY <2>1, <2>4, <2>5, <2>6, <2>7 DEF NumbersInv
<1>3. CallsInv'
  BY <1>b, <1>c DEF CallsInv
<1>4. CountInv'
  <2>1. (Owing \cup callbacks)' = IF k = "null" THEN {} ELSE Children
    BY <1>b, <1>c, <1>d
  <2>2. Cardinality({}) = 0
    BY FS_EmptySet
  <2> QED
    BY <1>b, <1>c, <1>n, <2>1, <2>2 DEF CountInv
<1>5. TookInv'
  BY <1>b, <1>d DEF TookInv, Busy
<1>6. TraceInv'
  <2>1. \A x \in Xids : Foreign(xid_string_map[x])'
    <3>1. ASSUME NEW x \in Xids, NEW i \in DOMAIN xid_string_map[x] PROVE xid_string_map[x][i].req < req'
      <4>1. xid_string_map[x][i].req <= req
        BY <1>a DEF TraceInv
      <4>2. xid_string_map[x] \in Seq(Entries)
        BY DEF TypeOK
      <4>3. xid_string_map[x][i] \in Entries
        BY <4>2
      <4>4. xid_string_map[x][i].req \in Nat
        BY <4>3 DEF Entries
      <4> QED
        BY <1>b, <1>e, <4>1, <4>4
    <3> QED
      BY <1>b, <3>1 DEF Foreign
  <2>2. ASSUME NEW x \in Xids, NEW c \in Children, x > Num(c)' PROVE xid_string_map'[x] = <<>>
    <3>1. x > Num(c)
      BY <1>e, <1>h, <2>2 DEF Xids
    <3> QED
      BY <1>a, <1>b, <3>1 DEF TraceInv
  <2>3. \A x \in Xids : \A i \in DOMAIN xid_string_map'[x] : xid_string_map'[x][i].req <= req'
    <3>1. ASSUME NEW x \in Xids, NEW i \in DOMAIN xid_string_map'[x] PROVE xid_string_map'[x][i].req <= req'
      <4>1. xid_string_map[x][i].req <= req
        BY <1>a, <1>b, <3>1 DEF TraceInv
      <4>2. xid_string_map[x] \in Seq(Entries) /\ i \in DOMAIN xid_string_map[x]
        BY <1>b, <3>1 DEF TypeOK
      <4>3. xid_string_map[x][i] \in Entries
        BY <4>2
      <4>4. xid_string_map[x][i].req \in Nat
        BY <4>3 DEF Entries
      <4> QED
        BY <1>b, <1>e, <4>1, <4>4
    <3> QED
      BY <3>1
  <2>4. ASSUME Busy', NEW c \in Children PROVE xid_string_map'[Num(c)'] = <<>>
    <3>1. k # "null"
      BY <1>b, <2>4 DEF Busy
    <3>2. Num(c)' > Num(c)
      BY <1>e, <1>h, <3>1
    <3>3. Num(c)' \in Xids
      <4>1. 1 <= Num(c)' /\ Num(c)' <= req'
        BY <1>2, <2>4 DEF NumbersInv
      <4>2. Num(c)' \in Nat
        BY <1>e, <1>h
      <4> QED
        BY <1>e, <4>1, <4>2 DEF Xids
    <3> QED
      BY <1>a, <1>b, <3>2, <3>3 DEF TraceInv
  <2>5. ASSUME Busy', NEW c \in Children PROVE Complete(xid_string_map[Num(c)])'
    <3>1. Answering' = {}
      BY <1>b DEF Answering
    <3>2. DOMAIN xid_string_map'[Num(c)'] = {}
      BY <2>4, <2>5
    <3> QED
      BY <3>1, <3>2 DEF Complete
  <2> QED
    BY <2>1, <2>2, <2>3, <2>4, <2>5 DEF TraceInv
<1>7. TimeInv'
  <2>1. \A x \in Xids : xid_time_map[x] \in {NoKey} \cup 0..MaxRequests /\ xid_time_map[x] <= req
    BY <1>a, <1>g DEF TimeInv
  <2>2. \A x \in Xids : xid_time_map'[x] <= req'
    <3>1. ASSUME NEW x \in Xids PROVE xid_time_map'[x] = xid_time_map[x] \/ xid_time_map'[x] = req'
      BY <1>e, <1>g
    <3> QED
      BY <1>b, <1>e, <1>g, <2>1, <3>1
  <2>3. ~xdr_trace_server' => \A x \in Xids : xid_time_map'[x] \in {NoKey, 0}
    BY <1>a, <1>b, <1>g DEF TimeInv
  <2>4. ASSUME xdr_trace_server', NEW x \in Xids
        PROVE  xid_time_map'[x] = NoKey <=> \A q \in Callers : caller_xid'[q] < x
    <3>1. xid_time_map[x] = NoKey <=> \A q \in Callers : caller_xid[q] < x
      BY <1>a, <1>b, <2>4 DEF TimeInv
    <3>2. CASE x = xid'
      <4>1. xid_time_map'[x] # NoKey
        <5>1. xid_time_map'[x] = IF xid_time_map[x] = NoKey THEN req' ELSE xid_time_map[x]
          BY <1>b, <1>e, <1>g, <2>4, <3>2
        <5>2. req' # NoKey
          BY <1>e, <1>g DEF Xids
        <5> QED
          BY <5>1, <5>2
      <4>2. ~(caller_xid'[p] < x)
        BY <1>b, <1>e, <1>f, <3>2
      <4> QED
        BY <4>1, <4>2
    <3>3. CASE x # xid'
      <4>1. xid_time_map'[x] = xid_time_map[x]
        BY <1>b, <1>e, <1>g, <2>4, <3>3
      <4>2. caller_xid'[p] < x <=> caller_xid[p] < x
        BY <1>b, <1>e, <1>f, <3>3 DEF Xids
      <4>3. (\A q \in Callers : caller_xid'[q] < x) <=> (\A q \in Callers : caller_xid[q] < x)
        BY <1>f, <4>2
      <4> QED
        BY <3>1, <4>1, <4>3
    <3> QED
      BY <3>2, <3>3
  <2>5. ASSUME xdr_trace_server'
        PROVE  xid_time_map'[xid'] # NoKey /\ (xid_time_map'[xid'] = req' <=> NewXid')
    <3>1. xid_time_map[xid'] = NoKey <=> \A q \in Callers : caller_xid[q] < xid'
      BY <1>a, <1>b, <1>e, <2>5 DEF TimeInv
    <3>2. xid_time_map'[xid'] = IF xid_time_map[xid'] = NoKey THEN req' ELSE xid_time_map[xid']
      BY <1>b, <1>e, <1>g, <2>5
    <3>3. xid_time_map[xid'] # req' /\ req' # NoKey
      BY <1>b, <1>e, <1>g, <2>1
    <3>4. (\A q \in Callers : caller_xid[q] < xid') <=> NewXid'
      <4>1. caller_xid'[p] = xid' /\ caller_xid[p] < xid'
        BY <1>b, <1>e, <1>f
      <4>2. \A q \in Callers : q # p => (caller_xid'[q] >= xid' <=> ~(caller_xid[q] < xid'))
        BY <1>e, <1>f
      <4>3. caller_xid'[p] >= xid'
        BY <1>e, <4>1
      <4>4. ASSUME \A q \in Callers : caller_xid[q] < xid' PROVE NewXid'
        BY <4>2, <4>4 DEF NewXid
      <4>5. ASSUME NewXid', NEW q \in Callers PROVE caller_xid[q] < xid'
        <5>1. caller_xid'[q] >= xid' => q = p
          BY <4>3, <4>5 DEF NewXid
        <5> QED
          BY <4>1, <4>2, <5>1
      <4> QED
        BY <4>4, <4>5
    <3> QED
      BY <3>1, <3>2, <3>3, <3>4
  <2> QED
    BY <1>e, <2>2, <2>3, <2>4, <2>5 DEF TimeInv
<1> QED
  BY <1>1, <1>2, <1>3, <1>4, <1>5, <1>6, <1>7 DEF Parts

\* The call to c takes the next number of its connection, which is that of the request.
LEMMA SendStep ==
    ASSUME TypeOK, Parts, NEW c \in Children, Send(c)
    PROVE  TypeOK' /\ Parts'
<1>a. NumbersInv /\ CallsInv /\ CountInv /\ TookInv /\ TraceInv /\ TimeInv
  BY DEF Parts
<1>b. /\ mpc = "send" /\ c \in tosend /\ child_xid' = [child_xid EXCEPT ![c] = @ + 1]
      /\ tosend' = tosend \ {c} /\ mpc' = (IF tosend' = {} THEN "spin" ELSE "send")
      /\ UNCHANGED <<xdr_trace_server, req, kind, xid, trace_mode, caller_xid, waiting, callbacks,
                     xid_string_map, xid_time_map, failed, took>>
  BY DEF Send
<1>c. /\ req \in Nat /\ 1 <= req /\ req <= MaxRequests /\ MaxRequests \in Nat /\ kind = "put_or_get" /\ Busy /\ Busy'
      /\ \A d \in Children : child_xid[d] \in Nat
      /\ Num(c) = child_xid[c] + 1 /\ Num(c) \in Xids /\ Num(c) <= req
  <2>1. kind = "put_or_get" /\ Busy /\ Busy'
    BY <1>a, <1>b DEF NumbersInv, Busy
  <2> QED
    BY <1>a, <1>b, <2>1, Numbers DEF NumbersInv, Num
<1>d. PICK call : call = [child |-> c, xid |-> Num(c), mode |-> trace_mode, req |-> req]
  OBVIOUS
<1>e. calls' = calls \cup {call} /\ call.child = c /\ call.xid = Num(c) /\ call.req = req /\ call.mode = trace_mode
  BY <1>c, <1>d DEF Send
<1>f. Owing' = Owing
  <2>1. Called' = Called \cup {c}
    BY <1>e DEF Called
  <2> QED
    BY <1>b, <2>1 DEF Owing
<1>g. \A d \in Children : Num(d)' = Num(d) /\ child_xid'[d] \in Nat
  <2>1. \A d \in Children : child_xid'[d] = IF d = c THEN child_xid[d] + 1 ELSE child_xid[d]
    BY <1>b DEF TypeOK
  <2> QED
    BY <1>b, <1>c, <2>1 DEF Num
<1>1. TypeOK'
  <2>1. call \in [child : Children, xid : Xids, mode : Modes, req : 1..MaxRequests]
    BY <1>c, <1>d DEF TypeOK
  <2>2. child_xid' \in [Children -> 0..MaxRequests]
    BY <1>b, <1>c DEF TypeOK, Xids
  <2> QED
    BY <1>b, <1>e, <2>1, <2>2 DEF TypeOK
<1>2. NumbersInv'
  BY <1>a, <1>b, <1>c, <1>g DEF NumbersInv
<1>3. CallsInv'
  <2>1. tosend' \cap callbacks' = {}
    BY <1>a, <1>b DEF CallsInv
  <2>2. \A one \in calls : one.child # c
    BY <1>a, <1>b DEF CallsInv
  <2>3. c \notin callbacks
    BY <1>a, <1>b DEF CallsInv
  <2>4. ASSUME NEW one \in calls'
        PROVE  /\ one.xid = Num(one.child)' /\ one.req = req /\ one.mode = trace_mode
               /\ one.child \notin tosend' \cup callbacks
    <3>1. one \in calls \/ one = call
      BY <1>e
    <3>2. CASE one \in calls
      <4>1. one.child \in Children
        BY <3>2 DEF TypeOK
      <4> QED
        BY <1>a, <1>b, <1>g, <3>2, <4>1 DEF CallsInv
    <3>3. CASE one = call
      BY <1>b, <1>e, <1>g, <2>3, <3>3
    <3> QED
      BY <3>1, <3>2, <3>3
  <2>5. ASSUME NEW one \in calls', NEW other \in calls', other.child = one.child PROVE other = one
    BY <1>a, <1>e, <2>2, <2>5 DEF CallsInv
  <2> QED
    BY <1>b, <2>1, <2>4, <2>5 DEF CallsInv
<1>4. CountInv'
  BY <1>a, <1>b, <1>f DEF CountInv
<1>5. TookInv'
  BY <1>a, <1>b, <1>c, <1>f DEF TookInv
<1>6. TraceInv'
  <2>1. \A s : (Complete(s)' <=> Complete(s)) /\ (Foreign(s)' <=> Foreign(s))
    BY <1>b DEF Complete, Answering, Foreign
  <2>2. (mpc = "reply") = (mpc' = "reply") /\ xid_string_map' = xid_string_map /\ req' = req /\ trace_mode' = trace_mode
    BY <1>b
  <2>3. \A d \in Children : Complete(xid_string_map[Num(d)])' <=> Complete(xid_string_map[Num(d)])
    BY <1>b, <1>g DEF Complete, Answering
  <2>4. \A x \in Xids : Foreign(xid_string_map[x])' <=> Foreign(xid_string_map[x])
    BY <1>b DEF Foreign
  <2>5. mpc' # "reply"
    BY <1>b
  <2>6. \A x \in Xids, d \in Children : x > Num(d)' => xid_string_map'[x] = <<>>
    BY <1>a, <1>g, <2>2 DEF TraceInv
  <2>7. \A x \in Xids : \A i \in DOMAIN xid_string_map'[x] : xid_string_map'[x][i].req <= req'
    BY <1>a, <2>2 DEF TraceInv
  <2>8. \A x \in Xids, d \in Children : x # Num(d)' => Foreign(xid_string_map[x])'
    BY <1>a, <1>c, <1>g, <2>4 DEF TraceInv
  <2>9. trace_mode' = "OFF" => \A d \in Children : xid_string_map'[Num(d)'] = <<>>
    BY <1>a, <1>c, <1>g, <2>2 DEF TraceInv
  <2>10. trace_mode' # "OFF" => \A d \in Children : Complete(xid_string_map[Num(d)])'
    BY <1>a, <1>c, <2>2, <2>3 DEF TraceInv
  <2> QED
    BY <2>5, <2>6, <2>7, <2>8, <2>9, <2>10 DEF TraceInv
<1>7. TimeInv'
  <2>1. NewXid' <=> NewXid
    BY <1>b DEF NewXid
  <2> QED
    BY <1>a, <1>b, <2>1 DEF TimeInv
<1> QED
  BY <1>1, <1>2, <1>3, <1>4, <1>5, <1>6, <1>7 DEF Parts

\* The answer is filed under the number that the request has at the child, once.
LEMMA ReplyStep ==
    ASSUME TypeOK, Parts, NEW call \in calls, NEW t \in Times, ChildReply(call, t)
    PROVE  /\ TypeOK' /\ Parts' /\ mpc \in {"send", "spin"} /\ call.xid = Num(call.child)
           /\ xid_string_map' = xid_string_map \/
              xid_string_map' = [xid_string_map EXCEPT ![call.xid] =
                  Append(@, [child |-> call.child, req |-> req, time |-> t])]
<1> DEFINE c == call.child  n == call.xid
<1>a. NumbersInv /\ CallsInv /\ CountInv /\ TookInv /\ TraceInv /\ TimeInv
  BY DEF Parts
<1>b. /\ calls' = calls \ {call} /\ callbacks' = callbacks \cup {c} /\ took' = [took EXCEPT ![c] = t]
      /\ UNCHANGED <<xdr_trace_server, mpc, req, kind, xid, trace_mode, caller_xid, child_xid, tosend, waiting,
                     xid_time_map, failed>>
  BY DEF ChildReply
<1>c. c \in Children /\ n \in Xids /\ n = Num(c) /\ call.req = req /\ call.mode = trace_mode /\ req \in 1..MaxRequests
  BY <1>a DEF TypeOK, CallsInv
<1>d. mpc \in {"send", "spin"} /\ kind = "put_or_get" /\ Busy /\ t \in Nat \ {0} /\ mpc # "down" /\ req \in Nat
  <2>1. c \in Owing
    BY DEF Owing, Called
  <2>2. mpc \notin {"idle", "reply"}
    BY <1>a, <2>1, Counts DEF CountInv
  <2>3. mpc # "down"
    BY DEF ChildReply
  <2>4. mpc \in {"send", "spin"}
    BY <2>2, <2>3 DEF TypeOK
  <2> QED
    BY <1>a, <1>c, <2>4, ConstantsAssumption DEF NumbersInv, Busy
<1>e. c \in Owing /\ c \notin tosend /\ Owing' = Owing \ {c}
  <2>1. Called' = Called \ {c} /\ c \in Called /\ c \notin tosend
    BY <1>a, <1>b DEF Called, CallsInv
  <2> QED
    BY <1>b, <2>1 DEF Owing
<1>f. PICK e : e = [child |-> c, req |-> req, time |-> t]
  OBVIOUS
<1>g. e \in Entries /\ e.child = c /\ e.req = req /\ e.time = t
  BY <1>c, <1>f DEF Entries
<1>h. xid_string_map' = IF trace_mode = "OFF" THEN xid_string_map
                        ELSE [xid_string_map EXCEPT ![n] = Append(@, e)]
  BY <1>c, <1>f DEF ChildReply, Record
<1>i. xid_string_map[n] \in Seq(Entries) /\ xid_string_map \in [Xids -> Seq(Entries)]
  BY <1>c DEF TypeOK
<1>j. xid_string_map' \in [Xids -> Seq(Entries)]
  <2>1. Append(xid_string_map[n], e) \in Seq(Entries)
    BY <1>g, <1>i
  <2> QED
    BY <1>h, <1>i, <2>1
<1>k. \A x \in Xids : x # n => xid_string_map'[x] = xid_string_map[x]
  BY <1>h, <1>i
<1>l. \A d \in Children : Num(d)' = Num(d) /\ Num(d) = n /\ Num(d) \in Nat
  <2>1. \A d \in Children : Num(d)' = Num(d)
    BY <1>b DEF Num
  <2>2. \A d \in Children : Num(d) = n
    BY <1>a, <1>c DEF NumbersInv
  <2> QED
    BY <1>a, <2>1, <2>2, Numbers
<1>1. TypeOK'
  <2>1. callbacks' \in SUBSET Children /\ took' \in [Children -> Times \cup {0}]
    BY <1>b, <1>c DEF TypeOK
  <2> QED
    BY <1>b, <1>j, <2>1 DEF TypeOK
<1>2. NumbersInv'
  BY <1>a, <1>b, <1>l DEF NumbersInv, Busy
<1>3. CallsInv'
  <2>1. tosend' \cap callbacks' = {}
    BY <1>a, <1>b, <1>e DEF CallsInv
  <2>2. ASSUME NEW one \in calls'
        PROVE  one.child \notin tosend' \cup callbacks' /\ one.xid = Num(one.child)'
    <3>1. one \in calls /\ one # call
      BY <1>b
    <3>2. one.child # c
      BY <1>a, <3>1 DEF CallsInv
    <3>3. one.child \in Children
      BY <3>1 DEF TypeOK
    <3> QED
      BY <1>a, <1>b, <1>l, <3>1, <3>2, <3>3 DEF CallsInv
  <2> QED
    BY <1>a, <1>b, <2>1, <2>2 DEF CallsInv
<1>4. CountInv'
  <2>1. (Owing \cup callbacks)' = Owing \cup callbacks
    BY <1>b, <1>e
  <2> QED
    BY <1>a, <1>b, <2>1 DEF CountInv
<1>5. TookInv'
  <2>1. \A d \in Children : took'[d] = IF d = c THEN t ELSE took[d]
    BY <1>b, <1>c DEF TypeOK
  <2>2. \A d \in Children : IF took[d] = 0 THEN d \in Owing \cup failed ELSE d \notin Owing
    BY <1>a, <1>d DEF TookInv
  <2> QED
    BY <1>b, <1>d, <1>e, <2>1, <2>2 DEF TookInv
<1>6. TraceInv'
  <2>1. ASSUME NEW x \in Xids, NEW d \in Children, x > Num(d)' PROVE xid_string_map'[x] = <<>>
    <3>1. x # n /\ x > Num(d)
      BY <1>l, <2>1 DEF Xids
    <3> QED
      BY <1>a, <1>k, <3>1 DEF TraceInv
  <2>2. trace_mode = "OFF" => xid_string_map'[n] = <<>>
    BY <1>a, <1>c, <1>d, <1>h DEF TraceInv
  <2>3. ASSUME trace_mode # "OFF" PROVE Complete(xid_string_map[n])'
    <3>1. PICK s : s = xid_string_map[n]
      OBVIOUS
    <3>2. s \in Seq(Entries) /\ Complete(s)
      BY <1>a, <1>c, <1>d, <1>i, <2>3, <3>1 DEF TraceInv
    <3>3. xid_string_map'[n] = Append(s, e)
      BY <1>c, <1>h, <1>i, <2>3, <3>1
    <3>4. /\ Len(s) \in Nat /\ DOMAIN s = 1..Len(s) /\ DOMAIN Append(s, e) = 1..(Len(s) + 1)
          /\ Append(s, e)[Len(s) + 1] = e /\ \A i \in 1..Len(s) : Append(s, e)[i] = s[i]
      BY <1>g, <3>2
    <3>5. took[c] = 0
      BY <1>a, <1>c, <1>d, <1>e DEF TookInv
    <3>6. took'[c] = t /\ \A d \in Children : d # c => took'[d] = took[d]
      BY <1>b, <1>c DEF TypeOK
    <3>12. Answering' = Answering \cup {c} /\ c \notin Answering /\ Answering \subseteq Children
      BY <1>c, <1>d, <3>5, <3>6 DEF Answering
    <3>7. PICK z : z = Append(s, e)
      OBVIOUS
    <3>8. /\ DOMAIN z = 1..(Len(s) + 1) /\ z[Len(s) + 1] = e
          /\ \A i \in DOMAIN z : i # Len(s) + 1 => i \in DOMAIN s /\ z[i] = s[i]
          /\ \A i \in DOMAIN s : i \in DOMAIN z /\ z[i] = s[i]
          /\ Len(s) + 1 \in DOMAIN z
      BY <3>4, <3>7
    <3>9. ASSUME NEW i \in DOMAIN z
          PROVE  z[i].child \in Answering' /\ z[i].req = req /\ z[i].time = took'[z[i].child]
      <4>1. CASE i = Len(s) + 1
        BY <1>g, <3>12, <3>6, <3>8, <4>1
      <4>2. CASE i # Len(s) + 1
        <5>1. i \in DOMAIN s /\ z[i] = s[i] /\ s[i].child \in Answering
          BY <3>2, <3>8, <4>2 DEF Complete
        <5>2. s[i].child # c /\ s[i].child \in Children
          BY <3>12, <5>1
        <5> QED
          BY <3>2, <3>12, <3>6, <5>1, <5>2 DEF Complete
      <4> QED
        BY <4>1, <4>2
    <3>10. ASSUME NEW i \in DOMAIN z, NEW j \in DOMAIN z, z[i].child = z[j].child PROVE i = j
      <4>1. \A k \in DOMAIN z : k # Len(s) + 1 => k \in DOMAIN s /\ z[k] = s[k] /\ z[k].child # c
        BY <3>2, <3>12, <3>8 DEF Complete
      <4>2. \A k, l \in DOMAIN s : s[k].child = s[l].child => k = l
        BY <3>2 DEF Complete
      <4> QED
        BY <1>g, <3>8, <3>10, <4>1, <4>2
    <3>11. ASSUME NEW d \in Answering' PROVE \E i \in DOMAIN z : z[i].child = d
      <4>1. CASE d = c
        BY <1>g, <3>8, <4>1
      <4>2. CASE d # c
        <5>1. PICK i \in DOMAIN s : s[i].child = d
          BY <3>2, <3>12, <4>2 DEF Complete
        <5> QED
          BY <3>8, <5>1
      <4> QED
        BY <4>1, <4>2
    <3>13. xid_string_map'[n] = z
      BY <3>3, <3>7
    <3> QED
      BY <1>b, <3>9, <3>10, <3>11, <3>13 DEF Complete
  <2>4. ASSUME NEW x \in Xids, x # n PROVE Foreign(xid_string_map[x])'
    <3>1. Foreign(xid_string_map[x])
      BY <1>a, <1>c, <1>d, <2>4 DEF TraceInv
    <3> QED
      BY <1>b, <1>k, <2>4, <3>1 DEF Foreign
  <2>5. ASSUME NEW x \in Xids, NEW i \in DOMAIN xid_string_map'[x] PROVE xid_string_map'[x][i].req <= req'
    <3>1. CASE x # n \/ trace_mode = "OFF"
      <4>1. xid_string_map'[x] = xid_string_map[x]
        BY <1>h, <1>k, <3>1
      <4> QED
        BY <1>a, <1>b, <2>5, <4>1 DEF TraceInv
    <3>2. CASE x = n /\ trace_mode # "OFF"
      <4>1. xid_string_map'[x][i].req = req'
        BY <2>3, <2>5, <3>2 DEF Complete
      <4> QED
        BY <1>b, <1>d, <4>1
    <3> QED
      BY <3>1, <3>2
  <2>6. ASSUME NEW d \in Children PROVE Complete(xid_string_map[Num(d)])' <=> Complete(xid_string_map[n])'
    BY <1>l
  <2>7. mpc' # "reply" /\ trace_mode' = trace_mode
    BY <1>b, <1>d
  <2> QED
    BY <1>l, <2>1, <2>2, <2>3, <2>4, <2>5, <2>6, <2>7 DEF TraceInv
<1>7. TimeInv'
  <2>1. NewXid' <=> NewXid
    BY <1>b DEF NewXid
  <2> QED
    BY <1>a, <1>b, <2>1 DEF TimeInv
<1> QED
  BY <1>c, <1>d, <1>f, <1>h, <1>1, <1>2, <1>3, <1>4, <1>5, <1>6, <1>7 DEF Parts

\* Steps that change neither the maps, nor the numbers, nor what the children reported.
LEMMA MapsKept ==
    ASSUME TypeOK, Parts, mpc' # "idle",
           (mpc' = "reply" /\ kind = "null") => (mpc = "reply" /\ kind = "null"), Busy' => Busy, mpc # "idle",
           UNCHANGED <<xdr_trace_server, req, kind, xid, trace_mode, caller_xid, child_xid, tosend,
                       xid_string_map, xid_time_map, took>>
    PROVE  TraceInv' /\ TimeInv' /\ (\A c \in Children : Num(c)' = Num(c))
<1>1. \A c \in Children : Num(c)' = Num(c)
  BY DEF Num
<1>2. \A c \in Children : Complete(xid_string_map[Num(c)])' <=> Complete(xid_string_map[Num(c)])
  BY <1>1 DEF Complete, Answering
<1>3. \A x \in Xids : Foreign(xid_string_map[x])' <=> Foreign(xid_string_map[x])
  BY DEF Foreign
<1>4. TraceInv'
  BY <1>1, <1>2, <1>3 DEF TraceInv, Parts
<1>5. NewXid' <=> NewXid
  BY DEF NewXid
<1>6. TimeInv'
  BY <1>5 DEF TimeInv, Parts
<1> QED
  BY <1>1, <1>4, <1>6

\* A lost child owes nothing any more; its callback is still to be counted.
LEMMA LostStep ==
    ASSUME TypeOK, Parts, NEW c \in Children, ChildLost(c)
    PROVE  TypeOK' /\ Parts'
<1>a. NumbersInv /\ CallsInv /\ CountInv /\ TookInv /\ TraceInv /\ TimeInv
  BY DEF Parts
<1>b. /\ c \notin callbacks /\ failed' = failed \cup {c} /\ calls' = {call \in calls : call.child # c}
      /\ callbacks' = callbacks \cup {call.child : call \in calls \ calls'}
      /\ UNCHANGED <<xdr_trace_server, mpc, req, kind, xid, trace_mode, caller_xid, child_xid, tosend, waiting,
                     xid_string_map, xid_time_map, took>>
  BY DEF ChildLost
<1>c. /\ calls' \subseteq calls /\ \A call \in calls : call \notin calls' => call.child = c
      /\ \A call \in calls' : call.child # c
  BY <1>b
<1>d. callbacks' \subseteq callbacks \cup {c} /\ callbacks \subseteq callbacks'
  BY <1>b, <1>c
<1>e. c \in callbacks' => c \in Called /\ c \notin tosend
  <2>1. c \in callbacks' => \E call \in calls : call.child = c
    BY <1>b, <1>c
  <2> QED
    BY <1>a, <2>1 DEF Called, CallsInv
<1>f. Called' = Called \ {c} /\ (c \in Called => c \in callbacks')
  BY <1>b, <1>c DEF Called
<1>g. (Owing \cup callbacks)' = Owing \cup callbacks /\ Owing' \subseteq Owing /\ Owing \subseteq Owing' \cup {c}
  BY <1>b, <1>d, <1>e, <1>f DEF Owing
<1>h. \A d \in Children : Num(d)' = Num(d)
  BY <1>b DEF Num
<1>1. TypeOK'
  <2>1. callbacks' \in SUBSET Children /\ failed' \in SUBSET Children
    BY <1>b, <1>d DEF TypeOK
  <2> QED
    BY <1>b, <1>c, <2>1 DEF TypeOK
<1>2. NumbersInv'
  BY <1>a, <1>b, <1>h DEF NumbersInv, Busy
<1>3. CallsInv'
  <2>1. tosend' \cap callbacks' = {}
    BY <1>a, <1>b, <1>d, <1>e DEF CallsInv
  <2>2. ASSUME NEW one \in calls'
        PROVE  one.child \notin tosend' \cup callbacks' /\ one.xid = Num(one.child)'
    <3>1. one \in calls /\ one.child # c
      BY <1>c
    <3>2. one.child \in Children
      BY <3>1 DEF TypeOK
    <3> QED
      BY <1>a, <1>b, <1>d, <1>h, <3>1, <3>2 DEF CallsInv
  <2> QED
    BY <1>a, <1>b, <1>c, <2>1, <2>2 DEF CallsInv
<1>4. CountInv'
  BY <1>a, <1>b, <1>g DEF CountInv
<1>5. TookInv'
  BY <1>a, <1>b, <1>g DEF TookInv, Busy
<1>6. TraceInv' /\ TimeInv'
  <2>1. \A d \in Children : Complete(xid_string_map[Num(d)])' <=> Complete(xid_string_map[Num(d)])
    BY <1>b, <1>h DEF Complete, Answering
  <2>2. \A x \in Xids : Foreign(xid_string_map[x])' <=> Foreign(xid_string_map[x])
    BY <1>b DEF Foreign
  <2>3. TraceInv'
    BY <1>a, <1>b, <1>h, <2>1, <2>2 DEF TraceInv, Busy
  <2>4. NewXid' <=> NewXid
    BY <1>b DEF NewXid
  <2> QED
    BY <1>a, <1>b, <2>3, <2>4 DEF TimeInv
<1> QED
  BY <1>1, <1>2, <1>3, <1>4, <1>5, <1>6 DEF Parts

\* The counter goes down by one for each child whose callback has run.
LEMMA CallbackStep ==
    ASSUME TypeOK, Parts, NEW c \in Children, Callback(c)
    PROVE  TypeOK' /\ Parts'
<1>a. NumbersInv /\ CallsInv /\ CountInv /\ TookInv /\ TraceInv /\ TimeInv
  BY DEF Parts
<1>b. /\ c \in callbacks /\ callbacks' = callbacks \ {c} /\ waiting' = waiting - 1
      /\ UNCHANGED <<xdr_trace_server, mpc, req, kind, xid, trace_mode, caller_xid, child_xid, tosend, calls,
                     xid_string_map, xid_time_map, failed, took>>
  BY DEF Callback
<1>c. Owing' = Owing /\ c \notin Owing
  BY <1>a, <1>b DEF Owing, Called, CallsInv
<1>d. waiting' = Cardinality((Owing \cup callbacks)') /\ mpc \notin {"idle", "reply"} /\ waiting' \in 0..Cardinality(Children)
  <2>1. (Owing \cup callbacks)' = (Owing \cup callbacks) \ {c} /\ c \in Owing \cup callbacks
    BY <1>b, <1>c
  <2>2. Cardinality((Owing \cup callbacks) \ {c}) = Cardinality(Owing \cup callbacks) - 1
    BY <2>1, Counts, FS_RemoveElement
  <2>3. Cardinality(Owing \cup callbacks) # 0
    BY <1>b, Counts
  <2>4. waiting = Cardinality(Owing \cup callbacks) /\ waiting \in 0..Cardinality(Children) /\ Cardinality(Children) \in Nat
    BY <1>a, Counts DEF TypeOK, CountInv
  <2>5. mpc \notin {"idle", "reply"}
    BY <1>a, <2>3, <2>4 DEF CountInv
  <2>6. Cardinality((Owing \cup callbacks)') = Cardinality(Owing \cup callbacks) - 1
    BY <2>1, <2>2
  <2>7. PICK n : n = Cardinality(Owing \cup callbacks)
    OBVIOUS
  <2>8. waiting' = n - 1 /\ n \in Nat /\ n # 0 /\ n <= Cardinality(Children)
    BY <1>b, <2>3, <2>4, <2>7
  <2> QED
    BY <2>4, <2>5, <2>6, <2>7, <2>8
<1>1. TypeOK'
  BY <1>b, <1>d DEF TypeOK
<1>2. TraceInv' /\ TimeInv' /\ (\A d \in Children : Num(d)' = Num(d))
  BY <1>b, <1>d, MapsKept DEF Busy
<1>3. NumbersInv'
  BY <1>a, <1>b, <1>2 DEF NumbersInv, Busy
<1>4. CallsInv'
  <2>1. \A call \in calls : call.child \in Children
    BY DEF TypeOK
  <2> QED
    BY <1>a, <1>b, <1>2, <2>1 DEF CallsInv
<1>5. CountInv' /\ TookInv'
  BY <1>a, <1>b, <1>c, <1>d DEF CountInv, TookInv, Busy
<1> QED
  BY <1>1, <1>2, <1>3, <1>4, <1>5 DEF Parts

LEMMA SpinExitStep == ASSUME TypeOK, Parts, SpinExit PROVE TypeOK' /\ Parts'
<1>a. NumbersInv /\ CallsInv /\ CountInv /\ TookInv /\ TraceInv /\ TimeInv
  BY DEF Parts
<1>b. /\ mpc = "spin" /\ mpc' = "reply" /\ waiting = 0
      /\ UNCHANGED <<xdr_trace_server, req, kind, xid, trace_mode, caller_xid, child_xid, tosend, waiting, calls,
                     callbacks, xid_string_map, xid_time_map, failed, took>>
  BY DEF SpinExit, unspun
<1>c. Owing' = Owing /\ kind = "put_or_get" /\ Busy
  BY <1>a, <1>b DEF Owing, Called, NumbersInv, Busy
<1>1. TypeOK'
  BY <1>b DEF TypeOK
<1>2. TraceInv' /\ TimeInv' /\ (\A d \in Children : Num(d)' = Num(d))
  BY <1>b, <1>c, MapsKept
<1>3. NumbersInv'
  BY <1>a, <1>b, <1>c, <1>2 DEF NumbersInv
<1>4. CallsInv'
  <2>1. \A call \in calls : call.child \in Children
    BY DEF TypeOK
  <2> QED
    BY <1>a, <1>b, <1>2, <2>1 DEF CallsInv
<1>5. CountInv' /\ TookInv'
  BY <1>a, <1>b, <1>c DEF CountInv, TookInv
<1> QED
  BY <1>1, <1>2, <1>3, <1>4, <1>5 DEF Parts

\* The lookup adds a key only where dispatch adds none.
LEMMA AnswerStep == ASSUME TypeOK, Parts, Reply PROVE TypeOK' /\ Parts'
<1>a. NumbersInv /\ CallsInv /\ CountInv /\ TookInv /\ TraceInv /\ TimeInv
  BY DEF Parts
<1>b. /\ mpc = "reply" /\ mpc' = "idle" /\ xid_time_map' = Inserted(xid, 0)
      /\ UNCHANGED <<xdr_trace_server, req, kind, xid, trace_mode, caller_xid, child_xid, tosend, waiting, calls,
                     callbacks, xid_string_map, failed, took>>
  BY DEF Reply
<1>c. Owing' = Owing /\ ~Busy' /\ \A d \in Children : Num(d)' = Num(d)
  BY <1>b DEF Owing, Called, Busy, Num
<1>d. /\ xid_time_map \in [Xids -> {NoKey} \cup 0..MaxRequests] /\ xid \in Xids /\ req \in Nat /\ MaxRequests \in Nat
      /\ xid_time_map' = [xid_time_map EXCEPT ![xid] = IF @ = NoKey THEN 0 ELSE @]
      /\ NoKey = -1
  BY <1>a, <1>b, Numbers DEF TypeOK, TimeInv, Inserted, NoKey
<1>1. TypeOK'
  <2>1. xid_time_map' \in [Xids -> {NoKey} \cup 0..MaxRequests]
    BY <1>d
  <2> QED
    BY <1>b, <2>1 DEF TypeOK
<1>2. NumbersInv'
  BY <1>a, <1>b, <1>c DEF NumbersInv
<1>3. CallsInv'
  <2>1. \A call \in calls : call.child \in Children
    BY DEF TypeOK
  <2> QED
    BY <1>a, <1>b, <1>c, <2>1 DEF CallsInv
<1>4. CountInv' /\ TookInv'
  BY <1>a, <1>b, <1>c DEF CountInv, TookInv
<1>5. TraceInv'
  BY <1>a, <1>b, <1>c DEF TraceInv
<1>6. TimeInv'
  <2>1. \A x \in Xids : xid_time_map'[x] = xid_time_map[x] \/ (xid_time_map[x] = NoKey /\ xid_time_map'[x] = 0)
    BY <1>d
  <2>2. \A x \in Xids : xid_time_map[x] <= req
    BY <1>a DEF TimeInv
  <2>3. \A x \in Xids : xid_time_map'[x] <= req'
    BY <1>b, <1>d, <2>1, <2>2
  <2>4. xdr_trace_server => xid_time_map' = xid_time_map
    <3>1. xdr_trace_server => xid_time_map[xid] # NoKey
      BY <1>a, <1>b DEF TimeInv
    <3> QED
      BY <1>d, <3>1
  <2>5. ~xdr_trace_server => \A x \in Xids : xid_time_map'[x] \in {NoKey, 0}
    BY <1>a, <2>1 DEF TimeInv
  <2> QED
    BY <1>a, <1>b, <2>3, <2>4, <2>5 DEF TimeInv
<1> QED
  BY <1>1, <1>2, <1>3, <1>4, <1>5, <1>6 DEF Parts

LEMMA StepInv == ASSUME IInv, [Next]_vars PROVE IInv'
<1>1. ASSUME NEW p \in Callers, NEW k \in Kinds, NEW mode \in Modes, Request(p, k, mode) PROVE IInv'
  <2>1. mpc # "down"
    BY <1>1 DEF Request
  <2> QED
    BY <1>1, <2>1, RequestStep DEF IInv
<1>2. ASSUME NEW c \in Children, Send(c) \/ Callback(c) \/ ChildLost(c) PROVE IInv'
  <2>1. mpc # "down"
    BY <1>2 DEF Send, Callback, ChildLost
  <2> QED
    BY <1>2, <2>1, SendStep, CallbackStep, LostStep DEF IInv
<1>3. ASSUME NEW call \in calls, NEW t \in Times, ChildReply(call, t) PROVE IInv'
  <2>1. mpc # "down"
    BY <1>3 DEF ChildReply
  <2> QED
    BY <1>3, <2>1, ReplyStep DEF IInv
<1>4. ASSUME SpinExit \/ Reply PROVE IInv'
  <2>1. mpc # "down"
    BY <1>4 DEF SpinExit, Reply
  <2> QED
    BY <1>4, <2>1, SpinExitStep, AnswerStep DEF IInv
<1>5. ASSUME Exit PROVE IInv'
  BY <1>5 DEF Exit, unspun, IInv, TypeOK
<1>6. ASSUME UNCHANGED vars PROVE IInv'
  <2>1. UNCHANGED <<xdr_trace_server, mpc, req, kind, xid, trace_mode, caller_xid, child_xid, tosend, waiting, calls,
                    callbacks, xid_string_map, xid_time_map, failed, took>>
    BY <1>6 DEF vars
  <2>2. Parts => Parts'
    BY <2>1 DEF Parts, NumbersInv, CallsInv, CountInv, TookInv, TraceInv, TimeInv, Complete, Foreign, Answering,
                Owing, Called, Num, Busy, NewXid
  <2> QED
    BY <2>1, <2>2 DEF IInv, TypeOK
<1> QED
  BY <1>1, <1>2, <1>3, <1>4, <1>5, <1>6 DEF Next

LEMMA Invariance == Spec => []IInv
<1>1. Init => IInv
  BY InitInv
<1>2. IInv /\ [Next]_vars => IInv'
  BY StepInv
<1> QED
  BY <1>1, <1>2, PTL DEF Spec

\* When the server replies nothing is owing, and what it finds is its own if and only if
\* its calls had its number.
LEMMA AtReply ==
    ASSUME IInv, mpc = "reply"
    PROVE  /\ xid \in Xids /\ xid_string_map[xid] \in Seq(Entries)
           /\ kind # "null" => Children \ Answering \subseteq failed
           /\ ~Own => Foreign(xid_string_map[xid])
           /\ Own /\ trace_mode # "OFF" => Complete(xid_string_map[xid])
<1>1. TypeOK /\ NumbersInv /\ CountInv /\ TookInv /\ TraceInv /\ TimeInv
  BY DEF IInv, Parts
<1>2. xid \in Xids /\ xid_string_map[xid] \in Seq(Entries)
  BY <1>1 DEF TypeOK, TimeInv
<1>3. Owing = {} /\ tosend = {} /\ \A c \in Children : Num(c) = child_xid[c]
  BY <1>1, Counts DEF CountInv, Num
<1>4. kind # "null" => Busy
  BY <1>1 DEF TypeOK, Busy
<1>5. kind # "null" => Children \ Answering \subseteq failed
  BY <1>1, <1>3, <1>4 DEF TookInv, Answering
<1>6. ~Own => Foreign(xid_string_map[xid])
  <2>1. CASE kind = "null"
    BY <1>1, <1>2, <2>1 DEF TraceInv
  <2>2. CASE kind # "null"
    BY <1>1, <1>2, <1>3, <1>4, <2>2 DEF TraceInv, Own, Busy
  <2> QED
    BY <2>1, <2>2
<1>7. ASSUME Own, trace_mode # "OFF" PROVE Complete(xid_string_map[xid])
  <2>1. Busy
    BY <1>7 DEF Own, Busy
  <2>2. CASE Children = {}
    <3>1. Entries = {}
      BY <2>2 DEF Entries
    <3>2. DOMAIN xid_string_map[xid] = {}
      BY <1>2, <3>1
    <3> QED
      BY <2>2, <3>2 DEF Complete, Answering
  <2>3. CASE Children # {}
    <3>1. PICK c \in Children : TRUE
      BY <2>3
    <3>2. Num(c) = xid
      BY <1>3, <1>7 DEF Own
    <3> QED
      BY <1>1, <1>7, <2>1, <3>2 DEF TraceInv
  <2> QED
    BY <2>2, <2>3
<1> QED
  BY <1>2, <1>5, <1>6, <1>7

\* CriticalPathIsSlowest: the critical path that reply_cb::operator() reports
\* (arpc.h:299) goes through a child of this very request that took the longest of those
\* that answered, if the request's calls went out under its own number, and otherwise
\* through none of this request, for any children, callers, times, failures and orders.
THEOREM CriticalPathIsLongest == Spec => []CriticalPathIsSlowest
<1>1. ASSUME IInv, mpc = "reply", trace_mode = "TRACING", ~Own
      PROVE  \A i \in DOMAIN Reported : Reported[i].req # req
  <2>1. PICK s : s = xid_string_map[xid]
    OBVIOUS
  <2>2. s \in Seq(Entries) /\ \A i \in DOMAIN s : s[i].req < req
    BY <1>1, <2>1, AtReply DEF Foreign
  <2>3. CASE s = <<>>
    BY <1>1, <2>1, <2>3 DEF Reported
  <2>4. CASE s # <<>>
    <3>1. PICK i \in DOMAIN s : Longest(s) = s[i]
      BY <2>2, <2>4, LongestIsSlowest
    <3>2. Reported = <<s[i]>>
      BY <1>1, <2>1, <2>4, <3>1 DEF Reported
    <3>3. s[i] \in Entries /\ req \in Nat
      BY <1>1, <2>2, ConstantsAssumption DEF IInv, TypeOK
    <3>4. s[i].req # req
      BY <2>2, <3>3 DEF Entries
    <3> QED
      BY <3>2, <3>4
  <2> QED
    BY <2>3, <2>4
<1>2. ASSUME IInv, mpc = "reply", trace_mode = "TRACING", Own, Answering = {} PROVE Reported = <<>>
  <2>1. PICK s : s = xid_string_map[xid]
    OBVIOUS
  <2>2. s \in Seq(Entries) /\ Complete(s)
    BY <1>2, <2>1, AtReply
  <2>3. DOMAIN s = {}
    BY <1>2, <2>2 DEF Complete
  <2>4. s = <<>>
    BY <2>2, <2>3
  <2> QED
    BY <1>2, <2>1, <2>4 DEF Reported
<1>3. ASSUME IInv, mpc = "reply", trace_mode = "TRACING", Own, Answering # {}
      PROVE  /\ Len(Reported) = 1 /\ Reported[1].req = req /\ Reported[1].time = took[Reported[1].child]
             /\ \A c \in Children : took[c] <= Reported[1].time
  <2>1. PICK s : s = xid_string_map[xid]
    OBVIOUS
  <2>2. s \in Seq(Entries) /\ Complete(s)
    BY <1>3, <2>1, AtReply
  <2>3. s # <<>>
    <3>1. PICK c \in Answering : TRUE
      BY <1>3
    <3>2. PICK i \in DOMAIN s : s[i].child = c
      BY <2>2, <3>1 DEF Complete
    <3> QED
      BY <3>2
  <2>4. PICK i \in DOMAIN s : Longest(s) = s[i] /\ \A j \in DOMAIN s : s[j].time <= s[i].time
    BY <2>2, <2>3, LongestIsSlowest
  <2>5. Reported = <<s[i]>>
    BY <1>3, <2>1, <2>3, <2>4 DEF Reported
  <2>6. s[i].req = req /\ s[i].time = took[s[i].child] /\ s[i] \in Entries
    BY <2>2 DEF Complete
  <2>7. ASSUME NEW c \in Children PROVE took[c] <= s[i].time
    <3>1. CASE took[c] = 0
      <4>1. s[i].time \in Nat
        BY <2>6, ConstantsAssumption DEF Entries
      <4> QED
        BY <3>1, <4>1
    <3>2. CASE took[c] # 0
      <4>1. PICK j \in DOMAIN s : s[j].child = c
        BY <2>2, <3>2 DEF Complete, Answering
      <4>2. s[j].time = took[c]
        BY <2>2, <4>1 DEF Complete
      <4> QED
        BY <2>4, <4>1, <4>2
    <3> QED
      BY <3>1, <3>2
  <2> QED
    BY <2>5, <2>6, <2>7
<1>4. IInv => TypeOK /\ (mpc = "reply" /\ kind # "null" => Children \ Answering \subseteq failed)
  BY AtReply DEF IInv
<1>5. IInv => CriticalPathIsSlowest
  BY <1>1, <1>2, <1>3, <1>4 DEF CriticalPathIsSlowest
<1> QED
  BY <1>5, Invariance, PTL

\* DistributedTraceComplete: the distributed trace of a reply names each child that has
\* answered its request once, with the time it took, or nothing of the request if its calls
\* had another number; and the elapsed time is that of its own request exactly if the
\* server is traced and the xid is new.
THEOREM DistributedTracesAreComplete == Spec => []DistributedTraceComplete
<1>1. ASSUME IInv, mpc = "reply" PROVE Started = req <=> xdr_trace_server /\ NewXid
  <2>1. TypeOK /\ NumbersInv /\ TimeInv
    BY <1>1 DEF IInv, Parts
  <2>2. xid \in Xids /\ xid_time_map \in [Xids -> {NoKey} \cup 0..MaxRequests] /\ 1 <= req /\ req \in Nat
    BY <1>1, <2>1, Numbers DEF TimeInv, TypeOK, NumbersInv
  <2>3. Started = IF xid_time_map[xid] = NoKey THEN 0 ELSE xid_time_map[xid]
    BY <2>2 DEF Started, Inserted
  <2>4. CASE ~xdr_trace_server
    BY <2>1, <2>2, <2>3, <2>4 DEF TimeInv
  <2>5. CASE xdr_trace_server
    BY <1>1, <2>1, <2>3, <2>5 DEF TimeInv
  <2> QED
    BY <2>4, <2>5
<1>2. ASSUME IInv, mpc = "reply", trace_mode = "DISTRIBUTED", ~Own
      PROVE  \A i \in DOMAIN Reported : Reported[i].req # req
  <2>1. PICK s : s = xid_string_map[xid]
    OBVIOUS
  <2>2. s \in Seq(Entries) /\ (\A i \in DOMAIN s : s[i].req < req) /\ Reported = s
    BY <1>2, <2>1, AtReply DEF Foreign, Reported
  <2>3. ASSUME NEW i \in DOMAIN s PROVE s[i].req # req
    <3>1. s[i] \in Entries /\ req \in Nat
      BY <1>2, <2>2, ConstantsAssumption DEF IInv, TypeOK
    <3> QED
      BY <2>2, <3>1 DEF Entries
  <2> QED
    BY <2>2, <2>3
<1>3. ASSUME IInv, mpc = "reply", trace_mode = "DISTRIBUTED", Own
      PROVE  /\ Len(Reported) = Cardinality(Answering)
             /\ \A c \in Answering : \E i \in DOMAIN Reported :
                    Reported[i] = [child |-> c, req |-> req, time |-> took[c]]
  <2>1. PICK s : s = xid_string_map[xid]
    OBVIOUS
  <2>2. s \in Seq(Entries) /\ Complete(s) /\ Reported = s
    BY <1>3, <2>1, AtReply DEF Reported
  <2>3. ASSUME NEW c \in Answering
        PROVE  \E i \in DOMAIN s : s[i] = [child |-> c, req |-> req, time |-> took[c]]
    <3>1. PICK i \in DOMAIN s : s[i].child = c
      BY <2>2 DEF Complete
    <3>2. s[i].req = req /\ s[i].time = took[c] /\ s[i] \in Entries
      BY <2>2, <3>1 DEF Complete
    <3> QED
      BY <3>1, <3>2 DEF Entries
  <2>4. Len(s) = Cardinality(Answering)
    <3>1. PICK F : F = [i \in DOMAIN s |-> s[i].child]
      OBVIOUS
    <3>2. F \in [DOMAIN s -> Answering] /\ \A i \in DOMAIN s : F[i] = s[i].child
      BY <2>2, <3>1 DEF Complete
    <3>3. F \in Injection(DOMAIN s, Answering)
      <4>1. \A i, j \in DOMAIN s : F[i] = F[j] => i = j
        BY <2>2, <3>2 DEF Complete
      <4> QED
        BY <3>2, <4>1, Fun_IsInj
    <3>4. F \in Surjection(DOMAIN s, Answering)
      <4>1. \A c \in Answering : \E i \in DOMAIN s : F[i] = c
        BY <2>2, <3>2 DEF Complete
      <4> QED
        BY <3>2, <4>1, Fun_IsSurj
    <3>5. ExistsBijection(1..Len(s), Answering) /\ Len(s) \in Nat
      BY <2>2, <3>3, <3>4 DEF Bijection, ExistsBijection
    <3> QED
      BY <3>5, FS_CountingElements
  <2> QED
    BY <2>2, <2>3, <2>4
<1>4. IInv => DistributedTraceComplete
  BY <1>1, <1>2, <1>3 DEF DistributedTraceComplete
<1> QED
  BY <1>4, Invariance, PTL

\* AnsweredTracesStable: entries are filed only for the request being handled, before its
\* answer and under the number of its own calls, next to entries of this request only.
THEOREM AnsweredTracesStay == Spec => AnsweredTracesStable
<1> DEFINE Filed(x) == xid_string_map'[x] # xid_string_map[x] =>
               /\ mpc \in {"send", "spin"} /\ mpc' = mpc
               /\ \A c \in Children \ tosend : child_xid[c] = x
               /\ \A i \in DOMAIN xid_string_map'[x] : xid_string_map'[x][i].req = req
<1>1. ASSUME IInv, Next PROVE \A x \in Xids : Filed(x)
  <2>1. ASSUME NEW call \in calls, NEW t \in Times, ChildReply(call, t), NEW x \in Xids,
               xid_string_map'[x] # xid_string_map[x]
        PROVE  /\ mpc \in {"send", "spin"} /\ mpc' = mpc
               /\ \A c \in Children \ tosend : child_xid[c] = x
               /\ \A i \in DOMAIN xid_string_map'[x] : xid_string_map'[x][i].req = req
    <3>1. TypeOK /\ Parts /\ NumbersInv
      BY <1>1, <2>1 DEF ChildReply, IInv, Parts
    <3>2. /\ Parts' /\ TypeOK' /\ mpc \in {"send", "spin"} /\ call.xid = Num(call.child) /\ call.child \in Children
          /\ mpc' = mpc /\ kind' = kind /\ req' = req /\ trace_mode' = trace_mode /\ child_xid' = child_xid
          /\ tosend' = tosend /\ call.mode = trace_mode
      <4>1. /\ mpc' = mpc /\ kind' = kind /\ req' = req /\ trace_mode' = trace_mode /\ child_xid' = child_xid
            /\ tosend' = tosend
        BY <2>1 DEF ChildReply
      <4>2. call.child \in Children /\ call.mode = trace_mode
        BY <3>1 DEF TypeOK, Parts, CallsInv
      <4>3. Parts' /\ TypeOK' /\ mpc \in {"send", "spin"} /\ call.xid = Num(call.child)
        BY <2>1, <3>1, ReplyStep
      <4> QED
        BY <4>1, <4>2, <4>3
    <3>3. x = call.xid
      <4>1. xid_string_map \in [Xids -> Seq(Entries)]
        BY <3>1 DEF TypeOK
      <4>2. xid_string_map' = xid_string_map \/
              xid_string_map' = [xid_string_map EXCEPT ![call.xid] =
                  Append(@, [child |-> call.child, req |-> req, time |-> t])]
        BY <2>1, <3>1, ReplyStep
      <4> QED
        BY <2>1, <4>1, <4>2
    <3>4. \A c \in Children \ tosend : child_xid[c] = x
      <4>1. \A c \in Children : Num(c) = x
        BY <3>1, <3>2, <3>3 DEF NumbersInv
      <4> QED
        BY <4>1 DEF Num
    <3>5. trace_mode' # "OFF"
      BY <2>1, <3>2 DEF ChildReply
    <3>6. Busy'
      BY <3>1, <3>2 DEF NumbersInv, Busy
    <3>7. Complete(xid_string_map[Num(call.child)])'
      BY <3>2, <3>5, <3>6 DEF Parts, TraceInv
    <3>8. Num(call.child)' = x
      BY <3>2, <3>3 DEF Num
    <3>9. \A i \in DOMAIN xid_string_map'[x] : xid_string_map'[x][i].req = req
      BY <3>2, <3>7, <3>8 DEF Complete
    <3> QED
      BY <3>2, <3>4, <3>9
  <2>2. ASSUME NEW c \in Children, Send(c) \/ Callback(c) \/ ChildLost(c) PROVE xid_string_map' = xid_string_map
    BY <2>2 DEF Send, Callback, ChildLost
  <2>3. ASSUME NEW p \in Callers, NEW k \in Kinds, NEW mode \in Modes, Request(p, k, mode)
        PROVE  xid_string_map' = xid_string_map
    BY <2>3 DEF Request
  <2>4. SpinExit \/ Reply \/ Exit => xid_string_map' = xid_string_map
    BY DEF SpinExit, Reply, Exit, unspun
  <2> QED
    BY <1>1, <2>1, <2>2, <2>3, <2>4 DEF Next
<1>2. IInv /\ [Next]_vars => [\A x \in Xids : Filed(x)]_vars
  BY <1>1
<1>3. Spec => [][\A x \in Xids : Filed(x)]_vars
  <2> HIDE DEF Filed
  <2> QED
    BY <1>2, Invariance, PTL DEF Spec
<1> QED
  BY <1>3 DEF AnsweredTracesStable
===============================================================================
