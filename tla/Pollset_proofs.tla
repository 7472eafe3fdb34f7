---------------------------- MODULE Pollset_proofs ----------------------------
(***************************************************************************)
(* Safety of the event loop, for any descriptors and any number of         *)
(* operations: the tables stay consistent whatever the callbacks do in the *)
(* middle of a round (TableInv), every callback that poll(2) found ready   *)
(* is run by the end of the round (DueInv), a one-shot callback runs once  *)
(* (CbInv), and a round leaves no dead slot behind (SwapInv).              *)
(*                                                                         *)
(* The loop of poll stops when r is 0: that is enough because r counts the *)
(* slots ahead of the loop that poll(2) reported (LeftInv), the callbacks  *)
(* leave revents alone, and a new slot is added behind maxpoll (IndexInv). *)
(***************************************************************************)
EXTENDS Pollset, SequenceTheorems, FunctionTheorems, FiniteSetTheorems, TLAPS

InLoop == pc \in {"in", "out", "cbin", "cbout"}

\* The slot of a descriptor, and the callbacks that are set.
HasEvents(f) == pollfds[state[f].idx].events = {d \in Dirs : state[f].cb[d] # None}

\* state_ and pollfds_ are inverse to each other.
TableInv ==
    /\ \A f \in DOMAIN state : state[f].idx \in DOMAIN pollfds /\ pollfds[state[f].idx].fd = f /\ HasEvents(f)
    /\ \A k \in DOMAIN pollfds : pollfds[k].fd \in DOMAIN state /\ state[pollfds[k].fd].idx = k

\* The loops and the iterator of run_timeouts stay inside what they go over.
IndexInv ==
    /\ InLoop => maxpoll <= Len(pollfds) /\ 1 <= i
    /\ pc \in {"out", "cbin", "cbout"} => i <= maxpoll
    /\ pc = "swap" => 1 <= i /\ i < Len(pollfds)
    /\ pc \in {"times", "cbtime"} => cur \in timecbs \cup {End}

\* Behind the index of consolidate every slot has events.
SwapInv == pc = "swap" => \A k \in DOMAIN pollfds : i < k => pollfds[k].events # {}

\* Callbacks are numbered in the order of their set-up; each is in one place, and
\* nowhere if it was one-shot and has run.
CbInv ==
    \A f \in DOMAIN state, d \in Dirs :
        /\ state[f].cb[d] <= ops /\ state[f].cb[d] \notin spent
        /\ \A g \in DOMAIN state, e \in Dirs :
              state[f].cb[d] = state[g].cb[e] /\ state[f].cb[d] # None => f = g /\ d = e

\* The loop of poll has still to come to direction d of slot k.
Ahead(k, d) == i < k \/ (k = i /\ (pc = "in" \/ (pc \in {"out", "cbin"} /\ d = "out")))

\* Callback c is set for a descriptor that is ready, and the loop comes to it.
Awaited(c) ==
    \E f \in DOMAIN state, d \in Dirs :
        /\ state[f].cb[d] = c /\ Ready(pollfds[state[f].idx], d)
        /\ state[f].idx <= maxpoll /\ Ahead(state[f].idx, d)

DueInv ==
    /\ InLoop => \A c \in due : Awaited(c)
    /\ ~InLoop /\ pc # "aborted" => due = {}

\* The slots from k on that poll(2) reported; r is their number.
Left(k) == {n \in k..maxpoll : pollfds[n].revents # {}}

LeftInv ==
    /\ pc = "in" => Cardinality(Left(i)) = r
    /\ pc \in {"out", "cbin", "cbout"} => Cardinality(Left(i + 1)) = r

IInv == TypeOK /\ TableInv /\ IndexInv /\ SwapInv /\ CbInv /\ DueInv /\ LeftInv

-----------------------------------------------------------------------------
(* A change at one descriptor. *)

\* q is v with the events E in slot k.
EventsSet(v, k, E, q) ==
    /\ q \in Seq(Slots) /\ Len(q) = Len(v) /\ q[k].events = E
    /\ \A n \in DOMAIN v :
          /\ n \in DOMAIN q /\ q[n].fd = v[n].fd /\ q[n].revents = v[n].revents
          /\ n # k => q[n] = v[n]

LEMMA SetEvents ==
    ASSUME NEW v \in Seq(Slots), NEW k \in DOMAIN v, NEW E \in SUBSET Dirs
    PROVE  EventsSet(v, k, E, [v EXCEPT ![k].events = E])
<1>0. PICK q : q = [v EXCEPT ![k].events = E]
  OBVIOUS
<1>1. DOMAIN v = 1..Len(v) /\ Len(v) \in Nat
  OBVIOUS
<1>2. v[k] \in Slots
  BY <1>1, ElementOfSeq
<1>3. PICK x : x = [v[k] EXCEPT !.events = E]
  OBVIOUS
<1>4. x \in Slots /\ x.fd = v[k].fd /\ x.revents = v[k].revents /\ x.events = E
  BY <1>2, <1>3 DEF Slots
<1>5. q = [v EXCEPT ![k] = x]
  BY <1>0, <1>3
<1>6. q \in Seq(Slots) /\ Len(q) = Len(v) /\ \A n \in 1..Len(v) : q[n] = IF n = k THEN x ELSE v[n]
  BY <1>1, <1>4, <1>5, ExceptSeq
<1>7. DOMAIN q = 1..Len(v)
  BY <1>6
<1>8. q[k] = x
  BY <1>1, <1>6
<1> QED
  <2>1. EventsSet(v, k, E, q)
    BY <1>1, <1>4, <1>6, <1>7, <1>8 DEF EventsSet
  <2> QED
    BY <1>0, <2>1

\* What setting or removing callbacks of f does to the tables: its slot is changed,
\* or added at the end.
Change(f) ==
    /\ DOMAIN state' = DOMAIN state \cup {f} /\ state' \in [DOMAIN state' -> FdStates] /\ pollfds' \in Seq(Slots)
    /\ \A g \in DOMAIN state \ {f} : state'[g] = state[g]
    /\ f \in DOMAIN state => state'[f].idx = state[f].idx /\ Len(pollfds') = Len(pollfds)
    /\ f \notin DOMAIN state => state'[f].idx = Len(pollfds) + 1 /\ Len(pollfds') = Len(pollfds) + 1
    /\ \A k \in DOMAIN pollfds :
          /\ pollfds'[k].fd = pollfds[k].fd /\ pollfds'[k].revents = pollfds[k].revents
          /\ pollfds[k].fd # f => pollfds'[k] = pollfds[k]
    /\ pollfds'[state'[f].idx].fd = f /\ HasEvents(f)'

LEMMA ChangeTable ==
    ASSUME TypeOK, TableInv, NEW f, Change(f)
    PROVE  TableInv' /\ Len(pollfds) <= Len(pollfds') /\ DOMAIN pollfds \subseteq DOMAIN pollfds'
<1>1. /\ Len(pollfds) \in Nat /\ DOMAIN pollfds = 1..Len(pollfds)
      /\ Len(pollfds') \in Nat /\ DOMAIN pollfds' = 1..Len(pollfds')
  <2>1. pollfds \in Seq(Slots) /\ pollfds' \in Seq(Slots)
    BY DEF TypeOK, Change
  <2> QED
    BY <2>1, LenProperties
<1>2. /\ Len(pollfds) <= Len(pollfds') /\ DOMAIN pollfds \subseteq DOMAIN pollfds'
      /\ state'[f].idx \in DOMAIN pollfds' /\ DOMAIN pollfds' \subseteq DOMAIN pollfds \cup {state'[f].idx}
      /\ (f \in DOMAIN state => DOMAIN pollfds' = DOMAIN pollfds)
  <2>1. PICK n \in Nat : n = Len(pollfds) /\ DOMAIN pollfds = 1..n
    BY <1>1
  <2>2. PICK m \in Nat : m = Len(pollfds') /\ DOMAIN pollfds' = 1..m
    BY <1>1
  <2>3. CASE f \in DOMAIN state
    <3>1. m = n /\ state'[f].idx = state[f].idx /\ state[f].idx \in DOMAIN pollfds
      BY <2>1, <2>2, <2>3 DEF Change, TableInv
    <3> QED
      BY <2>1, <2>2, <3>1
  <2>4. CASE f \notin DOMAIN state
    <3>1. m = n + 1 /\ state'[f].idx = n + 1
      BY <2>1, <2>2, <2>4 DEF Change
    <3>2. 1..n \subseteq 1..m /\ 1..m \subseteq (1..n) \cup {n + 1} /\ n + 1 \in 1..m /\ n <= m
      BY <3>1
    <3> QED
      BY <2>1, <2>2, <2>4, <3>1, <3>2
  <2> QED
    BY <2>3, <2>4
<1>3. state'[f].idx \in DOMAIN pollfds'
  BY <1>2
<1>4. ASSUME NEW g \in DOMAIN state', g # f
      PROVE  g \in DOMAIN state /\ state'[g] = state[g] /\ state[g].idx \in DOMAIN pollfds
             /\ pollfds[state[g].idx].fd = g /\ pollfds'[state[g].idx] = pollfds[state[g].idx]
  BY <1>4 DEF Change, TableInv
<1>5. ASSUME NEW g \in DOMAIN state'
      PROVE  state'[g].idx \in DOMAIN pollfds' /\ pollfds'[state'[g].idx].fd = g /\ HasEvents(g)'
  <2>1. CASE g = f
    BY <1>3, <2>1 DEF Change
  <2>2. CASE g # f
    <3>1. HasEvents(g)
      BY <1>4, <2>2 DEF TableInv
    <3> QED
      BY <1>2, <1>4, <2>2, <3>1 DEF HasEvents
  <2> QED
    BY <2>1, <2>2
<1>6. ASSUME NEW k \in DOMAIN pollfds'
      PROVE  pollfds'[k].fd \in DOMAIN state' /\ state'[pollfds'[k].fd].idx = k
  <2>1. CASE k \in DOMAIN pollfds
    <3>1. pollfds'[k].fd = pollfds[k].fd /\ pollfds[k].fd \in DOMAIN state /\ state[pollfds[k].fd].idx = k
      BY <2>1 DEF Change, TableInv
    <3> QED
      BY <3>1 DEF Change
  <2>2. CASE k \notin DOMAIN pollfds
    <3>1. f \notin DOMAIN state /\ k = state'[f].idx
      BY <1>2, <2>2
    <3> QED
      BY <3>1 DEF Change
  <2> QED
    BY <2>1, <2>2
<1> QED
  BY <1>2, <1>5, <1>6 DEF TableInv

LEMMA FdStateFacts ==
    ASSUME TypeOK, NEW f \in DOMAIN state
    PROVE  state[f] \in FdStates /\ f \in Fds /\ state[f].cb \in [Dirs -> 0..MaxOps] /\ state[f].oneshot \in [Dirs -> BOOLEAN]
<1>1. state[f] \in FdStates /\ f \in Fds
  BY DEF TypeOK
<1> QED
  BY <1>1 DEF FdStates

\* fd_cb: the callback of direction d is replaced.
LEMMA FdCbChange ==
    ASSUME TypeOK, TableInv, NEW f \in Fds, NEW d \in Dirs, NEW once \in BOOLEAN, NEW c \in 0..MaxOps, FdCb(f, d, once, c)
    PROVE  /\ Change(f) /\ state'[f].cb[d] = c
           /\ \A e \in Dirs \ {d} : IF f \in DOMAIN state THEN state'[f].cb[e] = state[f].cb[e] ELSE state'[f].cb[e] = None
           /\ due' = due \ {IF f \in DOMAIN state THEN state[f].cb[d] ELSE None}
<1>1. PICK s : s = IF f \in DOMAIN state THEN state[f]
                   ELSE [idx |-> Len(pollfds) + 1, cb |-> NoCbs, oneshot |-> [e \in Dirs |-> FALSE]]
  OBVIOUS
<1>2. Len(pollfds) \in Nat /\ DOMAIN pollfds = 1..Len(pollfds) /\ pollfds \in Seq(Slots)
  BY DEF TypeOK
<1>3. s \in FdStates /\ s.cb \in [Dirs -> 0..MaxOps] /\ s.oneshot \in [Dirs -> BOOLEAN] /\ s.idx \in Nat \ {0}
  <2>1. CASE f \in DOMAIN state
    BY <1>1, <2>1, FdStateFacts DEF FdStates
  <2>2. CASE f \notin DOMAIN state
    <3>1. NoCbs \in [Dirs -> 0..MaxOps]
      BY ConstantsAssumption DEF NoCbs, None
    <3>2. [e \in Dirs |-> FALSE] \in [Dirs -> BOOLEAN]
      BY Zenon
    <3> QED
      BY <1>1, <1>2, <2>2, <3>1, <3>2 DEF FdStates
  <2> QED
    BY <2>1, <2>2
<1>4. PICK t : t = [s EXCEPT !.cb[d] = c, !.oneshot[d] = once]
  OBVIOUS
<1>5. t = [idx |-> s.idx, cb |-> [s.cb EXCEPT ![d] = c], oneshot |-> [s.oneshot EXCEPT ![d] = once]]
  BY <1>3, <1>4 DEF FdStates
<1>6. [s.cb EXCEPT ![d] = c] \in [Dirs -> 0..MaxOps] /\ [s.oneshot EXCEPT ![d] = once] \in [Dirs -> BOOLEAN]
  BY <1>3
<1>7. t \in FdStates /\ t.idx = s.idx /\ t.cb[d] = c /\ \A e \in Dirs \ {d} : t.cb[e] = s.cb[e]
  BY <1>3, <1>5, <1>6 DEF FdStates
<1>8. /\ state' = [g \in DOMAIN state \cup {f} |-> IF g = f THEN t ELSE state[g]]
      /\ pollfds' = IF f \in DOMAIN state THEN [pollfds EXCEPT ![s.idx].events = Watch(@, d, c)]
                    ELSE Append(pollfds, [fd |-> f, events |-> Watch({}, d, c), revents |-> {}])
      /\ due' = due \ {s.cb[d]}
  BY <1>1, <1>4 DEF FdCb
<1>9. /\ DOMAIN state' = DOMAIN state \cup {f} /\ state'[f] = t
      /\ \A g \in DOMAIN state \ {f} : state'[g] = state[g]
      /\ state' \in [DOMAIN state' -> FdStates]
  BY <1>7, <1>8 DEF TypeOK
<1>10. CASE f \in DOMAIN state
  <2>1. s = state[f] /\ s.idx \in DOMAIN pollfds /\ pollfds[s.idx].fd = f /\ pollfds[s.idx].events = {e \in Dirs : s.cb[e] # None}
    BY <1>1, <1>10 DEF TableInv, HasEvents
  <2>2. PICK E : E = Watch(pollfds[s.idx].events, d, c)
    OBVIOUS
  <2>3. E = {e \in Dirs : t.cb[e] # None} /\ E \in SUBSET Dirs
    BY <1>7, <2>1, <2>2 DEF Watch
  <2>k. PICK k \in DOMAIN pollfds : k = s.idx
    BY <2>1
  <2>4. pollfds' = [pollfds EXCEPT ![s.idx].events = E]
    BY <1>8, <1>10, <2>2
  <2>5. EventsSet(pollfds, k, E, pollfds')
    <3>1. pollfds' = [pollfds EXCEPT ![k].events = E]
      BY <2>4, <2>k
    <3>2. EventsSet(pollfds, k, E, [pollfds EXCEPT ![k].events = E])
      BY <1>2, <2>3, SetEvents
    <3> QED
      BY <3>1, <3>2, Zenon
  <2>6. HasEvents(f)'
    BY <1>7, <1>9, <2>3, <2>k, <2>5 DEF HasEvents, EventsSet
  <2>7. Change(f)
    BY <1>7, <1>9, <1>10, <2>1, <2>k, <2>5, <2>6 DEF Change, EventsSet
  <2> QED
    BY <1>7, <1>8, <1>9, <1>10, <2>1, <2>7
<1>11. CASE f \notin DOMAIN state
  <2>1. s.idx = Len(pollfds) + 1 /\ s.cb = NoCbs
    BY <1>1, <1>11
  <2>2. PICK x : x = [fd |-> f, events |-> Watch({}, d, c), revents |-> {}]
    OBVIOUS
  <2>3. x \in Slots /\ x.fd = f /\ x.events = {e \in Dirs : t.cb[e] # None}
    <3>1. Watch({}, d, c) = {e \in Dirs : t.cb[e] # None}
      BY <1>7, <2>1 DEF Watch, NoCbs
    <3> QED
      BY <2>2, <3>1 DEF Slots
  <2>4. pollfds' = Append(pollfds, x)
    BY <1>8, <1>11, <2>2
  <2>5. /\ pollfds' \in Seq(Slots) /\ Len(pollfds') = Len(pollfds) + 1 /\ pollfds'[Len(pollfds) + 1] = x
        /\ \A n \in DOMAIN pollfds : pollfds'[n] = pollfds[n]
    BY <1>2, <2>3, <2>4, AppendProperties
  <2>6. HasEvents(f)'
    BY <1>7, <1>9, <2>1, <2>3, <2>5 DEF HasEvents
  <2>7. Change(f)
    BY <1>7, <1>9, <1>11, <2>1, <2>3, <2>5, <2>6 DEF Change
  <2> QED
    BY <1>7, <1>8, <1>9, <1>11, <2>1, <2>7 DEF NoCbs
<1> QED
  BY <1>10, <1>11

\* The callbacks of the directions ds are removed.
Cleared(f, ds) ==
    /\ Change(f) /\ f \in DOMAIN state
    /\ \A e \in Dirs : state'[f].cb[e] = IF e \in ds THEN None ELSE state[f].cb[e]

LEMMA ClearChange ==
    ASSUME TypeOK, TableInv, NEW f \in DOMAIN state, NEW ds \in SUBSET Dirs, NEW x \in FdStates,
           x.idx = state[f].idx, \A e \in Dirs : x.cb[e] = IF e \in ds THEN None ELSE state[f].cb[e],
           state' = [state EXCEPT ![f] = x],
           pollfds' = [pollfds EXCEPT ![state[f].idx].events = @ \ ds]
    PROVE  Cleared(f, ds)
<1>1. state[f].idx \in DOMAIN pollfds /\ pollfds[state[f].idx].fd = f /\ HasEvents(f)
  BY DEF TableInv
<1>2. PICK k \in DOMAIN pollfds : k = state[f].idx
  BY <1>1
<1>3. PICK E : E = pollfds[k].events \ ds
  OBVIOUS
<1>4. E = {e \in Dirs : x.cb[e] # None} /\ E \in SUBSET Dirs
  BY <1>1, <1>2, <1>3 DEF HasEvents
<1>5. EventsSet(pollfds, k, E, pollfds')
  <2>1. pollfds' = [pollfds EXCEPT ![k].events = E]
    BY <1>2, <1>3
  <2>2. EventsSet(pollfds, k, E, [pollfds EXCEPT ![k].events = E])
    BY <1>4, SetEvents DEF TypeOK
  <2> QED
    BY <2>1, <2>2, Zenon
<1>6. /\ DOMAIN state' = DOMAIN state /\ state'[f] = x /\ state' \in [DOMAIN state' -> FdStates]
      /\ \A g \in DOMAIN state \ {f} : state'[g] = state[g]
  BY DEF TypeOK
<1>7. HasEvents(f)'
  BY <1>2, <1>4, <1>5, <1>6 DEF HasEvents, EventsSet
<1>8. Change(f)
  <2>1. DOMAIN state' = DOMAIN state \cup {f} /\ state'[f].idx = k /\ pollfds' \in Seq(Slots) /\ Len(pollfds') = Len(pollfds)
    BY <1>2, <1>5, <1>6 DEF EventsSet
  <2>2. ASSUME NEW n \in DOMAIN pollfds
        PROVE  /\ pollfds'[n].fd = pollfds[n].fd /\ pollfds'[n].revents = pollfds[n].revents
               /\ pollfds[n].fd # f => pollfds'[n] = pollfds[n]
    BY <1>1, <1>2, <1>5 DEF EventsSet
  <2>3. pollfds'[state'[f].idx].fd = f
    BY <1>1, <1>2, <2>1, <2>2
  <2> QED
    BY <1>2, <1>6, <1>7, <2>1, <2>2, <2>3 DEF Change
<1> QED
  BY <1>6, <1>8 DEF Cleared

LEMMA RemoveCbChange ==
    ASSUME TypeOK, TableInv, NEW f \in DOMAIN state, NEW ds \in SUBSET Dirs, RemoveCb(f, ds)
    PROVE  Cleared(f, ds)
<1>1. state[f] \in FdStates /\ state[f].cb \in [Dirs -> 0..MaxOps]
  BY FdStateFacts
<1>2. PICK cb : cb = [d \in Dirs |-> IF d \in ds THEN None ELSE state[f].cb[d]]
  OBVIOUS
<1>3. cb \in [Dirs -> 0..MaxOps]
  BY <1>1, <1>2, ConstantsAssumption DEF None
<1>4. PICK x : x = [state[f] EXCEPT !.cb = cb]
  OBVIOUS
<1>5. x \in FdStates /\ x.idx = state[f].idx /\ x.cb = cb
  BY <1>1, <1>3, <1>4 DEF FdStates
<1>6. state' = [state EXCEPT ![f] = x]
  BY <1>2, <1>4 DEF RemoveCb
<1>7. pollfds' = [pollfds EXCEPT ![state[f].idx].events = @ \ ds]
  BY DEF RemoveCb
<1>8. \A e \in Dirs : x.cb[e] = IF e \in ds THEN None ELSE state[f].cb[e]
  BY <1>2, <1>5
<1> QED
  BY <1>5, <1>6, <1>7, <1>8, ClearChange

LEMMA OneShotChange ==
    ASSUME TypeOK, TableInv, NEW f \in DOMAIN state, NEW d \in Dirs, i = state[f].idx, OneShot(f, d)
    PROVE  Cleared(f, {d})
<1>1. state[f] \in FdStates /\ state[f].cb \in [Dirs -> 0..MaxOps]
  BY FdStateFacts
<1>2. PICK cb : cb = [state[f].cb EXCEPT ![d] = None]
  OBVIOUS
<1>3. cb \in [Dirs -> 0..MaxOps]
  BY <1>1, <1>2, ConstantsAssumption DEF None
<1>4. PICK x : x = [state[f] EXCEPT !.cb = cb]
  OBVIOUS
<1>5. x \in FdStates /\ x.idx = state[f].idx /\ x.cb = cb
  BY <1>1, <1>3, <1>4 DEF FdStates
<1>6. state' = [state EXCEPT ![f] = x]
  BY <1>2, <1>4 DEF OneShot
<1>7. pollfds' = [pollfds EXCEPT ![state[f].idx].events = @ \ {d}]
  BY DEF OneShot
<1>8. \A e \in Dirs : x.cb[e] = IF e \in {d} THEN None ELSE state[f].cb[e]
  BY <1>1, <1>2, <1>5
<1>9. {d} \in SUBSET Dirs
  OBVIOUS
<1> QED
  BY <1>5, <1>6, <1>7, <1>8, <1>9, ClearChange

-----------------------------------------------------------------------------
(* Operations of the application. *)

\* What is known in the middle of an operation of the application.
LEMMA AppFrame ==
    ASSUME TypeOK, IndexInv, SwapInv, DueInv, LeftInv, App,
           Len(pollfds) <= Len(pollfds'), DOMAIN pollfds \subseteq DOMAIN pollfds',
           \A k \in DOMAIN pollfds : pollfds'[k].revents = pollfds[k].revents,
           due' \subseteq due,
           \A c \in due', f \in DOMAIN state, d \in Dirs : state[f].cb[d] = c =>
               f \in DOMAIN state' /\ state'[f].cb[d] = c /\ state'[f].idx = state[f].idx /\ state[f].idx \in DOMAIN pollfds,
           pc = "cbtime" => (cur \in timecbs => cur \in timecbs')
    PROVE  IndexInv' /\ SwapInv' /\ DueInv' /\ LeftInv'
<1>1. UNCHANGED <<pc, i, r, maxpoll, cur>> /\ pc \in {"idle", "cbin", "cbout", "cbtime"}
  BY DEF App, loopVars
<1>2. Len(pollfds) \in Nat /\ DOMAIN pollfds = 1..Len(pollfds) /\ i \in Nat /\ maxpoll \in Nat
  BY DEF TypeOK
<1>3. IndexInv'
  <2>1. pc \in {"cbin", "cbout"} => maxpoll <= Len(pollfds) /\ 1 <= i /\ i <= maxpoll
    BY DEF IndexInv, InLoop
  <2>2. pc \in {"cbin", "cbout"} => maxpoll <= Len(pollfds')
    BY <1>2, <2>1
  <2> QED
    BY <1>1, <2>1, <2>2 DEF IndexInv, InLoop
<1>4. SwapInv'
  BY <1>1 DEF SwapInv
<1>5. DueInv'
  <2>1. ASSUME pc \in {"cbin", "cbout"}, NEW c \in due' PROVE Awaited(c)'
    <3>1. PICK f \in DOMAIN state, d \in Dirs :
            /\ state[f].cb[d] = c /\ Ready(pollfds[state[f].idx], d)
            /\ state[f].idx <= maxpoll /\ Ahead(state[f].idx, d)
      BY <2>1 DEF DueInv, InLoop, Awaited
    <3>2. f \in DOMAIN state' /\ state'[f].cb[d] = c /\ state'[f].idx = state[f].idx /\ state[f].idx \in DOMAIN pollfds
      BY <2>1, <3>1
    <3>3. Ready(pollfds[state[f].idx], d)' /\ Ahead(state[f].idx, d)'
      BY <1>1, <3>1, <3>2 DEF Ready, Ahead
    <3> QED
      BY <1>1, <3>1, <3>2, <3>3 DEF Awaited
  <2> QED
    BY <1>1, <2>1 DEF DueInv, InLoop
<1>6. LeftInv'
  <2>1. ASSUME pc \in {"cbin", "cbout"} PROVE Left(i + 1)' = Left(i + 1)
    <3>1. \A n \in (i + 1)..maxpoll : n \in DOMAIN pollfds
      BY <1>2, <2>1 DEF IndexInv, InLoop
    <3> QED
      BY <1>1, <3>1 DEF Left
  <2> QED
    BY <1>1, <2>1 DEF LeftInv
<1> QED
  BY <1>3, <1>4, <1>5, <1>6

LEMMA AppTypes ==
    ASSUME TypeOK, App, pollfds' \in Seq(Slots), DOMAIN state' \subseteq Fds, state' \in [DOMAIN state' -> FdStates],
           open' \subseteq Fds, timecbs' \subseteq Timeouts, \A e \in timecbs' : e.nr <= ops', due' \subseteq due, unswept' \in BOOLEAN
    PROVE  TypeOK'
<1>1. ops \in 0..MaxOps /\ ops' = ops + 1 /\ ops' \in 0..MaxOps /\ 1..ops \subseteq 1..ops' /\ MaxOps \in Nat
  BY ConstantsAssumption DEF TypeOK, App
<1>2. due' \in SUBSET (1..ops') /\ spent' \in SUBSET (1..ops')
  BY <1>1 DEF TypeOK, App
<1>3. UNCHANGED <<clock, now, pc, i, r, maxpoll, cur, thrown>>
  BY DEF App, loopVars
<1> QED
  BY <1>1, <1>2, <1>3 DEF TypeOK

\* CbInv survives when callbacks are removed, and at most one is set, which is new.
LEMMA CbFrame ==
    ASSUME TypeOK, CbInv, ops' = ops \/ ops' = ops + 1, spent' = spent, NEW f0, NEW d0,
           \A g \in DOMAIN state', e \in Dirs :
              \/ state'[g].cb[e] = None
              \/ g \in DOMAIN state /\ state'[g].cb[e] = state[g].cb[e]
              \/ g = f0 /\ e = d0 /\ ops' = ops + 1 /\ state'[g].cb[e] = ops + 1
    PROVE  CbInv'
<1>1. ops \in Nat /\ ops' \in Nat /\ ops <= ops' /\ spent \subseteq 1..ops /\ None = 0
  BY DEF TypeOK, None
<1>2. \A g \in DOMAIN state, e \in Dirs : state[g].cb[e] \in Nat /\ state[g].cb[e] <= ops /\ state[g].cb[e] \notin spent
  BY FdStateFacts DEF CbInv
<1>3. ASSUME NEW g \in DOMAIN state', NEW e \in Dirs PROVE state'[g].cb[e] <= ops' /\ state'[g].cb[e] \notin spent'
  <2>1. CASE state'[g].cb[e] = None
    BY <1>1, <2>1
  <2>2. CASE g \in DOMAIN state /\ state'[g].cb[e] = state[g].cb[e]
    BY <1>1, <1>2, <2>2
  <2>3. CASE ops' = ops + 1 /\ state'[g].cb[e] = ops + 1
    BY <1>1, <2>3
  <2> QED
    BY <2>1, <2>2, <2>3
<1>4. ASSUME NEW g \in DOMAIN state', NEW e \in Dirs, NEW h \in DOMAIN state', NEW b \in Dirs,
             state'[g].cb[e] = state'[h].cb[b], state'[g].cb[e] # None
      PROVE  g = h /\ e = b
  <2>1. CASE g \in DOMAIN state /\ state'[g].cb[e] = state[g].cb[e] /\ h \in DOMAIN state /\ state'[h].cb[b] = state[h].cb[b]
    <3>1. state[g].cb[e] = state[h].cb[b] /\ state[g].cb[e] # None
      BY <1>4, <2>1
    <3> QED
      BY <2>1, <3>1 DEF CbInv
  <2>2. CASE g \in DOMAIN state /\ state'[g].cb[e] = state[g].cb[e] /\ state'[h].cb[b] = ops + 1
    <3>1. state[g].cb[e] <= ops /\ state[g].cb[e] \in Nat
      BY <1>2, <2>2
    <3>2. state[g].cb[e] = ops + 1
      BY <1>4, <2>2
    <3> QED
      BY <1>1, <3>1, <3>2
  <2>3. CASE h \in DOMAIN state /\ state'[h].cb[b] = state[h].cb[b] /\ state'[g].cb[e] = ops + 1
    <3>1. state[h].cb[b] <= ops /\ state[h].cb[b] \in Nat
      BY <1>2, <2>3
    <3>2. state[h].cb[b] = ops + 1
      BY <1>4, <2>3
    <3> QED
      BY <1>1, <3>1, <3>2
  <2>4. CASE g = f0 /\ e = d0 /\ h = f0 /\ b = d0
    BY <2>4
  <2> QED
    BY <1>4, <2>1, <2>2, <2>3, <2>4
<1> QED
  BY <1>3, <1>4 DEF CbInv

LEMMA SetCbStep ==
    ASSUME IInv, NEW f \in Fds, NEW d \in Dirs, NEW once \in BOOLEAN, SetCb(f, d, once)
    PROVE  IInv'
<1>a. TypeOK /\ TableInv /\ IndexInv /\ SwapInv /\ CbInv /\ DueInv /\ LeftInv
  BY DEF IInv
<1>b. App /\ UNCHANGED <<open, timecbs>>
  BY DEF SetCb
<1>c. ops \in 0..MaxOps /\ ops' = ops + 1 /\ ops' \in 0..MaxOps /\ spent' = spent /\ UNCHANGED cur
  BY <1>a, <1>b, ConstantsAssumption DEF TypeOK, App
<1>1. PICK c \in {None, ops'} : FdCb(f, d, once, c)
  BY DEF SetCb
<1>2. c \in 0..MaxOps
  BY <1>1, <1>c, ConstantsAssumption DEF None
<1>3. /\ Change(f) /\ state'[f].cb[d] = c
      /\ \A e \in Dirs \ {d} : IF f \in DOMAIN state THEN state'[f].cb[e] = state[f].cb[e] ELSE state'[f].cb[e] = None
      /\ due' = due \ {IF f \in DOMAIN state THEN state[f].cb[d] ELSE None}
  BY <1>1, <1>2, <1>a, FdCbChange
<1>4. TableInv' /\ Len(pollfds) <= Len(pollfds') /\ DOMAIN pollfds \subseteq DOMAIN pollfds'
  BY <1>3, <1>a, ChangeTable
<1>5. DOMAIN state' = DOMAIN state \cup {f} /\ \A g \in DOMAIN state \ {f} : state'[g] = state[g]
  BY <1>3 DEF Change
<1>6. TypeOK'
  <2>1. pollfds' \in Seq(Slots) /\ DOMAIN state' \subseteq Fds /\ state' \in [DOMAIN state' -> FdStates]
    BY <1>3, <1>a DEF Change, TypeOK
  <2>2. open' \subseteq Fds /\ timecbs' \subseteq Timeouts /\ \A e \in timecbs' : e.nr <= ops'
    BY <1>a, <1>b, <1>c DEF TypeOK, Timeouts
  <2>3. unswept' \in BOOLEAN
    BY <1>a DEF SetCb, TypeOK
  <2> QED
    BY <1>3, <1>a, <1>b, <2>1, <2>2, <2>3, AppTypes
<1>7. CbInv'
  <2>1. ASSUME NEW g \in DOMAIN state', NEW e \in Dirs
        PROVE  \/ state'[g].cb[e] = None
               \/ g \in DOMAIN state /\ state'[g].cb[e] = state[g].cb[e]
               \/ g = f /\ e = d /\ ops' = ops + 1 /\ state'[g].cb[e] = ops + 1
    <3>1. CASE g # f
      BY <1>5, <3>1
    <3>2. CASE g = f /\ e = d
      BY <1>1, <1>3, <1>c, <3>2
    <3>3. CASE g = f /\ e # d
      BY <1>3, <3>3
    <3> QED
      BY <3>1, <3>2, <3>3
  <2> QED
    BY <1>a, <1>c, <2>1, CbFrame
<1>8. IndexInv' /\ SwapInv' /\ DueInv' /\ LeftInv'
  <2>1. \A k \in DOMAIN pollfds : pollfds'[k].revents = pollfds[k].revents
    BY <1>3 DEF Change
  <2>2. ASSUME NEW c1 \in due', NEW g \in DOMAIN state, NEW e \in Dirs, state[g].cb[e] = c1
        PROVE  g \in DOMAIN state' /\ state'[g].cb[e] = c1 /\ state'[g].idx = state[g].idx /\ state[g].idx \in DOMAIN pollfds
    <3>1. state[g].idx \in DOMAIN pollfds /\ g \in DOMAIN state' /\ state'[g].idx = state[g].idx
      BY <1>3, <1>5, <1>a DEF TableInv, Change
    <3>2. state'[g].cb[e] = c1
      BY <1>3, <1>5, <2>2
    <3> QED
      BY <3>1, <3>2
  <2>3. due' \subseteq due
    BY <1>3
  <2> QED
    BY <1>4, <1>a, <1>b, <2>1, <2>2, <2>3, AppFrame
<1> QED
  BY <1>4, <1>6, <1>7, <1>8 DEF IInv

LEMMA RemoveCbStep ==
    ASSUME IInv, NEW f \in Fds, NEW ds \in SUBSET Dirs, RemoveCb(f, ds)
    PROVE  IInv'
<1>a. TypeOK /\ TableInv /\ IndexInv /\ SwapInv /\ CbInv /\ DueInv /\ LeftInv
  BY DEF IInv
<1>b. App /\ UNCHANGED <<open, timecbs>> /\ f \in DOMAIN state /\ due' = due \ {state[f].cb[d] : d \in ds}
  BY DEF RemoveCb
<1>c. ops \in 0..MaxOps /\ ops' = ops + 1 /\ ops' \in 0..MaxOps /\ spent' = spent /\ UNCHANGED cur
  BY <1>a, <1>b, ConstantsAssumption DEF TypeOK, App
<1>1. Cleared(f, ds)
  BY <1>a, <1>b, RemoveCbChange
<1>2. Change(f) /\ \A e \in Dirs : state'[f].cb[e] = IF e \in ds THEN None ELSE state[f].cb[e]
  BY <1>1 DEF Cleared
<1>3. TableInv' /\ Len(pollfds) <= Len(pollfds') /\ DOMAIN pollfds \subseteq DOMAIN pollfds'
  BY <1>2, <1>a, ChangeTable
<1>4. DOMAIN state' = DOMAIN state /\ \A g \in DOMAIN state \ {f} : state'[g] = state[g]
  BY <1>2, <1>b DEF Change
<1>5. TypeOK'
  <2>1. pollfds' \in Seq(Slots) /\ DOMAIN state' \subseteq Fds /\ state' \in [DOMAIN state' -> FdStates]
    BY <1>2, <1>a DEF Change, TypeOK
  <2>2. open' \subseteq Fds /\ timecbs' \subseteq Timeouts /\ \A e \in timecbs' : e.nr <= ops'
    BY <1>a, <1>b, <1>c DEF TypeOK, Timeouts
  <2>3. unswept' \in BOOLEAN
    BY <1>a DEF RemoveCb, TypeOK
  <2> QED
    BY <1>a, <1>b, <2>1, <2>2, <2>3, AppTypes
<1>6. CbInv'
  <2>1. ASSUME NEW g \in DOMAIN state', NEW e \in Dirs
        PROVE  state'[g].cb[e] = None \/ (g \in DOMAIN state /\ state'[g].cb[e] = state[g].cb[e])
    <3>1. CASE g # f
      BY <1>4, <3>1
    <3>2. CASE g = f /\ e \in ds
      BY <1>2, <3>2
    <3>3. CASE g = f /\ e \notin ds
      BY <1>2, <1>b, <3>3
    <3> QED
      BY <3>1, <3>2, <3>3
  <2> QED
    BY <1>a, <1>c, <2>1, CbFrame
<1>7. IndexInv' /\ SwapInv' /\ DueInv' /\ LeftInv'
  <2>1. \A k \in DOMAIN pollfds : pollfds'[k].revents = pollfds[k].revents
    BY <1>2 DEF Change
  <2>2. ASSUME NEW c1 \in due', NEW g \in DOMAIN state, NEW e \in Dirs, state[g].cb[e] = c1
        PROVE  g \in DOMAIN state' /\ state'[g].cb[e] = c1 /\ state'[g].idx = state[g].idx /\ state[g].idx \in DOMAIN pollfds
    <3>1. state[g].idx \in DOMAIN pollfds /\ g \in DOMAIN state' /\ state'[g].idx = state[g].idx
      BY <1>2, <1>4, <1>a DEF TableInv, Change
    <3>2. g = f => e \notin ds
      BY <1>b, <2>2
    <3>3. state'[g].cb[e] = c1
      BY <1>2, <1>4, <2>2, <3>2
    <3> QED
      BY <3>1, <3>3
  <2>3. due' \subseteq due
    BY <1>b
  <2> QED
    BY <1>3, <1>a, <1>b, <2>1, <2>2, <2>3, AppFrame
<1> QED
  BY <1>3, <1>5, <1>6, <1>7 DEF IInv

\* The operations that leave the tables alone.
OtherApp ==
    \/ \E f \in Fds : Open(f) \/ Close(f)
    \/ \E t \in Times : SetTimeout(t)
    \/ \E e \in timecbs : TimeoutCancel(e)
    \/ \E e \in timecbs, t \in Times : TimeoutReschedule(e, t)

LEMMA OtherAppStep == ASSUME IInv, OtherApp PROVE IInv'
<1>a. TypeOK /\ TableInv /\ IndexInv /\ SwapInv /\ CbInv /\ DueInv /\ LeftInv
  BY DEF IInv
<1>b. App /\ UNCHANGED <<state, pollfds, due, unswept>>
  BY DEF OtherApp, Open, Close, SetTimeout, TimeoutCancel, TimeoutReschedule, tableVars
<1>c. ops \in 0..MaxOps /\ ops' = ops + 1 /\ ops' \in 1..MaxOps /\ spent' = spent /\ UNCHANGED <<cur, pc>>
  BY <1>a, <1>b, ConstantsAssumption DEF TypeOK, App
<1>1. TableInv'
  BY <1>a, <1>b DEF TableInv, HasEvents
<1>2. CbInv'
  BY <1>a, <1>b, <1>c, CbFrame
<1>3. \A t \in Times : [at |-> t, nr |-> ops'] \in Timeouts /\ [at |-> t, nr |-> ops'].nr <= ops'
  BY <1>c DEF Timeouts
<1>4. \A e \in timecbs : e \in Timeouts /\ e.nr <= ops'
  BY <1>a, <1>c DEF TypeOK, Timeouts
<1>5. timecbs' \subseteq Timeouts /\ \A e \in timecbs' : e.nr <= ops'
  BY <1>3, <1>4 DEF OtherApp, Open, Close, SetTimeout, TimeoutCancel, TimeoutReschedule
<1>6. open' \subseteq Fds
  BY <1>a DEF OtherApp, Open, Close, SetTimeout, TimeoutCancel, TimeoutReschedule, TypeOK, tableVars
<1>7. pc = "cbtime" => (cur \in timecbs => cur \in timecbs')
  BY DEF OtherApp, Open, Close, SetTimeout, TimeoutCancel, TimeoutReschedule, Pending
<1>8. TypeOK'
  BY <1>a, <1>b, <1>5, <1>6, AppTypes DEF TypeOK
<1>9. IndexInv' /\ SwapInv' /\ DueInv' /\ LeftInv'
  <2>1. \A f \in DOMAIN state : state[f].idx \in DOMAIN pollfds
    BY <1>a DEF TableInv
  <2>2. Len(pollfds) <= Len(pollfds')
    BY <1>a, <1>b DEF TypeOK
  <2> QED
    BY <1>a, <1>b, <1>7, <2>1, <2>2, AppFrame
<1> QED
  BY <1>1, <1>2, <1>8, <1>9 DEF IInv

-----------------------------------------------------------------------------
(* The loop of poll. *)

\* q is v with what poll(2) reported.
RevsSet(v, rev, q) ==
    /\ q \in Seq(Slots) /\ Len(q) = Len(v) /\ DOMAIN q = DOMAIN v
    /\ \A k \in DOMAIN v : q[k].fd = v[k].fd /\ q[k].events = v[k].events /\ q[k].revents = rev[k]

LEMMA SetRevs ==
    ASSUME NEW v \in Seq(Slots), NEW rev \in [DOMAIN v -> SUBSET (Events \cup {"nval"})]
    PROVE  RevsSet(v, rev, [k \in DOMAIN v |-> [v[k] EXCEPT !.revents = rev[k]]])
<1>1. DOMAIN v = 1..Len(v) /\ Len(v) \in Nat /\ \A k \in DOMAIN v : v[k] \in Slots
  BY ElementOfSeq
<1>2. PICK q : q = [k \in DOMAIN v |-> [v[k] EXCEPT !.revents = rev[k]]]
  OBVIOUS
<1>3. DOMAIN q = DOMAIN v /\ \A k \in DOMAIN v : q[k] = [v[k] EXCEPT !.revents = rev[k]]
  BY <1>2
<1>4. \A k \in DOMAIN v : q[k] \in Slots /\ q[k].fd = v[k].fd /\ q[k].events = v[k].events /\ q[k].revents = rev[k]
  BY <1>1, <1>3 DEF Slots
<1>5. q \in [1..Len(v) -> Slots]
  BY <1>1, <1>2, <1>4
<1>6. q \in Seq(Slots) /\ Len(q) = Len(v)
  BY <1>1, <1>5
<1> QED
  BY <1>2, <1>3, <1>4, <1>6 DEF RevsSet

LEMMA RevsTable == ASSUME TableInv, NEW rev, RevsSet(pollfds, rev, pollfds'), state' = state PROVE TableInv'
  BY DEF TableInv, HasEvents, RevsSet

LEMMA CbSame == ASSUME TypeOK, CbInv, UNCHANGED <<state, ops, spent>> PROVE CbInv'
  BY DEF CbInv

LEMMA LeftFinite ==
    ASSUME TypeOK, NEW k \in Nat
    PROVE  IsFiniteSet(Left(k)) /\ Cardinality(Left(k)) \in Nat
<1>1. IsFiniteSet(k..maxpoll)
  BY FS_Interval DEF TypeOK
<1>2. IsFiniteSet(Left(k))
  BY <1>1, FS_Subset DEF Left
<1> QED
  BY <1>2, FS_CardinalityType

LEMMA PollStep == ASSUME IInv, Poll PROVE IInv'
<1>a. TypeOK /\ TableInv /\ CbInv
  BY DEF IInv
<1>b. UNCHANGED <<state, open, timecbs, ops, now, cur, spent, thrown, unswept>> /\ pc' = "in" /\ i' = 1 /\ maxpoll' = Len(pollfds)
  BY DEF Poll
<1>c. pollfds \in Seq(Slots) /\ Len(pollfds) \in Nat /\ DOMAIN pollfds = 1..Len(pollfds)
  BY <1>a DEF TypeOK
<1>1. PICK rev \in [DOMAIN pollfds -> SUBSET (Events \cup {"nval"})] :
        /\ pollfds' = [k \in DOMAIN pollfds |-> [pollfds[k] EXCEPT !.revents = rev[k]]]
        /\ r' = Cardinality({k \in DOMAIN pollfds : rev[k] # {}})
  BY DEF Poll
<1>2. RevsSet(pollfds, rev, pollfds')
  BY <1>1, <1>c, SetRevs
<1>3. TableInv' /\ CbInv'
  BY <1>a, <1>b, <1>2, RevsTable, CbSame
<1>4. r' \in Nat
  <2>1. IsFiniteSet(1..Len(pollfds))
    BY <1>c, FS_Interval
  <2>2. IsFiniteSet({k \in DOMAIN pollfds : rev[k] # {}})
    BY <1>c, <2>1, FS_Subset
  <2> QED
    BY <1>1, <2>2, FS_CardinalityType
<1>5. \A c \in due' : c \in 1..ops /\ \E f \in DOMAIN state, d \in Dirs : state[f].cb[d] = c /\ Ready(pollfds'[state[f].idx], d)
  BY DEF Poll
<1>6. TypeOK'
  <2>1. due' \subseteq 1..ops
    BY <1>5
  <2>2. clock' \in Times
    BY <1>a DEF Poll, TypeOK
  <2> QED
    BY <1>a, <1>b, <1>c, <1>2, <1>4, <2>1, <2>2 DEF TypeOK, RevsSet
<1>7. IndexInv' /\ SwapInv'
  BY <1>b, <1>c, <1>2 DEF IndexInv, SwapInv, InLoop, RevsSet
<1>8. DueInv'
  <2>1. ASSUME NEW c \in due' PROVE Awaited(c)'
    <3>1. PICK f \in DOMAIN state, d \in Dirs : state[f].cb[d] = c /\ Ready(pollfds'[state[f].idx], d)
      BY <1>5
    <3>2. state[f].idx \in 1..Len(pollfds)
      BY <1>a, <1>c DEF TableInv
    <3>3. state[f].idx <= maxpoll' /\ Ahead(state[f].idx, d)'
      BY <1>b, <1>c, <3>2 DEF Ahead
    <3> QED
      BY <1>b, <3>1, <3>3 DEF Awaited
  <2> QED
    BY <1>b, <2>1 DEF DueInv, InLoop
<1>9. LeftInv'
  <2>1. Left(i)' = {k \in DOMAIN pollfds : rev[k] # {}}
    BY <1>b, <1>c, <1>2 DEF Left, RevsSet
  <2> QED
    BY <1>1, <1>b, <2>1 DEF LeftInv
<1> QED
  BY <1>3, <1>6, <1>7, <1>8, <1>9 DEF IInv

\* The callback of direction d of slot i is called ...
Served(d) ==
    LET f == pollfds[i].fd
        c == state[f].cb[d]
    IN  /\ Ready(pollfds[i], d) /\ c # None
        /\ due' = due \ {c}
        /\ IF state[f].oneshot[d]
           THEN OneShot(f, d) /\ spent' = spent \cup {c}
           ELSE UNCHANGED <<state, pollfds, spent>>

\* ... or there is none to call.
Skipped(d) ==
    /\ ~(Ready(pollfds[i], d) /\ state[pollfds[i].fd].cb[d] # None)
    /\ UNCHANGED <<state, pollfds, due, spent>>

\* What both do to the tables.
AfterServe(d) ==
    /\ pollfds' \in Seq(Slots) /\ Len(pollfds') = Len(pollfds) /\ DOMAIN pollfds' = DOMAIN pollfds
    /\ DOMAIN state' = DOMAIN state /\ state' \in [DOMAIN state' -> FdStates]
    /\ \A k \in DOMAIN pollfds : pollfds'[k].revents = pollfds[k].revents
    /\ due' \subseteq due /\ spent' \subseteq 1..ops
    /\ \A x \in due', g \in DOMAIN state, e \in Dirs : state[g].cb[e] = x =>
          /\ state'[g].cb[e] = x /\ state'[g].idx = state[g].idx /\ state[g].idx \in DOMAIN pollfds
          /\ Ready(pollfds[state[g].idx], e) => state[g].idx # i \/ e # d

LEMMA ServeFacts ==
    ASSUME TypeOK, TableInv, CbInv, NEW d \in Dirs, i \in DOMAIN pollfds, Served(d) \/ Skipped(d), ops' = ops
    PROVE  TableInv' /\ CbInv' /\ AfterServe(d)
<1>a. pollfds \in Seq(Slots) /\ ops \in Nat /\ None = 0 /\ due \subseteq 1..ops /\ spent \subseteq 1..ops
  BY DEF TypeOK, None
<1>b. PICK f \in DOMAIN state : f = pollfds[i].fd /\ state[f].idx = i
  BY DEF TableInv
<1>c. \A g \in DOMAIN state : state[g].idx \in DOMAIN pollfds /\ pollfds[state[g].idx].fd = g
  BY DEF TableInv
<1>d. \A x \in due : x # None
  BY <1>a
<1>1. CASE Skipped(d)
  <2>1. UNCHANGED <<state, pollfds, due, spent>> /\ ~(Ready(pollfds[i], d) /\ state[f].cb[d] # None)
    BY <1>1, <1>b DEF Skipped
  <2>2. TableInv' /\ CbInv'
    BY <2>1, CbSame DEF TableInv, HasEvents
  <2>3. ASSUME NEW x \in due', NEW g \in DOMAIN state, NEW e \in Dirs, state[g].cb[e] = x
        PROVE  Ready(pollfds[state[g].idx], e) => state[g].idx # i \/ e # d
    <3>1. x # None
      BY <1>d, <2>1
    <3>2. state[g].idx = i => g = f
      BY <1>b, <1>c
    <3> QED
      BY <2>1, <2>3, <3>1, <3>2
  <2>4. pollfds' \in Seq(Slots) /\ state' \in [DOMAIN state' -> FdStates]
    BY <1>a, <2>1 DEF TypeOK
  <2> QED
    BY <1>a, <1>c, <2>1, <2>2, <2>3, <2>4 DEF AfterServe
<1>2. CASE Served(d)
  <2>1. PICK c : c = state[f].cb[d] /\ c # None /\ due' = due \ {c}
    BY <1>2, <1>b DEF Served
  <2>2. c \in 1..ops
    <3>1. c \in Nat /\ c <= ops
      BY <2>1, FdStateFacts DEF CbInv
    <3> QED
      BY <1>a, <2>1, <3>1
  <2>3. ASSUME NEW g \in DOMAIN state, NEW e \in Dirs, state[g].cb[e] = c PROVE g = f /\ e = d
    BY <2>1, <2>3 DEF CbInv
  <2>4. CASE state[f].oneshot[d]
    <3>1. OneShot(f, d) /\ spent' = spent \cup {c}
      BY <1>2, <1>b, <2>1, <2>4 DEF Served
    <3>2. Cleared(f, {d})
      BY <1>b, <3>1, OneShotChange
    <3>3. Change(f) /\ \A e \in Dirs : state'[f].cb[e] = IF e = d THEN None ELSE state[f].cb[e]
      BY <3>2 DEF Cleared
    <3>4. TableInv'
      BY <3>3, ChangeTable
    <3>5. /\ DOMAIN state' = DOMAIN state /\ \A g \in DOMAIN state \ {f} : state'[g] = state[g]
          /\ \A g \in DOMAIN state : state'[g].idx = state[g].idx
      BY <3>3 DEF Change
    <3>6. ASSUME NEW g \in DOMAIN state, NEW e \in Dirs
          PROVE  state'[g].cb[e] = IF g = f /\ e = d THEN None ELSE state[g].cb[e]
      BY <3>3, <3>5
    <3>7. CbInv'
      <4>1. ASSUME NEW g \in DOMAIN state', NEW e \in Dirs PROVE state'[g].cb[e] <= ops' /\ state'[g].cb[e] \notin spent'
        <5>1. CASE g = f /\ e = d
          BY <1>a, <2>2, <3>1, <3>5, <3>6, <5>1
        <5>2. CASE ~(g = f /\ e = d)
          <6>1. state'[g].cb[e] = state[g].cb[e] /\ state[g].cb[e] # c
            BY <2>3, <3>5, <3>6, <5>2
          <6>2. state[g].cb[e] <= ops /\ state[g].cb[e] \notin spent
            BY <3>5 DEF CbInv
          <6> QED
            BY <3>1, <6>1, <6>2
        <5> QED
          BY <5>1, <5>2
      <4>2. ASSUME NEW g \in DOMAIN state', NEW e \in Dirs, NEW h \in DOMAIN state', NEW b \in Dirs,
                   state'[g].cb[e] = state'[h].cb[b], state'[g].cb[e] # None
            PROVE  g = h /\ e = b
        <5>1. state[g].cb[e] = state[h].cb[b] /\ state[g].cb[e] # None
          BY <3>5, <3>6, <4>2
        <5> QED
          BY <3>5, <5>1 DEF CbInv
      <4> QED
        BY <4>1, <4>2 DEF CbInv
    <3>8. /\ pollfds' \in Seq(Slots) /\ Len(pollfds') = Len(pollfds) /\ DOMAIN pollfds' = DOMAIN pollfds
          /\ state' \in [DOMAIN state' -> FdStates]
          /\ \A k \in DOMAIN pollfds : pollfds'[k].revents = pollfds[k].revents
      <4>1. pollfds' \in Seq(Slots) /\ Len(pollfds') = Len(pollfds)
        BY <3>3 DEF Change
      <4>2. DOMAIN pollfds' = 1..Len(pollfds') /\ DOMAIN pollfds = 1..Len(pollfds)
        BY <1>a, <4>1, LenProperties
      <4> QED
        BY <3>3, <4>1, <4>2 DEF Change
    <3>9. spent' \subseteq 1..ops
      BY <1>a, <2>2, <3>1
    <3>10. ASSUME NEW x \in due', NEW g \in DOMAIN state, NEW e \in Dirs, state[g].cb[e] = x
           PROVE  state'[g].cb[e] = x /\ (state[g].idx # i \/ e # d)
      <4>1. ~(g = f /\ e = d)
        BY <2>1, <3>10
      <4>2. state[g].idx = i => g = f
        BY <1>b, <1>c
      <4> QED
        BY <3>6, <3>10, <4>1, <4>2
    <3> QED
      BY <1>c, <2>1, <3>4, <3>5, <3>7, <3>8, <3>9, <3>10 DEF AfterServe
  <2>5. CASE ~state[f].oneshot[d]
    <3>1. UNCHANGED <<state, pollfds, spent>>
      BY <1>2, <1>b, <2>5 DEF Served
    <3>2. TableInv' /\ CbInv'
      BY <3>1, CbSame DEF TableInv, HasEvents
    <3>3. ASSUME NEW x \in due', NEW g \in DOMAIN state, NEW e \in Dirs, state[g].cb[e] = x
          PROVE  state[g].idx # i \/ e # d
      <4>1. ~(g = f /\ e = d)
        BY <2>1, <3>3
      <4>2. state[g].idx = i => g = f
        BY <1>b, <1>c
      <4> QED
        BY <4>1, <4>2
    <3>4. pollfds' \in Seq(Slots) /\ state' \in [DOMAIN state' -> FdStates]
      BY <1>a, <3>1 DEF TypeOK
    <3> QED
      BY <1>a, <1>c, <2>1, <3>1, <3>2, <3>3, <3>4 DEF AfterServe
  <2> QED
    BY <2>4, <2>5
<1> QED
  BY <1>1, <1>2

\* What the two halves of the loop body keep of IInv.
LEMMA ServeStep ==
    ASSUME IInv, NEW d \in Dirs, i \in DOMAIN pollfds, AfterServe(d), TableInv', CbInv', r' \in Nat,
           UNCHANGED <<open, timecbs, ops, clock, maxpoll, now, cur, thrown, unswept>>,
           \/ pc = "in" /\ d = "in" /\ pc' \in {"cbin", "out"} /\ i' = i
           \/ pc = "out" /\ d = "out" /\ pc' = "cbout" /\ i' = i
           \/ pc = "out" /\ d = "out" /\ pc' = "in" /\ i' = i + 1,
           i <= maxpoll, Cardinality(Left(i + 1)) = r'
    PROVE  IInv'
<1>a. TypeOK /\ TableInv /\ IndexInv /\ DueInv
  BY DEF IInv
<1>b. /\ pollfds' \in Seq(Slots) /\ Len(pollfds') = Len(pollfds) /\ DOMAIN pollfds' = DOMAIN pollfds
      /\ DOMAIN state' = DOMAIN state /\ state' \in [DOMAIN state' -> FdStates]
      /\ \A k \in DOMAIN pollfds : pollfds'[k].revents = pollfds[k].revents
      /\ due' \subseteq due /\ spent' \subseteq 1..ops
      /\ \A x \in due', g \in DOMAIN state, e \in Dirs : state[g].cb[e] = x =>
            /\ state'[g].cb[e] = x /\ state'[g].idx = state[g].idx /\ state[g].idx \in DOMAIN pollfds
            /\ Ready(pollfds[state[g].idx], e) => state[g].idx # i \/ e # d
  BY DEF AfterServe
<1>c. i \in Nat /\ i' \in Nat /\ Len(pollfds) \in Nat /\ DOMAIN pollfds = 1..Len(pollfds) /\ maxpoll \in Nat /\ maxpoll <= Len(pollfds)
  BY <1>a DEF TypeOK, IndexInv, InLoop
<1>1. TypeOK'
  BY <1>a, <1>b, <1>c DEF TypeOK
<1>2. IndexInv' /\ SwapInv'
  BY <1>a, <1>b, <1>c DEF IndexInv, SwapInv, InLoop
<1>3. DueInv'
  <2>1. ASSUME NEW c \in due' PROVE Awaited(c)'
    <3>1. PICK f \in DOMAIN state, e \in Dirs :
            /\ state[f].cb[e] = c /\ Ready(pollfds[state[f].idx], e)
            /\ state[f].idx <= maxpoll /\ Ahead(state[f].idx, e)
      BY <1>a, <1>b, <2>1 DEF DueInv, InLoop, Awaited
    <3>2. f \in DOMAIN state' /\ state'[f].cb[e] = c /\ state'[f].idx = state[f].idx /\ state[f].idx \in DOMAIN pollfds
      BY <1>b, <2>1, <3>1
    <3>3. PICK k \in DOMAIN pollfds : k = state[f].idx
      BY <3>2
    <3>4. k # i \/ e # d
      BY <1>b, <2>1, <3>1, <3>3
    <3>5. Ahead(k, e)
      BY <3>1, <3>3
    <3>6. Ahead(k, e)'
      BY <1>c, <3>4, <3>5 DEF Ahead, Dirs
    <3>7. Ready(pollfds'[k], e)
      BY <1>b, <3>1, <3>3 DEF Ready
    <3>8. k <= maxpoll' /\ f \in DOMAIN state' /\ state'[f].cb[e] = c /\ state'[f].idx = k
      BY <3>1, <3>2, <3>3
    <3>9. i' < k \/ (k = i' /\ (pc' = "in" \/ (pc' \in {"out", "cbin"} /\ e = "out")))
      BY <3>6 DEF Ahead
    <3> QED
      BY <3>7, <3>8, <3>9 DEF Awaited, Ahead
  <2> QED
    BY <2>1 DEF DueInv, InLoop
<1>4. LeftInv'
  <2>1. {n \in (i + 1)..maxpoll : pollfds'[n].revents # {}} = Left(i + 1)
    <3>1. \A n \in (i + 1)..maxpoll : n \in DOMAIN pollfds
      BY <1>c
    <3> QED
      BY <1>b, <3>1 DEF Left
  <2>2. CASE i' = i /\ pc' # "in"
    <3>1. Left(i + 1)' = Left(i + 1)
      BY <2>1, <2>2 DEF Left
    <3> QED
      BY <2>2, <3>1 DEF LeftInv
  <2>3. CASE i' = i + 1 /\ pc' = "in"
    <3>1. Left(i)' = Left(i + 1)
      BY <2>1, <2>3 DEF Left
    <3> QED
      BY <2>3, <3>1 DEF LeftInv
  <2> QED
    BY <2>2, <2>3
<1> QED
  BY <1>1, <1>2, <1>3, <1>4 DEF IInv

LEMMA InStep == ASSUME IInv, In PROVE IInv'
<1>a. TypeOK /\ TableInv /\ IndexInv /\ CbInv /\ DueInv /\ LeftInv
  BY DEF IInv
<1>b. pc = "in" /\ More /\ UNCHANGED <<open, timecbs, ops, clock, i, maxpoll, now, cur, thrown, unswept>>
  BY DEF In
<1>c. /\ i \in Nat /\ maxpoll \in Nat /\ r \in Nat /\ r > 0 /\ i <= maxpoll /\ 1 <= i /\ maxpoll <= Len(pollfds)
      /\ Len(pollfds) \in Nat /\ DOMAIN pollfds = 1..Len(pollfds)
  BY <1>a, <1>b DEF TypeOK, IndexInv, InLoop, More
<1>d. i \in DOMAIN pollfds
  BY <1>c
<1>1. CASE pc' = "aborted"
  <2>1. UNCHANGED <<r, state, pollfds, due, spent>>
    BY <1>1, <1>b DEF In, Serve
  <2>2. TypeOK'
    BY <1>1, <1>a, <1>b, <2>1 DEF TypeOK
  <2>3. TableInv' /\ CbInv'
    BY <1>a, <1>b, <2>1, CbSame DEF TableInv, HasEvents
  <2>4. IndexInv' /\ SwapInv' /\ DueInv' /\ LeftInv'
    BY <1>1 DEF IndexInv, SwapInv, DueInv, LeftInv, InLoop
  <2> QED
    BY <2>2, <2>3, <2>4 DEF IInv
<1>2. CASE pc' # "aborted"
  <2>1. /\ pc' \in {"cbin", "out"} /\ r' = IF pollfds[i].revents # {} THEN r - 1 ELSE r
        /\ Served("in") \/ Skipped("in")
    BY <1>2, <1>b DEF In, Serve, Served, Skipped
  <2>2. TableInv' /\ CbInv' /\ AfterServe("in")
    BY <1>a, <1>b, <1>d, <2>1, ServeFacts DEF Dirs
  <2>3. r' \in Nat
    BY <1>c, <2>1
  <2>4. Cardinality(Left(i + 1)) = r'
    <3>1. Cardinality(Left(i)) = r /\ IsFiniteSet(Left(i))
      BY <1>a, <1>b, <1>c, LeftFinite DEF LeftInv
    <3>2. CASE pollfds[i].revents # {}
      <4>1. Left(i + 1) = Left(i) \ {i} /\ i \in Left(i)
        BY <1>c, <3>2 DEF Left
      <4>2. Cardinality(Left(i) \ {i}) = Cardinality(Left(i)) - 1
        BY <3>1, <4>1, FS_RemoveElement
      <4> QED
        BY <2>1, <3>1, <3>2, <4>1, <4>2
    <3>3. CASE pollfds[i].revents = {}
      <4>1. Left(i + 1) = Left(i)
        BY <1>c, <3>3 DEF Left
      <4> QED
        BY <2>1, <3>1, <3>3, <4>1
    <3> QED
      BY <3>2, <3>3
  <2> QED
    BY <1>b, <1>c, <1>d, <2>1, <2>2, <2>3, <2>4, ServeStep DEF Dirs
<1> QED
  BY <1>1, <1>2

LEMMA OutStep == ASSUME IInv, Out PROVE IInv'
<1>a. TypeOK /\ TableInv /\ IndexInv /\ CbInv /\ DueInv /\ LeftInv
  BY DEF IInv
<1>b. pc = "out" /\ UNCHANGED <<open, timecbs, ops, clock, r, maxpoll, now, cur, thrown, unswept>>
  BY DEF Out
<1>c. /\ i \in Nat /\ maxpoll \in Nat /\ r \in Nat /\ i <= maxpoll /\ 1 <= i /\ maxpoll <= Len(pollfds)
      /\ Len(pollfds) \in Nat /\ DOMAIN pollfds = 1..Len(pollfds)
  BY <1>a, <1>b DEF TypeOK, IndexInv, InLoop
<1>d. i \in DOMAIN pollfds
  BY <1>c
<1>1. \/ pc' = "cbout" /\ i' = i /\ Served("out")
      \/ pc' = "in" /\ i' = i + 1 /\ Skipped("out")
  BY <1>b DEF Out, Serve, Served, Skipped, NextSlot
<1>2. TableInv' /\ CbInv' /\ AfterServe("out")
  BY <1>a, <1>b, <1>d, <1>1, ServeFacts DEF Dirs
<1>3. Cardinality(Left(i + 1)) = r' /\ r' \in Nat
  BY <1>a, <1>b, <1>c DEF LeftInv
<1> QED
  BY <1>b, <1>c, <1>d, <1>1, <1>2, <1>3, ServeStep DEF Dirs

LEMMA ReturnStep == ASSUME IInv, Return PROVE IInv'
<1>a. TypeOK /\ TableInv /\ IndexInv /\ CbInv /\ DueInv /\ LeftInv
  BY DEF IInv
<1>b. /\ UNCHANGED <<pollfds, state, open, timecbs, ops, clock, r, maxpoll, now, cur, due, spent, thrown, unswept>>
      /\ (pc = "cbin" /\ pc' = "out" /\ i' = i) \/ (pc = "cbout" /\ pc' = "in" /\ i' = i + 1)
  BY DEF Return, NextSlot, tableVars
<1>c. i \in Nat /\ i' \in Nat /\ maxpoll \in Nat
  BY <1>a, <1>b DEF TypeOK
<1>1. TypeOK'
  BY <1>a, <1>b, <1>c DEF TypeOK
<1>2. TableInv' /\ CbInv'
  BY <1>a, <1>b, CbSame DEF TableInv, HasEvents
<1>3. IndexInv' /\ SwapInv'
  BY <1>a, <1>b, <1>c DEF IndexInv, SwapInv, InLoop
<1>4. DueInv'
  <2>1. ASSUME NEW c \in due' PROVE Awaited(c)'
    <3>1. PICK f \in DOMAIN state, e \in Dirs :
            /\ state[f].cb[e] = c /\ Ready(pollfds[state[f].idx], e)
            /\ state[f].idx <= maxpoll /\ Ahead(state[f].idx, e)
      BY <1>a, <1>b, <2>1 DEF DueInv, InLoop, Awaited
    <3>2. state[f].idx \in Nat
      BY <1>a, FdStateFacts DEF FdStates
    <3>3. PICK k \in Nat : k = state[f].idx
      BY <3>2
    <3>4. Ahead(k, e)'
      <4>1. Ahead(k, e)
        BY <3>1, <3>3
      <4> QED
        BY <1>b, <1>c, <4>1 DEF Ahead
    <3>5. i' < state'[f].idx \/ (state'[f].idx = i' /\ (pc' = "in" \/ (pc' \in {"out", "cbin"} /\ e = "out")))
      BY <1>b, <3>3, <3>4 DEF Ahead
    <3> QED
      BY <1>b, <3>1, <3>5 DEF Awaited, Ahead
  <2> QED
    BY <1>b, <2>1 DEF DueInv, InLoop
<1>5. LeftInv'
  BY <1>a, <1>b DEF LeftInv, Left
<1> QED
  BY <1>1, <1>2, <1>3, <1>4, <1>5 DEF IInv

\* Nothing is due any more when the loop is left.
LEMMA LoopEndFacts == ASSUME IInv, pc = "in", ~More PROVE due = {}
<1>a. TypeOK /\ TableInv /\ DueInv /\ LeftInv
  BY DEF IInv
<1>b. i \in Nat /\ maxpoll \in Nat /\ r \in Nat
  BY <1>a DEF TypeOK
<1>1. ASSUME NEW c \in due PROVE FALSE
  <2>1. PICK f \in DOMAIN state, e \in Dirs :
          /\ state[f].cb[e] = c /\ Ready(pollfds[state[f].idx], e)
          /\ state[f].idx <= maxpoll /\ Ahead(state[f].idx, e)
    BY <1>a, <1>1 DEF DueInv, InLoop, Awaited
  <2>2. state[f].idx \in Nat
    BY <1>a, FdStateFacts DEF FdStates
  <2>3. PICK k \in Nat : k = state[f].idx
    BY <2>2
  <2>4. i <= k /\ k <= maxpoll
    <3>1. Ahead(k, e) /\ k <= maxpoll
      BY <2>1, <2>3
    <3> QED
      BY <1>b, <3>1 DEF Ahead
  <2>5. k \in Left(i)
    BY <1>b, <2>1, <2>3, <2>4 DEF Left, Ready
  <2>6. r = 0
    BY <1>b, <2>4 DEF More
  <2>7. Left(i) = {}
    BY <1>a, <1>b, <2>6, LeftFinite, FS_EmptySet DEF LeftInv
  <2> QED
    BY <2>5, <2>7
<1> QED
  BY <1>1

\* The end of the loop, whichever way it is left.
LEMMA LoopOverFacts ==
    ASSUME TypeOK, TableInv, CbInv, LoopOver, UNCHANGED <<state, ops, spent>>
    PROVE  TableInv' /\ CbInv' /\ pollfds' \in Seq(Slots) /\ i' = 0 /\ r' = 0 /\ maxpoll' = 0
<1>1. pollfds \in Seq(Slots)
  BY DEF TypeOK
<1>2. PICK rev : rev = [k \in DOMAIN pollfds |-> {}]
  OBVIOUS
<1>3. rev \in [DOMAIN pollfds -> SUBSET (Events \cup {"nval"})]
  BY <1>2
<1>4. pollfds' = [k \in DOMAIN pollfds |-> [pollfds[k] EXCEPT !.revents = rev[k]]]
  BY <1>2 DEF LoopOver
<1>5. RevsSet(pollfds, rev, pollfds')
  BY <1>1, <1>3, <1>4, SetRevs
<1>6. TableInv' /\ CbInv'
  BY <1>5, RevsTable, CbSame
<1>7. pollfds' \in Seq(Slots)
  BY <1>5 DEF RevsSet
<1> QED
  BY <1>6, <1>7 DEF LoopOver

LEMMA LoopEndStep == ASSUME IInv, LoopEnd PROVE IInv'
<1>a. TypeOK /\ TableInv /\ CbInv
  BY DEF IInv
<1>b. pc = "in" /\ ~More /\ pc' = "time" /\ LoopOver /\ UNCHANGED <<state, open, timecbs, ops, clock, now, cur, due, spent, thrown, unswept>>
  BY DEF LoopEnd
<1>1. TableInv' /\ CbInv' /\ pollfds' \in Seq(Slots) /\ i' = 0 /\ r' = 0 /\ maxpoll' = 0
  BY <1>a, <1>b, LoopOverFacts
<1>2. due' = {}
  BY <1>b, LoopEndFacts
<1>3. TypeOK'
  BY <1>a, <1>b, <1>1 DEF TypeOK
<1>4. IndexInv' /\ SwapInv' /\ DueInv' /\ LeftInv'
  BY <1>b, <1>2 DEF IndexInv, SwapInv, DueInv, LeftInv, InLoop
<1> QED
  BY <1>1, <1>3, <1>4 DEF IInv

LEMMA ThrowStep == ASSUME IInv, Throw PROVE IInv'
<1>a. TypeOK /\ TableInv /\ CbInv
  BY DEF IInv
<1>b. /\ thrown < MaxThrows /\ thrown' = thrown + 1 /\ timecbs' \subseteq timecbs /\ pc' = "idle" /\ LoopOver
      /\ now' = 0 /\ cur' = End /\ due' = {} /\ unswept' = TRUE /\ UNCHANGED <<state, open, ops, clock, spent>>
  BY DEF Throw
<1>1. TableInv' /\ CbInv' /\ pollfds' \in Seq(Slots) /\ i' = 0 /\ r' = 0 /\ maxpoll' = 0
  BY <1>a, <1>b, LoopOverFacts
<1>2. thrown' \in 0..MaxThrows /\ 0 \in Times
  BY <1>a, <1>b, ConstantsAssumption DEF TypeOK, Times
<1>3. TypeOK'
  BY <1>a, <1>b, <1>1, <1>2 DEF TypeOK
<1>4. IndexInv' /\ SwapInv' /\ DueInv' /\ LeftInv'
  BY <1>b DEF IndexInv, SwapInv, DueInv, LeftInv, InLoop
<1> QED
  BY <1>1, <1>3, <1>4 DEF IInv

-----------------------------------------------------------------------------
(* run_timeouts. *)

TimeoutSteps == RunTimeouts \/ RunTimeout \/ TimeoutReturn \/ TimeoutsEnd

LEMMA TimeoutStep == ASSUME IInv, TimeoutSteps PROVE IInv'
<1>a. TypeOK /\ TableInv /\ IndexInv /\ CbInv /\ DueInv
  BY DEF IInv
<1>b. UNCHANGED <<pollfds, state, open, ops, i, r, maxpoll, due, spent, thrown, unswept>>
  BY DEF TimeoutSteps, RunTimeouts, RunTimeout, TimeoutReturn, TimeoutsEnd, tableVars, loopVars
<1>c. pc \in {"time", "times", "cbtime"} /\ pc' \in {"times", "cbtime", "trim"}
  BY DEF TimeoutSteps, RunTimeouts, RunTimeout, TimeoutReturn, TimeoutsEnd
<1>1. TableInv' /\ CbInv'
  BY <1>a, <1>b, CbSame DEF TableInv, HasEvents
<1>2. timecbs' \subseteq timecbs /\ cur' \in Timeouts \cup {End} /\ (pc' # "trim" => cur' \in timecbs' \cup {End})
  <2>1. CASE RunTimeouts
    BY <2>1, <1>a DEF RunTimeouts, TypeOK
  <2>2. CASE RunTimeout
    BY <2>2, <1>a DEF RunTimeout, TypeOK, IndexInv
  <2>3. CASE TimeoutReturn
    <3>1. PICK later : /\ later = {e \in timecbs : cur.at < e.at \/ (cur.at = e.at /\ cur.nr < e.nr)}
                       /\ \E e \in later \cup {End} : IsFirst(e, later) /\ cur' = e
      BY <2>3 DEF TimeoutReturn, Erase
    <3>2. cur' \in later \cup {End}
      BY <3>1
    <3>3. cur.at \in Int /\ cur.nr \in Int
      BY <1>a, ConstantsAssumption DEF TypeOK, Timeouts, End, Times
    <3>4. cur \notin later
      BY <3>1, <3>3
    <3>5. timecbs' = timecbs \ {cur} /\ later \subseteq timecbs
      BY <2>3, <3>1 DEF TimeoutReturn, Erase
    <3> QED
      BY <1>a, <3>2, <3>4, <3>5 DEF TypeOK
  <2>4. CASE TimeoutsEnd
    BY <2>4, <1>a DEF TimeoutsEnd
  <2> QED
    BY <2>1, <2>2, <2>3, <2>4 DEF TimeoutSteps
<1>3. clock' \in Times /\ now' \in Times
  <2>1. clock \in 0..MaxTime /\ now \in 0..MaxTime /\ 0 \in 0..MaxTime /\ clock..MaxTime \subseteq 0..MaxTime
    BY <1>a, ConstantsAssumption DEF TypeOK, Times
  <2> QED
    BY <2>1 DEF TimeoutSteps, RunTimeouts, RunTimeout, TimeoutReturn, TimeoutsEnd, Times
<1>4. TypeOK'
  BY <1>a, <1>b, <1>c, <1>2, <1>3 DEF TypeOK
<1>5. IndexInv' /\ SwapInv' /\ DueInv' /\ LeftInv'
  BY <1>a, <1>b, <1>c, <1>2 DEF IndexInv, SwapInv, DueInv, LeftInv, InLoop
<1> QED
  BY <1>1, <1>4, <1>5 DEF IInv

-----------------------------------------------------------------------------
(* consolidate. *)

LEMMA FrontFacts ==
    ASSUME TypeOK, pollfds # <<>>
    PROVE  /\ Len(pollfds) \in Nat \ {0} /\ DOMAIN pollfds = 1..Len(pollfds)
           /\ Front \in Seq(Slots) /\ Len(Front) = Len(pollfds) - 1 /\ DOMAIN Front = 1..(Len(pollfds) - 1)
           /\ \A k \in 1..(Len(pollfds) - 1) : k \in DOMAIN pollfds /\ Front[k] = pollfds[k]
           /\ Last = pollfds[Len(pollfds)] /\ Len(pollfds) \in DOMAIN pollfds /\ Last \in Slots
<1>1. pollfds \in Seq(Slots)
  BY DEF TypeOK
<1>2. Len(pollfds) \in Nat \ {0} /\ DOMAIN pollfds = 1..Len(pollfds)
  BY <1>1, EmptySeq
<1>3. PICK n : n = Len(pollfds) - 1
  OBVIOUS
<1>n. n \in Nat /\ Len(pollfds) = n + 1
  BY <1>2, <1>3
<1>4. \A k \in 1..n : k \in DOMAIN pollfds /\ pollfds[k] \in Slots
  BY <1>1, <1>2, <1>n, ElementOfSeq
<1>5. /\ SubSeq(pollfds, 1, n) \in Seq(Slots) /\ Len(SubSeq(pollfds, 1, n)) = IF 1 <= n THEN n - 1 + 1 ELSE 0
      /\ \A k \in 1..(n - 1 + 1) : SubSeq(pollfds, 1, n)[k] = pollfds[1 + k - 1]
  BY <1>4, <1>n, SubSeqProperties
<1>6. Front = SubSeq(pollfds, 1, n)
  BY <1>3 DEF Front
<1>7. Len(Front) = n /\ \A k \in 1..n : Front[k] = pollfds[k]
  BY <1>5, <1>6, <1>n
<1>8. Front \in Seq(Slots) /\ DOMAIN Front = 1..n
  BY <1>5, <1>6, <1>7
<1>9. Last = pollfds[Len(pollfds)] /\ Len(pollfds) \in DOMAIN pollfds /\ Last \in Slots
  BY <1>1, <1>2, ElementOfSeq DEF Last
<1> QED
  BY <1>2, <1>3, <1>n, <1>4, <1>7, <1>8, <1>9

LEMMA TrimStep == ASSUME IInv, Trim PROVE IInv' /\ (pc' = "idle" => NoDeadSlots')
<1>a. TypeOK /\ TableInv /\ CbInv /\ DueInv
  BY DEF IInv
<1>b. /\ pc = "trim" /\ UNCHANGED <<open, timecbs, ops, clock, r, maxpoll, now, cur, due, spent, thrown>>
      /\ unswept' = unswept \/ unswept' = FALSE
  BY DEF Trim, ConsolidateEnd
<1>c. due' = {}
  BY <1>a, <1>b DEF DueInv, InLoop
<1>d. pollfds \in Seq(Slots) /\ Len(pollfds) \in Nat /\ DOMAIN pollfds = 1..Len(pollfds)
  BY <1>a DEF TypeOK
<1>1. CASE pollfds # <<>> /\ Last.events = {}
  <2>1. state' = Drop(Last.fd) /\ pollfds' = Front /\ UNCHANGED <<pc, i>>
    BY <1>1 DEF Trim
  <2>2. PICK n \in Nat : Len(pollfds) = n + 1 /\ n + 1 \in DOMAIN pollfds /\ pollfds' \in Seq(Slots) /\ Len(pollfds') = n /\ DOMAIN pollfds' = 1..n
                         /\ Last = pollfds[n + 1] /\ \A k \in 1..n : k \in DOMAIN pollfds /\ pollfds'[k] = pollfds[k]
    <3>1. PICK n : n = Len(pollfds) - 1
      OBVIOUS
    <3>2. n \in Nat /\ Len(pollfds) = n + 1
      BY <1>1, <1>a, <3>1, FrontFacts
    <3> QED
      BY <1>1, <1>a, <2>1, <3>1, <3>2, FrontFacts
  <2>3. DOMAIN state' = DOMAIN state \ {Last.fd} /\ \A g \in DOMAIN state' : state'[g] = state[g]
    BY <2>1 DEF Drop
  <2>4. TableInv'
    <3>1. ASSUME NEW g \in DOMAIN state'
          PROVE  state'[g].idx \in DOMAIN pollfds' /\ pollfds'[state'[g].idx].fd = g /\ HasEvents(g)'
      <4>1. g \in DOMAIN state /\ g # Last.fd /\ state'[g] = state[g]
        BY <2>3
      <4>2. PICK k \in DOMAIN pollfds : k = state[g].idx /\ pollfds[k].fd = g /\ pollfds[k].events = {e \in Dirs : state[g].cb[e] # None}
        BY <4>1, <1>a DEF TableInv, HasEvents
      <4>3. k \in 1..n
        BY <1>d, <2>2, <4>1, <4>2
      <4>4. k \in DOMAIN pollfds' /\ pollfds'[k] = pollfds[k]
        BY <2>2, <4>3
      <4> QED
        BY <4>1, <4>2, <4>4 DEF HasEvents
    <3>2. ASSUME NEW k \in DOMAIN pollfds' PROVE pollfds'[k].fd \in DOMAIN state' /\ state'[pollfds'[k].fd].idx = k
      <4>1. k \in 1..n /\ k \in DOMAIN pollfds /\ pollfds'[k] = pollfds[k] /\ k # n + 1
        BY <2>2
      <4>2. pollfds[k].fd \in DOMAIN state /\ state[pollfds[k].fd].idx = k
        BY <4>1, <1>a DEF TableInv
      <4>3. state[Last.fd].idx = n + 1
        BY <1>a, <2>2 DEF TableInv
      <4>4. pollfds[k].fd \in DOMAIN state'
        BY <2>3, <4>1, <4>2, <4>3
      <4> QED
        BY <2>3, <4>1, <4>2, <4>4
    <3> QED
      BY <3>1, <3>2 DEF TableInv
  <2>5. CbInv'
    BY <1>a, <1>b, <2>3, CbFrame
  <2>6. TypeOK'
    <3>1. DOMAIN state' \subseteq Fds /\ \A g \in DOMAIN state' : state'[g] \in FdStates
      BY <1>a, <2>3 DEF TypeOK
    <3>2. state' \in [DOMAIN state' -> FdStates]
      BY <2>1, <2>3, <3>1 DEF Drop
    <3> QED
      BY <1>a, <1>b, <2>1, <2>2, <3>1, <3>2 DEF TypeOK
  <2>7. IndexInv' /\ SwapInv' /\ DueInv' /\ LeftInv'
    BY <1>b, <1>c, <2>1 DEF IndexInv, SwapInv, DueInv, LeftInv, InLoop
  <2> QED
    BY <1>b, <2>1, <2>4, <2>5, <2>6, <2>7 DEF IInv
<1>2. CASE ~(pollfds # <<>> /\ Last.events = {})
  <2>1. /\ UNCHANGED <<state, pollfds>>
        /\ IF Len(pollfds) - 1 < 1 THEN pc' = "idle" /\ i' = 0 ELSE pc' = "swap" /\ i' = Len(pollfds) - 1
    BY <1>2 DEF Trim, SwapFrom, ConsolidateEnd
  <2>2. pollfds = <<>> \/ pollfds[Len(pollfds)].events # {}
    BY <1>2 DEF Last
  <2>3. TableInv' /\ CbInv'
    BY <1>a, <1>b, <2>1, CbSame DEF TableInv, HasEvents
  <2>4. i' \in Nat
    BY <1>d, <2>1
  <2>5. TypeOK'
    BY <1>a, <1>b, <2>1, <2>4 DEF TypeOK
  <2>6. \A k \in DOMAIN pollfds : (pc' = "swap" /\ i' < k) \/ pc' = "idle" => pollfds[k].events # {}
    <3>1. ASSUME NEW k \in DOMAIN pollfds, (pc' = "swap" /\ i' < k) \/ pc' = "idle" PROVE k = Len(pollfds) /\ pollfds # <<>>
      BY <1>d, <2>1, <3>1
    <3> QED
      BY <2>2, <3>1
  <2>7. IndexInv' /\ DueInv' /\ LeftInv'
    BY <1>b, <1>c, <1>d, <2>1 DEF IndexInv, DueInv, LeftInv, InLoop
  <2>8. SwapInv' /\ (pc' = "idle" => NoDeadSlots')
    BY <2>1, <2>6 DEF SwapInv, NoDeadSlots
  <2> QED
    BY <2>3, <2>5, <2>7, <2>8 DEF IInv
<1> QED
  BY <1>1, <1>2

LEMMA SwapStep == ASSUME IInv, Swap PROVE IInv' /\ (pc' = "idle" => NoDeadSlots')
<1>a. TypeOK /\ TableInv /\ CbInv /\ DueInv /\ IndexInv /\ SwapInv
  BY DEF IInv
<1>b. /\ pc = "swap" /\ UNCHANGED <<open, timecbs, ops, clock, r, maxpoll, now, cur, due, spent, thrown>>
      /\ (i = 1 /\ pc' = "idle" /\ i' = 0) \/ (i # 1 /\ pc' = "swap" /\ i' = i - 1)
      /\ unswept' = unswept \/ unswept' = FALSE
  BY DEF Swap, ConsolidateEnd
<1>c. due' = {}
  BY <1>a, <1>b DEF DueInv, InLoop
<1>d. /\ pollfds \in Seq(Slots) /\ Len(pollfds) \in Nat /\ DOMAIN pollfds = 1..Len(pollfds)
      /\ i \in Nat /\ 1 <= i /\ i < Len(pollfds)
  BY <1>a, <1>b DEF TypeOK, IndexInv
<1>e. i' \in Nat /\ (pc' = "swap" => 1 <= i')
  BY <1>b, <1>d
<1>f. \A k \in DOMAIN pollfds : i < k => pollfds[k].events # {}
  BY <1>a, <1>b DEF SwapInv
<1>1. CASE pollfds[i].events = {}
  <2>1. state' = Moved /\ pollfds' = [Front EXCEPT ![i] = Last]
    BY <1>1 DEF Swap
  <2>2. PICK n \in Nat : Len(pollfds) = n + 1 /\ n + 1 \in DOMAIN pollfds /\ Front \in Seq(Slots) /\ Len(Front) = n /\ DOMAIN Front = 1..n
                         /\ Last = pollfds[n + 1] /\ Last \in Slots /\ \A k \in 1..n : k \in DOMAIN pollfds /\ Front[k] = pollfds[k]
    <3>1. PICK n : n = Len(pollfds) - 1
      OBVIOUS
    <3>2. pollfds # <<>>
      BY <1>d
    <3>3. n \in Nat /\ Len(pollfds) = n + 1
      BY <1>d, <3>1
    <3> QED
      BY <1>a, <3>1, <3>2, <3>3, FrontFacts
  <2>3. i \in 1..n
    BY <1>d, <2>2
  <2>4. pollfds' \in Seq(Slots) /\ Len(pollfds') = n /\ DOMAIN pollfds' = 1..n
        /\ pollfds'[i] = Last /\ \A k \in 1..n \ {i} : pollfds'[k] = pollfds[k]
    <3>1. [Front EXCEPT ![i] = Last] \in Seq(Slots) /\ Len([Front EXCEPT ![i] = Last]) = Len(Front)
          /\ \A j \in 1..Len(Front) : [Front EXCEPT ![i] = Last][j] = IF j = i THEN Last ELSE Front[j]
      BY <2>2, <2>3, ExceptSeq
    <3>2. pollfds' \in Seq(Slots) /\ Len(pollfds') = n /\ \A j \in 1..n : pollfds'[j] = IF j = i THEN Last ELSE pollfds[j]
      BY <2>1, <2>2, <3>1
    <3>3. DOMAIN pollfds' = 1..n
      BY <3>2, LenProperties
    <3> QED
      BY <2>3, <3>2, <3>3
  <2>5. PICK a \in DOMAIN state : a = pollfds[i].fd /\ state[a].idx = i
    BY <1>a, <2>2, <2>3 DEF TableInv
  <2>6. PICK l \in DOMAIN state : l = Last.fd /\ state[l].idx = n + 1
    BY <1>a, <2>2 DEF TableInv
  <2>7. a # l
    BY <2>3, <2>5, <2>6
  <2>8. state[l] \in FdStates
    BY <1>a, FdStateFacts
  <2>9. /\ DOMAIN state' = DOMAIN state \ {a}
        /\ state'[l].idx = i /\ state'[l].cb = state[l].cb /\ state'[l] \in FdStates
        /\ \A g \in DOMAIN state' \ {l} : state'[g] = state[g]
    <3>1. PICK s : s = Drop(a)
      OBVIOUS
    <3>2. DOMAIN s = DOMAIN state \ {a} /\ \A g \in DOMAIN s : s[g] = state[g]
      BY <3>1 DEF Drop
    <3>3. PICK x : x = [state[l] EXCEPT !.idx = i]
      OBVIOUS
    <3>4. x \in FdStates /\ x.idx = i /\ x.cb = state[l].cb
      <4>1. i \in Nat \ {0}
        BY <1>d
      <4> QED
        BY <2>8, <3>3, <4>1 DEF FdStates
    <3>5. l \in DOMAIN s /\ s[l] = state[l]
      BY <2>7, <3>2
    <3>6. state' = [s EXCEPT ![l] = x]
      BY <2>1, <2>5, <2>6, <3>1, <3>3, <3>5 DEF Moved
    <3> QED
      BY <3>2, <3>4, <3>5, <3>6
  <2>10. TableInv'
    <3>1. ASSUME NEW g \in DOMAIN state'
          PROVE  state'[g].idx \in DOMAIN pollfds' /\ pollfds'[state'[g].idx].fd = g /\ HasEvents(g)'
      <4>1. PICK k \in DOMAIN pollfds : k = state[g].idx /\ pollfds[k].fd = g /\ pollfds[k].events = {e \in Dirs : state[g].cb[e] # None}
        BY <1>a, <2>9 DEF TableInv, HasEvents
      <4>2. CASE g = l
        <5>1. k = n + 1 /\ pollfds[k] = Last
          BY <2>2, <2>6, <4>1, <4>2
        <5> QED
          BY <2>3, <2>4, <2>9, <4>1, <4>2, <5>1 DEF HasEvents
      <4>3. CASE g # l
        <5>1. state'[g] = state[g] /\ g # a
          BY <2>9, <4>3
        <5>2. k # i /\ k # n + 1
          BY <2>2, <2>5, <2>6, <4>1, <4>3, <5>1
        <5>3. k \in 1..n \ {i}
          BY <1>d, <2>2, <5>2
        <5> QED
          BY <2>4, <4>1, <5>1, <5>3 DEF HasEvents
      <4> QED
        BY <4>2, <4>3
    <3>2. ASSUME NEW k \in DOMAIN pollfds' PROVE pollfds'[k].fd \in DOMAIN state' /\ state'[pollfds'[k].fd].idx = k
      <4>1. CASE k = i
        BY <2>4, <2>6, <2>7, <2>9, <4>1
      <4>2. CASE k # i
        <5>1. k \in 1..n /\ k \in DOMAIN pollfds /\ pollfds'[k] = pollfds[k] /\ k # n + 1
          BY <2>2, <2>4, <4>2
        <5>2. pollfds[k].fd \in DOMAIN state /\ state[pollfds[k].fd].idx = k
          BY <1>a, <5>1 DEF TableInv
        <5>3. pollfds[k].fd # a /\ pollfds[k].fd # l
          BY <2>5, <2>6, <4>2, <5>1, <5>2
        <5> QED
          BY <2>9, <5>1, <5>2, <5>3
      <4> QED
        BY <4>1, <4>2
    <3> QED
      BY <3>1, <3>2 DEF TableInv
  <2>11. CbInv'
    <3>1. ASSUME NEW g \in DOMAIN state', NEW e \in Dirs PROVE g \in DOMAIN state /\ state'[g].cb[e] = state[g].cb[e]
      BY <2>9
    <3> QED
      BY <1>a, <1>b, <3>1, CbFrame
  <2>12. TypeOK'
    <3>1. DOMAIN state' \subseteq Fds /\ \A g \in DOMAIN state' : state'[g] \in FdStates
      BY <1>a, <2>9 DEF TypeOK
    <3>2. state' \in [DOMAIN state' -> FdStates]
      BY <2>1, <3>1 DEF Moved, Drop
    <3> QED
      BY <1>a, <1>b, <1>e, <2>4, <3>1, <3>2 DEF TypeOK
  <2>13. IndexInv' /\ DueInv' /\ LeftInv'
    <3>1. pc' = "swap" => i' < Len(pollfds')
      BY <1>b, <1>d, <2>2, <2>4
    <3> QED
      BY <1>b, <1>c, <1>e, <3>1 DEF IndexInv, DueInv, LeftInv, InLoop
  <2>14. ASSUME NEW k \in DOMAIN pollfds', i' < k PROVE pollfds'[k].events # {}
    <3>1. CASE k = i
      <4>1. i < n + 1
        BY <2>2, <2>3
      <4> QED
        BY <1>f, <2>2, <2>4, <3>1, <4>1
    <3>2. CASE k # i
      <4>1. i < k /\ k \in 1..n
        BY <1>b, <1>d, <2>4, <2>14, <3>2
      <4> QED
        BY <1>f, <2>2, <2>4, <3>2, <4>1
    <3> QED
      BY <3>1, <3>2
  <2>15. SwapInv' /\ (pc' = "idle" => NoDeadSlots')
    <3>1. pc' = "idle" => \A k \in DOMAIN pollfds' : i' < k
      BY <1>b, <2>4
    <3> QED
      BY <2>14, <3>1 DEF SwapInv, NoDeadSlots
  <2> QED
    BY <2>10, <2>11, <2>12, <2>13, <2>15 DEF IInv
<1>2. CASE pollfds[i].events # {}
  <2>1. UNCHANGED <<state, pollfds>>
    BY <1>2 DEF Swap
  <2>2. TableInv' /\ CbInv'
    BY <1>a, <1>b, <2>1, CbSame DEF TableInv, HasEvents
  <2>3. TypeOK'
    BY <1>a, <1>b, <1>e, <2>1 DEF TypeOK
  <2>4. IndexInv' /\ DueInv' /\ LeftInv'
    <3>1. pc' = "swap" => i' < Len(pollfds')
      BY <1>b, <1>d, <2>1
    <3> QED
      BY <1>b, <1>c, <1>e, <3>1 DEF IndexInv, DueInv, LeftInv, InLoop
  <2>5. ASSUME NEW k \in DOMAIN pollfds, i' < k PROVE pollfds[k].events # {}
    <3>1. CASE k = i
      BY <1>2, <3>1
    <3>2. CASE k # i
      <4>1. i < k
        BY <1>b, <1>d, <2>5, <3>2
      <4> QED
        BY <1>f, <4>1
    <3> QED
      BY <3>1, <3>2
  <2>6. SwapInv' /\ (pc' = "idle" => NoDeadSlots')
    <3>1. pc' = "idle" => \A k \in DOMAIN pollfds : i' < k
      BY <1>b, <1>d
    <3> QED
      BY <2>1, <2>5, <3>1 DEF SwapInv, NoDeadSlots
  <2> QED
    BY <2>2, <2>3, <2>4, <2>6 DEF IInv
<1> QED
  BY <1>1, <1>2

-----------------------------------------------------------------------------
(* Descriptors that are not open. *)

\* A slot with events is that of an open descriptor.
EventsOpen == \A k \in DOMAIN pollfds : pollfds[k].events # {} => pollfds[k].fd \in open

\* Outside poll every slot has events, but for the cases that unswept stands for.
IdleSwept == pc = "idle" /\ ~unswept => NoDeadSlots

\* POLLNVAL is reported in those cases only, and forgotten at the end of the loop.
NvalKnown ==
    /\ \A k \in DOMAIN pollfds : "nval" \in pollfds[k].revents => (InLoop \/ pc = "aborted") /\ unswept
    /\ pc = "aborted" => unswept

PolledInv == EventsOpen /\ IdleSwept /\ NvalKnown

\* Change touches the slot of f only.
LEMMA ChangedSlots ==
    ASSUME TableInv, TableInv', NEW f, Change(f), NEW k \in DOMAIN pollfds'
    PROVE  \/ pollfds'[k].fd = f /\ k = state'[f].idx
           \/ k \in DOMAIN pollfds /\ pollfds'[k] = pollfds[k]
<1>1. PICK g \in DOMAIN state' : g = pollfds'[k].fd /\ state'[g].idx = k
  BY DEF TableInv
<1>2. CASE g = f
  BY <1>1, <1>2
<1>3. CASE g # f
  <2>1. g \in DOMAIN state /\ state'[g] = state[g]
    BY <1>1, <1>3 DEF Change
  <2>2. k \in DOMAIN pollfds /\ pollfds[k].fd = g
    BY <1>1, <2>1 DEF TableInv
  <2> QED
    BY <1>3, <2>2 DEF Change
<1> QED
  BY <1>2, <1>3

\* Each slot is one of those there were, perhaps with fewer events.
Fewer ==
    \A k \in DOMAIN pollfds' : \E n \in DOMAIN pollfds :
        /\ pollfds'[k].fd = pollfds[n].fd /\ pollfds'[k].events \subseteq pollfds[n].events
        /\ pollfds'[k].revents = pollfds[n].revents

LEMMA ClearedFewer ==
    ASSUME TypeOK, TableInv, TableInv', NEW f, NEW ds \in SUBSET Dirs, Cleared(f, ds)
    PROVE  Fewer
<1>1. ASSUME NEW k \in DOMAIN pollfds'
      PROVE  \E n \in DOMAIN pollfds :
                /\ pollfds'[k].fd = pollfds[n].fd /\ pollfds'[k].events \subseteq pollfds[n].events
                /\ pollfds'[k].revents = pollfds[n].revents
  <2>a. Change(f) /\ f \in DOMAIN state
    BY DEF Cleared
  <2>1. CASE pollfds'[k].fd = f /\ k = state'[f].idx
    <3>1. k = state[f].idx /\ k \in DOMAIN pollfds /\ pollfds[k].fd = f /\ f \in DOMAIN state'
      BY <2>a, <2>1 DEF Change, TableInv
    <3>2. /\ pollfds[k].events = {d \in Dirs : state[f].cb[d] # None}
          /\ pollfds'[k].events = {d \in Dirs : state'[f].cb[d] # None}
      BY <2>a, <2>1, <3>1 DEF TableInv, HasEvents
    <3>3. pollfds'[k].events \subseteq pollfds[k].events
      BY <3>2 DEF Cleared
    <3>4. pollfds'[k].revents = pollfds[k].revents
      BY <2>a, <3>1 DEF Change
    <3> QED
      BY <2>1, <3>1, <3>3, <3>4
  <2>2. CASE k \in DOMAIN pollfds /\ pollfds'[k] = pollfds[k]
    BY <2>2
  <2> QED
    BY <2>a, <2>1, <2>2, ChangedSlots
<1> QED
  BY <1>1 DEF Fewer

LEMMA FewerPolled ==
    ASSUME PolledInv, Fewer, open' = open, pc \in {"trim", "swap"} \/ (unswept => unswept'),
           InLoop => InLoop' \/ pc' = "aborted", pc = "aborted" => pc' = "aborted", pc' = "aborted" => unswept',
           IdleSwept'
    PROVE  PolledInv'
<1>1. EventsOpen'
  BY DEF PolledInv, EventsOpen, Fewer
<1>2. NvalKnown'
  <2>1. ASSUME NEW k \in DOMAIN pollfds', "nval" \in pollfds'[k].revents
        PROVE  (InLoop' \/ pc' = "aborted") /\ unswept'
    <3>1. PICK n \in DOMAIN pollfds : pollfds'[k].revents = pollfds[n].revents
      BY DEF Fewer
    <3>2. (InLoop \/ pc = "aborted") /\ unswept
      BY <2>1, <3>1 DEF PolledInv, NvalKnown
    <3> QED
      BY <3>2 DEF InLoop
  <2> QED
    BY <2>1 DEF NvalKnown, InLoop
<1> QED
  BY <1>1, <1>2 DEF PolledInv

\* The new slot of fd_cb has no revents.
LEMMA NewSlot ==
    ASSUME TypeOK, NEW f \in Fds, NEW d, NEW once, NEW c, FdCb(f, d, once, c), f \notin DOMAIN state
    PROVE  pollfds'[Len(pollfds) + 1].revents = {}
<1>1. PICK x : x = [fd |-> f, events |-> Watch({}, d, c), revents |-> {}]
  OBVIOUS
<1>2. pollfds' = Append(pollfds, x)
  BY <1>1 DEF FdCb
<1>3. pollfds' = Append(pollfds, x) /\ pollfds \in Seq(Slots)
  BY <1>2 DEF TypeOK
<1>4. pollfds'[Len(pollfds) + 1] = x
  BY <1>3
<1> QED
  BY <1>1, <1>4

LEMMA SetCbPolled ==
    ASSUME IInv, TableInv', PolledInv, NEW f \in Fds, NEW d \in Dirs, NEW once \in BOOLEAN, SetCb(f, d, once)
    PROVE  PolledInv'
<1>a. TypeOK /\ TableInv
  BY DEF IInv
<1>b. f \in open /\ open' = open /\ UNCHANGED pc /\ pc # "aborted"
  BY DEF SetCb, App
<1>c. ops \in 0..MaxOps /\ ops' = ops + 1 /\ ops' \in 0..MaxOps
  BY <1>a, ConstantsAssumption DEF TypeOK, SetCb, App
<1>1. PICK c \in {None, ops'} : FdCb(f, d, once, c) /\ unswept' = (unswept \/ (pc = "idle" /\ c = None))
  BY DEF SetCb
<1>2. Change(f) /\ state'[f].cb[d] = c
  <2>1. c \in 0..MaxOps
    BY <1>1, <1>c, ConstantsAssumption DEF None
  <2> QED
    BY <1>a, <1>1, <2>1, FdCbChange
<1>3. \A k \in DOMAIN pollfds' : \/ pollfds'[k].fd = f /\ k = state'[f].idx
                                 \/ k \in DOMAIN pollfds /\ pollfds'[k] = pollfds[k]
  BY <1>a, <1>2, ChangedSlots
<1>4. EventsOpen'
  BY <1>b, <1>3 DEF PolledInv, EventsOpen
<1>5. ASSUME pc = "idle", ~unswept' PROVE NoDeadSlots'
  <2>1. ~unswept /\ c # None
    BY <1>1, <1>5
  <2>2. ASSUME NEW k \in DOMAIN pollfds', pollfds'[k].fd = f, k = state'[f].idx PROVE pollfds'[k].events # {}
    <3>1. pollfds'[k].events = {e \in Dirs : state'[f].cb[e] # None}
      BY <2>2 DEF TableInv, HasEvents
    <3> QED
      BY <1>2, <2>1, <3>1
  <2>3. NoDeadSlots
    BY <1>5, <2>1 DEF PolledInv, IdleSwept
  <2> QED
    BY <1>3, <2>2, <2>3 DEF NoDeadSlots
<1>6. ASSUME NEW k \in DOMAIN pollfds', "nval" \in pollfds'[k].revents PROVE InLoop' /\ unswept'
  <2>1. k \in DOMAIN pollfds /\ pollfds'[k].revents = pollfds[k].revents
    <3>1. CASE k \in DOMAIN pollfds
      BY <1>2, <3>1 DEF Change
    <3>2. CASE k \notin DOMAIN pollfds
      <4>1. k = state'[f].idx
        BY <1>3, <3>2
      <4>2. CASE f \in DOMAIN state
        BY <1>a, <1>2, <3>2, <4>1, <4>2 DEF Change, TableInv
      <4>3. CASE f \notin DOMAIN state
        <5>1. k = Len(pollfds) + 1
          BY <1>2, <4>1, <4>3 DEF Change
        <5>2. pollfds'[Len(pollfds) + 1].revents = {}
          BY <1>a, <1>1, <4>3, NewSlot
        <5> QED
          BY <1>6, <5>1, <5>2
      <4> QED
        BY <4>2, <4>3
    <3> QED
      BY <3>1, <3>2
  <2>2. InLoop /\ unswept
    BY <1>b, <1>6, <2>1 DEF PolledInv, NvalKnown
  <2> QED
    BY <1>b, <1>1, <2>2 DEF InLoop
<1> QED
  BY <1>b, <1>4, <1>5, <1>6 DEF PolledInv, IdleSwept, NvalKnown

LEMMA RemoveCbPolled ==
    ASSUME IInv, TableInv', PolledInv, NEW f \in Fds, NEW ds \in SUBSET Dirs, RemoveCb(f, ds)
    PROVE  PolledInv'
<1>1. Fewer
  <2>1. TypeOK /\ TableInv /\ f \in DOMAIN state
    BY DEF IInv, RemoveCb
  <2> QED
    BY <2>1, RemoveCbChange, ClearedFewer
<1>2. open' = open /\ UNCHANGED pc /\ pc # "aborted" /\ unswept' = (unswept \/ pc = "idle")
  BY DEF RemoveCb, App
<1> QED
  BY <1>1, <1>2, FewerPolled DEF IdleSwept, InLoop

LEMMA OtherAppPolled == ASSUME IInv, PolledInv, OtherApp PROVE PolledInv'
<1>1. UNCHANGED <<state, pollfds, pc, unswept>>
  BY DEF OtherApp, Open, Close, SetTimeout, TimeoutCancel, TimeoutReschedule, App, tableVars
<1>2. open \subseteq open' \/ \E f \in Fds : Close(f)
  BY DEF OtherApp, Open, SetTimeout, TimeoutCancel, TimeoutReschedule, tableVars
<1>3. EventsOpen'
  <2>1. CASE open \subseteq open'
    BY <1>1, <2>1 DEF PolledInv, EventsOpen
  <2>2. ASSUME NEW f \in Fds, Close(f), NEW k \in DOMAIN pollfds, pollfds[k].events # {} PROVE pollfds[k].fd \in open'
    <3>1. pollfds[k].fd \in open
      BY <2>2 DEF PolledInv, EventsOpen
    <3>2. PICK g \in DOMAIN state : g = pollfds[k].fd /\ state[g].idx = k /\ HasEvents(g)
      BY DEF IInv, TableInv
    <3>3. g # f
      BY <2>2, <3>2 DEF Close, NoCbs, HasEvents
    <3> QED
      BY <2>2, <3>1, <3>2, <3>3 DEF Close
  <2> QED
    BY <1>1, <1>2, <2>1, <2>2 DEF EventsOpen
<1> QED
  BY <1>1, <1>3 DEF PolledInv, IdleSwept, NvalKnown, NoDeadSlots, InLoop

LEMMA PollPolled == ASSUME IInv, PolledInv, Poll PROVE PolledInv'
<1>a. pollfds \in Seq(Slots) /\ pc = "idle" /\ pc' = "in" /\ UNCHANGED <<open, unswept>>
  BY DEF IInv, TypeOK, Poll
<1>1. PICK rev \in [DOMAIN pollfds -> SUBSET (Events \cup {"nval"})] :
        /\ \A k \in DOMAIN pollfds : rev[k] \in Reports(pollfds[k])
        /\ pollfds' = [k \in DOMAIN pollfds |-> [pollfds[k] EXCEPT !.revents = rev[k]]]
  BY DEF Poll
<1>2. RevsSet(pollfds, rev, pollfds')
  BY <1>1, <1>a, SetRevs
<1>3. EventsOpen'
  BY <1>a, <1>2 DEF PolledInv, EventsOpen, RevsSet
<1>4. ASSUME NEW k \in DOMAIN pollfds, "nval" \in rev[k] PROVE unswept
  <2>1. pollfds[k].events \subseteq Dirs
    <3>1. pollfds[k] \in Slots
      BY <1>a
    <3> QED
      BY <3>1 DEF Slots
  <2>2. ASSUME pollfds[k].fd \in open PROVE FALSE
    <3>1. rev[k] \in (SUBSET pollfds[k].events) \cup {{"hup"}}
      BY <1>1, <2>2 DEF Reports
    <3>2. rev[k] \subseteq pollfds[k].events \/ rev[k] = {"hup"}
      BY <3>1
    <3> QED
      BY <1>4, <2>1, <3>2 DEF Dirs
  <2> QED
    BY <1>a, <2>2 DEF PolledInv, EventsOpen, IdleSwept, NoDeadSlots
<1> QED
  BY <1>a, <1>2, <1>3, <1>4 DEF PolledInv, IdleSwept, NvalKnown, InLoop, RevsSet

\* The two halves of the loop body: a one-shot callback is removed, or nothing is.
LEMMA ServeFewer ==
    ASSUME TypeOK, TableInv, TableInv', NEW d \in Dirs, i \in DOMAIN pollfds, Served(d) \/ Skipped(d)
    PROVE  Fewer
<1>1. CASE UNCHANGED pollfds
  BY <1>1 DEF Fewer
<1>2. CASE OneShot(pollfds[i].fd, d)
  <2>1. PICK f \in DOMAIN state : f = pollfds[i].fd /\ state[f].idx = i
    BY DEF TableInv
  <2>2. Cleared(f, {d})
    BY <1>2, <2>1, OneShotChange
  <2>3. {d} \in SUBSET Dirs
    OBVIOUS
  <2> QED
    BY <2>2, <2>3, ClearedFewer
<1> QED
  BY <1>1, <1>2 DEF Served, Skipped

LEMMA LoopPolled == ASSUME IInv, TableInv', PolledInv, In \/ Out \/ Return PROVE PolledInv'
<1>a. TypeOK /\ TableInv /\ IndexInv
  BY DEF IInv
<1>b. i \in Nat /\ maxpoll \in Nat /\ Len(pollfds) \in Nat /\ DOMAIN pollfds = 1..Len(pollfds)
  BY <1>a DEF TypeOK
<1>c. pc \in {"in", "out", "cbin", "cbout"} /\ UNCHANGED <<open, unswept>>
  BY DEF In, Out, Return, tableVars
<1>1. pc' \in {"in", "out", "cbin", "cbout", "aborted"}
  BY DEF In, Out, Return, Serve, NextSlot
<1>2. pc' = "aborted" => In /\ "nval" \in pollfds[i].revents
  BY DEF In, Out, Return, Serve, NextSlot
<1>i. (In \/ Out) => i \in DOMAIN pollfds
  <2>1. In => i <= maxpoll
    BY DEF In, More
  <2>2. Out => i <= maxpoll
    BY <1>a DEF Out, IndexInv
  <2>3. maxpoll <= Len(pollfds) /\ 1 <= i
    BY <1>a, <1>c DEF IndexInv, InLoop
  <2> QED
    BY <1>b, <2>1, <2>2, <2>3
<1>3. Fewer
  <2>1. CASE UNCHANGED pollfds
    BY <2>1 DEF Fewer
  <2>2. CASE In /\ ~UNCHANGED pollfds
    <3>1. Served("in") \/ Skipped("in")
      BY <2>2 DEF In, Serve, Served, Skipped
    <3> QED
      BY <1>a, <1>i, <2>2, <3>1, ServeFewer DEF Dirs
  <2>3. CASE Out
    <3>1. Served("out") \/ Skipped("out")
      BY <2>3 DEF Out, Serve, Served, Skipped
    <3> QED
      BY <1>a, <1>i, <2>3, <3>1, ServeFewer DEF Dirs
  <2> QED
    BY <2>1, <2>2, <2>3 DEF Return, tableVars
<1>4. pc' = "aborted" => unswept'
  BY <1>c, <1>2, <1>i DEF PolledInv, NvalKnown
<1> QED
  BY <1>c, <1>1, <1>3, <1>4, FewerPolled DEF IdleSwept, InLoop

\* When the loop is left, revents is not read again.
LEMMA LoopOverPolled ==
    ASSUME IInv, PolledInv, LoopOver, open' = open, pc' = "time" \/ (pc' = "idle" /\ unswept')
    PROVE  PolledInv'
<1>1. pollfds \in Seq(Slots)
  BY DEF IInv, TypeOK
<1>2. PICK rev : rev = [k \in DOMAIN pollfds |-> {}]
  OBVIOUS
<1>3. rev \in [DOMAIN pollfds -> SUBSET (Events \cup {"nval"})]
  BY <1>2
<1>4. pollfds' = [k \in DOMAIN pollfds |-> [pollfds[k] EXCEPT !.revents = rev[k]]]
  BY <1>2 DEF LoopOver
<1>5. RevsSet(pollfds, rev, pollfds')
  BY <1>1, <1>3, <1>4, SetRevs
<1> QED
  BY <1>2, <1>5 DEF PolledInv, EventsOpen, IdleSwept, NvalKnown, RevsSet

LEMMA TimeoutPolled == ASSUME PolledInv, TimeoutSteps PROVE PolledInv'
<1>1. UNCHANGED <<pollfds, open, unswept>> /\ pc \in {"time", "times", "cbtime"} /\ pc' \in {"times", "cbtime", "trim"}
  BY DEF TimeoutSteps, RunTimeouts, RunTimeout, TimeoutReturn, TimeoutsEnd, tableVars
<1> QED
  BY <1>1 DEF PolledInv, EventsOpen, IdleSwept, NvalKnown, InLoop

LEMMA ConsolidatePolled ==
    ASSUME IInv, PolledInv, Trim \/ Swap, pc' = "idle" => NoDeadSlots'
    PROVE  PolledInv'
<1>a. TypeOK /\ IndexInv
  BY DEF IInv
<1>b. pc \in {"trim", "swap"} /\ pc' \in {"trim", "swap", "idle"} /\ open' = open
  BY DEF Trim, Swap, ConsolidateEnd
<1>1. Fewer
  <2>1. CASE UNCHANGED pollfds
    BY <2>1 DEF Fewer
  <2>2. CASE Trim /\ ~UNCHANGED pollfds
    <3>1. pollfds # <<>> /\ pollfds' = Front
      BY <2>2 DEF Trim
    <3>2. \A k \in DOMAIN pollfds' : k \in DOMAIN pollfds /\ pollfds'[k] = pollfds[k]
      BY <1>a, <3>1, FrontFacts
    <3> QED
      BY <3>2 DEF Fewer
  <2>3. CASE Swap /\ ~UNCHANGED pollfds
    <3>1. pollfds' = [Front EXCEPT ![i] = Last]
      BY <2>3 DEF Swap
    <3>2. i < Len(pollfds) /\ 1 <= i /\ i \in Nat /\ Len(pollfds) \in Nat
      BY <1>a, <2>3 DEF Swap, IndexInv, TypeOK
    <3>3. pollfds # <<>>
      BY <3>2
    <3>4. /\ DOMAIN pollfds' = DOMAIN Front /\ Last = pollfds[Len(pollfds)] /\ Len(pollfds) \in DOMAIN pollfds
          /\ \A k \in DOMAIN Front : k \in DOMAIN pollfds /\ Front[k] = pollfds[k]
      BY <1>a, <3>1, <3>3, FrontFacts
    <3>5. \A k \in DOMAIN pollfds' : pollfds'[k] = Last \/ pollfds'[k] = Front[k]
      BY <3>1, <3>4
    <3> QED
      BY <3>4, <3>5 DEF Fewer
  <2> QED
    BY <2>1, <2>2, <2>3
<1>2. IdleSwept'
  BY DEF IdleSwept
<1> QED
  BY <1>b, <1>1, <1>2, FewerPolled DEF InLoop

-----------------------------------------------------------------------------
(* The theorems. *)

LEMMA InitInv == Init => IInv
<1> SUFFICES ASSUME Init PROVE IInv
  OBVIOUS
<1>1. TypeOK
  <2>1. state \in [DOMAIN state -> FdStates] /\ DOMAIN state = {}
    BY DEF Init
  <2>2. 0 \in Times /\ 0 \in 0..MaxOps /\ 0 \in 0..MaxThrows
    BY ConstantsAssumption DEF Times
  <2>3. pollfds \in Seq(Slots)
    BY EmptySeq DEF Init
  <2>4. unswept \in BOOLEAN
    BY DEF Init
  <2> QED
    BY <2>1, <2>2, <2>3, <2>4 DEF Init, TypeOK
<1>2. TableInv /\ CbInv
  BY DEF Init, TableInv, CbInv
<1>3. IndexInv /\ SwapInv /\ DueInv /\ LeftInv
  BY DEF Init, IndexInv, SwapInv, DueInv, LeftInv, InLoop
<1> QED
  BY <1>1, <1>2, <1>3 DEF IInv

LEMMA NextSteps ==
    ASSUME Next
    PROVE  \/ \E f \in Fds, d \in Dirs, once \in BOOLEAN : SetCb(f, d, once)
           \/ \E f \in Fds, ds \in SUBSET Dirs : RemoveCb(f, ds)
           \/ OtherApp \/ Poll \/ In \/ Out \/ Return \/ LoopEnd \/ TimeoutSteps \/ Trim \/ Swap \/ Throw
  BY DEF Next, Round, OtherApp, TimeoutSteps

LEMMA StutterStep == ASSUME IInv, UNCHANGED vars PROVE IInv'
<1>1. UNCHANGED <<pollfds, state, open, timecbs, ops, clock, pc, i, r, maxpoll, now, cur, due, spent, thrown, unswept>>
  BY DEF vars, tableVars, loopVars
<1>2. TypeOK'
  BY <1>1 DEF IInv, TypeOK
<1>3. TableInv' /\ CbInv'
  BY <1>1 DEF IInv, TableInv, CbInv, HasEvents
<1>4. IndexInv' /\ SwapInv' /\ LeftInv'
  BY <1>1 DEF IInv, IndexInv, SwapInv, LeftInv, Left, InLoop
<1>5. DueInv'
  BY <1>1 DEF IInv, DueInv, InLoop, Awaited, Ready, Ahead
<1> QED
  BY <1>2, <1>3, <1>4, <1>5 DEF IInv

LEMMA StepInv == IInv /\ [Next]_vars => IInv'
<1> SUFFICES ASSUME IInv, [Next]_vars PROVE IInv'
  OBVIOUS
<1>1. CASE Next
  BY <1>1, NextSteps, SetCbStep, RemoveCbStep, OtherAppStep, PollStep, InStep, OutStep, ReturnStep, LoopEndStep,
     TimeoutStep, TrimStep, SwapStep, ThrowStep
<1>2. CASE UNCHANGED vars
  BY <1>2, StutterStep
<1> QED
  BY <1>1, <1>2

LEMMA Invariance == Spec => []IInv
  BY InitInv, StepInv, PTL DEF Spec

\* The table and the vector have one entry for each other.
LEMMA OneSlotEach ==
    ASSUME TypeOK, TableInv
    PROVE  DOMAIN state = {pollfds[k].fd : k \in DOMAIN pollfds} /\ Cardinality(DOMAIN state) = Len(pollfds)
<1>1. Len(pollfds) \in Nat /\ DOMAIN pollfds = 1..Len(pollfds)
  BY DEF TypeOK
<1>2. \A k \in DOMAIN pollfds : pollfds[k].fd \in DOMAIN state /\ state[pollfds[k].fd].idx = k
  BY DEF TableInv
<1>3. \A f \in DOMAIN state : \E k \in DOMAIN pollfds : pollfds[k].fd = f
  BY DEF TableInv
<1>4. PICK F : F = [k \in DOMAIN pollfds |-> pollfds[k].fd]
  OBVIOUS
<1>5. F \in [DOMAIN pollfds -> DOMAIN state] /\ \A k \in DOMAIN pollfds : F[k] = pollfds[k].fd
  BY <1>2, <1>4
<1>6. \A a, b \in DOMAIN pollfds : F[a] = F[b] => a = b
  BY <1>2, <1>5
<1>7. \A f \in DOMAIN state : \E k \in DOMAIN pollfds : F[k] = f
  BY <1>3, <1>5
<1>8. F \in Bijection(DOMAIN pollfds, DOMAIN state)
  <2>1. F \in Injection(DOMAIN pollfds, DOMAIN state)
    BY <1>5, <1>6, Fun_IsInj
  <2>2. F \in Surjection(DOMAIN pollfds, DOMAIN state)
    BY <1>5, <1>7, Fun_IsSurj
  <2> QED
    BY <2>1, <2>2 DEF Bijection
<1>9. IsFiniteSet(DOMAIN pollfds) /\ Cardinality(DOMAIN pollfds) = Len(pollfds)
  <2>1. \A n \in Nat : IsFiniteSet(1..n) /\ Cardinality(1..n) = n
    <3> TAKE n \in Nat
    <3>1. IsFiniteSet(1..n) /\ Cardinality(1..n) = IF 1 > n THEN 0 ELSE n - 1 + 1
      BY FS_Interval
    <3> QED
      BY <3>1
  <2> QED
    BY <1>1, <2>1
<1>10. Cardinality(DOMAIN state) = Len(pollfds)
  <2>1. ExistsBijection(DOMAIN pollfds, DOMAIN state)
    BY <1>8 DEF ExistsBijection
  <2> QED
    BY <1>9, <2>1, FS_Bijection
<1> QED
  BY <1>2, <1>3, <1>10

\* TableConsistent: whatever callbacks do in the middle of a round - set and remove
\* callbacks, close and reopen descriptors, cancel and reschedule timeouts, throw -
\* state_ and pollfds_ are inverse to each other and the loops stay inside them.
THEOREM TablesStayConsistent == Spec => []TableConsistent
<1>1. IInv => TableConsistent
  <2> SUFFICES ASSUME IInv PROVE TableConsistent
    OBVIOUS
  <2>a. TypeOK /\ TableInv /\ IndexInv
    BY DEF IInv
  <2>b. i \in Nat /\ maxpoll \in Nat /\ Len(pollfds) \in Nat /\ DOMAIN pollfds = 1..Len(pollfds)
    BY <2>a DEF TypeOK
  <2>1. pc \in {"out", "cbin", "cbout", "swap"} => i \in DOMAIN pollfds
    BY <2>a, <2>b DEF IndexInv, InLoop
  <2>2. pc = "swap" => i < Len(pollfds)
    BY <2>a DEF IndexInv
  <2>3. pc \in {"times", "cbtime"} => cur \in timecbs \cup {End}
    BY <2>a DEF IndexInv
  <2>4. \A f \in DOMAIN state :
          /\ state[f].idx \in DOMAIN pollfds
          /\ pollfds[state[f].idx].fd = f
          /\ pollfds[state[f].idx].events = {d \in Dirs : state[f].cb[d] # None}
    BY <2>a DEF TableInv, HasEvents
  <2> QED
    BY <2>a, <2>1, <2>2, <2>3, <2>4, OneSlotEach DEF TableConsistent
<1> QED
  BY <1>1, Invariance, PTL

\* ReadyCallbacksRun: no callback that poll(2) found ready is passed over, although
\* the loop stops at r = 0 and the vector changes under it; only another callback
\* of the round can take it away.
THEOREM ReadyCallbacksAreRun == Spec => []ReadyCallbacksRun
<1>1. IInv => ReadyCallbacksRun
  BY DEF IInv, DueInv, CbInv, ReadyCallbacksRun, OneShotsRunOnce, InLoop
<1> QED
  BY <1>1, Invariance, PTL

\* OneShotsRunOnce: a ReadOnce or WriteOnce callback is removed when it is called,
\* however the callback itself changes the table.
THEOREM OneShotsAreRemoved == Spec => []OneShotsRunOnce
<1>1. IInv => OneShotsRunOnce
  BY DEF IInv, CbInv, OneShotsRunOnce
<1> QED
  BY <1>1, Invariance, PTL

\* Consolidates: consolidate drops every slot without a callback, although it moves
\* the last slot into the gaps while it goes backwards over the vector.
THEOREM RoundsConsolidate == Spec => Consolidates
<1>1. IInv /\ [Next]_vars => [(pc \in {"trim", "swap"} /\ pc' = "idle") => NoDeadSlots']_vars
  <2> SUFFICES ASSUME IInv, Next, pc \in {"trim", "swap"}, pc' = "idle" PROVE NoDeadSlots'
    OBVIOUS
  <2>1. Trim \/ Swap
    BY NextSteps DEF SetCb, RemoveCb, App, OtherApp, Open, Close, SetTimeout, TimeoutCancel, TimeoutReschedule,
       Poll, In, Out, Return, LoopEnd, TimeoutSteps, RunTimeouts, RunTimeout, TimeoutReturn, TimeoutsEnd, Throw
  <2> QED
    BY <2>1, TrimStep, SwapStep
<1> QED
  BY <1>1, Invariance, PTL DEF Spec, Consolidates

LEMMA PolledInit == Init => PolledInv
  BY DEF Init, PolledInv, EventsOpen, IdleSwept, NvalKnown, NoDeadSlots

LEMMA PolledStep == IInv /\ PolledInv /\ [Next]_vars => PolledInv'
<1> SUFFICES ASSUME IInv, PolledInv, [Next]_vars PROVE PolledInv'
  OBVIOUS
<1>1. TableInv'
  BY StepInv DEF IInv
<1>2. CASE Next
  <2>1. Throw => LoopOver /\ open' = open /\ pc' = "idle" /\ unswept'
    BY DEF Throw
  <2>2. LoopEnd => LoopOver /\ open' = open /\ pc' = "time"
    BY DEF LoopEnd
  <2>3. Throw \/ LoopEnd => PolledInv'
    BY <2>1, <2>2, LoopOverPolled
  <2>4. Trim \/ Swap => PolledInv'
    BY ConsolidatePolled, TrimStep, SwapStep
  <2> QED
    BY <1>1, <1>2, <2>3, <2>4, NextSteps, SetCbPolled, RemoveCbPolled, OtherAppPolled, PollPolled, LoopPolled, TimeoutPolled
<1>3. CASE UNCHANGED vars
  <2>1. UNCHANGED <<pollfds, open, pc, unswept>>
    BY <1>3 DEF vars, tableVars
  <2> QED
    BY <2>1 DEF PolledInv, EventsOpen, IdleSwept, NvalKnown, NoDeadSlots, InLoop
<1> QED
  BY <1>2, <1>3

\* InvalidOnlyUnswept: the assertion of pollset.cc:230 holds for a program that gives up
\* its descriptors in callbacks, which return: consolidate drops their slots before
\* poll(2) is called again, whatever else the callbacks do, and though numbers are reused.
THEOREM InvalidOnlyAfterIdleRemoval == Spec => []InvalidOnlyUnswept
<1>1. Spec => []PolledInv
  BY PolledInit, PolledStep, Invariance, PTL DEF Spec
<1>2. PolledInv => InvalidOnlyUnswept
  BY DEF PolledInv, IdleSwept, NvalKnown, InvalidOnlyUnswept
<1> QED
  BY <1>1, <1>2, PTL
===============================================================================
