-------------------------- MODULE PollsetPlus_proofs --------------------------
(***************************************************************************)
(* Safety of the event loop towards other threads, for any instances,      *)
(* workers, signals and handlers.                                          *)
(*                                                                         *)
(* No callback is lost or run twice because cbs of run_pending_asyncs is   *)
(* empty whenever async_cbs_ is swapped into it (CbsInv).                  *)
(*                                                                         *)
(* A handler that has read the owner of its signal can rely on it although *)
(* it holds no lock: only a thread with the lock takes the signal away     *)
(* (LockInv), it then waits for signal_flags, which stay 1 as long as the  *)
(* handler is under way and nobody else stores to them (FlightInv); those  *)
(* that come later find no owner (EraseInv); and an instance is destroyed  *)
(* only when it owns no signal (OwnerInv).  So the owner lives until the   *)
(* wake-up (WakeInv).                                                      *)
(***************************************************************************)
EXTENDS PollsetPlus, SequenceTheorems, WellFoundedInduction, TLAPS

Flying(h) == hnd[h].at \in {"set", "wake", "mark"}
Erasing(q, s) == op[q].do = "spin" /\ op[q].sig = s

\* The callbacks that are swapped out are run before the next swap.
CbsInv == \A p \in Sets : pc[p] \notin {"run", "cb"} => cbs[p] = <<>>

\* A callback that runs is the last of those that are over.
EndsInv == \A p \in Sets : pc[p] = "cb" => ends[p] # <<>>

\* The second half of a call runs under signal_owners_lock, and so does the loop
\* of run_subtype_handlers.
LockInv ==
    \A p \in Sets :
        /\ op[p].do \notin {"none", "scan"} => slock = p /\ pc[p] \in {"idle", "cb", "sigcb"}
        /\ pc[p] \in {"scan", "sigs", "clear"} => slock = p
        /\ op[p].do = "scan" => pc[p] = "scan"

\* The owner of a signal has a callback for it, and is not destroyed.
OwnerInv == \A s \in Sigs : owner[s] # None => owner[s] \in alive /\ <<owner[s], s>> \in sigcbs

\* A handler is for a signal.
SigInv == \A h \in Handlers : Flying(h) \/ hnd[h].at = "claim" => hnd[h].sig \in Sigs

\* The flag of a signal is 1 while a handler is under way.
FlightInv == "overwritten" \notin fate => \A h \in Handlers : Flying(h) => flag[hnd[h].sig] = 1

\* A signal that a thread takes away has no owner, and once that thread has waited
\* for the flag, no handler is going to wake one.
EraseInv ==
    \A q \in Sets : op[q].do \in {"spin", "test", "clear"} =>
        /\ op[q].sig \in Sigs /\ owner[op[q].sig] = None
        /\ op[q].do # "spin" /\ "overwritten" \notin fate =>
              \A h \in Handlers : hnd[h].at = "wake" => hnd[h].sig # op[q].sig

\* Whom a handler is going to wake owns the signal, or somebody who has taken the
\* signal from it waits for the handler.
WakeInv ==
    {"stolen", "overwritten"} \cap fate = {} => \A h \in Handlers : hnd[h].at = "wake" =>
        /\ hnd[h].ps \in alive
        /\ owner[hnd[h].sig] = hnd[h].ps \/ \E q \in Sets : Erasing(q, hnd[h].sig)

IInv ==
    /\ TypeOK /\ CbsInv /\ EndsInv /\ InjectedInOrder
    /\ LockInv /\ OwnerInv /\ SigInv /\ FlightInv /\ EraseInv /\ WakeInv /\ WakesLive

-----------------------------------------------------------------------------
(* Types. *)

\* The first signal of a set is one of the set.
LEMMA FirstFact == ASSUME NEW S, S \subseteq Sigs, S # {} PROVE First(S) \in S
<1>1. S \subseteq Nat
  BY ConstantsAssumption
<1>2. PICK s \in S : \A t \in S : <<t, s>> \notin OpToRel(<, Nat)
  BY <1>1, NatLessThanWellFounded, WFMin
<1>3. ASSUME NEW t \in S PROVE s <= t
  <2>1. t \in Nat /\ s \in Nat
    BY <1>1
  <2>2. <<t, s>>[1] = t /\ <<t, s>>[2] = s /\ <<t, s>> \in Nat \X Nat
    BY <2>1
  <2>3. ~(t < s)
    BY <1>2, <2>2 DEF OpToRel
  <2> QED
    BY <2>1, <2>3
<1> QED
  BY <1>3 DEF First

Pipes == [n : 0..PipeCap, sig : BOOLEAN]

LEMMA WrittenType ==
    ASSUME pipe \in [Sets -> Pipes], NEW p \in Sets, NEW x \in BOOLEAN
    PROVE  Written(p, x) \in [Sets -> Pipes]
<1>1. pipe[p] \in Pipes /\ pipe[p].n \in 0..PipeCap /\ pipe[p].sig \in BOOLEAN /\ PipeCap \in Nat
  BY ConstantsAssumption DEF Pipes
<1>2. (pipe[p].sig \/ x) \in BOOLEAN
  BY <1>1
<1>3. ASSUME pipe[p].n < PipeCap, NEW y \in BOOLEAN PROVE [n |-> pipe[p].n + 1, sig |-> y] \in Pipes
  BY <1>1, <1>3 DEF Pipes
<1>4. ASSUME NEW y \in Pipes PROVE [pipe EXCEPT ![p] = y] \in [Sets -> Pipes]
  BY <1>4
<1> QED
  BY <1>2, <1>3, <1>4 DEF Written

LEMMA EmptyPipe ==
    ASSUME pipe \in [Sets -> Pipes], NEW p \in Sets
    PROVE  [pipe EXCEPT ![p] = [n |-> 0, sig |-> FALSE]] \in [Sets -> Pipes]
<1>1. [n |-> 0, sig |-> FALSE] \in Pipes
  BY ConstantsAssumption DEF Pipes
<1> QED
  BY <1>1

LEMMA EventType == TypeOK /\ Event => events' \in 0..MaxEvents
  BY ConstantsAssumption DEF TypeOK, Event

LEMMA NoOpType == NoOp \in Ops /\ NoOp.do = "none" /\ NoOp.dtor = FALSE
  BY DEF NoOp, Ops, Doings

LEMMA OpType ==
    ASSUME TypeOK, NEW p \in Sets, NEW x \in Doings
    PROVE  /\ [op EXCEPT ![p].do = x] \in [Sets -> Ops]
           /\ \A y \in Sigs \cup {None}, z \in BOOLEAN :
                [op EXCEPT ![p] = [do |-> x, sig |-> y, dtor |-> z]] \in [Sets -> Ops]
<1>1. op \in [Sets -> Ops] /\ op[p] \in Ops
  BY DEF TypeOK
<1>2. [op[p] EXCEPT !.do = x] \in Ops
  BY <1>1 DEF Ops
<1>3. ASSUME NEW r \in Ops PROVE [op EXCEPT ![p] = r] \in [Sets -> Ops]
  BY <1>1
<1>4. [op EXCEPT ![p].do = x] \in [Sets -> Ops]
  BY <1>2, <1>3
<1>5. ASSUME NEW y \in Sigs \cup {None}, NEW z \in BOOLEAN PROVE [do |-> x, sig |-> y, dtor |-> z] \in Ops
  BY DEF Ops
<1> QED
  BY <1>3, <1>4, <1>5

\* The kinds of steps.
WorkerSteps(w) == Async(w) \/ Inject(w) \/ InjectWake(w)
RoundSteps(p) ==
    \/ Drain(p) \/ Swap(p) \/ RunCb(p) \/ Return(p) \/ RunEnd(p) \/ ThrowCb(p)
    \/ OtherRound(p) \/ SubLock(p) \/ SubScan(p) \/ SubSpin(p) \/ SubClear(p) \/ SubEnd(p) \/ ThrowSig(p)
CallSteps(p) ==
    \/ Wake(p) \/ SignalCbEnd(p) \/ EraseSpin(p) \/ EraseTest(p) \/ EraseClear(p) \/ Destroy(p) \/ DestroyErase(p) \/ DestroyEnd(p)
    \/ \E s \in Sigs : SignalCb(p, s) \/ RemoveSignalCb(p, s)
HandlerSteps(h) == HandlerRuns(h) \/ \E s \in Sigs : Deliver(h, s)

LEMMA NextSteps ==
    ASSUME Next
    PROVE  \/ \E w \in Workers : WorkerSteps(w)
           \/ \E p \in Sets : RoundSteps(p) \/ CallSteps(p)
           \/ \E h \in Handlers : HandlerSteps(h)
  BY DEF Next, LoopStep, WorkerSteps, RoundSteps, CallSteps, HandlerSteps

LEMMA WorkerTypes == ASSUME TypeOK, NEW w \in Workers, WorkerSteps(w) PROVE TypeOK'
<1>a. pipe \in [Sets -> Pipes] /\ Target[w] \in Sets
  BY ConstantsAssumption DEF TypeOK, Pipes
<1>b. \A s \in Seq(Workers) : Append(s, w) \in Seq(Workers)
  OBVIOUS
<1>1. CASE Async(w)
  BY <1>1, <1>a, EventType DEF TypeOK, Async, loopVars, sigVars, history
<1>2. CASE Inject(w)
  <2>1. events' \in 0..MaxEvents
    BY <1>2, EventType DEF Inject, TypeOK
  <2>2. asyncs' \in [Sets -> Seq(Workers)] /\ order' \in [Sets -> Seq(Workers)]
    BY <1>2, <1>a, <1>b DEF TypeOK, Inject
  <2>3. worker' \in [Workers -> {"new", "work", "wake", "done"}]
    <3>1. \A at \in {"wake", "done"} :
            [worker EXCEPT ![w] = at] \in [Workers -> {"new", "work", "wake", "done"}]
      BY DEF TypeOK
    <3> QED
      BY <1>2, <3>1 DEF Inject
  <2>4. apending' \in [Sets -> BOOLEAN]
    <3>1. apending' = apending \/ apending' = [apending EXCEPT ![Target[w]] = TRUE]
      BY <1>2, Zenon DEF Inject
    <3> QED
      BY <3>1, Zenon DEF TypeOK
  <2>5. alock' \in [Sets -> Workers \cup {None}]
    <3>1. alock' = alock \/ alock' = [alock EXCEPT ![Target[w]] = w]
      BY <1>2, Zenon DEF Inject
    <3> QED
      BY <3>1 DEF TypeOK
  <2> QED
    BY <1>2, <2>1, <2>2, <2>3, <2>4, <2>5 DEF TypeOK, Inject, loopVars, sigVars, history
<1>3. CASE InjectWake(w)
  <2>1. pipe' \in [Sets -> Pipes]
    BY <1>3, <1>a, WrittenType DEF InjectWake
  <2> QED
    BY <1>3, <1>a, <2>1 DEF TypeOK, InjectWake, loopVars, sigVars, history, Pipes
<1> QED
  BY <1>1, <1>2, <1>3 DEF WorkerSteps

\* Setting a flag, or giving an operation to a thread.
LEMMA FlagType ==
    ASSUME TypeOK, NEW i, NEW v \in 0..2
    PROVE  [flag EXCEPT ![i] = v] \in [Sigs -> 0..2]
<1>1. flag \in [Sigs -> 0..2]
  BY DEF TypeOK
<1> QED
  BY <1>1

Ends == {"ran", "threw", "lost"}

\* How callbacks end when one throws: one after the other.
LEMMA ThrownFact ==
    ASSUME TypeOK, NEW p \in Sets, ends[p] # <<>>
    PROVE  /\ Thrown(p) \in Seq(Ends) /\ Len(Thrown(p)) = Len(ends[p]) + Len(cbs[p])
           /\ \A i \in 1..Len(ends[p]) :
                Thrown(p)[i] = IF i = Len(ends[p]) THEN "threw" ELSE ends[p][i]
           /\ \A i \in 1..(Len(ends[p]) + Len(cbs[p])) : i > Len(ends[p]) => Thrown(p)[i] = "lost"
<1>1. PICK e : e = [ends[p] EXCEPT ![Len(ends[p])] = "threw"]
  OBVIOUS
<1>2. PICK l : l = [i \in DOMAIN cbs[p] |-> "lost"]
  OBVIOUS
<1>3. ends[p] \in Seq(Ends) /\ cbs[p] \in Seq(Workers)
  BY DEF TypeOK, Ends
<1>4. /\ e \in Seq(Ends) /\ Len(e) = Len(ends[p])
      /\ \A i \in 1..Len(ends[p]) : e[i] = IF i = Len(ends[p]) THEN "threw" ELSE ends[p][i]
  BY <1>1, <1>3 DEF Ends
<1>5. l \in Seq(Ends) /\ Len(l) = Len(cbs[p]) /\ \A i \in 1..Len(cbs[p]) : l[i] = "lost"
  BY <1>2, <1>3 DEF Ends
<1>6. Thrown(p) = e \o l
  BY <1>1, <1>2 DEF Thrown
<1>7. e \o l \in Seq(Ends) /\ Len(e \o l) = Len(e) + Len(l)
  BY <1>4, <1>5, ConcatProperties
<1>8. \A i \in 1..(Len(e) + Len(l)) : (e \o l)[i] = IF i <= Len(e) THEN e[i] ELSE l[i - Len(e)]
  <2>1. e \in Seq(Ends) /\ l \in Seq(Ends)
    BY <1>4, <1>5
  <2> QED
    BY <2>1, ConcatProperties
<1>9. PICK m \in Nat : m = Len(ends[p])
  BY <1>3
<1>10. PICK n \in Nat : n = Len(cbs[p])
  BY <1>3
<1>11. \A i \in 1..m : Thrown(p)[i] = IF i = m THEN "threw" ELSE ends[p][i]
  BY <1>4, <1>5, <1>6, <1>8, <1>9, <1>10
<1>12. \A i \in 1..(m + n) : i > m => Thrown(p)[i] = "lost"
  <2>1. ASSUME NEW i \in 1..(m + n), i > m PROVE Thrown(p)[i] = "lost"
    <3>1. i - m \in 1..n /\ ~(i <= m)
      BY <2>1
    <3> QED
      BY <1>4, <1>5, <1>6, <1>8, <1>9, <1>10, <2>1, <3>1
  <2> QED
    BY <2>1
<1> QED
  BY <1>4, <1>5, <1>6, <1>7, <1>9, <1>10, <1>11, <1>12

\* ... and they keep their type in any case.
LEMMA ThrownType == ASSUME TypeOK, NEW p \in Sets PROVE Thrown(p) \in Seq(Ends)
<1>1. CASE ends[p] # <<>>
  BY <1>1, ThrownFact
<1>2. CASE ends[p] = <<>>
  <2>1. [ends[p] EXCEPT ![Len(ends[p])] = "threw"] = <<>>
    BY <1>2
  <2>2. PICK l \in Seq(Ends) : l = [i \in DOMAIN cbs[p] |-> "lost"]
    <3>1. cbs[p] \in Seq(Workers)
      BY DEF TypeOK
    <3>2. PICK l : l = [i \in DOMAIN cbs[p] |-> "lost"]
      OBVIOUS
    <3>3. l \in Seq(Ends)
      BY <3>1, <3>2 DEF Ends
    <3> QED
      BY <3>2, <3>3
  <2>3. Thrown(p) = <<>> \o l /\ <<>> \in Seq(Ends)
    BY <2>1, <2>2 DEF Thrown
  <2> QED
    BY <2>3, ConcatProperties
<1> QED
  BY <1>1, <1>2

LEMMA RoundTypes == ASSUME TypeOK, NEW p \in Sets, RoundSteps(p) PROVE TypeOK'
<1>a. pipe \in [Sets -> Pipes]
  BY DEF TypeOK, Pipes
<1>b. ASSUME NEW f, f \in [Sets -> Places], NEW x \in Places PROVE [f EXCEPT ![p] = x] \in [Sets -> Places]
  BY <1>b
<1>c. \A r \in Ops : [op EXCEPT ![p] = r] \in [Sets -> Ops]
  BY DEF TypeOK
<1> USE DEF asyncVars, sigVars, history
<1>1. CASE Drain(p)
  <2>1. pipe' \in [Sets -> Pipes]
    BY <1>1, <1>a, EmptyPipe DEF Drain
  <2>2. sigpending' \in [Sets -> BOOLEAN]
    BY <1>1, Zenon DEF Drain, TypeOK
  <2>3. pc' \in [Sets -> Places]
    BY <1>1, <1>b DEF Drain, TypeOK, Places
  <2> QED
    BY <1>1, <2>1, <2>2, <2>3 DEF TypeOK, Drain, Pipes
<1>2. CASE Swap(p)
  BY <1>2 DEF TypeOK, Swap, Swapped, Taken, Places
<1>3. CASE RunCb(p)
  <2>1. Head(cbs[p]) \in Workers /\ Tail(cbs[p]) \in Seq(Workers)
    BY <1>3, HeadTailProperties DEF TypeOK, RunCb
  <2>2. \A s \in Seq(Workers) : Append(s, Head(cbs[p])) \in Seq(Workers)
    BY <2>1
  <2>3. cbs' \in [Sets -> Seq(Workers)] /\ past' \in [Sets -> Seq(Workers)]
    BY <1>3, <2>1, <2>2 DEF TypeOK, RunCb
  <2>4. ends' \in [Sets -> Seq(Ends)]
    <3>1. \A e \in Seq(Ends) : Append(e, "ran") \in Seq(Ends)
      BY DEF Ends
    <3> QED
      BY <1>3, <3>1 DEF TypeOK, RunCb, Ends
  <2>5. pc' \in [Sets -> Places] /\ nasync' \in [Sets -> SUBSET Workers]
    BY <1>3, <2>1 DEF TypeOK, RunCb, Places
  <2> QED
    BY <1>3, <2>3, <2>4, <2>5 DEF TypeOK, RunCb, Ends
<1>4. CASE Return(p)
  BY <1>4 DEF TypeOK, Return, Places
<1>5. CASE RunEnd(p)
  BY <1>5 DEF TypeOK, RunEnd, Places
<1>6. CASE ThrowCb(p)
  <2>1. pipe' \in [Sets -> Pipes]
    BY <1>6, <1>a, WrittenType DEF ThrowCb
  <2>2. events' \in 0..MaxEvents
    BY <1>6, EventType DEF ThrowCb
  <2>3. cbs' \in [Sets -> Seq(Workers)]
    BY <1>6 DEF ThrowCb, TypeOK
  <2>4. fate' \in SUBSET Fates
    BY <1>6 DEF ThrowCb, TypeOK, Fates
  <2>5. apending' \in [Sets -> BOOLEAN]
    BY <1>6 DEF ThrowCb, TypeOK
  <2>6. past' \in [Sets -> Seq(Workers)]
    <3>1. past[p] \o cbs[p] \in Seq(Workers)
      BY ConcatProperties DEF TypeOK
    <3> QED
      BY <1>6, <3>1 DEF ThrowCb, TypeOK
  <2>7. ends' \in [Sets -> Seq(Ends)]
    BY <1>6, ThrownType DEF ThrowCb, TypeOK, Ends
  <2>8. pc' \in [Sets -> Places]
    BY <1>6 DEF ThrowCb, TypeOK, Places
  <2> QED
    BY <1>6, <2>1, <2>2, <2>3, <2>4, <2>5, <2>6, <2>7, <2>8 DEF TypeOK, ThrowCb, Pipes, Ends
<1>7. CASE OtherRound(p)
  BY <1>7 DEF TypeOK, OtherRound, Places
<1>8. CASE SubLock(p)
  <2>1. op' \in [Sets -> Ops] /\ pc' \in [Sets -> Places]
    <3>1. [NoOp EXCEPT !.do = "scan"] \in Ops
      BY DEF NoOp, Ops, Doings
    <3>2. op' \in [Sets -> Ops]
      BY <1>8, <1>c, <3>1 DEF SubLock
    <3> QED
      BY <1>8, <3>2 DEF SubLock, TypeOK, Places
  <2> QED
    BY <1>8, <2>1 DEF TypeOK, SubLock
<1>9. CASE SubScan(p)
  <2>1. CASE Unscanned(p) = {}
    <3>1. op' \in [Sets -> Ops] /\ pc' \in [Sets -> Places]
      BY <1>9, <1>c, <2>1, NoOpType DEF SubScan, TypeOK, Places
    <3> QED
      BY <1>9, <2>1, <3>1 DEF TypeOK, SubScan
  <2>2. CASE Unscanned(p) # {}
    <3>1. PICK s \in Sigs : s = First(Unscanned(p))
      BY <2>2, FirstFact DEF Unscanned, Own
    <3>2. [op[p] EXCEPT !.sig = s] \in Ops
      <4>1. op[p] \in Ops
        BY DEF TypeOK
      <4> QED
        BY <4>1 DEF Ops
    <3>3. op' = [op EXCEPT ![p] = [op[p] EXCEPT !.sig = s]]
      BY <1>9, <2>2, <3>1 DEF SubScan, TypeOK
    <3>4. todo' \in [Sets -> SUBSET Sigs] /\ pc' = pc
      <4>1. pc' = pc /\ todo' = [todo EXCEPT ![p] = @ \cup {t \in {s} : flag[t] # 0}]
        BY <1>9, <2>2, <3>1 DEF SubScan
      <4> QED
        BY <4>1, <3>1 DEF TypeOK
    <3> QED
      BY <1>9, <1>c, <3>2, <3>3, <3>4 DEF TypeOK, SubScan
  <2> QED
    BY <2>1, <2>2
<1>13. CASE SubSpin(p)
  <2>1. pc' = pc \/ pc' = [pc EXCEPT ![p] = "clear"]
    BY <1>13, Zenon DEF SubSpin
  <2>2. todo' = todo \/ \E s : todo' = [todo EXCEPT ![p] = @ \ {s}]
    BY <1>13 DEF SubSpin
  <2>3. pc' \in [Sets -> Places]
    BY <2>1 DEF TypeOK, Places
  <2>4. todo' \in [Sets -> SUBSET Sigs]
    <3>1. CASE todo' = todo
      BY <3>1 DEF TypeOK
    <3>2. ASSUME NEW s, todo' = [todo EXCEPT ![p] = @ \ {s}] PROVE todo' \in [Sets -> SUBSET Sigs]
      BY <3>2 DEF TypeOK
    <3> QED
      BY <2>2, <3>1, <3>2
  <2> QED
    BY <1>13, <2>3, <2>4 DEF TypeOK, SubSpin
<1>12. CASE SubClear(p)
  <2>1. flag' \in [Sigs -> 0..2]
    <3>1. 0 \in 0..2 /\ flag \in [Sigs -> 0..2]
      BY DEF TypeOK
    <3> QED
      BY <1>12, <3>1, FlagType DEF SubClear
  <2>2. fate' \in SUBSET Fates
    BY <1>12 DEF SubClear, TypeOK, Overwritten, Fates
  <2>3. pc' \in [Sets -> Places] /\ todo' \in [Sets -> SUBSET Sigs]
    BY <1>12 DEF SubClear, TypeOK, Places
  <2> QED
    BY <1>12, <2>1, <2>2, <2>3 DEF TypeOK, SubClear
<1>10. CASE SubEnd(p)
  BY <1>10 DEF TypeOK, SubEnd, Places
<1>11. CASE ThrowSig(p)
  <2>1. events' \in 0..MaxEvents
    BY <1>11, EventType DEF ThrowSig
  <2> QED
    BY <1>11, <2>1 DEF TypeOK, ThrowSig, Places, Fates
<1> QED
  BY <1>1, <1>2, <1>3, <1>4, <1>5, <1>6, <1>7, <1>8, <1>9, <1>10, <1>11, <1>12, <1>13 DEF RoundSteps

LEMMA CallTypes == ASSUME TypeOK, NEW p \in Sets, CallSteps(p) PROVE TypeOK'
<1>a. pipe \in [Sets -> Pipes] /\ \A x \in BOOLEAN : Written(p, x) \in [Sets -> Pipes]
  BY WrittenType DEF TypeOK, Pipes
<1>b. ASSUME NEW x \in Doings, NEW y \in Sigs \cup {None}, NEW z \in BOOLEAN
      PROVE  [op EXCEPT ![p] = [do |-> x, sig |-> y, dtor |-> z]] \in [Sets -> Ops]
  BY <1>b, OpType
<1>c. [op EXCEPT ![p] = NoOp] \in [Sets -> Ops]
  BY <1>b DEF NoOp, Doings
<1>d. Own(p) # {} => First(Own(p)) \in Sigs
  BY FirstFact DEF Own
<1>e. ASSUME NEW x \in Doings PROVE [op EXCEPT ![p].do = x] \in [Sets -> Ops]
  BY <1>e, OpType
<1>f. Erased(p) => op' \in [Sets -> Ops] /\ slock' \in Sets \cup {None}
  <2>1. [op EXCEPT ![p] = [do |-> "destroy", sig |-> None, dtor |-> TRUE]] \in [Sets -> Ops]
    BY <1>b DEF Doings
  <2>2. ASSUME Erased(p) PROVE slock' \in Sets \cup {None}
    BY <2>2 DEF Erased, TypeOK
  <2>3. Erased(p) => op' = [op EXCEPT ![p] = [do |-> "destroy", sig |-> None, dtor |-> TRUE]] \/ op' = [op EXCEPT ![p] = NoOp]
    BY DEF Erased
  <2> QED
    BY <1>c, <2>1, <2>2, <2>3
<1> USE DEF asyncVars, sigVars, history
<1>1. CASE Wake(p)
  <2>1. events' \in 0..MaxEvents
    BY <1>1, EventType DEF Wake, App
  <2> QED
    BY <1>1, <1>a, <2>1 DEF TypeOK, Wake, App, Pipes
<1>2. CASE SignalCbEnd(p)
  <2>1. pipe' \in [Sets -> Pipes] /\ op' \in [Sets -> Ops]
    BY <1>2, <1>a, <1>c DEF SignalCbEnd, Rewake
  <2>2. fate' \in SUBSET Fates
    BY <1>2 DEF SignalCbEnd, TypeOK, Dropped, Fates
  <2> QED
    BY <1>2, <2>1, <2>2 DEF TypeOK, SignalCbEnd, Pipes
<1>3. CASE EraseSpin(p)
  <2>1. op' \in [Sets -> Ops]
    BY <1>3, <1>e DEF EraseSpin, Doings
  <2> QED
    BY <1>3, <2>1 DEF TypeOK, EraseSpin
<1>9. CASE EraseTest(p)
  <2>1. op' \in [Sets -> Ops] /\ slock' \in Sets \cup {None}
    BY <1>9, <1>e, <1>f DEF EraseTest, Doings, TypeOK
  <2> QED
    BY <1>9, <2>1 DEF TypeOK, EraseTest
<1>10. CASE EraseClear(p)
  <2>1. op' \in [Sets -> Ops] /\ slock' \in Sets \cup {None}
    BY <1>10, <1>f DEF EraseClear
  <2>2. flag' \in [Sigs -> 0..2]
    <3>1. 0 \in 0..2
      OBVIOUS
    <3> QED
      BY <1>10, <3>1, FlagType DEF EraseClear
  <2>3. fate' \in SUBSET Fates
    BY <1>10 DEF EraseClear, TypeOK, Overwritten, Fates
  <2> QED
    BY <1>10, <2>1, <2>2, <2>3 DEF TypeOK, EraseClear
<1>4. CASE Destroy(p)
  BY <1>4, <1>b DEF TypeOK, Destroy, Doings
<1>5. CASE DestroyErase(p)
  <2>1. op' \in [Sets -> Ops]
    BY <1>5, <1>b, <1>d DEF DestroyErase, Doings
  <2> QED
    BY <1>5, <2>1 DEF TypeOK, DestroyErase, Erase
<1>6. CASE DestroyEnd(p)
  <2>1. pipe' \in [Sets -> Pipes] /\ op' \in [Sets -> Ops]
    BY <1>6, <1>a, <1>c, EmptyPipe DEF DestroyEnd
  <2> QED
    BY <1>6, <2>1 DEF TypeOK, DestroyEnd, Pipes
<1>7. ASSUME NEW s \in Sigs, SignalCb(p, s) PROVE TypeOK'
  <2>1. events' \in 0..MaxEvents
    BY <1>7, EventType DEF SignalCb, App
  <2>2. op' \in [Sets -> Ops]
    <3>1. op \in [Sets -> Ops] /\ s \in Sigs \cup {None}
      BY DEF TypeOK
    <3>2. op' = op \/ op' = [op EXCEPT ![p] = [do |-> "rewake", sig |-> s, dtor |-> FALSE]]
      BY <1>7 DEF SignalCb
    <3>3. "rewake" \in Doings /\ FALSE \in BOOLEAN
      BY DEF Doings
    <3>4. [op EXCEPT ![p] = [do |-> "rewake", sig |-> s, dtor |-> FALSE]] \in [Sets -> Ops]
      BY <1>b, <3>1, <3>3
    <3> QED
      BY <3>1, <3>2, <3>4
  <2>3. sigcbs' \in SUBSET (Sets \X Sigs)
    BY <1>7 DEF SignalCb, TypeOK
  <2>4. slock' \in Sets \cup {None}
    BY <1>7 DEF SignalCb, TypeOK
  <2>5. owner' \in [Sigs -> Sets \cup {None}]
    <3>1. owner' = owner \/ owner' = [owner EXCEPT ![s] = p]
      BY <1>7 DEF SignalCb
    <3> QED
      BY <3>1 DEF TypeOK
  <2>6. caught' \in SUBSET Sigs
    <3>1. caught' = caught \/ caught' = caught \cup {s}
      BY <1>7 DEF SignalCb
    <3> QED
      BY <3>1 DEF TypeOK
  <2>7. fate' \in SUBSET Fates
    <3>1. fate' \subseteq fate \cup {"failed", "stolen"}
      BY <1>7 DEF SignalCb
    <3> QED
      BY <3>1 DEF TypeOK, Fates
  <2> QED
    BY <1>7, <2>1, <2>2, <2>3, <2>4, <2>5, <2>6, <2>7 DEF TypeOK, SignalCb, App
<1>8. ASSUME NEW s \in Sigs, RemoveSignalCb(p, s) PROVE TypeOK'
  <2>1. events' \in 0..MaxEvents
    BY <1>8, EventType DEF RemoveSignalCb, App
  <2>2. op' \in [Sets -> Ops]
    BY <1>8, <1>b DEF RemoveSignalCb, Doings
  <2> QED
    BY <1>8, <2>1, <2>2 DEF TypeOK, RemoveSignalCb, Erase, App
<1> QED
  BY <1>1, <1>2, <1>3, <1>4, <1>5, <1>6, <1>7, <1>8, <1>9, <1>10 DEF CallSteps

Hnds == [at : {"new", "claim", "set", "wake", "mark", "done"}, sig : Sigs \cup {None}, ps : Sets \cup {None}]

LEMMA HandlerTypes == ASSUME TypeOK, NEW h \in Handlers, HandlerSteps(h) PROVE TypeOK'
<1>a. pipe \in [Sets -> Pipes] /\ hnd \in [Handlers -> Hnds] /\ hnd[h] \in Hnds
  BY DEF TypeOK, Pipes, Hnds
<1>b. \A at \in {"new", "claim", "set", "wake", "mark", "done"} : [hnd EXCEPT ![h].at = at] \in [Handlers -> Hnds]
  BY <1>a DEF Hnds
<1>c. \A r \in Hnds : [hnd EXCEPT ![h] = r] \in [Handlers -> Hnds]
  BY <1>a
<1> USE DEF asyncVars, sigVars, loopVars, history
<1>1. ASSUME NEW s \in Sigs, Deliver(h, s) PROVE TypeOK'
  <2>1. events' \in 0..MaxEvents
    BY <1>1, EventType DEF Deliver
  <2>2. [at |-> "claim", sig |-> s, ps |-> None] \in Hnds
    BY DEF Hnds
  <2>3. hnd' \in [Handlers -> Hnds]
    BY <1>1, <1>c, <2>2 DEF Deliver
  <2> QED
    BY <1>1, <2>1, <2>3 DEF TypeOK, Deliver, Hnds
<1>2. CASE Claim(h)
  <2>1. hnd' \in [Handlers -> Hnds]
    BY <1>2, <1>b DEF Claim, HandlerStep
  <2>2. flag' \in [Sigs -> 0..2]
    <3>1. 1 \in 0..2
      OBVIOUS
    <3> QED
      BY <1>2, <3>1, FlagType DEF Claim
  <2> QED
    BY <1>2, <2>1, <2>2 DEF TypeOK, Claim, HandlerStep, Hnds
<1>3. CASE ReadOwner(h)
  <2>1. hnd[h].sig \in Sigs => owner[hnd[h].sig] \in Sets \cup {None}
    BY DEF TypeOK
  <2>2. hnd' \in [Handlers -> Hnds]
    BY <1>3, <1>a, <2>1 DEF ReadOwner, Hnds
  <2> QED
    BY <1>3, <2>2 DEF TypeOK, ReadOwner, Hnds
<1>4. CASE HandlerWake(h)
  <2>1. hnd' \in [Handlers -> Hnds]
    BY <1>4, <1>b DEF HandlerWake, HandlerStep
  <2>2. pipe' \in [Sets -> Pipes]
    <3>1. alive \subseteq Sets
      BY DEF TypeOK
    <3> QED
      BY <1>4, <1>a, <3>1, WrittenType DEF HandlerWake
  <2>3. fate' \in SUBSET Fates
    BY <1>4 DEF HandlerWake, TypeOK, Dropped, Fates
  <2> QED
    BY <1>4, <2>1, <2>2, <2>3 DEF TypeOK, HandlerWake, HandlerStep, Hnds, Pipes
<1>5. CASE Mark(h)
  <2>1. [at |-> "done", sig |-> None, ps |-> None] \in Hnds
    BY DEF Hnds
  <2>2. hnd' \in [Handlers -> Hnds]
    BY <1>5, <1>c, <2>1 DEF Mark
  <2>3. flag' \in [Sigs -> 0..2]
    <3>1. 2 \in 0..2
      OBVIOUS
    <3> QED
      BY <1>5, <3>1, FlagType DEF Mark
  <2>4. fate' \in SUBSET Fates
    BY <1>5 DEF Mark, TypeOK, Overwritten, Fates
  <2> QED
    BY <1>5, <2>2, <2>3, <2>4 DEF TypeOK, Mark, Hnds
<1> QED
  BY <1>1, <1>2, <1>3, <1>4, <1>5 DEF HandlerSteps, HandlerRuns

LEMMA TypeStep == ASSUME TypeOK, [Next]_vars PROVE TypeOK'
<1>1. CASE Next
  BY <1>1, NextSteps, WorkerTypes, RoundTypes, CallTypes, HandlerTypes
<1>2. CASE UNCHANGED vars
  BY <1>2 DEF TypeOK, vars, loopVars, asyncVars, sigVars, history
<1> QED
  BY <1>1, <1>2

-----------------------------------------------------------------------------
(* Injected callbacks. *)

LEMMA HeadFirst == ASSUME NEW S, NEW c \in Seq(S), c # <<>> PROVE c = <<Head(c)>> \o Tail(c)
<1>1. Len(c) \in Nat \ {0}
  BY EmptySeq
<1>2. SubSeq(c, 1, Len(c)) = <<c[1]>> \o SubSeq(c, 1 + 1, Len(c))
  BY <1>1, SubSeqRecursiveFirst
<1>3. SubSeq(c, 1, Len(c)) = c /\ Tail(c) = SubSeq(c, 2, Len(c))
  BY SubSeqFull, TailIsSubSeq
<1>4. Head(c) = c[1]
  BY <1>1
<1>5. 1 + 1 = 2
  OBVIOUS
<1> QED
  BY <1>2, <1>3, <1>4, <1>5, Zenon

LEMMA ConcatIsAssociative == \A x, y, z \in Seq(Workers) : (x \o y) \o z = x \o (y \o z)
  BY ConcatAssociative

\* The first of the waiting callbacks is run.
LEMMA HeadMoves ==
    ASSUME NEW r \in Seq(Workers), NEW c \in Seq(Workers), NEW a \in Seq(Workers), c # <<>>
    PROVE  Append(r, Head(c)) \o Tail(c) \o a = r \o c \o a
<1>1. Head(c) \in Workers /\ Tail(c) \in Seq(Workers)
  BY HeadTailProperties
<1>2. PICK h : h = <<Head(c)>>
  OBVIOUS
<1>3. PICK t : t = Tail(c)
  OBVIOUS
<1>4. r \in Seq(Workers) /\ h \in Seq(Workers) /\ t \in Seq(Workers)
  BY <1>1, <1>2, <1>3
<1>5. Append(r, Head(c)) = r \o h
  BY <1>1, <1>2, AppendIsConcat
<1>6. c = h \o t
  BY <1>2, <1>3, HeadFirst
<1>7. (r \o h) \o t = r \o (h \o t)
  BY <1>4, ConcatIsAssociative, Zenon
<1> QED
  BY <1>3, <1>5, <1>6, <1>7, Zenon

\* A callback is added to the waiting ones.
LEMMA LastAdded ==
    ASSUME NEW r \in Seq(Workers), NEW c \in Seq(Workers), NEW a \in Seq(Workers), NEW w \in Workers
    PROVE  Append(r \o c \o a, w) = r \o c \o Append(a, w)
<1>1. PICK x : x = <<w>>
  OBVIOUS
<1>2. PICK b : b = r \o c
  OBVIOUS
<1>3. x \in Seq(Workers) /\ b \in Seq(Workers) /\ a \in Seq(Workers) /\ b \o a \in Seq(Workers)
  BY <1>1, <1>2, ConcatProperties
<1>4. Append(b \o a, w) = (b \o a) \o x /\ Append(a, w) = a \o x
  BY <1>1, <1>3, AppendIsConcat
<1>5. (b \o a) \o x = b \o (a \o x)
  <2>1. \A u \in Seq(Workers) : (b \o a) \o u = b \o (a \o u)
    BY <1>3, ConcatIsAssociative
  <2> QED
    BY <1>3, <2>1
<1> QED
  BY <1>2, <1>4, <1>5, Zenon

\* What InjectedInOrder says of one instance.
InOrder(p) == order[p] = past[p] \o cbs[p] \o asyncs[p]
EndsOrdered(p) ==
    /\ Len(ends[p]) = Len(past[p])
    /\ \A i \in DOMAIN ends[p] : ends[p][i] = "lost" => i > 1 /\ ends[p][i - 1] # "ran"

LEMMA QueueStep ==
    ASSUME TypeOK, CbsInv, \A q \in Sets : InOrder(q), [Next]_vars
    PROVE  CbsInv' /\ \A q \in Sets : InOrder(q)'
<1> USE DEF asyncVars, sigVars, loopVars, history
<1>b. \A q \in Sets : order[q] \in Seq(Workers) /\ past[q] \in Seq(Workers) /\ cbs[q] \in Seq(Workers) /\ asyncs[q] \in Seq(Workers)
  BY DEF TypeOK
<1>1. ASSUME UNCHANGED <<order, past, cbs, asyncs>> PROVE \A q \in Sets : InOrder(q)'
  BY <1>1 DEF InOrder
<1>2. ASSUME UNCHANGED <<pc, cbs>> PROVE CbsInv'
  BY <1>2 DEF CbsInv
<1>3. CASE UNCHANGED vars
  BY <1>1, <1>2, <1>3 DEF vars
<1>4. ASSUME NEW w \in Workers, WorkerSteps(w) PROVE CbsInv' /\ \A q \in Sets : InOrder(q)'
  <2>1. UNCHANGED <<pc, cbs, past>>
    BY <1>4 DEF WorkerSteps, Async, Inject, InjectWake
  <2>2. CASE Inject(w)
    <3>1. Target[w] \in Sets
      BY ConstantsAssumption
    <3>2. ASSUME NEW q \in Sets, InOrder(q) PROVE InOrder(q)'
      <4>1. CASE q = Target[w]
        <5>1. order'[q] = Append(order[q], w) /\ asyncs'[q] = Append(asyncs[q], w)
          BY <2>2, <3>1, <4>1 DEF Inject, TypeOK
        <5>2. Append(past[q] \o cbs[q] \o asyncs[q], w) = past[q] \o cbs[q] \o Append(asyncs[q], w)
          BY <1>b, LastAdded, Zenon
        <5> QED
          BY <2>1, <3>2, <5>1, <5>2 DEF InOrder
      <4>2. CASE q # Target[w]
        <5>1. order'[q] = order[q] /\ asyncs'[q] = asyncs[q]
          BY <2>2, <3>1, <4>2 DEF Inject, TypeOK
        <5> QED
          BY <2>1, <3>2, <5>1 DEF InOrder
      <4> QED
        BY <4>1, <4>2
    <3> QED
      BY <1>2, <2>1, <3>2
  <2>3. CASE ~Inject(w)
    <3>1. UNCHANGED <<order, past, cbs, asyncs>>
      BY <1>4, <2>3 DEF WorkerSteps, Async, InjectWake
    <3> QED
      BY <1>1, <1>2, <2>1, <3>1
  <2> QED
    BY <2>2, <2>3
<1>5. ASSUME NEW p \in Sets, RoundSteps(p) PROVE CbsInv' /\ \A q \in Sets : InOrder(q)'
  <2>1. CASE Swap(p)
    <3>1. cbs[p] = <<>>
      BY <2>1 DEF Swap, CbsInv
    <3>2. CbsInv'
      BY <2>1 DEF Swap, CbsInv, TypeOK
    <3>3. ASSUME NEW q \in Sets, InOrder(q) PROVE InOrder(q)'
      <4>1. CASE q = p
        <5>1. cbs'[q] = asyncs[q] /\ asyncs'[q] = <<>> /\ past' = past /\ order' = order
          BY <2>1, <4>1 DEF Swap, Swapped, TypeOK
        <5>2. PICK r : r = past[q]
          OBVIOUS
        <5>3. PICK a : a = asyncs[q]
          OBVIOUS
        <5>4. r \in Seq(Workers) /\ a \in Seq(Workers) /\ r \o a \in Seq(Workers)
          BY <1>b, <5>2, <5>3, ConcatProperties
        <5>5. (r \o <<>>) \o a = r \o a /\ (r \o a) \o <<>> = r \o a
          BY <5>4, ConcatEmptySeq
        <5> QED
          BY <3>1, <3>3, <4>1, <5>1, <5>2, <5>3, <5>5, Zenon DEF InOrder
      <4>2. CASE q # p
        BY <2>1, <3>3, <4>2 DEF Swap, Swapped, InOrder, TypeOK
      <4> QED
        BY <4>1, <4>2
    <3> QED
      BY <3>2, <3>3
  <2>2. CASE RunCb(p)
    <3>1. CbsInv'
      BY <2>2 DEF RunCb, CbsInv, TypeOK
    <3>2. ASSUME NEW q \in Sets, InOrder(q) PROVE InOrder(q)'
      <4>1. CASE q = p
        <5>1. cbs[q] # <<>> /\ cbs'[q] = Tail(cbs[q]) /\ past'[q] = Append(past[q], Head(cbs[q])) /\ UNCHANGED <<asyncs, order>>
          BY <2>2, <4>1 DEF RunCb, TypeOK
        <5>2. Append(past[q], Head(cbs[q])) \o Tail(cbs[q]) \o asyncs[q] = past[q] \o cbs[q] \o asyncs[q]
          BY <1>b, <5>1, HeadMoves, Zenon
        <5> QED
          BY <3>2, <5>1, <5>2 DEF InOrder
      <4>2. CASE q # p
        BY <2>2, <3>2, <4>2 DEF RunCb, InOrder, TypeOK
      <4> QED
        BY <4>1, <4>2
    <3> QED
      BY <3>1, <3>2
  <2>3. CASE ThrowCb(p)
    <3>1. CbsInv'
      BY <2>3 DEF ThrowCb, CbsInv, TypeOK
    <3>2. ASSUME NEW q \in Sets, InOrder(q) PROVE InOrder(q)'
      <4>1. CASE q = p
        <5>1. past'[q] = past[q] \o cbs[q] /\ cbs'[q] = <<>> /\ UNCHANGED <<asyncs, order>>
          BY <2>3, <4>1 DEF ThrowCb, TypeOK
        <5>2. PICK b : b = past[q] \o cbs[q]
          OBVIOUS
        <5>3. b \in Seq(Workers) /\ b \o <<>> = b
          BY <1>b, <5>2, ConcatProperties, ConcatEmptySeq
        <5> QED
          BY <3>2, <5>1, <5>2, <5>3 DEF InOrder
      <4>2. CASE q # p
        BY <2>3, <3>2, <4>2 DEF ThrowCb, InOrder, TypeOK
      <4> QED
        BY <4>1, <4>2
    <3> QED
      BY <3>1, <3>2
  <2>4. CASE ~(Swap(p) \/ RunCb(p) \/ ThrowCb(p))
    <3>1. UNCHANGED <<order, past, cbs, asyncs>>
      BY <1>5, <2>4 DEF RoundSteps, Drain, Return, RunEnd, OtherRound, SubLock, SubScan, SubSpin, SubClear, SubEnd, ThrowSig
    <3>2. \A q \in Sets : pc[q] \in {"run", "cb"} /\ pc'[q] \notin {"run", "cb"} => cbs[q] = <<>>
      BY <1>5, <2>4 DEF RoundSteps, Drain, Return, RunEnd, OtherRound, SubLock, SubScan, SubSpin, SubClear, SubEnd, ThrowSig, TypeOK
    <3> QED
      BY <1>1, <3>1, <3>2 DEF CbsInv
  <2> QED
    BY <2>1, <2>2, <2>3, <2>4
<1>6. ASSUME NEW p \in Sets, CallSteps(p) PROVE UNCHANGED <<pc, order, past, cbs, asyncs>>
  BY <1>6 DEF CallSteps, Wake, SignalCbEnd, EraseSpin, EraseTest, EraseClear, Destroy, DestroyErase, DestroyEnd, SignalCb, RemoveSignalCb, App
<1>7. ASSUME NEW h \in Handlers, HandlerSteps(h) PROVE UNCHANGED <<pc, order, past, cbs, asyncs>>
  BY <1>7 DEF HandlerSteps, HandlerRuns, Deliver, Claim, ReadOwner, HandlerWake, Mark, HandlerStep
<1>8. CASE Next
  BY <1>1, <1>2, <1>4, <1>5, <1>6, <1>7, <1>8, NextSteps
<1> QED
  BY <1>3, <1>8

LEMMA EndsStep ==
    ASSUME TypeOK, EndsInv, \A q \in Sets : EndsOrdered(q), [Next]_vars
    PROVE  EndsInv' /\ \A q \in Sets : EndsOrdered(q)'
<1> USE DEF asyncVars, sigVars, loopVars, history
<1>1. ASSUME UNCHANGED <<past, ends>>, \A q \in Sets : pc'[q] = "cb" => pc[q] = "cb"
      PROVE  EndsInv' /\ \A q \in Sets : EndsOrdered(q)'
  BY <1>1 DEF EndsInv, EndsOrdered
<1>2. ASSUME NEW p \in Sets, RunCb(p) PROVE EndsInv' /\ \A q \in Sets : EndsOrdered(q)'
  <2>1. \A q \in Sets \ {p} : ends'[q] = ends[q] /\ past'[q] = past[q] /\ pc'[q] = pc[q]
    BY <1>2 DEF RunCb, TypeOK
  <2>2. PICK e \in Seq(Ends) : e = ends[p]
    BY DEF TypeOK, Ends
  <2>3. ends'[p] = Append(e, "ran") /\ past'[p] = Append(past[p], Head(cbs[p]))
    BY <1>2, <2>2 DEF RunCb, TypeOK
  <2>4. Len(ends'[p]) = Len(e) + 1 /\ \A i \in 1..Len(e) : ends'[p][i] = e[i]
    BY <2>2, <2>3 DEF Ends
  <2>5. Len(past'[p]) = Len(past[p]) + 1
    <3>1. Head(cbs[p]) \in Workers /\ past[p] \in Seq(Workers)
      BY <1>2, HeadTailProperties DEF RunCb, TypeOK
    <3> QED
      BY <2>3, <3>1
  <2>6. ends'[p] \in Seq(Ends) /\ ends'[p][Len(e) + 1] = "ran" /\ ends'[p] # <<>>
    BY <2>2, <2>3, AppendProperties DEF Ends
  <2>7. EndsOrdered(p)'
    <3>1. Len(e) \in Nat /\ DOMAIN e = 1..Len(e) /\ DOMAIN ends'[p] = 1..(Len(e) + 1)
      BY <2>2, <2>4, <2>6
    <3>2. Len(e) = Len(past[p]) /\ \A i \in DOMAIN e : e[i] = "lost" => i > 1 /\ e[i - 1] # "ran"
      BY <2>2 DEF EndsOrdered
    <3>3. ASSUME NEW i \in 1..(Len(e) + 1), ends'[p][i] = "lost" PROVE i > 1 /\ ends'[p][i - 1] # "ran"
      <4>1. i # Len(e) + 1
        BY <2>6, <3>3
      <4>2. i \in 1..Len(e) /\ e[i] = "lost"
        BY <2>4, <3>1, <3>3, <4>1
      <4>3. i > 1 /\ e[i - 1] # "ran" /\ i - 1 \in 1..Len(e)
        BY <3>1, <3>2, <4>2
      <4> QED
        BY <2>4, <4>3
    <3> QED
      BY <2>4, <2>5, <3>1, <3>2, <3>3 DEF EndsOrdered
  <2> QED
    BY <2>1, <2>6, <2>7 DEF EndsInv, EndsOrdered
<1>3. ASSUME NEW p \in Sets, ThrowCb(p) PROVE EndsInv' /\ \A q \in Sets : EndsOrdered(q)'
  <2>1. \A q \in Sets \ {p} : ends'[q] = ends[q] /\ past'[q] = past[q] /\ pc'[q] = pc[q]
    BY <1>3 DEF ThrowCb, TypeOK
  <2>2. pc[p] = "cb" /\ pc'[p] = "idle" /\ ends'[p] = Thrown(p) /\ past'[p] = past[p] \o cbs[p]
    BY <1>3 DEF ThrowCb, TypeOK
  <2>3. PICK e \in Seq(Ends) : e = ends[p]
    BY DEF TypeOK, Ends
  <2>4. PICK t : t = Thrown(p)
    OBVIOUS
  <2>5. PICK m \in Nat : m = Len(e)
    BY <2>3
  <2>6. PICK n \in Nat : n = Len(cbs[p])
    BY DEF TypeOK
  <2>7. m >= 1 /\ e # <<>>
    BY <2>2, <2>3, <2>5 DEF EndsInv
  <2>8. /\ DOMAIN t = 1..(m + n) /\ Len(t) = m + n
        /\ \A i \in 1..m : t[i] = IF i = m THEN "threw" ELSE e[i]
        /\ \A i \in 1..(m + n) : i > m => t[i] = "lost"
    <3>1. ends[p] # <<>> /\ Len(ends[p]) = m /\ Len(cbs[p]) = n
      BY <2>3, <2>5, <2>6, <2>7
    <3>2. t \in Seq(Ends) /\ Len(t) = m + n
      BY <2>4, <3>1, ThrownFact
    <3>3. \A i \in 1..m : t[i] = IF i = m THEN "threw" ELSE e[i]
      BY <2>3, <2>4, <3>1, ThrownFact
    <3>4. \A i \in 1..(m + n) : i > m => t[i] = "lost"
      BY <2>4, <3>1, ThrownFact
    <3> QED
      BY <3>2, <3>3, <3>4
  <2>9. Len(past'[p]) = m + n
    <3>1. Len(past[p]) = m
      BY <2>3, <2>5 DEF EndsOrdered
    <3>2. past[p] \in Seq(Workers) /\ cbs[p] \in Seq(Workers)
      BY DEF TypeOK
    <3>3. Len(past[p] \o cbs[p]) = Len(past[p]) + Len(cbs[p])
      BY <3>2, ConcatProperties
    <3> QED
      BY <2>2, <2>6, <3>1, <3>3
  <2>10. ASSUME NEW i \in 1..(m + n), t[i] = "lost" PROVE i > 1 /\ t[i - 1] # "ran"
    <3>1. \A j \in 1..m : e[j] = "lost" => j > 1 /\ e[j - 1] # "ran"
      <4>1. DOMAIN e = 1..m
        BY <2>3, <2>5
      <4> QED
        BY <2>3, <4>1 DEF EndsOrdered
    <3>2. CASE i <= m
      <4>1. i # m /\ i \in 1..m
        BY <2>8, <2>10, <3>2
      <4>2. e[i] = "lost"
        BY <2>8, <2>10, <4>1
      <4>3. i > 1 /\ e[i - 1] # "ran" /\ i - 1 \in 1..m /\ i - 1 # m
        BY <3>1, <4>1, <4>2
      <4> QED
        BY <2>8, <4>3
    <3>3. CASE i = m + 1
      <4>1. i - 1 = m /\ m \in 1..m /\ i > 1
        BY <2>7, <3>3
      <4> QED
        BY <2>8, <4>1
    <3>4. CASE i > m + 1
      <4>1. i - 1 \in 1..(m + n) /\ i - 1 > m /\ i > 1
        BY <2>7, <3>4
      <4> QED
        BY <2>8, <4>1
    <3> QED
      BY <3>2, <3>3, <3>4
  <2>11. EndsOrdered(p)'
    BY <2>2, <2>4, <2>8, <2>9, <2>10 DEF EndsOrdered
  <2> QED
    BY <2>1, <2>2, <2>11 DEF EndsInv, EndsOrdered
<1>4. CASE UNCHANGED vars
  BY <1>1, <1>4 DEF vars
<1>5. ASSUME NEW w \in Workers, WorkerSteps(w) PROVE UNCHANGED <<past, ends, pc>>
  BY <1>5 DEF WorkerSteps, Async, Inject, InjectWake
<1>6. ASSUME NEW p \in Sets, RoundSteps(p), ~RunCb(p), ~ThrowCb(p)
      PROVE  UNCHANGED <<past, ends>> /\ \A q \in Sets : pc'[q] = "cb" => pc[q] = "cb"
  BY <1>6 DEF RoundSteps, Drain, Swap, Return, RunEnd, OtherRound, SubLock, SubScan, SubSpin, SubClear, SubEnd, ThrowSig, TypeOK
<1>7. ASSUME NEW p \in Sets, CallSteps(p) PROVE UNCHANGED <<past, ends, pc>>
  BY <1>7 DEF CallSteps, Wake, SignalCbEnd, EraseSpin, EraseTest, EraseClear, Destroy, DestroyErase, DestroyEnd, SignalCb, RemoveSignalCb, App
<1>8. ASSUME NEW h \in Handlers, HandlerSteps(h) PROVE UNCHANGED <<past, ends, pc>>
  BY <1>8 DEF HandlerSteps, HandlerRuns, Deliver, Claim, ReadOwner, HandlerWake, Mark, HandlerStep
<1>9. CASE Next
  BY <1>1, <1>2, <1>3, <1>5, <1>6, <1>7, <1>8, <1>9, NextSteps
<1> QED
  BY <1>4, <1>9

-----------------------------------------------------------------------------
(* Signals. *)

SignalInv == LockInv /\ OwnerInv /\ SigInv /\ FlightInv /\ WakeInv

\* What WakesLive says of the past.
NoStray == "stray" \in fate => {"stolen", "overwritten"} \cap fate # {}

\* SignalInv is about these variables; what has happened may grow.
LEMMA SignalFrame ==
    ASSUME SignalInv, NoStray, UNCHANGED <<alive, owner, sigcbs, hnd>>, LockInv', FlightInv',
           \A q \in Sets, s \in Sigs : Erasing(q, s) => Erasing(q, s)',
           fate \subseteq fate', "stray" \in fate' => "stray" \in fate
    PROVE  SignalInv' /\ NoStray'
<1>1. OwnerInv' /\ SigInv'
  BY DEF SignalInv, OwnerInv, SigInv, Flying
<1>2. WakeInv'
  <2>1. ASSUME {"stolen", "overwritten"} \cap fate' = {}, NEW h \in Handlers, hnd[h].at = "wake"
        PROVE  hnd[h].ps \in alive /\ (owner[hnd[h].sig] = hnd[h].ps \/ \E q \in Sets : Erasing(q, hnd[h].sig)')
    <3>1. hnd[h].sig \in Sigs
      BY <2>1 DEF SignalInv, SigInv, Flying
    <3>2. hnd[h].ps \in alive /\ (owner[hnd[h].sig] = hnd[h].ps \/ \E q \in Sets : Erasing(q, hnd[h].sig))
      BY <2>1 DEF SignalInv, WakeInv
    <3> QED
      BY <3>1, <3>2
  <2> QED
    BY <2>1 DEF WakeInv, Erasing
<1>3. NoStray'
  BY DEF NoStray
<1> QED
  BY <1>1, <1>2, <1>3 DEF SignalInv

\* The flags stay as they are ...
LEMMA FlightFrame ==
    ASSUME FlightInv, UNCHANGED <<hnd, flag>>, fate \subseteq fate'
    PROVE  FlightInv'
  BY DEF FlightInv, Flying

\* ... or one of them is stored to, which overwrites what a handler under way stored.
LEMMA StoreFlight ==
    ASSUME TypeOK, SigInv, FlightInv, hnd' = hnd, fate \subseteq fate', NEW s, NEW v,
           flag' = [flag EXCEPT ![s] = v], InFlight(s) # {} => "overwritten" \in fate'
    PROVE  FlightInv'
<1>1. ASSUME "overwritten" \notin fate', NEW h \in Handlers, Flying(h) PROVE flag'[hnd[h].sig] = 1
  <2>1. hnd[h].sig # s
    BY <1>1 DEF InFlight, Flying
  <2>2. flag[hnd[h].sig] = 1 /\ hnd[h].sig \in Sigs
    BY <1>1 DEF FlightInv, SigInv
  <2> QED
    BY <2>1, <2>2 DEF TypeOK
<1> QED
  BY <1>1 DEF FlightInv, Flying

\* Whoever holds the lock is the only one between the halves of a call, or in the
\* loop of run_subtype_handlers.
LEMMA LockFacts ==
    ASSUME LockInv
    PROVE  /\ \A q \in Sets : op[q].do # "none" => slock = q
           /\ \A q \in Sets : op[q].do \notin {"none", "scan"} => pc[q] \in {"idle", "cb", "sigcb"}
  BY DEF LockInv

LEMMA WorkerSignals ==
    ASSUME TypeOK, SignalInv, NoStray, NEW w \in Workers, WorkerSteps(w)
    PROVE  SignalInv' /\ NoStray'
<1>1. UNCHANGED <<alive, op, pc, slock, owner, sigcbs, hnd, flag, fate>>
  BY DEF WorkerSteps, Async, Inject, InjectWake, loopVars, sigVars
<1>2. LockInv' /\ FlightInv'
  BY <1>1, FlightFrame DEF SignalInv, LockInv
<1>3. \A q \in Sets, s \in Sigs : Erasing(q, s) => Erasing(q, s)'
  BY <1>1 DEF Erasing
<1> QED
  BY <1>1, <1>2, <1>3, SignalFrame

LEMMA RoundSignals ==
    ASSUME TypeOK, SignalInv, NoStray, NEW p \in Sets, RoundSteps(p)
    PROVE  SignalInv' /\ NoStray'
<1> USE DEF asyncVars, sigVars, loopVars
<1>a. LockInv /\ FlightInv /\ SigInv
  BY DEF SignalInv
<1>b. None \notin Sets /\ NoOp.do = "none"
  BY ConstantsAssumption, NoOpType
<1>c. UNCHANGED <<alive, owner, sigcbs, hnd>>
  BY DEF RoundSteps, Drain, Swap, RunCb, Return, RunEnd, ThrowCb, OtherRound, SubLock, SubScan, SubSpin, SubClear, SubEnd, ThrowSig
<1>d. fate \subseteq fate' /\ fate' \subseteq fate \cup {"thrown", "overwritten"}
  BY DEF RoundSteps, Drain, Swap, RunCb, Return, RunEnd, ThrowCb, OtherRound, SubLock, SubScan, SubSpin, SubClear, SubEnd, ThrowSig, Overwritten
<1>e. \A q \in Sets \ {p} : pc'[q] = pc[q] /\ op'[q] = op[q]
  BY DEF RoundSteps, Drain, Swap, RunCb, Return, RunEnd, ThrowCb, OtherRound, SubLock, SubScan, SubSpin, SubClear, SubEnd, ThrowSig, TypeOK
<1>1. LockInv'
  <2>1. ASSUME slock' = slock, op'[p].do \in {"none", "scan"}, op'[p].do = "scan" => pc'[p] = "scan",
               pc'[p] \in {"scan", "sigs", "clear"} => slock = p
        PROVE  LockInv'
    BY <2>1, <1>a, <1>e DEF LockInv
  <2>2. ASSUME slock = None \/ slock = p, slock' = None \/ slock' = p, op'[p].do \in {"none", "scan"},
               op'[p].do = "scan" => pc'[p] = "scan", pc'[p] \in {"scan", "sigs", "clear"} => slock' = p
        PROVE  LockInv'
    BY <2>2, <1>a, <1>b, <1>e DEF LockInv
  <2>3. CASE Drain(p)
    BY <2>1, <2>3, <1>b DEF Drain, TypeOK
  <2>4. CASE Swap(p) \/ RunCb(p) \/ RunEnd(p) \/ OtherRound(p)
    <3>1. pc[p] \in {"swap", "run", "idle"} /\ (pc[p] = "idle" => op[p] = NoOp)
      BY <2>4 DEF Swap, RunCb, RunEnd, OtherRound
    <3>2. op[p].do = "none"
      <4>1. CASE pc[p] = "idle"
        BY <1>b, <3>1, <4>1
      <4>2. CASE pc[p] # "idle"
        BY <1>a, <3>1, <4>2 DEF LockInv
      <4> QED
        BY <4>1, <4>2
    <3>3. op' = op /\ slock' = slock /\ pc'[p] \notin {"scan", "sigs", "clear"}
      BY <2>4 DEF Swap, RunCb, RunEnd, OtherRound, TypeOK
    <3> QED
      BY <2>1, <3>2, <3>3
  <2>5. CASE ThrowCb(p) \/ ThrowSig(p)
    BY <2>1, <2>5, <1>b DEF ThrowCb, ThrowSig, TypeOK
  <2>6. CASE Return(p)
    BY <2>1, <2>2, <2>6, <1>b DEF Return, TypeOK
  <2>7. CASE SubLock(p)
    <3>1. pc'[p] = "scan" /\ op'[p].do = "scan" /\ slock = None /\ slock' = p
      BY <2>7 DEF SubLock, TypeOK, NoOp
    <3> QED
      BY <2>2, <3>1
  <2>8. CASE SubScan(p)
    <3>1. pc[p] = "scan" /\ slock = p /\ slock' = slock /\ op[p].do \in {"none", "scan"}
      BY <2>8, <1>a DEF SubScan, LockInv
    <3>2. CASE Unscanned(p) = {}
      <4>1. op'[p].do = "none"
        BY <2>8, <1>b, <3>2 DEF SubScan, TypeOK
      <4> QED
        BY <2>1, <3>1, <4>1
    <3>3. CASE Unscanned(p) # {}
      <4>1. pc' = pc /\ op'[p].do = op[p].do
        BY <2>8, <3>3 DEF SubScan, TypeOK, Ops
      <4> QED
        BY <2>1, <3>1, <4>1
    <3> QED
      BY <3>2, <3>3
  <2>9. CASE SubSpin(p) \/ SubClear(p) \/ SubEnd(p)
    <3>1. slock = p /\ op[p].do = "none" /\ op' = op
      BY <2>9, <1>a DEF SubSpin, SubClear, SubEnd, LockInv
    <3>2. slock' = p \/ (slock' = None /\ pc'[p] \in {"idle", "sigcb"})
      BY <2>9, <3>1 DEF SubSpin, SubClear, SubEnd, TypeOK
    <3> QED
      BY <2>2, <3>1, <3>2
  <2> QED
    BY <2>3, <2>4, <2>5, <2>6, <2>7, <2>8, <2>9 DEF RoundSteps
<1>2. \A q \in Sets, s \in Sigs : Erasing(q, s) => Erasing(q, s)'
  <2>1. op'[p] = op[p] \/ op[p].do # "spin"
    <3>1. CASE SubLock(p) \/ SubScan(p)
      <4>1. pc[p] \in {"sub", "scan"}
        BY <3>1 DEF SubLock, SubScan
      <4> QED
        BY <1>a, <4>1 DEF LockInv
    <3>2. CASE ~(SubLock(p) \/ SubScan(p))
      BY <3>2 DEF RoundSteps, Drain, Swap, RunCb, Return, RunEnd, ThrowCb, OtherRound, SubSpin, SubClear, SubEnd, ThrowSig
    <3> QED
      BY <3>1, <3>2
  <2> QED
    BY <1>e, <2>1 DEF Erasing
<1>3. FlightInv'
  <2>1. CASE SubClear(p)
    <3>1. PICK s : flag' = [flag EXCEPT ![s] = 0] /\ fate' = fate \cup Overwritten(InFlight(s))
      BY <2>1 DEF SubClear
    <3>2. InFlight(s) # {} => "overwritten" \in fate'
      BY <3>1 DEF Overwritten
    <3> QED
      BY <1>a, <1>c, <1>d, <3>1, <3>2, StoreFlight
  <2>2. CASE ~SubClear(p)
    <3>1. flag' = flag
      BY <2>2 DEF RoundSteps, Drain, Swap, RunCb, Return, RunEnd, ThrowCb, OtherRound, SubLock, SubScan, SubSpin, SubEnd, ThrowSig
    <3> QED
      BY <1>a, <1>c, <1>d, <3>1, FlightFrame
  <2> QED
    BY <2>1, <2>2
<1>4. "stray" \in fate' => "stray" \in fate
  BY <1>d
<1> QED
  BY <1>1, <1>2, <1>3, <1>4, <1>c, <1>d, SignalFrame

LEMMA CallSignals ==
    ASSUME TypeOK, SignalInv, EraseInv, NoStray, NEW p \in Sets, CallSteps(p)
    PROVE  SignalInv' /\ NoStray'
<1> USE DEF asyncVars, sigVars, loopVars
<1>a. LockInv /\ OwnerInv /\ SigInv /\ FlightInv /\ WakeInv
  BY DEF SignalInv
<1>b. None \notin Sets /\ alive \subseteq Sets /\ op \in [Sets -> Ops] /\ owner \in [Sigs -> Sets \cup {None}]
  BY ConstantsAssumption DEF TypeOK
<1>c. /\ \A q \in Sets : op[q].do # "none" => slock = q
      /\ \A q \in Sets : op[q].do \notin {"none", "scan"} => pc[q] \in {"idle", "cb", "sigcb"}
  BY <1>a, LockFacts
<1>d. NoOp.do = "none"
  BY NoOpType
<1>e. hnd' = hnd /\ pc' = pc
  BY DEF CallSteps, Wake, SignalCbEnd, EraseSpin, EraseTest, EraseClear, Destroy, DestroyErase, DestroyEnd, SignalCb, RemoveSignalCb, App
<1>f. SigInv'
  BY <1>a, <1>e DEF SigInv, Flying
<1>g. \A h \in Handlers : Flying(h) => hnd[h].sig \in Sigs
  BY <1>a DEF SigInv
<1>h. ASSUME flag' = flag, fate \subseteq fate' PROVE FlightInv'
  BY <1>h, <1>a, <1>e, FlightFrame
<1>i. ASSUME slock = None \/ slock = p, \A q \in Sets \ {p} : op'[q] = op[q], op'[p].do # "scan",
             op'[p].do # "none" => slock' = p, slock' = None \/ slock' = p, pc[p] \in {"idle", "cb", "sigcb"}
      PROVE  LockInv'
  BY <1>i, <1>a, <1>b, <1>e DEF LockInv
\* While the lock is free, or in the destructor's hands, nobody waits for a handler.
<1>j. ASSUME slock = None \/ (slock = p /\ op[p].do # "spin") PROVE \A q \in Sets, s \in Sigs : ~Erasing(q, s)
  BY <1>j, <1>b, <1>c DEF Erasing
\* The end of erase_signal_cb.
<1>k. ASSUME Erased(p), slock = p
      PROVE  /\ \A q \in Sets \ {p} : op'[q] = op[q]
             /\ op'[p].do # "scan" /\ (op'[p].do # "none" => slock' = p) /\ (slock' = None \/ slock' = p)
  <2>1. \A q \in Sets \ {p} : op'[q] = op[q]
    BY <1>k, <1>b DEF Erased
  <2>2. CASE op[p].dtor
    BY <1>k, <1>b, <2>1, <2>2 DEF Erased
  <2>3. CASE ~op[p].dtor
    BY <1>k, <1>b, <1>d, <2>1, <2>3 DEF Erased
  <2> QED
    BY <2>2, <2>3
\* A handler that is to wake the owner of a signal that nobody is taking away.
<1>l. ASSUME {"stolen", "overwritten"} \cap fate = {}, NEW h \in Handlers, hnd[h].at = "wake"
      PROVE  /\ hnd[h].sig \in Sigs /\ hnd[h].ps \in alive /\ flag[hnd[h].sig] = 1
             /\ owner[hnd[h].sig] = hnd[h].ps \/ \E q \in Sets : Erasing(q, hnd[h].sig)
  <2>1. hnd[h].sig \in Sigs /\ flag[hnd[h].sig] = 1
    BY <1>a, <1>g, <1>l DEF FlightInv, Flying
  <2> QED
    BY <1>a, <1>l, <2>1 DEF WakeInv
<1>1. CASE Wake(p)
  <2>1. UNCHANGED <<alive, op, owner, sigcbs, hnd, flag, pc, slock, fate>>
    BY <1>1 DEF Wake, App
  <2>2. LockInv' /\ FlightInv'
    BY <1>a, <1>h, <2>1 DEF LockInv
  <2>3. \A q \in Sets, s \in Sigs : Erasing(q, s) => Erasing(q, s)'
    BY <2>1 DEF Erasing
  <2> QED
    BY <2>1, <2>2, <2>3, SignalFrame
<1>2. CASE SignalCbEnd(p)
  <2>1. UNCHANGED <<alive, owner, sigcbs, hnd, flag>> /\ op[p].do = "rewake" /\ slock' = None /\ op' = [op EXCEPT ![p] = NoOp]
    BY <1>2 DEF SignalCbEnd
  <2>2. fate \subseteq fate' /\ ("stray" \in fate' => "stray" \in fate)
    BY <1>2 DEF SignalCbEnd, Dropped
  <2>3. op'[p] = NoOp /\ \A q \in Sets \ {p} : op'[q] = op[q]
    BY <1>b, <2>1
  <2>4. LockInv'
    BY <1>c, <1>d, <1>i, <2>1, <2>3
  <2>5. \A q \in Sets, s \in Sigs : Erasing(q, s) => Erasing(q, s)'
    BY <2>1, <2>3 DEF Erasing
  <2> QED
    BY <1>h, <2>1, <2>2, <2>4, <2>5, SignalFrame
<1>3. CASE EraseSpin(p)
  <2>1. /\ UNCHANGED <<alive, owner, sigcbs, slock, flag, fate>> /\ op[p].do = "spin" /\ flag[op[p].sig] # 1
        /\ op' = [op EXCEPT ![p].do = "test"]
    BY <1>3 DEF EraseSpin, Spun
  <2>2. op'[p].do = "test" /\ \A q \in Sets \ {p} : op'[q] = op[q]
    BY <1>b, <2>1 DEF Ops
  <2>3. LockInv' /\ FlightInv' /\ OwnerInv'
    <3>1. LockInv'
      BY <1>c, <1>i, <2>1, <2>2
    <3> QED
      BY <1>a, <1>h, <2>1, <3>1 DEF OwnerInv
  <2>4. WakeInv'
    <3>1. ASSUME {"stolen", "overwritten"} \cap fate = {}, NEW h \in Handlers, hnd[h].at = "wake"
          PROVE  hnd[h].ps \in alive /\ (owner[hnd[h].sig] = hnd[h].ps \/ \E q \in Sets : Erasing(q, hnd[h].sig)')
      <4>1. \A q \in Sets : Erasing(q, hnd[h].sig) => q # p
        BY <1>l, <2>1, <3>1 DEF Erasing
      <4>2. \A q \in Sets : Erasing(q, hnd[h].sig) => Erasing(q, hnd[h].sig)'
        BY <1>e, <2>2, <4>1 DEF Erasing
      <4> QED
        BY <1>l, <3>1, <4>2
    <3> QED
      BY <1>e, <2>1, <3>1 DEF WakeInv, Erasing
  <2>5. NoStray'
    BY <2>1 DEF NoStray
  <2> QED
    BY <1>f, <2>3, <2>4, <2>5 DEF SignalInv
<1>9. CASE EraseTest(p) \/ EraseClear(p)
  <2>1. UNCHANGED <<alive, owner, sigcbs>> /\ op[p].do \in {"test", "clear"}
    BY <1>9 DEF EraseTest, EraseClear
  <2>2. fate \subseteq fate' /\ ("stray" \in fate' => "stray" \in fate)
    BY <1>9 DEF EraseTest, EraseClear, Overwritten
  <2>3. slock = p /\ pc[p] \in {"idle", "cb", "sigcb"}
    BY <1>c, <2>1
  <2>4. /\ \A q \in Sets \ {p} : op'[q] = op[q]
        /\ op'[p].do # "scan" /\ (op'[p].do # "none" => slock' = p) /\ (slock' = None \/ slock' = p)
    <3>1. CASE Erased(p)
      BY <1>k, <2>3, <3>1
    <3>2. CASE ~Erased(p)
      <4>1. op' = [op EXCEPT ![p].do = "clear"] /\ slock' = slock
        BY <1>9, <3>2 DEF EraseTest, EraseClear
      <4>2. op'[p].do = "clear"
        BY <1>b, <4>1 DEF Ops
      <4> QED
        BY <1>b, <2>3, <4>1, <4>2
    <3> QED
      BY <3>1, <3>2
  <2>5. LockInv'
    BY <1>i, <2>3, <2>4
  <2>6. \A q \in Sets, s \in Sigs : Erasing(q, s) => Erasing(q, s)'
    BY <2>1, <2>4 DEF Erasing
  <2>7. FlightInv'
    <3>1. CASE EraseTest(p)
      BY <1>h, <3>1 DEF EraseTest
    <3>2. CASE EraseClear(p)
      <4>1. PICK s : s = op[p].sig
        OBVIOUS
      <4>2. flag' = [flag EXCEPT ![s] = 0] /\ (InFlight(s) \ Waking(s) # {} => "overwritten" \in fate')
        BY <3>2, <4>1 DEF EraseClear, Overwritten
      <4>3. "overwritten" \in fate \/ Waking(s) = {}
        BY <3>2, <4>1 DEF EraseClear, EraseInv, Waking
      <4>4. InFlight(s) # {} => "overwritten" \in fate'
        BY <2>2, <4>2, <4>3
      <4> QED
        BY <1>a, <1>e, <2>2, <4>2, <4>4, StoreFlight
    <3> QED
      BY <1>9, <3>1, <3>2
  <2> QED
    BY <1>e, <2>1, <2>2, <2>5, <2>6, <2>7, SignalFrame
<1>4. CASE Destroy(p)
  <2>1. UNCHANGED <<alive, owner, sigcbs, flag, fate>> /\ slock = None /\ slock' = p /\ pc[p] = "idle"
    BY <1>4 DEF Destroy
  <2>2. op'[p].do = "destroy" /\ \A q \in Sets \ {p} : op'[q] = op[q]
    BY <1>4, <1>b DEF Destroy
  <2>3. LockInv'
    BY <1>i, <2>1, <2>2
  <2>4. \A q \in Sets, s \in Sigs : Erasing(q, s) => Erasing(q, s)'
    BY <1>j, <2>1
  <2> QED
    BY <1>e, <1>h, <2>1, <2>3, <2>4, SignalFrame
<1>5. CASE DestroyErase(p)
  <2>1. PICK s \in Sigs : /\ op[p].do = "destroy" /\ Erase(s)
                          /\ op' = [op EXCEPT ![p] = [do |-> "spin", sig |-> s, dtor |-> TRUE]]
    <3>1. First(Own(p)) \in Sigs
      BY <1>5, FirstFact DEF DestroyErase, Own
    <3> QED
      BY <1>5, <3>1 DEF DestroyErase
  <2>2. UNCHANGED <<alive, slock, flag, fate>>
    BY <1>5 DEF DestroyErase
  <2>3. op'[p].do = "spin" /\ op'[p].sig = s /\ \A q \in Sets \ {p} : op'[q] = op[q]
    BY <1>b, <2>1
  <2>4. slock = p /\ pc[p] \in {"idle", "cb", "sigcb"}
    BY <1>c, <2>1
  <2>5. LockInv'
    BY <1>i, <2>2, <2>3, <2>4
  <2>6. owner'[s] = None /\ \A t \in Sigs \ {s} : owner'[t] = owner[t] /\ (<<owner[t], t>> \in sigcbs => <<owner[t], t>> \in sigcbs')
    BY <1>b, <2>1 DEF Erase
  <2>7. OwnerInv'
    BY <1>a, <2>2, <2>6 DEF OwnerInv
  <2>8. WakeInv'
    <3>1. Erasing(p, s)'
      BY <2>3 DEF Erasing
    <3>2. \A q \in Sets, t \in Sigs : ~Erasing(q, t)
      BY <1>j, <2>1, <2>4
    <3>3. ASSUME NEW h \in Handlers, hnd[h].at = "wake", {"stolen", "overwritten"} \cap fate = {}
          PROVE  hnd[h].ps \in alive /\ (owner'[hnd[h].sig] = hnd[h].ps \/ Erasing(p, hnd[h].sig)')
      <4>1. hnd[h].sig \in Sigs /\ hnd[h].ps \in alive /\ owner[hnd[h].sig] = hnd[h].ps
        BY <1>l, <3>2, <3>3
      <4>2. CASE hnd[h].sig = s
        BY <1>e, <3>1, <4>1, <4>2 DEF Erasing
      <4>3. CASE hnd[h].sig # s
        BY <2>6, <4>1, <4>3
      <4> QED
        BY <4>2, <4>3
    <3> QED
      BY <1>e, <2>2, <3>3 DEF WakeInv, Erasing
  <2>9. NoStray'
    BY <2>2 DEF NoStray
  <2> QED
    BY <1>f, <1>h, <2>2, <2>5, <2>7, <2>8, <2>9 DEF SignalInv
<1>6. CASE DestroyEnd(p)
  <2>1. /\ UNCHANGED <<owner, sigcbs, flag, fate>> /\ op[p].do = "destroy" /\ Own(p) = {} /\ slock' = None
        /\ op' = [op EXCEPT ![p] = NoOp] /\ alive' = alive \ {p}
    BY <1>6 DEF DestroyEnd
  <2>2. op'[p] = NoOp /\ \A q \in Sets \ {p} : op'[q] = op[q]
    BY <1>b, <2>1
  <2>3. LockInv'
    BY <1>c, <1>d, <1>i, <2>1, <2>2
  <2>4. \A s \in Sigs : owner[s] # p
    BY <1>a, <1>b, <2>1 DEF OwnerInv, Own
  <2>5. OwnerInv'
    BY <1>a, <2>1, <2>4 DEF OwnerInv
  <2>6. WakeInv'
    <3>1. \A q \in Sets, s \in Sigs : ~Erasing(q, s)
      BY <1>c, <1>j, <2>1
    <3>2. ASSUME NEW h \in Handlers, hnd[h].at = "wake", {"stolen", "overwritten"} \cap fate = {}
          PROVE  hnd[h].ps \in alive \ {p} /\ owner[hnd[h].sig] = hnd[h].ps
      BY <1>l, <2>4, <3>1, <3>2
    <3> QED
      BY <1>e, <2>1, <3>2 DEF WakeInv
  <2>7. NoStray'
    BY <2>1 DEF NoStray
  <2> QED
    BY <1>f, <1>h, <2>1, <2>3, <2>5, <2>6, <2>7 DEF SignalInv
<1>7. ASSUME NEW s \in Sigs, SignalCb(p, s) PROVE SignalInv' /\ NoStray'
  <2>1. /\ p \in alive /\ alive' = alive /\ pc[p] \in {"idle", "cb", "sigcb"} /\ op[p] = NoOp /\ slock = None /\ flag' = flag
        /\ sigcbs' = (sigcbs \cup {<<p, s>>}) \ IF owner[s] \in {None, p} THEN {} ELSE {<<owner[s], s>>}
    BY <1>7 DEF SignalCb, App
  <2>2. fate \subseteq fate' /\ fate' \subseteq fate \cup {"failed", "stolen"}
    BY <1>7 DEF SignalCb
  <2>3. \/ UNCHANGED <<op, slock, owner>> /\ owner[s] \in {None, p}
        \/ /\ owner' = [owner EXCEPT ![s] = p] /\ slock' = p
           /\ op' = [op EXCEPT ![p] = [do |-> "rewake", sig |-> s, dtor |-> FALSE]]
           /\ owner[s] # None /\ Waking(s) # {} => "stolen" \in fate'
    BY <1>7 DEF SignalCb
  <2>4. /\ \A q \in Sets \ {p} : op'[q] = op[q]
        /\ op'[p].do # "scan" /\ (op'[p].do # "none" => slock' = p) /\ (slock' = None \/ slock' = p)
    <3>1. CASE UNCHANGED <<op, slock, owner>>
      BY <1>d, <2>1, <3>1
    <3>2. CASE ~UNCHANGED <<op, slock, owner>>
      BY <1>b, <2>3, <3>2
    <3> QED
      BY <3>1, <3>2
  <2>5. LockInv'
    BY <1>i, <2>1, <2>4
  <2>6. \A t \in Sigs \ {s} : owner'[t] = owner[t] /\ (<<owner[t], t>> \in sigcbs => <<owner[t], t>> \in sigcbs')
    BY <1>b, <2>1, <2>3
  <2>7. owner'[s] # None => owner'[s] = p /\ <<p, s>> \in sigcbs'
    BY <1>b, <2>1, <2>3
  <2>8. OwnerInv'
    BY <1>a, <2>1, <2>6, <2>7 DEF OwnerInv
  <2>9. WakeInv'
    <3>1. \A q \in Sets, t \in Sigs : ~Erasing(q, t)
      BY <1>j, <2>1
    <3>2. ASSUME NEW h \in Handlers, hnd[h].at = "wake", {"stolen", "overwritten"} \cap fate' = {}
          PROVE  hnd[h].ps \in alive /\ owner'[hnd[h].sig] = hnd[h].ps
      <4>1. hnd[h].sig \in Sigs /\ hnd[h].ps \in alive /\ owner[hnd[h].sig] = hnd[h].ps
        BY <1>l, <2>2, <3>1, <3>2
      <4>2. CASE hnd[h].sig = s
        <5>1. h \in Waking(s) /\ owner[s] # None
          BY <1>b, <3>2, <4>1, <4>2 DEF Waking
        <5>2. owner' = owner
          BY <2>3, <3>2, <5>1
        <5> QED
          BY <4>1, <5>2
      <4>3. CASE hnd[h].sig # s
        BY <2>6, <4>1, <4>3
      <4> QED
        BY <4>2, <4>3
    <3> QED
      BY <1>e, <2>1, <3>2 DEF WakeInv
  <2>10. NoStray'
    BY <2>2 DEF NoStray
  <2> QED
    BY <1>f, <1>h, <2>1, <2>2, <2>5, <2>8, <2>9, <2>10 DEF SignalInv
<1>8. ASSUME NEW s \in Sigs, RemoveSignalCb(p, s) PROVE SignalInv' /\ NoStray'
  <2>1. /\ UNCHANGED <<alive, flag, fate>> /\ pc[p] \in {"idle", "cb", "sigcb"} /\ slock = None /\ slock' = p
        /\ Erase(s) /\ op' = [op EXCEPT ![p] = [do |-> "spin", sig |-> s, dtor |-> FALSE]]
    BY <1>8 DEF RemoveSignalCb, App
  <2>2. op'[p].do = "spin" /\ op'[p].sig = s /\ \A q \in Sets \ {p} : op'[q] = op[q]
    BY <1>b, <2>1
  <2>3. LockInv'
    BY <1>i, <2>1, <2>2
  <2>4. owner'[s] = None /\ \A t \in Sigs \ {s} : owner'[t] = owner[t] /\ (<<owner[t], t>> \in sigcbs => <<owner[t], t>> \in sigcbs')
    BY <1>b, <2>1 DEF Erase
  <2>5. OwnerInv'
    BY <1>a, <2>1, <2>4 DEF OwnerInv
  <2>6. WakeInv'
    <3>1. Erasing(p, s)' /\ \A q \in Sets, t \in Sigs : ~Erasing(q, t)
      <4>1. Erasing(p, s)'
        BY <2>2 DEF Erasing
      <4> QED
        BY <1>j, <2>1, <4>1
    <3>2. ASSUME NEW h \in Handlers, hnd[h].at = "wake", {"stolen", "overwritten"} \cap fate = {}
          PROVE  hnd[h].ps \in alive /\ (owner'[hnd[h].sig] = hnd[h].ps \/ Erasing(p, hnd[h].sig)')
      <4>1. hnd[h].sig \in Sigs /\ hnd[h].ps \in alive /\ owner[hnd[h].sig] = hnd[h].ps
        BY <1>l, <3>1, <3>2
      <4>2. CASE hnd[h].sig = s
        BY <1>e, <3>1, <4>1, <4>2 DEF Erasing
      <4>3. CASE hnd[h].sig # s
        BY <2>4, <4>1, <4>3
      <4> QED
        BY <4>2, <4>3
    <3> QED
      BY <1>e, <2>1, <3>2 DEF WakeInv, Erasing
  <2>7. NoStray'
    BY <2>1 DEF NoStray
  <2> QED
    BY <1>f, <1>h, <2>1, <2>3, <2>5, <2>6, <2>7 DEF SignalInv
<1> QED
  BY <1>1, <1>2, <1>3, <1>4, <1>5, <1>6, <1>7, <1>8, <1>9 DEF CallSteps

LEMMA HandlerSignals ==
    ASSUME TypeOK, SignalInv, NoStray, NEW h \in Handlers, HandlerSteps(h)
    PROVE  SignalInv' /\ NoStray'
<1> USE DEF asyncVars, sigVars, loopVars
<1>a. LockInv /\ OwnerInv /\ SigInv /\ FlightInv /\ WakeInv
  BY DEF SignalInv
<1>b. None \notin Sets /\ hnd \in [Handlers -> Hnds]
  BY ConstantsAssumption DEF TypeOK, Hnds
<1>c. UNCHANGED <<alive, op, pc, slock, owner, sigcbs>>
  BY DEF HandlerSteps, HandlerRuns, Deliver, Claim, ReadOwner, HandlerWake, Mark, HandlerStep
<1>d. LockInv' /\ OwnerInv'
  BY <1>a, <1>c DEF LockInv, OwnerInv
<1>e. \A g \in Handlers \ {h} : hnd'[g] = hnd[g]
  BY <1>b DEF HandlerSteps, HandlerRuns, Deliver, Claim, ReadOwner, HandlerWake, Mark, HandlerStep
<1>f. \A g \in Handlers : Flying(g) \/ hnd[g].at = "claim" => hnd[g].sig \in Sigs
  BY <1>a DEF SigInv
<1>g. \A q \in Sets, s \in Sigs : Erasing(q, s) => Erasing(q, s)'
  BY <1>c DEF Erasing
<1>1. ASSUME NEW s \in Sigs, Deliver(h, s) PROVE SignalInv' /\ NoStray'
  <2>1. hnd'[h].at = "claim" /\ hnd'[h].sig = s /\ UNCHANGED <<flag, fate>>
    BY <1>1, <1>b DEF Deliver
  <2>2. SigInv'
    BY <1>e, <1>f, <2>1 DEF SigInv, Flying
  <2>3. \A g \in Handlers : Flying(g)' => g # h /\ Flying(g)
    BY <1>e, <2>1 DEF Flying
  <2>4. FlightInv'
    BY <1>a, <1>e, <2>1, <2>3 DEF FlightInv
  <2>5. WakeInv'
    BY <1>a, <1>c, <1>e, <2>1 DEF WakeInv, Erasing
  <2>6. NoStray'
    BY <2>1 DEF NoStray
  <2> QED
    BY <1>d, <2>2, <2>4, <2>5, <2>6 DEF SignalInv
<1>2. CASE Claim(h)
  <2>1. hnd[h].at = "claim" /\ hnd'[h].at = "set" /\ hnd'[h].sig = hnd[h].sig /\ hnd[h].sig \in Sigs /\ fate' = fate
    BY <1>2, <1>b, <1>f DEF Claim, HandlerStep
  <2>2. SigInv'
    BY <1>e, <1>f, <2>1 DEF SigInv, Flying
  <2>3. FlightInv'
    <3>1. flag'[hnd[h].sig] = 1 /\ \A s \in Sigs : flag[s] = 1 => flag'[s] = 1
      BY <1>2, <2>1 DEF Claim, TypeOK
    <3>2. ASSUME "overwritten" \notin fate', NEW g \in Handlers, Flying(g)' PROVE flag'[hnd'[g].sig] = 1
      <4>1. CASE g = h
        BY <2>1, <3>1, <4>1
      <4>2. CASE g # h
        <5>1. Flying(g) /\ hnd'[g].sig = hnd[g].sig
          BY <1>e, <3>2, <4>2 DEF Flying
        <5>2. flag[hnd[g].sig] = 1
          BY <1>a, <2>1, <3>2, <5>1 DEF FlightInv
        <5> QED
          BY <1>f, <3>1, <5>1, <5>2
      <4> QED
        BY <4>1, <4>2
    <3> QED
      BY <3>2 DEF FlightInv
  <2>4. WakeInv'
    BY <1>a, <1>c, <1>e, <2>1 DEF WakeInv, Erasing
  <2>5. NoStray'
    BY <2>1 DEF NoStray
  <2> QED
    BY <1>d, <2>2, <2>3, <2>4, <2>5 DEF SignalInv
<1>3. ASSUME Flying(h), hnd'[h].sig = hnd[h].sig, flag' = flag, fate \subseteq fate', Flying(h)' PROVE SigInv' /\ FlightInv'
  <2>1. SigInv'
    BY <1>3, <1>e, <1>f DEF SigInv, Flying
  <2>2. \A g \in Handlers : Flying(g)' => Flying(g) /\ hnd'[g].sig = hnd[g].sig
    BY <1>3, <1>e DEF Flying
  <2> QED
    BY <1>3, <1>a, <2>1, <2>2 DEF FlightInv
<1>4. CASE ReadOwner(h)
  <2>1. /\ hnd[h].at = "set" /\ hnd'[h].sig = hnd[h].sig /\ hnd'[h].ps = owner[hnd[h].sig] /\ UNCHANGED <<flag, fate>>
        /\ hnd'[h].at = IF owner[hnd[h].sig] = None THEN "mark" ELSE "wake"
    BY <1>4, <1>b DEF ReadOwner, Hnds
  <2>2. Flying(h) /\ Flying(h)'
    BY <2>1 DEF Flying
  <2>3. SigInv' /\ FlightInv'
    BY <1>3, <2>1, <2>2
  <2>4. WakeInv'
    <3>1. hnd'[h].at = "wake" => owner[hnd[h].sig] \in alive
      BY <1>a, <1>f, <2>1, <2>2 DEF OwnerInv
    <3>2. ASSUME NEW g \in Handlers, hnd'[g].at = "wake", {"stolen", "overwritten"} \cap fate = {}
          PROVE  hnd'[g].ps \in alive /\ (owner[hnd'[g].sig] = hnd'[g].ps \/ \E q \in Sets : Erasing(q, hnd'[g].sig))
      <4>1. CASE g = h
        BY <2>1, <3>1, <3>2, <4>1
      <4>2. CASE g # h
        BY <1>a, <1>e, <3>2, <4>2 DEF WakeInv
      <4> QED
        BY <4>1, <4>2
    <3> QED
      BY <1>c, <2>1, <3>2 DEF WakeInv, Erasing
  <2>5. NoStray'
    BY <2>1 DEF NoStray
  <2> QED
    BY <1>d, <2>3, <2>4, <2>5 DEF SignalInv
<1>5. CASE HandlerWake(h)
  <2>1. hnd[h].at = "wake" /\ hnd'[h].at = "mark" /\ hnd'[h].sig = hnd[h].sig /\ flag' = flag
    BY <1>5, <1>b DEF HandlerWake, HandlerStep
  <2>2. fate \subseteq fate' /\ fate' \subseteq fate \cup {"dropped", "stray"} /\ (hnd[h].ps \in alive => fate' \subseteq fate \cup {"dropped"})
    BY <1>5 DEF HandlerWake, Dropped
  <2>3. SigInv' /\ FlightInv'
    BY <1>3, <2>1, <2>2 DEF Flying
  <2>4. WakeInv'
    BY <1>a, <1>c, <1>e, <2>1, <2>2 DEF WakeInv, Erasing
  <2>5. NoStray'
    <3>1. CASE {"stolen", "overwritten"} \cap fate = {}
      <4>1. hnd[h].ps \in alive
        BY <1>a, <2>1, <3>1 DEF WakeInv
      <4> QED
        BY <2>2, <3>1, <4>1 DEF NoStray
    <3>2. CASE {"stolen", "overwritten"} \cap fate # {}
      BY <2>2, <3>2 DEF NoStray
    <3> QED
      BY <3>1, <3>2
  <2> QED
    BY <1>d, <2>3, <2>4, <2>5 DEF SignalInv
<1>6. CASE Mark(h)
  <2>1. /\ hnd[h].at = "mark" /\ hnd'[h].at = "done"
        /\ fate' = fate \cup Overwritten(InFlight(hnd[h].sig) \ {h}) /\ flag' = [flag EXCEPT ![hnd[h].sig] = 2]
    BY <1>6, <1>b DEF Mark
  <2>2. fate \subseteq fate' /\ ("stray" \in fate' => "stray" \in fate)
    BY <2>1 DEF Overwritten
  <2>3. SigInv'
    BY <1>e, <1>f, <2>1 DEF SigInv, Flying
  <2>4. FlightInv'
    <3>1. ASSUME "overwritten" \notin fate', NEW g \in Handlers, Flying(g)' PROVE flag'[hnd'[g].sig] = 1
      <4>1. Flying(g) /\ g # h /\ hnd'[g].sig = hnd[g].sig
        BY <1>e, <2>1, <3>1 DEF Flying
      <4>2. hnd[g].sig # hnd[h].sig
        BY <2>1, <3>1, <4>1 DEF Overwritten, InFlight, Flying
      <4>3. flag[hnd[g].sig] = 1 /\ hnd[g].sig \in Sigs
        BY <1>a, <1>f, <2>2, <3>1, <4>1 DEF FlightInv
      <4> QED
        BY <2>1, <4>1, <4>2, <4>3 DEF TypeOK
    <3> QED
      BY <3>1 DEF FlightInv
  <2>5. WakeInv'
    BY <1>a, <1>c, <1>e, <2>1, <2>2 DEF WakeInv, Erasing
  <2>6. NoStray'
    BY <2>2 DEF NoStray
  <2> QED
    BY <1>d, <2>3, <2>4, <2>5, <2>6 DEF SignalInv
<1> QED
  BY <1>1, <1>2, <1>4, <1>5, <1>6 DEF HandlerSteps, HandlerRuns

LEMMA EraseStep ==
    ASSUME TypeOK, SignalInv, EraseInv, [Next]_vars
    PROVE  EraseInv'
<1> USE DEF asyncVars, sigVars, loopVars
<1>a. LockInv /\ SigInv /\ FlightInv
  BY DEF SignalInv
<1>b. None \notin Sets /\ op \in [Sets -> Ops]
  BY ConstantsAssumption DEF TypeOK
<1>c. /\ \A q \in Sets : op[q].do # "none" => slock = q
      /\ \A q \in Sets : op[q].do \notin {"none", "scan"} => pc[q] \in {"idle", "cb", "sigcb"}
  BY <1>a, LockFacts
<1>d. NoOp.do = "none"
  BY NoOpType
\* All signals that were being taken away before are so by the same threads.
<1>1. ASSUME UNCHANGED <<owner, hnd>>, fate \subseteq fate',
             \A q \in Sets : op'[q].do \in {"spin", "test", "clear"} => op'[q] = op[q]
      PROVE  EraseInv'
  BY <1>1 DEF EraseInv
\* Only p takes a signal away.
<1>2. ASSUME NEW p \in Sets, slock = None \/ slock = p, \A q \in Sets \ {p} : op'[q] = op[q],
             op'[p].do \in {"spin", "test", "clear"} =>
                /\ op'[p].sig \in Sigs /\ owner'[op'[p].sig] = None
                /\ op'[p].do # "spin" /\ "overwritten" \notin fate' =>
                      \A h \in Handlers : hnd'[h].at = "wake" => hnd'[h].sig # op'[p].sig
      PROVE  EraseInv'
  BY <1>2, <1>b, <1>c DEF EraseInv
<1>3. CASE UNCHANGED vars
  BY <1>1, <1>3 DEF vars
<1>4. ASSUME NEW w \in Workers, WorkerSteps(w) PROVE EraseInv'
  BY <1>1, <1>4 DEF WorkerSteps, Async, Inject, InjectWake
<1>5. ASSUME NEW p \in Sets, RoundSteps(p) PROVE EraseInv'
  <2>1. UNCHANGED <<owner, hnd>> /\ fate \subseteq fate'
    BY <1>5 DEF RoundSteps, Drain, Swap, RunCb, Return, RunEnd, ThrowCb, OtherRound, SubLock, SubScan, SubSpin, SubClear, SubEnd, ThrowSig
  <2>2. CASE ~(SubLock(p) \/ SubScan(p))
    <3>1. op' = op
      BY <1>5, <2>2 DEF RoundSteps, Drain, Swap, RunCb, Return, RunEnd, ThrowCb, OtherRound, SubSpin, SubClear, SubEnd, ThrowSig
    <3> QED
      BY <1>1, <2>1, <3>1
  <2>3. CASE SubLock(p) \/ SubScan(p)
    <3>1. \A q \in Sets \ {p} : op'[q] = op[q]
      BY <1>b, <2>3 DEF SubLock, SubScan
    <3>2. op'[p].do \in {"scan", "none"}
      <4>1. CASE SubLock(p)
        BY <1>b, <4>1 DEF SubLock, NoOp
      <4>2. CASE SubScan(p) /\ Unscanned(p) = {}
        BY <1>b, <1>d, <4>2 DEF SubScan
      <4>3. CASE SubScan(p) /\ Unscanned(p) # {}
        <5>1. op'[p].do = op[p].do
          BY <1>b, <4>3 DEF SubScan, Ops
        <5>2. op[p].do \in {"none", "scan"}
          BY <1>a, <4>3 DEF SubScan, LockInv
        <5> QED
          BY <5>1, <5>2
      <4> QED
        BY <2>3, <4>1, <4>2, <4>3
    <3> QED
      BY <1>1, <2>1, <3>1, <3>2
  <2> QED
    BY <2>2, <2>3
<1>6. ASSUME NEW p \in Sets, CallSteps(p) PROVE EraseInv'
  <2>1. CASE Wake(p)
    BY <1>1, <2>1 DEF Wake, App
  <2>2. CASE SignalCbEnd(p) \/ Destroy(p) \/ DestroyEnd(p)
    <3>1. UNCHANGED <<owner, hnd>> /\ fate \subseteq fate' /\ \A q \in Sets \ {p} : op'[q] = op[q]
      BY <1>b, <2>2 DEF SignalCbEnd, Destroy, DestroyEnd
    <3>2. op'[p].do \in {"none", "destroy"}
      <4>1. CASE Destroy(p)
        BY <1>b, <4>1 DEF Destroy
      <4>2. CASE SignalCbEnd(p) \/ DestroyEnd(p)
        <5>1. op' = [op EXCEPT ![p] = NoOp]
          BY <4>2 DEF SignalCbEnd, DestroyEnd
        <5> QED
          BY <1>b, <1>d, <5>1
      <4> QED
        BY <2>2, <4>1, <4>2
    <3> QED
      BY <1>1, <3>1, <3>2
  <2>3. CASE EraseSpin(p)
    <3>1. PICK s : s = op[p].sig
      OBVIOUS
    <3>2. op[p].do = "spin" /\ flag[s] # 1 /\ UNCHANGED <<owner, hnd, fate>>
      BY <2>3, <3>1 DEF EraseSpin, Spun
    <3>3. op'[p].do = "test" /\ op'[p].sig = s /\ \A q \in Sets \ {p} : op'[q] = op[q]
      BY <1>b, <2>3, <3>1 DEF EraseSpin, Ops
    <3>4. s \in Sigs /\ owner[s] = None
      BY <3>1, <3>2 DEF EraseInv
    <3>5. "overwritten" \notin fate => \A h \in Handlers : hnd[h].at = "wake" => hnd[h].sig # s
      BY <1>a, <3>2 DEF FlightInv, Flying
    <3> QED
      BY <1>2, <1>c, <3>2, <3>3, <3>4, <3>5
  <2>4. CASE EraseTest(p) \/ EraseClear(p)
    <3>1. op[p].do \in {"test", "clear"} /\ UNCHANGED <<owner, hnd>> /\ fate \subseteq fate'
      BY <2>4 DEF EraseTest, EraseClear
    <3>2. CASE Erased(p)
      <4>1. \A q \in Sets \ {p} : op'[q] = op[q]
        BY <1>b, <3>2 DEF Erased
      <4>2. op'[p].do \in {"none", "destroy"}
        BY <1>b, <1>d, <3>2 DEF Erased
      <4> QED
        BY <1>1, <3>1, <4>1, <4>2
    <3>3. CASE ~Erased(p)
      <4>1. op' = [op EXCEPT ![p].do = "clear"]
        BY <2>4, <3>3 DEF EraseTest, EraseClear
      <4>2. op'[p].do = "clear" /\ op'[p].sig = op[p].sig /\ \A q \in Sets \ {p} : op'[q] = op[q]
        BY <1>b, <4>1 DEF Ops
      <4> QED
        BY <3>1, <4>2 DEF EraseInv
    <3> QED
      BY <3>2, <3>3
  <2>5. CASE DestroyErase(p)
    <3>1. First(Own(p)) \in Sigs
      BY <2>5, FirstFact DEF DestroyErase, Own
    <3>2. PICK s \in Sigs : /\ op[p].do = "destroy" /\ Erase(s)
                            /\ op' = [op EXCEPT ![p] = [do |-> "spin", sig |-> s, dtor |-> TRUE]]
      BY <2>5, <3>1 DEF DestroyErase
    <3>3. op'[p].do = "spin" /\ op'[p].sig = s /\ \A q \in Sets \ {p} : op'[q] = op[q]
      BY <1>b, <3>2
    <3>4. owner'[s] = None
      BY <3>2 DEF Erase, TypeOK
    <3> QED
      BY <1>2, <1>c, <3>2, <3>3, <3>4
  <2>6. ASSUME NEW s \in Sigs, SignalCb(p, s) PROVE EraseInv'
    <3>1. slock = None /\ op[p] = NoOp /\ (op' = op \/ op' = [op EXCEPT ![p] = [do |-> "rewake", sig |-> s, dtor |-> FALSE]])
      BY <2>6 DEF SignalCb, App
    <3>2. op'[p].do \in {"none", "rewake"} /\ \A q \in Sets \ {p} : op'[q] = op[q]
      BY <1>b, <1>d, <3>1
    <3> QED
      BY <1>2, <3>1, <3>2
  <2>7. ASSUME NEW s \in Sigs, RemoveSignalCb(p, s) PROVE EraseInv'
    <3>1. slock = None /\ Erase(s) /\ op' = [op EXCEPT ![p] = [do |-> "spin", sig |-> s, dtor |-> FALSE]]
      BY <2>7 DEF RemoveSignalCb, App
    <3>2. op'[p].do = "spin" /\ op'[p].sig = s /\ \A q \in Sets \ {p} : op'[q] = op[q]
      BY <1>b, <3>1
    <3>3. owner'[s] = None
      BY <3>1 DEF Erase, TypeOK
    <3> QED
      BY <1>2, <3>1, <3>2, <3>3
  <2> QED
    BY <1>6, <2>1, <2>2, <2>3, <2>4, <2>5, <2>6, <2>7 DEF CallSteps
<1>7. ASSUME NEW h \in Handlers, HandlerSteps(h) PROVE EraseInv'
  <2>1. UNCHANGED <<op, owner>> /\ fate \subseteq fate'
    BY <1>7 DEF HandlerSteps, HandlerRuns, Deliver, Claim, ReadOwner, HandlerWake, Mark, HandlerStep
  <2>2. hnd \in [Handlers -> Hnds]
    BY DEF TypeOK, Hnds
  <2>3. \A g \in Handlers \ {h} : hnd'[g] = hnd[g]
    BY <1>7, <2>2 DEF HandlerSteps, HandlerRuns, Deliver, Claim, ReadOwner, HandlerWake, Mark, HandlerStep
  <2>4. hnd'[h].at = "wake" => owner[hnd'[h].sig] # None
    <3>1. CASE ReadOwner(h)
      <4>1. hnd'[h].sig = hnd[h].sig /\ hnd'[h].at = IF owner[hnd[h].sig] = None THEN "mark" ELSE "wake"
        BY <2>2, <3>1 DEF ReadOwner, Hnds
      <4> QED
        BY <4>1
    <3>2. CASE ~ReadOwner(h)
      <4>1. hnd'[h].at \in {"claim", "set", "mark", "done"}
        <5>1. ASSUME NEW s \in Sigs, Deliver(h, s) PROVE hnd'[h].at = "claim"
          BY <2>2, <5>1 DEF Deliver
        <5>2. Claim(h) => hnd'[h].at = "set"
          BY <2>2 DEF Claim, HandlerStep, Hnds
        <5>3. HandlerWake(h) => hnd'[h].at = "mark"
          BY <2>2 DEF HandlerWake, HandlerStep, Hnds
        <5>4. Mark(h) => hnd'[h].at = "done"
          BY <2>2 DEF Mark
        <5> QED
          BY <1>7, <3>2, <5>1, <5>2, <5>3, <5>4 DEF HandlerSteps, HandlerRuns
      <4> QED
        BY <4>1
    <3> QED
      BY <3>1, <3>2
  <2> QED
    BY <2>1, <2>3, <2>4 DEF EraseInv
<1>8. CASE Next
  BY <1>4, <1>5, <1>6, <1>7, <1>8, NextSteps
<1> QED
  BY <1>3, <1>8

-----------------------------------------------------------------------------
(* The theorems. *)

LEMMA InitInv == Init => IInv
<1> SUFFICES ASSUME Init PROVE IInv
  OBVIOUS
<1>1. TypeOK
  <2>1. [n |-> 0, sig |-> FALSE] \in Pipes
    BY ConstantsAssumption DEF Pipes
  <2>2. pipe \in [Sets -> [n : 0..PipeCap, sig : BOOLEAN]]
    BY <2>1 DEF Init, Pipes
  <2>3. op \in [Sets -> Ops]
    BY NoOpType DEF Init
  <2>4. hnd \in [Handlers -> [at : {"new", "claim", "set", "wake", "mark", "done"}, sig : Sigs \cup {None}, ps : Sets \cup {None}]]
    BY DEF Init
  <2>5. <<>> \in Seq(Workers) /\ <<>> \in Seq(Ends) /\ 0 \in 0..2 /\ 0 \in 0..MaxEvents
    BY ConstantsAssumption
  <2>6. /\ asyncs \in [Sets -> Seq(Workers)] /\ cbs \in [Sets -> Seq(Workers)] /\ order \in [Sets -> Seq(Workers)]
        /\ past \in [Sets -> Seq(Workers)] /\ ends \in [Sets -> Seq(Ends)]
    BY <2>5 DEF Init
  <2>7. pc \in [Sets -> Places] /\ flag \in [Sigs -> 0..2] /\ events \in 0..MaxEvents
    BY <2>5 DEF Init, Places
  <2> QED
    BY <2>2, <2>3, <2>4, <2>6, <2>7 DEF Init, TypeOK, Ends
<1>2. CbsInv /\ EndsInv /\ LockInv /\ OwnerInv
  BY NoOpType DEF Init, CbsInv, EndsInv, LockInv, OwnerInv
<1>3. SigInv /\ FlightInv /\ WakeInv /\ EraseInv
  <2>1. EraseInv
    BY NoOpType DEF Init, EraseInv
  <2> QED
    BY <2>1 DEF Init, SigInv, FlightInv, WakeInv, Flying
<1>4. InjectedInOrder
  <2>1. <<>> \o <<>> \o <<>> = <<>>
    OBVIOUS
  <2> QED
    BY <2>1 DEF Init, history, InjectedInOrder
<1>5. WakesLive
  BY <1>1 DEF Init, WakesLive
<1> QED
  BY <1>1, <1>2, <1>3, <1>4, <1>5 DEF IInv

LEMMA StepInv == IInv /\ [Next]_vars => IInv'
<1> SUFFICES ASSUME IInv, [Next]_vars PROVE IInv'
  OBVIOUS
<1>a. TypeOK /\ CbsInv /\ EndsInv /\ InjectedInOrder /\ SignalInv /\ EraseInv /\ NoStray
  BY DEF IInv, SignalInv, WakesLive, NoStray
<1>b. \A q \in Sets : InOrder(q) /\ EndsOrdered(q)
  BY <1>a DEF InjectedInOrder, InOrder, EndsOrdered
<1>1. TypeOK' /\ CbsInv' /\ EndsInv' /\ InjectedInOrder'
  <2>1. TypeOK'
    BY <1>a, TypeStep
  <2>2. CbsInv' /\ \A q \in Sets : InOrder(q)'
    BY <1>a, <1>b, QueueStep
  <2>3. EndsInv' /\ \A q \in Sets : EndsOrdered(q)'
    BY <1>a, <1>b, EndsStep
  <2> QED
    BY <2>1, <2>2, <2>3 DEF InjectedInOrder, InOrder, EndsOrdered
<1>2. SignalInv' /\ NoStray'
  <2>1. CASE Next
    BY <1>a, <2>1, NextSteps, WorkerSignals, RoundSignals, CallSignals, HandlerSignals
  <2>2. CASE UNCHANGED vars
    <3>1. UNCHANGED <<alive, op, pc, slock, owner, sigcbs, hnd, flag, fate>>
      BY <2>2 DEF vars, loopVars, sigVars
    <3>2. LockInv' /\ FlightInv'
      BY <1>a, <3>1, FlightFrame DEF SignalInv, LockInv
    <3>3. \A q \in Sets, s \in Sigs : Erasing(q, s) => Erasing(q, s)'
      BY <3>1 DEF Erasing
    <3> QED
      BY <1>a, <3>1, <3>2, <3>3, SignalFrame
  <2> QED
    BY <2>1, <2>2
<1>3. EraseInv'
  BY <1>a, EraseStep
<1> QED
  BY <1>1, <1>2, <1>3 DEF IInv, SignalInv, WakesLive, NoStray

LEMMA Invariance == Spec => []IInv
  BY InitInv, StepInv, PTL DEF Spec

\* InjectedInOrder: whatever threads inject, when and how often, and whether or
\* not callbacks throw, each callback injected into an instance is over once, in
\* the order in which inject_cb appended them, and only those that are behind one
\* that throws, in the vector it was taken in, end without having been run.
THEOREM CallbacksRunInOrder == Spec => []InjectedInOrder
<1>1. IInv => InjectedInOrder
  BY DEF IInv
<1> QED
  BY <1>1, Invariance, PTL

\* WakesLive: signal_handler, which takes no lock, wakes no destroyed
\* pollset_plus, although the spin loop of erase_signal_cb, its test and its store
\* are steps of their own, unless before that the signal was stolen from an owner
\* yet to be woken, or a store has hidden the 1 of a handler under way.
THEOREM HandlersWakeTheLiving == Spec => []WakesLive
<1>1. IInv => WakesLive
  BY DEF IInv
<1> QED
  BY <1>1, Invariance, PTL
=============================================================================
