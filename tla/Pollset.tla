------------------------------- MODULE Pollset -------------------------------
(***************************************************************************)
(* The event loop of cxx/xdrpp/xdrpp/pollset.cc: the vector pollfds_ that  *)
(* is given to poll(2), the table state_ of callbacks that points into it, *)
(* the multimap time_cbs_ of timeouts, and a round of pollset::poll.       *)
(*                                                                         *)
(* Callbacks run in the middle of the round and may set and remove         *)
(* callbacks, open and close descriptors (the numbers are reused), set,    *)
(* cancel and reschedule timeouts, and throw.  The application removes the *)
(* callbacks of a descriptor before it closes it, as ~msg_sock does, and   *)
(* does not cancel or reschedule the timeout whose callback is running.    *)
(***************************************************************************)
EXTENDS Integers, Sequences, FiniteSets

CONSTANTS
    Fds,          \* descriptor numbers
    MaxOps,       \* bound on the operations of the application
    MaxTime,      \* bound on the clock
    MaxThrows     \* bound on the callbacks that throw

ASSUME ConstantsAssumption ==
    /\ MaxOps \in Nat /\ MaxTime \in Nat /\ MaxThrows \in Nat

Dirs == {"in", "out"}           \* POLLIN and POLLOUT, rcb and wcb
Events == Dirs \cup {"hup"}     \* POLLHUP or POLLERR
None == 0                       \* nullptr
Times == 0..MaxTime

\* An entry of time_cbs_; entries of one time are in the order of their set-up.
Timeouts == [at : Times, nr : 1..MaxOps]
End == [at |-> MaxTime + 1, nr |-> 0]

VARIABLES
    pollfds,    \* pollfds_: [fd, events, revents]
    state,      \* state_: descriptor |-> [idx, cb, oneshot]
    open,       \* descriptors that are open
    timecbs,    \* time_cbs_
    ops,        \* number of operations of the application so far; callbacks
                \* and timeouts are numbered by the operation that set them
    clock,      \* now_ms()
    pc,         \* "idle": outside poll; "in", "out": halves of the loop body;
                \* "cbin", "cbout", "cbtime": a callback runs; "time",
                \* "times": run_timeouts; "trim", "swap": consolidate;
                \* "aborted": an assertion failed
    i,          \* index of the loop over pollfds_
    r, maxpoll, \* r and maxpoll of poll
    now, cur,   \* now and i of run_timeouts
    due,        \* callbacks that were found ready and have not run yet
    spent,      \* one-shot callbacks that have run
    thrown,     \* number of callbacks that have thrown
    unswept     \* since consolidate last ended, a slot was left without a callback
                \* outside poll, or an exception left a round

tableVars == <<pollfds, state, open>>
loopVars == <<i, r, maxpoll>>
vars == <<tableVars, timecbs, ops, clock, pc, loopVars, now, cur, due, spent, thrown, unswept>>

Init ==
    /\ pollfds = <<>> /\ state = [f \in {} |-> 0] /\ open = Fds
    /\ timecbs = {} /\ ops = 0 /\ clock = 0
    /\ pc = "idle" /\ i = 0 /\ r = 0 /\ maxpoll = 0 /\ now = 0 /\ cur = End
    /\ due = {} /\ spent = {} /\ thrown = 0 /\ unswept = FALSE

-----------------------------------------------------------------------------
(* What the application does, in a callback or outside poll. *)

App ==
    /\ pc \in {"idle", "cbin", "cbout", "cbtime"}
    /\ ops < MaxOps /\ ops' = ops + 1
    /\ UNCHANGED <<clock, pc, loopVars, now, cur, spent, thrown>>

NoCbs == [d \in Dirs |-> None]
Watch(events, d, c) == IF c = None THEN events \ {d} ELSE events \cup {d}

\* fd_cb(f, op, c), where c may be empty; the slot of f is reused if it has one.
FdCb(f, d, once, c) ==
    LET old == f \in DOMAIN state
        s == IF old THEN state[f]
             ELSE [idx |-> Len(pollfds) + 1, cb |-> NoCbs, oneshot |-> [e \in Dirs |-> FALSE]]
    IN  /\ state' = [g \in DOMAIN state \cup {f} |->
                        IF g = f THEN [s EXCEPT !.cb[d] = c, !.oneshot[d] = once] ELSE state[g]]
        /\ pollfds' = IF old THEN [pollfds EXCEPT ![s.idx].events = Watch(@, d, c)]
                      ELSE Append(pollfds, [fd |-> f, events |-> Watch({}, d, c), revents |-> {}])
        /\ due' = due \ {s.cb[d]}

SetCb(f, d, once) ==
    /\ App /\ f \in open
    /\ \E c \in {None, ops'} :
          /\ FdCb(f, d, once, c)
          /\ unswept' = (unswept \/ (pc = "idle" /\ c = None))
    /\ UNCHANGED <<open, timecbs>>

\* fd_cb(f, op) with nullptr.  The slot stays until consolidate.
RemoveCb(f, ds) ==
    /\ App /\ f \in DOMAIN state
    /\ state' = [state EXCEPT ![f].cb = [d \in Dirs |-> IF d \in ds THEN None ELSE @[d]]]
    /\ pollfds' = [pollfds EXCEPT ![state[f].idx].events = @ \ ds]
    /\ due' = due \ {state[f].cb[d] : d \in ds}
    /\ unswept' = (unswept \/ pc = "idle")
    /\ UNCHANGED <<open, timecbs>>

Open(f) ==
    /\ App /\ f \notin open
    /\ open' = open \cup {f}
    /\ UNCHANGED <<pollfds, state, timecbs, due, unswept>>

Close(f) ==
    /\ App /\ f \in open
    /\ f \in DOMAIN state => state[f].cb = NoCbs
    /\ open' = open \ {f}
    /\ UNCHANGED <<pollfds, state, timecbs, due, unswept>>

SetTimeout(t) ==
    /\ App
    /\ timecbs' = timecbs \cup {[at |-> t, nr |-> ops']}
    /\ UNCHANGED <<tableVars, due, unswept>>

\* Entries that the application may cancel or reschedule.
Pending == timecbs \ IF pc = "cbtime" THEN {cur} ELSE {}

TimeoutCancel(e) ==
    /\ App /\ e \in Pending
    /\ timecbs' = timecbs \ {e}
    /\ UNCHANGED <<tableVars, due, unswept>>

\* emplace at the new time, then erase.
TimeoutReschedule(e, t) ==
    /\ App /\ e \in Pending
    /\ timecbs' = (timecbs \cup {[at |-> t, nr |-> ops']}) \ {e}
    /\ UNCHANGED <<tableVars, due, unswept>>

-----------------------------------------------------------------------------
(* poll: the system call and the loop over its results. *)

IsFirst(e, S) ==
    \/ S = {} /\ e = End
    \/ /\ e \in S
       /\ \A f \in S : f = e \/ e.at < f.at \/ (e.at = f.at /\ e.nr < f.nr)

\* poll(2) reports what it was asked for, "hup" unasked (with which it does not
\* matter what else is reported), and "nval" for a descriptor that is not open.
Reports(p) == IF p.fd \in open THEN (SUBSET p.events) \cup {{"hup"}} ELSE {{"nval"}}

Ready(p, d) == p.revents \cap {d, "hup"} # {}

\* It returns when there is something to report or the first timeout is due;
\* the clock is noted only where it is read.
Poll ==
    /\ pc = "idle"
    /\ \E rev \in [DOMAIN pollfds -> SUBSET (Events \cup {"nval"})] :
          /\ \A k \in DOMAIN pollfds : rev[k] \in Reports(pollfds[k])
          /\ pollfds' = [k \in DOMAIN pollfds |-> [pollfds[k] EXCEPT !.revents = rev[k]]]
          /\ r' = Cardinality({k \in DOMAIN pollfds : rev[k] # {}})
    /\ \/ r' > 0 /\ UNCHANGED clock
       \/ \E e \in timecbs : clock' \in Times /\ clock' >= clock /\ clock' >= e.at
    /\ maxpoll' = Len(pollfds) /\ i' = 1
    /\ due' = {c \in 1..ops : \E f \in DOMAIN state, d \in Dirs :
                                 state[f].cb[d] = c /\ Ready(pollfds'[state[f].idx], d)}
    /\ pc' = "in"
    /\ UNCHANGED <<state, open, timecbs, ops, now, cur, spent, thrown, unswept>>

\* What is left of a one-shot callback that is about to run.
OneShot_StaysSet(f, d) == UNCHANGED <<state, pollfds>>

OneShot(f, d) ==
    /\ state' = [state EXCEPT ![f].cb[d] = None]
    /\ pollfds' = [pollfds EXCEPT ![i].events = @ \ {d}]

\* The callback of direction d runs if it is set and the descriptor is ready.
Serve(d, running, done) ==
    LET f == pollfds[i].fd
        c == state[f].cb[d]
    IN  IF Ready(pollfds[i], d) /\ c # None
        THEN /\ pc' = running
             /\ due' = due \ {c}
             /\ IF state[f].oneshot[d]
                THEN OneShot(f, d) /\ spent' = spent \cup {c}
                ELSE UNCHANGED <<state, pollfds, spent>>
        ELSE /\ done
             /\ UNCHANGED <<state, pollfds, due, spent>>

\* Whether the loop over pollfds_ goes on.
More_AllButLast == r > 0 /\ i < maxpoll

More == r > 0 /\ i <= maxpoll

\* The locals of poll go out of scope; revents is not read again.
LoopOver ==
    /\ i' = 0 /\ r' = 0 /\ maxpoll' = 0
    /\ pollfds' = [k \in DOMAIN pollfds |-> [pollfds[k] EXCEPT !.revents = {}]]
NextSlot == pc' = "in" /\ i' = i + 1

In ==
    /\ pc = "in" /\ More
    /\ IF "nval" \in pollfds[i].revents
       THEN /\ pc' = "aborted"
            /\ UNCHANGED <<r, state, pollfds, due, spent>>
       ELSE /\ r' = IF pollfds[i].revents # {} THEN r - 1 ELSE r
            /\ Serve("in", "cbin", pc' = "out")
    /\ UNCHANGED <<open, timecbs, ops, clock, i, maxpoll, now, cur, thrown, unswept>>

Out ==
    /\ pc = "out"
    /\ Serve("out", "cbout", NextSlot)
    /\ pc' = "cbout" => UNCHANGED i
    /\ UNCHANGED <<open, timecbs, ops, clock, r, maxpoll, now, cur, thrown, unswept>>

Return ==
    /\ \/ pc = "cbin" /\ pc' = "out" /\ UNCHANGED i
       \/ pc = "cbout" /\ NextSlot
    /\ UNCHANGED <<tableVars, timecbs, ops, clock, r, maxpoll, now, cur, due, spent, thrown, unswept>>

LoopEnd ==
    /\ pc = "in" /\ ~More
    /\ pc' = "time"
    /\ LoopOver
    /\ UNCHANGED <<state, open, timecbs, ops, clock, now, cur, due, spent, thrown, unswept>>

-----------------------------------------------------------------------------
(* run_timeouts. *)

RunTimeouts ==
    /\ pc = "time"
    /\ pc' = "times"
    /\ now' \in clock..MaxTime /\ clock' = now'
    /\ \E e \in timecbs \cup {End} : IsFirst(e, timecbs) /\ cur' = e
    /\ UNCHANGED <<tableVars, timecbs, ops, loopVars, due, spent, thrown, unswept>>

RunTimeout ==
    /\ pc = "times" /\ now >= cur.at
    /\ pc' = "cbtime"
    /\ UNCHANGED <<tableVars, timecbs, ops, clock, loopVars, now, cur, due, spent, thrown, unswept>>

Erase_Never == cur' = End /\ UNCHANGED timecbs

\* time_cbs_.erase(i++), after the callback.
Erase ==
    /\ timecbs' = timecbs \ {cur}
    /\ LET later == {e \in timecbs : cur.at < e.at \/ (cur.at = e.at /\ cur.nr < e.nr)}
       IN  \E e \in later \cup {End} : IsFirst(e, later) /\ cur' = e

TimeoutReturn ==
    /\ pc = "cbtime"
    /\ Erase
    /\ pc' = "times"
    /\ UNCHANGED <<tableVars, ops, clock, loopVars, now, due, spent, thrown, unswept>>

TimeoutsEnd ==
    /\ pc = "times" /\ now < cur.at
    /\ pc' = "trim"
    /\ now' = 0 /\ cur' = End
    /\ UNCHANGED <<tableVars, timecbs, ops, clock, loopVars, due, spent, thrown, unswept>>

\* An exception leaves poll; the destructor of cleanup erases the timeout.
Throw ==
    /\ pc \in {"cbin", "cbout", "cbtime"} /\ thrown < MaxThrows
    /\ thrown' = thrown + 1 /\ unswept' = TRUE
    /\ timecbs' = timecbs \ IF pc = "cbtime" THEN {cur} ELSE {}
    /\ pc' = "idle" /\ LoopOver /\ now' = 0 /\ cur' = End /\ due' = {}
    /\ UNCHANGED <<state, open, ops, clock, spent>>

-----------------------------------------------------------------------------
(* consolidate, one iteration of its loops at a time. *)

Drop(f) == [g \in DOMAIN state \ {f} |-> state[g]]

Last == pollfds[Len(pollfds)]
Front == SubSeq(pollfds, 1, Len(pollfds) - 1)

ConsolidateEnd == pc' = "idle" /\ i' = 0 /\ unswept' = FALSE

SwapFrom_OffByOne == Len(pollfds) - 2

\* Where the second loop starts: the last slot has events.
SwapFrom == Len(pollfds) - 1

\* Slots without events at the end are dropped.
Trim ==
    /\ pc = "trim"
    /\ IF pollfds # <<>> /\ Last.events = {}
       THEN /\ state' = Drop(Last.fd)
            /\ pollfds' = Front
            /\ UNCHANGED <<pc, i, unswept>>
       ELSE /\ IF SwapFrom < 1 THEN ConsolidateEnd ELSE pc' = "swap" /\ i' = SwapFrom /\ UNCHANGED unswept
            /\ UNCHANGED <<state, pollfds>>
    /\ UNCHANGED <<open, timecbs, ops, clock, r, maxpoll, now, cur, due, spent, thrown>>

Moved_KeepsIndex == Drop(pollfds[i].fd)

\* state_ when the last slot replaces slot i.
Moved == [Drop(pollfds[i].fd) EXCEPT ![Last.fd].idx = i]

\* Any other slot without events is replaced by the last one.
Swap ==
    /\ pc = "swap"
    /\ IF pollfds[i].events = {}
       THEN /\ state' = Moved
            /\ pollfds' = [Front EXCEPT ![i] = Last]
       ELSE UNCHANGED <<state, pollfds>>
    /\ IF i = 1 THEN ConsolidateEnd ELSE i' = i - 1 /\ UNCHANGED <<pc, unswept>>
    /\ UNCHANGED <<open, timecbs, ops, clock, r, maxpoll, now, cur, due, spent, thrown>>

-----------------------------------------------------------------------------
Round ==
    \/ In \/ Out \/ Return \/ LoopEnd
    \/ RunTimeouts \/ RunTimeout \/ TimeoutReturn \/ TimeoutsEnd
    \/ Trim \/ Swap

Next ==
    \/ \E f \in Fds :
          \/ \E d \in Dirs, once \in BOOLEAN : SetCb(f, d, once)
          \/ \E ds \in (SUBSET Dirs) \ {{}} : RemoveCb(f, ds)
          \/ Open(f) \/ Close(f)
    \/ \E t \in Times : SetTimeout(t)
    \/ \E e \in timecbs : TimeoutCancel(e)
    \/ \E e \in timecbs, t \in Times : TimeoutReschedule(e, t)
    \/ Poll \/ Round \/ Throw

PollReturns == timecbs # {} /\ Poll
TimePasses == (Poll \/ RunTimeouts) /\ clock' > clock

\* run() calls poll again and again; with a timeout set poll(2) returns some time;
\* callbacks return; time goes on.
Spec ==
    /\ Init /\ [][Next]_vars
    /\ WF_vars(PollReturns) /\ WF_vars(Round) /\ SF_vars(TimePasses)

-----------------------------------------------------------------------------
(* Properties. *)

Slots == [fd : Fds, events : SUBSET Dirs, revents : SUBSET (Events \cup {"nval"})]
FdStates == [idx : Nat \ {0}, cb : [Dirs -> 0..MaxOps], oneshot : [Dirs -> BOOLEAN]]

TypeOK ==
    /\ pollfds \in Seq(Slots)
    /\ DOMAIN state \subseteq Fds /\ state \in [DOMAIN state -> FdStates]
    /\ open \in SUBSET Fds
    /\ timecbs \in SUBSET Timeouts /\ ops \in 0..MaxOps
    /\ \A e \in timecbs : e.nr <= ops
    /\ clock \in Times /\ now \in Times
    /\ pc \in {"idle", "in", "out", "cbin", "cbout", "time", "times", "cbtime", "trim", "swap", "aborted"}
    /\ i \in Nat /\ r \in Nat /\ maxpoll \in Nat
    /\ cur \in Timeouts \cup {End}
    /\ due \in SUBSET (1..ops) /\ spent \in SUBSET (1..ops)
    /\ thrown \in 0..MaxThrows /\ unswept \in BOOLEAN

\* state_ and pollfds_ point to each other, so that no at() throws and the
\* assertion of fd_cb_helper holds; poll(2) is asked for exactly the events
\* that have a callback; the loops stay inside the vector, and the iterator of
\* run_timeouts is valid whatever the callbacks cancel, reschedule and set.
TableConsistent ==
    /\ TypeOK
    /\ DOMAIN state = {pollfds[k].fd : k \in DOMAIN pollfds}
    /\ \A f \in DOMAIN state :
          /\ state[f].idx \in DOMAIN pollfds
          /\ pollfds[state[f].idx].fd = f
          /\ pollfds[state[f].idx].events = {d \in Dirs : state[f].cb[d] # None}
    /\ Cardinality(DOMAIN state) = Len(pollfds)
    /\ pc \in {"out", "cbin", "cbout", "swap"} => i \in DOMAIN pollfds
    /\ pc = "swap" => i < Len(pollfds)
    /\ pc \in {"times", "cbtime"} => cur \in timecbs \cup {End}

\* A one-shot callback that has run is gone.
OneShotsRunOnce ==
    \A f \in DOMAIN state : \A d \in Dirs : state[f].cb[d] \notin spent

\* When the loop of poll ends, every callback that was ready has run, unless
\* another callback of the round removed or replaced it; and a one-shot one runs no more.
ReadyCallbacksRun ==
    /\ pc \in {"time", "times", "cbtime", "trim", "swap"} => due = {}
    /\ OneShotsRunOnce

NoDeadSlots == \A k \in DOMAIN pollfds : pollfds[k].events # {}

\* A round that ends by itself leaves no slot without a callback, whatever came before.
Consolidates == [][(pc \in {"trim", "swap"} /\ pc' = "idle") => NoDeadSlots']_vars

\* Outside poll there is a slot without a callback only if one was left so outside poll, or an
\* exception left a round; and in no other case fails the assertion of pollset.cc:230,
\* that poll(2) is given no descriptor that is not open: one that a callback lets go of and
\* closes is dropped by consolidate before the next poll(2), also when its number is reused.
InvalidOnlyUnswept ==
    ~unswept => pc # "aborted" /\ (pc = "idle" => NoDeadSlots)

\* Every timeout is run, cancelled or rescheduled.
TimeoutsRun ==
    \A n \in 1..MaxOps :
        (\E e \in timecbs : e.nr = n) ~> (pc = "aborted" \/ \A e \in timecbs : e.nr # n)

\* pollset.cc:230: assert (!(pfp->revents & POLLNVAL)).
NoInvalidPolled == pc # "aborted"
=============================================================================
