----------------------------- MODULE PollsetPlus -----------------------------
(***************************************************************************)
(* The part of cxx/xdrpp/xdrpp/pollset.cc that other threads and signal    *)
(* handlers use: callbacks injected into a poll loop, asynchronous tasks,  *)
(* the self-pipe that wakes poll(2), and signals, which belong to one      *)
(* pollset_plus of the process at a time and can be stolen.                *)
(*                                                                         *)
(* Every pollset_plus has a thread that polls it and calls its methods.    *)
(* Workers are the other threads: each injects one callback, its own or    *)
(* the completion of an asynchronous task.  A signal handler runs on any   *)
(* thread, one shared-memory access per step.  The application destroys a  *)
(* pollset_plus only outside poll and when no worker uses it any more.     *)
(***************************************************************************)
EXTENDS Integers, Sequences, FiniteSets, SequencesExt

CONSTANTS
    Sets,         \* the instances of pollset_plus; each stands for its thread too
    Workers,      \* threads that inject a callback
    Target,       \* worker |-> the instance it injects into
    Sigs,         \* signal numbers
    Uncatchable,  \* signals for which sigaction fails
    PipeCap,      \* bytes that fit into a self-pipe
    MaxHandlers,  \* bound on the signals delivered
    MaxEvents     \* bound on what happens from outside: calls, injections,
                  \* signals and exceptions together

None == 0                   \* nullptr, and the owner of a lock that is free

ASSUME ConstantsAssumption ==
    /\ Target \in [Workers -> Sets] /\ None \notin Sets \cup Workers
    /\ Sigs \subseteq Nat \ {0} /\ Uncatchable \subseteq Sigs
    /\ PipeCap \in Nat \ {0} /\ MaxHandlers \in Nat /\ MaxEvents \in Nat

Handlers == 1..MaxHandlers

VARIABLES
    alive,       \* instances that are not destroyed
    pipe,        \* self-pipe: [n, sig], number of bytes, and is one of them Signal
    asyncs,      \* async_cbs_
    apending,    \* async_pending_
    alock,       \* owner of async_cbs_lock_
    nasync,      \* the tasks that nasync_ counts
    sigpending,  \* signal_pending_
    pc,          \* where the thread of an instance is, see TypeOK
    cbs,         \* cbs of run_pending_asyncs, without those that have run
    todo,        \* pending of run_subtype_handlers
    op,          \* [do, sig, dtor]: what the thread is doing inside a call or a scan
                 \* of the signals, and is the call the destructor's
    slock,       \* owner of signal_owners_lock
    owner,       \* signal_owners
    flag,        \* signal_flags
    caught,      \* signals whose disposition is signal_handler
    sigcbs,      \* signal_cbs_ of all instances: <<instance, signal>>
    hnd,         \* running invocations of signal_handler
    worker,      \* where a worker is, see TypeOK
    events,      \* counter for the bound
    order,       \* instance |-> workers in the order of their injection
    past,        \* instance |-> workers whose callbacks are over, in that order
    ends,        \* and how each of them ended: it "ran", it "threw", or it was "lost"
    fate         \* what has happened: "dropped" a Signal byte that did not fit,
                 \* "stray" a wake-up of a destroyed instance, "stolen" a signal
                 \* whose handler had yet to wake its old owner, "overwritten" a
                 \* flag that a handler had set and not yet marked, "raised" a
                 \* signal with its default action, "failed" a sigaction,
                 \* "thrown" a callback

loopVars == <<pc, cbs, todo, op>>
asyncVars == <<asyncs, apending, alock, nasync>>
history == <<past, ends>>
sigVars == <<slock, owner, flag, caught, sigcbs>>
vars == <<alive, pipe, asyncVars, sigpending, loopVars, sigVars, hnd, worker, events, order, history, fate>>

\* Something from outside.
Event == events < MaxEvents /\ events' = events + 1

NoOp == [do |-> "none", sig |-> None, dtor |-> FALSE]

Init ==
    /\ alive = Sets
    /\ pipe = [p \in Sets |-> [n |-> 0, sig |-> FALSE]]
    /\ asyncs = [p \in Sets |-> <<>>] /\ apending = [p \in Sets |-> FALSE]
    /\ alock = [p \in Sets |-> None] /\ nasync = [p \in Sets |-> {}]
    /\ sigpending = [p \in Sets |-> FALSE]
    /\ pc = [p \in Sets |-> "idle"] /\ cbs = [p \in Sets |-> <<>>]
    /\ todo = [p \in Sets |-> {}] /\ op = [p \in Sets |-> NoOp]
    /\ slock = None /\ owner = [s \in Sigs |-> None] /\ flag = [s \in Sigs |-> 0]
    /\ caught = {} /\ sigcbs = {}
    /\ hnd = [h \in Handlers |-> [at |-> "new", sig |-> None, ps |-> None]]
    /\ worker = [w \in Workers |-> "new"]
    /\ events = 0
    /\ order = [p \in Sets |-> <<>>] /\ fate = {}
    /\ past = [p \in Sets |-> <<>>] /\ ends = [p \in Sets |-> <<>>]

-----------------------------------------------------------------------------
(* wake: one byte into the non-blocking self-pipe. *)

Written(p, sig) ==
    IF pipe[p].n < PipeCap
    THEN [pipe EXCEPT ![p] = [n |-> @.n + 1, sig |-> @.sig \/ sig]]
    ELSE pipe

\* A byte that does not fit is lost; it matters if it was the only Signal.
Dropped(p, sig) == IF sig /\ pipe[p].n = PipeCap /\ ~pipe[p].sig THEN {"dropped"} ELSE {}

-----------------------------------------------------------------------------
(* Workers: inject_cb, and async_task::start which ends in it. *)

\* Other threads do not use an instance whose destructor has started.
Usable(p) == p \in alive /\ ~op[p].dtor

\* async on the thread of p: the task is counted, and runs in a new thread.
Async(w) ==
    LET p == Target[w] IN
    /\ Event
    /\ worker[w] = "new" /\ p \in alive /\ pc[p] \in {"idle", "cb", "sigcb"} /\ op[p] = NoOp
    /\ worker' = [worker EXCEPT ![w] = "work"]
    /\ nasync' = [nasync EXCEPT ![p] = @ \cup {w}]
    /\ UNCHANGED <<alive, pipe, asyncs, apending, alock, sigpending, loopVars, sigVars, hnd, order, history, fate>>

\* inject_cb: under the lock, append, and wake the loop unless that has been done.
Inject(w) ==
    LET p == Target[w] IN
    /\ \/ worker[w] = "new" /\ Usable(p) /\ Event
       \/ worker[w] = "work" /\ UNCHANGED events
    /\ alock[p] = None
    /\ asyncs' = [asyncs EXCEPT ![p] = Append(@, w)]
    /\ order' = [order EXCEPT ![p] = Append(@, w)]
    /\ IF apending[p]
       THEN worker' = [worker EXCEPT ![w] = "done"] /\ UNCHANGED <<apending, alock>>
       ELSE /\ worker' = [worker EXCEPT ![w] = "wake"]
            /\ apending' = [apending EXCEPT ![p] = TRUE]
            /\ alock' = [alock EXCEPT ![p] = w]
    /\ UNCHANGED <<alive, pipe, nasync, sigpending, loopVars, sigVars, hnd, history, fate>>

InjectWake(w) ==
    LET p == Target[w]
    IN  /\ worker[w] = "wake"
        /\ worker' = [worker EXCEPT ![w] = "done"]
        /\ pipe' = Written(p, FALSE)
        /\ alock' = [alock EXCEPT ![p] = None]
        /\ UNCHANGED <<alive, asyncs, apending, nasync, sigpending, loopVars, sigVars, hnd, events, order, history, fate>>

-----------------------------------------------------------------------------
(* A round of poll, as far as this class takes part in it. *)

\* poll(2) reports the self-pipe, and run_pending_asyncs reads until it is empty ...
Drain(p) ==
    /\ p \in alive /\ pc[p] = "idle" /\ op[p] = NoOp /\ pipe[p].n > 0
    /\ pc' = [pc EXCEPT ![p] = "swap"]
    /\ sigpending' = [sigpending EXCEPT ![p] = @ \/ pipe[p].sig]
    /\ pipe' = [pipe EXCEPT ![p] = [n |-> 0, sig |-> FALSE]]
    /\ UNCHANGED <<alive, asyncVars, cbs, todo, op, sigVars, hnd, worker, events, order, history, fate>>

Taken_KeepsPending(p) == UNCHANGED apending

Taken(p) == apending' = [apending EXCEPT ![p] = FALSE]

Swapped_Copied(p) == UNCHANGED asyncs

Swapped(p) == asyncs' = [asyncs EXCEPT ![p] = <<>>]

\* ... and then takes the callbacks, under the lock.
Swap(p) ==
    /\ pc[p] = "swap" /\ alock[p] = None
    /\ pc' = [pc EXCEPT ![p] = "run"]
    /\ cbs' = [cbs EXCEPT ![p] = asyncs[p]]
    /\ Swapped(p) /\ Taken(p)
    /\ UNCHANGED <<alive, pipe, alock, nasync, sigpending, todo, op, sigVars, hnd, worker, events, order, history, fate>>

\* A callback is called; done() of a task counts it down first.
RunCb(p) ==
    /\ pc[p] = "run" /\ cbs[p] # <<>>
    /\ past' = [past EXCEPT ![p] = Append(@, Head(cbs[p]))]
    /\ ends' = [ends EXCEPT ![p] = Append(@, "ran")]
    /\ nasync' = [nasync EXCEPT ![p] = @ \ {Head(cbs[p])}]
    /\ cbs' = [cbs EXCEPT ![p] = Tail(@)]
    /\ pc' = [pc EXCEPT ![p] = "cb"]
    /\ UNCHANGED <<alive, pipe, asyncs, apending, alock, sigpending, todo, op, sigVars, hnd, worker, events, order, fate>>

Return(p) ==
    /\ op[p] = NoOp
    /\ \/ pc[p] = "cb" /\ pc' = [pc EXCEPT ![p] = "run"] /\ UNCHANGED slock
       \/ pc[p] = "sigcb" /\ slock = None /\ slock' = p /\ pc' = [pc EXCEPT ![p] = "sigs"]
    /\ UNCHANGED <<alive, pipe, asyncVars, sigpending, cbs, todo, op, owner, flag, caught, sigcbs, hnd, worker, events, order, history, fate>>

RunEnd(p) ==
    /\ pc[p] = "run" /\ cbs[p] = <<>>
    /\ pc' = [pc EXCEPT ![p] = IF sigpending[p] THEN "sub" ELSE "idle"]
    /\ UNCHANGED <<alive, pipe, asyncVars, sigpending, cbs, todo, op, sigVars, hnd, worker, events, order, history, fate>>

\* How the callbacks of a round end when the one that runs throws.
Thrown(p) == [ends[p] EXCEPT ![Len(ends[p])] = "threw"] \o [i \in DOMAIN cbs[p] |-> "lost"]

\* The destructor of cleanup hands the rest to inject_cb_vec, which moves it to
\* async_cbs_.end() without making room: the callbacks are not in the vector
\* (or the process dies of the write, which is not followed further).
ThrowCb(p) ==
    /\ pc[p] = "cb" /\ op[p] = NoOp /\ Event
    /\ pc' = [pc EXCEPT ![p] = "idle"] /\ cbs' = [cbs EXCEPT ![p] = <<>>]
    /\ past' = [past EXCEPT ![p] = @ \o cbs[p]] /\ ends' = [ends EXCEPT ![p] = Thrown(p)]
    /\ fate' = fate \cup {"thrown"}
    /\ IF cbs[p] = <<>>
       THEN UNCHANGED <<pipe, apending>>
       ELSE /\ alock[p] = None
            /\ apending' = [apending EXCEPT ![p] = TRUE]
            /\ pipe' = IF apending[p] THEN pipe ELSE Written(p, FALSE)
    /\ UNCHANGED <<alive, asyncs, alock, nasync, sigpending, todo, op, sigVars, hnd, worker, order>>

-----------------------------------------------------------------------------
(* run_subtype_handlers. *)

\* poll(2) returns for another reason: only a signal noted before is handled.
OtherRound(p) ==
    /\ p \in alive /\ pc[p] = "idle" /\ op[p] = NoOp /\ sigpending[p]
    /\ pc' = [pc EXCEPT ![p] = "sub"]
    /\ UNCHANGED <<alive, pipe, asyncVars, sigpending, cbs, todo, op, sigVars, hnd, worker, events, order, history, fate>>

SubLock(p) ==
    /\ pc[p] = "sub" /\ slock = None
    /\ slock' = p
    /\ pc' = [pc EXCEPT ![p] = "scan"]
    /\ op' = [op EXCEPT ![p] = [NoOp EXCEPT !.do = "scan"]]
    /\ UNCHANGED <<alive, pipe, asyncVars, sigpending, cbs, todo, owner, flag, caught, sigcbs, hnd, worker, events, order, history, fate>>

First(S) == CHOOSE s \in S : \A t \in S : s <= t
Own(p) == {s \in Sigs : <<p, s>> \in sigcbs}

\* The loop over signal_cbs_ reads one flag after the other; op.sig is the last.
Unscanned(p) == {s \in Own(p) : op[p].sig < s}

SubScan(p) ==
    /\ pc[p] = "scan"
    /\ IF Unscanned(p) = {}
       THEN /\ pc' = [pc EXCEPT ![p] = "sigs"] /\ op' = [op EXCEPT ![p] = NoOp]
            /\ UNCHANGED todo
       ELSE LET s == First(Unscanned(p))
            IN  /\ op' = [op EXCEPT ![p].sig = s]
                /\ todo' = [todo EXCEPT ![p] = @ \cup {t \in {s} : flag[t] # 0}]
                /\ UNCHANGED pc
    /\ UNCHANGED <<alive, pipe, asyncVars, sigpending, cbs, sigVars, hnd, worker, events, order, history, fate>>

\* A pending signal: skipped when it has been stolen, else its handler is waited for.
SubSpin(p) ==
    /\ pc[p] = "sigs" /\ todo[p] # {}
    /\ LET s == First(todo[p])
       IN  IF s \in Own(p)
           THEN flag[s] # 1 /\ pc' = [pc EXCEPT ![p] = "clear"] /\ UNCHANGED todo
           ELSE todo' = [todo EXCEPT ![p] = @ \ {s}] /\ UNCHANGED pc
    /\ UNCHANGED <<alive, pipe, asyncVars, sigpending, cbs, op, sigVars, hnd, worker, events, order, history, fate>>

InFlight(s) == {h \in Handlers : hnd[h].sig = s /\ hnd[h].at \in {"set", "wake", "mark"}}

\* A store to the flag of s hides the 1 of a handler that is under way.
Overwritten(hs) == IF hs # {} THEN {"overwritten"} ELSE {}

\* The flag is cleared, and the callback is called without the lock.
SubClear(p) ==
    /\ pc[p] = "clear"
    /\ LET s == First(todo[p])
       IN  /\ flag' = [flag EXCEPT ![s] = 0] /\ fate' = fate \cup Overwritten(InFlight(s))
           /\ todo' = [todo EXCEPT ![p] = @ \ {s}]
    /\ slock' = None /\ pc' = [pc EXCEPT ![p] = "sigcb"]
    /\ UNCHANGED <<alive, pipe, asyncVars, sigpending, cbs, op, owner, caught, sigcbs, hnd, worker, events, order, history>>

SubEnd(p) ==
    /\ pc[p] = "sigs" /\ todo[p] = {}
    /\ sigpending' = [sigpending EXCEPT ![p] = FALSE]
    /\ slock' = None /\ pc' = [pc EXCEPT ![p] = "idle"]
    /\ UNCHANGED <<alive, pipe, asyncVars, cbs, todo, op, owner, flag, caught, sigcbs, hnd, worker, events, order, history, fate>>

\* A signal callback throws: signal_pending_ stays set.
ThrowSig(p) ==
    /\ pc[p] = "sigcb" /\ op[p] = NoOp /\ Event
    /\ fate' = fate \cup {"thrown"}
    /\ pc' = [pc EXCEPT ![p] = "idle"] /\ todo' = [todo EXCEPT ![p] = {}]
    /\ UNCHANGED <<alive, pipe, asyncVars, sigpending, cbs, op, sigVars, hnd, worker, order, history>>

-----------------------------------------------------------------------------
(* Calls of the thread of p, outside poll or in a callback. *)

App(p) ==
    /\ p \in alive /\ pc[p] \in {"idle", "cb", "sigcb"} /\ op[p] = NoOp
    /\ Event
    /\ UNCHANGED <<alive, asyncVars, sigpending, pc, cbs, todo, hnd, worker, order, history>>

Wake(p) ==
    /\ App(p)
    /\ pipe' = Written(p, FALSE)
    /\ UNCHANGED <<op, sigVars, fate>>

\* Handlers that have read the owner of s and not woken it yet.
Waking(s) == {h \in Handlers : hnd[h].sig = s /\ hnd[h].at = "wake"}

\* signal_cb(s, cb) on p, up to the fence.
SignalCb(p, s) ==
    /\ App(p) /\ slock = None
    /\ sigcbs' = (sigcbs \cup {<<p, s>>}) \ IF owner[s] \in {None, p} THEN {} ELSE {<<owner[s], s>>}
    /\ IF owner[s] = p
       THEN UNCHANGED <<op, slock, owner, caught, fate>>
       ELSE IF owner[s] = None /\ s \in Uncatchable
       THEN fate' = fate \cup {"failed"} /\ UNCHANGED <<op, slock, owner, caught>>
       ELSE /\ owner' = [owner EXCEPT ![s] = p] /\ caught' = caught \cup {s}
            /\ slock' = p /\ op' = [op EXCEPT ![p] = [do |-> "rewake", sig |-> s, dtor |-> FALSE]]
            /\ fate' = fate \cup IF owner[s] # None /\ Waking(s) # {} THEN {"stolen"} ELSE {}
    /\ UNCHANGED <<pipe, flag>>

Rewake_Never(p, s) == UNCHANGED pipe

Rewake(p, s) == pipe' = IF flag[s] # 0 THEN Written(p, TRUE) ELSE pipe

SignalCbEnd(p) ==
    /\ op[p].do = "rewake"
    /\ Rewake(p, op[p].sig)
    /\ fate' = fate \cup IF flag[op[p].sig] # 0 THEN Dropped(p, TRUE) ELSE {}
    /\ slock' = None /\ op' = [op EXCEPT ![p] = NoOp]
    /\ UNCHANGED <<alive, asyncVars, sigpending, pc, cbs, todo, owner, flag, caught, sigcbs, hnd, worker, events, order, history>>

\* erase_signal_cb(s), up to its spin loop.
Erase(s) ==
    /\ caught' = caught \ {s}
    /\ owner' = [owner EXCEPT ![s] = None]
    /\ sigcbs' = sigcbs \ {<<owner[s], s>>}

\* signal_cb(s) removes the callback of whoever owns the signal.
RemoveSignalCb(p, s) ==
    /\ App(p) /\ slock = None
    /\ owner[s] # None
    /\ Erase(s)
    /\ slock' = p /\ op' = [op EXCEPT ![p] = [do |-> "spin", sig |-> s, dtor |-> FALSE]]
    /\ UNCHANGED <<pipe, flag, fate>>

\* The rest of erase_signal_cb: wait for the handler ...
Spun_Skipped(s) == TRUE

Spun(s) == flag[s] # 1

EraseSpin(p) ==
    /\ op[p].do = "spin" /\ Spun(op[p].sig)
    /\ op' = [op EXCEPT ![p].do = "test"]
    /\ UNCHANGED <<alive, pipe, asyncVars, sigpending, pc, cbs, todo, sigVars, hnd, worker, events, order, history, fate>>

\* erase_signal_cb returns: signal_cb gives the lock up, the destructor goes on.
Erased(p) ==
    /\ op' = [op EXCEPT ![p] = IF @.dtor THEN [do |-> "destroy", sig |-> None, dtor |-> TRUE] ELSE NoOp]
    /\ slock' = IF op[p].dtor THEN slock ELSE None

\* ... test whether the callback has seen the signal ...
EraseTest(p) ==
    /\ op[p].do = "test"
    /\ IF flag[op[p].sig] # 0
       THEN op' = [op EXCEPT ![p].do = "clear"] /\ UNCHANGED slock
       ELSE Erased(p)
    /\ UNCHANGED <<alive, pipe, asyncVars, sigpending, pc, cbs, todo, owner, flag, caught, sigcbs, hnd, worker, events, order, history, fate>>

\* ... and if it has not, clear the flag and raise the signal again.  That the spin
\* has waited for a handler that is to wake an owner is no excuse for WakesLive.
EraseClear(p) ==
    /\ op[p].do = "clear"
    /\ flag' = [flag EXCEPT ![op[p].sig] = 0]
    /\ fate' = fate \cup {"raised"} \cup Overwritten(InFlight(op[p].sig) \ Waking(op[p].sig))
    /\ Erased(p)
    /\ UNCHANGED <<alive, pipe, asyncVars, sigpending, pc, cbs, todo, owner, caught, sigcbs, hnd, worker, events, order, history>>

-----------------------------------------------------------------------------
(* ~pollset_plus. *)

Destroy(p) ==
    /\ p \in alive /\ pc[p] = "idle" /\ op[p] = NoOp /\ slock = None
    /\ \A w \in Workers : Target[w] = p /\ worker[w] # "new" => w \in Range(past[p])
    /\ slock' = p /\ op' = [op EXCEPT ![p] = [do |-> "destroy", sig |-> None, dtor |-> TRUE]]
    /\ UNCHANGED <<alive, pipe, asyncVars, sigpending, pc, cbs, todo, owner, flag, caught, sigcbs, hnd, worker, events, order, history, fate>>

\* The loop calls erase_signal_cb for the first entry until none is left; for a
\* signal without an owner that does nothing, and the loop never ends.
DestroyErase(p) ==
    /\ op[p].do = "destroy" /\ Own(p) # {}
    /\ LET s == First(Own(p))
       IN  /\ owner[s] # None /\ Erase(s)
           /\ op' = [op EXCEPT ![p] = [do |-> "spin", sig |-> s, dtor |-> TRUE]]
    /\ UNCHANGED <<alive, pipe, asyncVars, sigpending, pc, cbs, todo, slock, flag, hnd, worker, events, order, history, fate>>

DestroyEnd(p) ==
    /\ op[p].do = "destroy" /\ Own(p) = {}
    /\ slock' = None /\ op' = [op EXCEPT ![p] = NoOp]
    /\ alive' = alive \ {p}
    /\ pipe' = [pipe EXCEPT ![p] = [n |-> 0, sig |-> FALSE]]
    /\ UNCHANGED <<asyncVars, sigpending, pc, cbs, todo, owner, flag, caught, sigcbs, hnd, worker, events, order, history, fate>>

-----------------------------------------------------------------------------
(* signal_handler, on whatever thread the signal is delivered to. *)

HandlerStep(h, at) ==
    /\ hnd' = [hnd EXCEPT ![h].at = at]
    /\ UNCHANGED <<alive, asyncVars, sigpending, loopVars, slock, owner, caught, sigcbs, worker, events, order, history>>

\* The test at the start: a signal whose flag is set needs nothing more.
Deliver(h, s) ==
    /\ Event
    /\ hnd[h].at = "new" /\ s \in caught /\ flag[s] = 0
    /\ \A g \in 1..(h - 1) : hnd[g].at # "new"
    /\ hnd' = [hnd EXCEPT ![h] = [at |-> "claim", sig |-> s, ps |-> None]]
    /\ UNCHANGED <<alive, pipe, asyncVars, sigpending, loopVars, sigVars, worker, order, history, fate>>

Claim(h) ==
    /\ hnd[h].at = "claim"
    /\ HandlerStep(h, "set")
    /\ flag' = [flag EXCEPT ![hnd[h].sig] = 1]
    /\ UNCHANGED <<pipe, fate>>

ReadOwner(h) ==
    /\ hnd[h].at = "set"
    /\ hnd' = [hnd EXCEPT ![h].ps = owner[hnd[h].sig],
                          ![h].at = IF owner[hnd[h].sig] = None THEN "mark" ELSE "wake"]
    /\ UNCHANGED <<alive, pipe, asyncVars, sigpending, loopVars, sigVars, worker, events, order, history, fate>>

HandlerWake(h) ==
    LET p == hnd[h].ps
    IN  /\ hnd[h].at = "wake"
        /\ HandlerStep(h, "mark")
        /\ IF p \in alive
           THEN pipe' = Written(p, TRUE) /\ fate' = fate \cup Dropped(p, TRUE)
           ELSE fate' = fate \cup {"stray"} /\ UNCHANGED pipe
        /\ UNCHANGED flag

Mark(h) ==
    /\ hnd[h].at = "mark"
    /\ hnd' = [hnd EXCEPT ![h] = [at |-> "done", sig |-> None, ps |-> None]]
    /\ flag' = [flag EXCEPT ![hnd[h].sig] = 2]
    /\ fate' = fate \cup Overwritten(InFlight(hnd[h].sig) \ {h})
    /\ UNCHANGED <<alive, pipe, asyncVars, sigpending, loopVars, slock, owner, caught, sigcbs, worker, events, order, history>>

-----------------------------------------------------------------------------
WorkerStep(w) == InjectWake(w) \/ (worker[w] = "work" /\ Inject(w))

LoopStep(p) ==
    \/ Drain(p) \/ Swap(p) \/ RunCb(p) \/ Return(p) \/ RunEnd(p)
    \/ SubLock(p) \/ SubScan(p) \/ SubSpin(p) \/ SubClear(p) \/ SubEnd(p)
    \/ SignalCbEnd(p) \/ EraseSpin(p) \/ EraseTest(p) \/ EraseClear(p) \/ DestroyErase(p) \/ DestroyEnd(p)

HandlerRuns(h) == Claim(h) \/ ReadOwner(h) \/ HandlerWake(h) \/ Mark(h)

Next ==
    \/ \E w \in Workers : Async(w) \/ Inject(w) \/ InjectWake(w)
    \/ \E p \in Sets : LoopStep(p) \/ OtherRound(p) \/ ThrowCb(p) \/ ThrowSig(p) \/ Wake(p) \/ Destroy(p)
    \/ \E p \in Sets, s \in Sigs : SignalCb(p, s) \/ RemoveSignalCb(p, s)
    \/ \E h \in Handlers : HandlerRuns(h) \/ \E s \in Sigs : Deliver(h, s)

\* Threads are scheduled, handlers return, and run() calls poll again and again:
\* pending() is always true, because the self-pipe has a slot.
Spec ==
    /\ Init /\ [][Next]_vars
    /\ \A w \in Workers : WF_vars(WorkerStep(w))
    /\ \A p \in Sets : WF_vars(LoopStep(p))
    /\ \A h \in Handlers : WF_vars(HandlerRuns(h))

-----------------------------------------------------------------------------
(* Properties. *)

Doings == {"none", "scan", "rewake", "spin", "test", "clear", "destroy"}
Ops == [do : Doings, sig : Sigs \cup {None}, dtor : BOOLEAN]
Places == {"idle", "swap", "run", "cb", "sub", "scan", "sigs", "clear", "sigcb"}
Fates == {"dropped", "stray", "stolen", "overwritten", "raised", "failed", "thrown"}

TypeOK ==
    /\ alive \in SUBSET Sets
    /\ pipe \in [Sets -> [n : 0..PipeCap, sig : BOOLEAN]]
    /\ asyncs \in [Sets -> Seq(Workers)] /\ apending \in [Sets -> BOOLEAN]
    /\ alock \in [Sets -> Workers \cup {None}] /\ nasync \in [Sets -> SUBSET Workers]
    /\ sigpending \in [Sets -> BOOLEAN]
    /\ pc \in [Sets -> Places]
    /\ cbs \in [Sets -> Seq(Workers)] /\ todo \in [Sets -> SUBSET Sigs] /\ op \in [Sets -> Ops]
    /\ slock \in Sets \cup {None} /\ owner \in [Sigs -> Sets \cup {None}]
    /\ flag \in [Sigs -> 0..2] /\ caught \in SUBSET Sigs /\ sigcbs \in SUBSET (Sets \X Sigs)
    /\ hnd \in [Handlers -> [at : {"new", "claim", "set", "wake", "mark", "done"},
                             sig : Sigs \cup {None}, ps : Sets \cup {None}]]
    /\ worker \in [Workers -> {"new", "work", "wake", "done"}]
    /\ events \in 0..MaxEvents
    /\ order \in [Sets -> Seq(Workers)] /\ past \in [Sets -> Seq(Workers)]
    /\ ends \in [Sets -> Seq({"ran", "threw", "lost"})]
    /\ fate \in SUBSET Fates

\* The callbacks injected into an instance end in the order of their injection,
\* each once, and the others wait in that order.  Each is run, but for those
\* directly behind one that threw: inject_cb_vec loses them.
InjectedInOrder ==
    \A p \in Sets :
        /\ order[p] = past[p] \o cbs[p] \o asyncs[p]
        /\ Len(ends[p]) = Len(past[p])
        /\ \A i \in DOMAIN ends[p] : ends[p][i] = "lost" => i > 1 /\ ends[p][i - 1] # "ran"

\* Every injected callback is run or lost in that way, whatever the moment of its
\* injection, unless a thread holds signal_owners_lock for ever in the destructor of an
\* instance for which sigaction had failed.
InjectedRun ==
    \A w \in Workers : worker[w] = "done" ~> w \in Range(past[Target[w]]) \/ "failed" \in fate

\* The 1 in signal_flags protects the owner that a handler has read from being
\* destroyed before it is woken, if nobody else stores to the flag meanwhile and
\* the signal is not stolen from that owner (and the variables keep their types).
WakesLive ==
    /\ TypeOK
    /\ "stray" \in fate => {"stolen", "overwritten"} \cap fate # {}

\* A signal that was delivered is handled or raised again by its removal,
\* whoever owns it by then, unless a callback threw, the self-pipe was full, the flag
\* of a handler under way was overwritten, or a sigaction had failed.
SignalsHandled ==
    \A s \in Sigs : flag[s] = 2 /\ owner[s] # None ~>
        flag[s] = 0 \/ owner[s] = None \/ {"thrown", "dropped", "overwritten", "failed"} \cap fate # {}
=============================================================================
