----------------------------- MODULE RemoteCalls -----------------------------
(***************************************************************************)
(* What the clients and the servers of remote calls can count on, whatever *)
(* happens to connections and handlers: a call is executed once at most,   *)
(* not before it is made, and is concluded once at most; it succeeds only  *)
(* after it was executed.  A call that failed may still be executed later. *)
(***************************************************************************)
EXTENDS Naturals, Sequences

CONSTANTS MaxCalls,  \* bound on the calls
          Statuses   \* what a caller can be told, but for the failure of the network

VARIABLES made,      \* number of calls made
          underway,  \* calls that may yet be executed
          run,       \* calls that have been executed
          told       \* call |-> what the caller was told

Init ==
    /\ made = 0 /\ underway = {} /\ run = {}
    /\ told = [id \in 1..MaxCalls |-> <<>>]

Make ==
    /\ made < MaxCalls /\ made' = made + 1
    /\ underway' = underway \cup {made'}
    /\ UNCHANGED <<run, told>>

Execute(id) ==
    /\ underway' = underway \ {id} /\ run' = run \cup {id}
    /\ UNCHANGED <<made, told>>

\* Calls that are refused, that cannot be read, or whose connection is closed.
Lose(ids) ==
    /\ underway' = underway \ ids
    /\ UNCHANGED <<made, run, told>>

\* The callback of an asynchronous client may throw, and then hears GARBAGE_RES as well.
Answer(id, status) ==
    /\ told[id] = <<>>
    /\ status = "SUCCESS" => id \in run
    /\ \E rs \in {<<status>>, <<status, "GARBAGE_RES">>} : told' = [told EXCEPT ![id] = rs]
    /\ UNCHANGED <<made, underway, run>>

Fail(ids) ==
    /\ \A id \in ids : told[id] = <<>>
    /\ told' = [id \in 1..MaxCalls |-> IF id \in ids THEN <<"NETWORK_ERROR">> ELSE told[id]]
    /\ UNCHANGED <<made, underway, run>>

Next ==
    \/ Make
    \/ \E id \in underway : Execute(id)
    \/ \E ids \in SUBSET underway : Lose(ids)
    \/ \E id \in 1..made, status \in Statuses : Answer(id, status)
    \/ \E ids \in SUBSET (1..made) : Fail(ids)

Spec == Init /\ [][Next]_<<made, underway, run, told>>
=============================================================================
