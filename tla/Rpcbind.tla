------------------------------- MODULE Rpcbind -------------------------------
(***************************************************************************)
(* Registration with the rpcbind daemon, and looking servers up there      *)
(* (cxx/xdrpp/xdrpp/rpcbind.cc, with the connections of socket.cc and the  *)
(* synchronous calls of srpc.cc that it makes).                            *)
(*                                                                         *)
(* The daemon is external: it keeps one port per program, version and      *)
(* network, refuses to set one that is there, and may die and come back    *)
(* empty.  It need not listen on every network.  Server processes start,   *)
(* register, exit and are killed; clients look for a server on every       *)
(* address of the host in turn.                                            *)
(***************************************************************************)
EXTENDS Integers, Sequences

CONSTANTS
    Servers,     \* server processes of one program and version
    Net,         \* server |-> the network it listens on
    Addresses,   \* the networks in the order in which getaddrinfo lists them
    Clients,     \* processes that look the program up, once each
    FirstPort,   \* the port the system gives out first; the others follow
    MaxPort,     \* the last one it gives out, a bound
    MaxFaults    \* bound on the processes killed, and on the deaths of the daemon

Nets == {Addresses[i] : i \in DOMAIN Addresses}
PortNumbers == {p \in Nat : 0 < p /\ p < 65536}

ASSUME ConstantsAssumption ==
    /\ Addresses \in Seq(Nets) \ {<<>>}      \* getaddrinfo lists one or fails
    /\ Net \in [Servers -> Nets]
    /\ {FirstPort, MaxPort} \subseteq PortNumbers /\ MaxFaults \in Nat

None == 0     \* no port
Empty == <<>> \* the universal address of a program that is not registered

VARIABLES
    reach,       \* the networks on which the daemon listens
    daemon,      \* whether it runs
    deaths,      \* how often it has died: a connection is to one of its lives
    table,       \* network |-> the universal address registered, or Empty
    pc,          \* server |-> "off", "connect", "unset", "set", "up" or "exit"
    link,        \* server |-> the life of the daemon it is connected to
    port,        \* server |-> the port it listens on, or None
    registered,  \* server |-> whether registered_services has an entry
    exited,      \* ports whose process has exited after its cleanup
    used,        \* the last port given out
    kills,       \* counter for the bound
    client       \* client |-> [at, i, link, port, steady]: what it does next, with
                 \* which address, the port it was told, and the networks on which
                 \* a server was there to be found all the time since it started

daemonVars == <<reach, daemon, deaths>>
serverVars == <<pc, link, port, registered, exited, used>>
vars == <<daemonVars, table, serverVars, kills, client>>

Init ==
    /\ reach \in SUBSET Nets /\ daemon \in BOOLEAN /\ deaths = 0
    /\ table = [n \in Nets |-> Empty]
    /\ pc = [p \in Servers |-> "off"] /\ port = [p \in Servers |-> None]
    /\ link = [p \in Servers |-> 0]
    /\ registered = [p \in Servers |-> FALSE]
    /\ exited = {} /\ used = FirstPort - 1 /\ kills = 0
    /\ client = [c \in Clients |-> [at |-> "new", i |-> 0, link |-> 0, port |-> None, steady |-> {}]]

-----------------------------------------------------------------------------
(* Universal addresses: the host, which is the same everywhere, and the two bytes *)
(* of the port.                                                                    *)

make_uaddr(p) == <<p \div 256, p % 256>>

parse_uaddr_port(u) ==
    IF u = Empty \/ \E b \in {u[1], u[2]} : b < 0 \/ b > 255 THEN -1
    ELSE 256 * u[1] + u[2]

-----------------------------------------------------------------------------
Reachable(n) == daemon /\ n \in reach
Connected(life) == daemon /\ life = deaths

\* A client that comes to network n now finds a server.
Working(n) == Reachable(n) /\ \E p \in Servers : port[p] # None /\ table[n] = make_uaddr(port[p])

\* What clients have left of steady after a step.
Observed == [c \in Clients |-> [client[c] EXCEPT !.steady = {n \in @ : Working(n)'}]]

-----------------------------------------------------------------------------
(* A server: tcp_listen, rpcbind_register, and run_cleanup at exit. *)

Listen(p) ==
    /\ pc[p] = "off" /\ used < MaxPort
    /\ used' = used + 1
    /\ port' = [port EXCEPT ![p] = used + 1]
    /\ pc' = [pc EXCEPT ![p] = "connect"]
    /\ UNCHANGED <<daemonVars, table, link, registered, exited, kills>>

\* tcp_connect to the daemon; every failure is an exception that ends the process.
Connect(p) ==
    /\ pc[p] = "connect"
    /\ pc' = [pc EXCEPT ![p] = IF Reachable(Net[p]) THEN "unset" ELSE "exit"]
    /\ link' = [link EXCEPT ![p] = deaths]
    /\ UNCHANGED <<daemonVars, table, port, registered, exited, used, kills>>

\* RPCBPROC_UNSET: whatever is registered goes, of whichever process.
Unset(p) ==
    /\ pc[p] = "unset"
    /\ pc' = [pc EXCEPT ![p] = IF Connected(link[p]) THEN "set" ELSE "exit"]
    /\ table' = IF Connected(link[p]) THEN [table EXCEPT ![Net[p]] = Empty] ELSE table
    /\ UNCHANGED <<daemonVars, link, port, registered, exited, used, kills>>

\* RPCBPROC_SET, and the entry in registered_services if it succeeds.
Entry_Missing(p) == registered
Entry(p) == [registered EXCEPT ![p] = TRUE]

Set(p) ==
    /\ pc[p] = "set"
    /\ IF Connected(link[p]) /\ table[Net[p]] = Empty
       THEN /\ table' = [table EXCEPT ![Net[p]] = make_uaddr(port[p])]
            /\ registered' = Entry(p)
            /\ pc' = [pc EXCEPT ![p] = "up"]
       ELSE /\ pc' = [pc EXCEPT ![p] = "exit"]
            /\ UNCHANGED <<table, registered>>
    /\ UNCHANGED <<daemonVars, link, port, exited, used, kills>>

Exit(p) ==
    /\ pc[p] = "up"
    /\ pc' = [pc EXCEPT ![p] = "exit"]
    /\ UNCHANGED <<daemonVars, table, link, port, registered, exited, used, kills>>

\* run_cleanup connects on any network, and unsets by program, version and network,
\* not by port; then the process is gone, and its port closed.
Cleanup(p) ==
    /\ pc[p] = "exit"
    /\ IF daemon /\ reach # {}
       THEN /\ table' = IF registered[p] THEN [table EXCEPT ![Net[p]] = Empty] ELSE table
            /\ exited' = exited \cup {port[p]}
       ELSE UNCHANGED <<table, exited>>
    /\ registered' = [registered EXCEPT ![p] = FALSE]
    /\ port' = [port EXCEPT ![p] = None]
    /\ pc' = [pc EXCEPT ![p] = "off"]
    /\ UNCHANGED <<daemonVars, link, used, kills>>

Kill(p) ==
    /\ pc[p] # "off" /\ kills < MaxFaults /\ kills' = kills + 1
    /\ pc' = [pc EXCEPT ![p] = "off"]
    /\ port' = [port EXCEPT ![p] = None]
    /\ registered' = [registered EXCEPT ![p] = FALSE]
    /\ UNCHANGED <<daemonVars, table, link, exited, used>>

-----------------------------------------------------------------------------
(* The daemon. *)

Die ==
    /\ daemon /\ deaths < MaxFaults /\ deaths' = deaths + 1
    /\ daemon' = FALSE
    /\ table' = [n \in Nets |-> Empty]
    /\ UNCHANGED <<reach, serverVars, kills>>

Boot ==
    /\ ~daemon
    /\ daemon' = TRUE
    /\ UNCHANGED <<reach, deaths, table, serverVars, kills>>

-----------------------------------------------------------------------------
(* A client: the loops of tcp_connect_rpc and of lookup_rpc. *)

Begin(c) ==
    /\ client[c].at = "new"
    /\ client' = [client EXCEPT ![c] = [@ EXCEPT !.at = "ask", !.i = 1, !.steady = {n \in Nets : Working(n)}]]
    /\ UNCHANGED <<daemonVars, table, serverVars, kills>>

\* The next address, or the exception "Could not obtain port from rpcbind".
Onward_GiveUp(k) == [k EXCEPT !.at = "refused"]
Onward(k) ==
    IF k.i < Len(Addresses) THEN [k EXCEPT !.at = "ask", !.i = @ + 1, !.port = None]
    ELSE [k EXCEPT !.at = "refused"]

\* tcp_connect1 to the daemon; make_uaddr throws for a socket that is not connected.
Ask(c) ==
    /\ client[c].at = "ask"
    /\ client' = [client EXCEPT ![c] = 
         IF Reachable(Addresses[@.i]) THEN [@ EXCEPT !.at = "getaddr", !.link = deaths] ELSE Onward(@)]
    /\ UNCHANGED <<daemonVars, table, serverVars, kills>>

\* RPCBPROC_GETADDR: an empty address gives no port; a connection that fails is an
\* xdr_runtime_error, which the loop does not catch.
GetAddr(c) ==
    LET n == Addresses[client[c].i] IN
    /\ client[c].at = "getaddr"
    /\ client' = [client EXCEPT ![c] =
         IF ~Connected(@.link) THEN [@ EXCEPT !.at = "threw"]
         ELSE IF parse_uaddr_port(table[n]) = -1 THEN Onward(@)
         ELSE [@ EXCEPT !.at = "dial", !.port = parse_uaddr_port(table[n])]]
    /\ UNCHANGED <<daemonVars, table, serverVars, kills>>

\* tcp_connect_rpc connects to the port, and goes on if that fails.
Dial(c) ==
    LET listening == \E p \in Servers : port[p] = client[c].port IN
    /\ client[c].at = "dial"
    /\ client' = [client EXCEPT ![c] = IF listening THEN [@ EXCEPT !.at = "connected"] ELSE Onward(@)]
    /\ UNCHANGED <<daemonVars, table, serverVars, kills>>

\* lookup_rpc returns the address.
Return(c) ==
    /\ client[c].at = "dial"
    /\ client' = [client EXCEPT ![c].at = "told"]
    /\ UNCHANGED <<daemonVars, table, serverVars, kills>>

ServerStep(p) == Connect(p) \/ Unset(p) \/ Set(p) \/ Cleanup(p)
ClientStep(c) == Ask(c) \/ GetAddr(c) \/ Dial(c) \/ Return(c)

Next ==
    \/ /\ \/ \E p \in Servers : Listen(p) \/ ServerStep(p) \/ Exit(p) \/ Kill(p)
          \/ Die \/ Boot
       /\ client' = Observed
    \/ \E c \in Clients : Begin(c) \/ ClientStep(c)

Spec == Init /\ [][Next]_vars

-----------------------------------------------------------------------------
(* Properties. *)

\* A server that was registered, listening and reachable on some address from the
\* beginning of a search to its end is not missed: the search goes on behind an address
\* that is refused, has no port or has a dead one -- but not behind a daemon that fails
\* between the connection and its answer.
FindsServer == \A c \in Clients : client[c].at = "refused" => client[c].steady = {}

\* rpcbind has no address of a process that has exited, be it that its registration was
\* replaced or failed, or another process registered in between.
ExitUnregisters == \A n \in Nets, p \in exited : table[n] # make_uaddr(p)
=============================================================================
