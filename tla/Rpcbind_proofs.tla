--------------------------- MODULE Rpcbind_proofs ---------------------------
(***************************************************************************)
(* Safety of registration and lookup for any servers, networks, addresses  *)
(* and number of failures.  The argument: a port is given out once, and an *)
(* address reaches the table only from the live process whose port it      *)
(* names (TableInv), so what a process does not clean up it has not put    *)
(* there.  A search has passed only networks on which there was a moment   *)
(* without a server (SearchInv), and an address replaces another one only  *)
(* after such a moment, so what a client was told stays true while the     *)
(* network is steady (ToldInv).                                            *)
(***************************************************************************)
EXTENDS Rpcbind, TLAPS

Byte == {b \in Nat : b < 256}
Word == {w \in Nat : w < 65536}
Ports == FirstPort..used    \* the ports given out so far
Addrs == {make_uaddr(q) : q \in Ports} \cup {Empty}

\* A search that goes on is at one of the addresses.
SearchTypes ==
    [at : {"new", "ask", "getaddr", "dial", "told", "connected", "refused", "threw"},
     i : Nat, link : Nat, port : Word, steady : SUBSET Nets]
Searching(k) == k.at \in {"ask", "getaddr", "dial"}
Searches == {k \in SearchTypes : Searching(k) => k.i \in DOMAIN Addresses}

\* The variables keep their types; ports start at FirstPort and fit into two bytes.
TypeInv ==
    /\ reach \in SUBSET Nets /\ daemon \in BOOLEAN /\ deaths \in Nat
    /\ pc \in [Servers -> {"off", "connect", "unset", "set", "up", "exit"}]
    /\ link \in [Servers -> Nat]
    /\ used \in Word /\ used >= FirstPort - 1
    /\ port \in [Servers -> Ports \cup {None}]
    /\ registered \in [Servers -> BOOLEAN]
    /\ \A p \in Servers : pc[p] # "off" => port[p] # None
    /\ exited \in SUBSET Ports
    /\ table \in [Nets -> Addrs]
    /\ client \in [Clients -> Searches]

\* A port belongs to one process, and no longer when that has exited.
PortsInv ==
    \A p \in Servers :
        /\ port[p] \notin exited
        /\ \A q \in Servers : port[p] = port[q] /\ port[p] # None => p = q

\* The address of a live process is in the table only where that process put it.
TableInv ==
    \A p \in Servers, n \in Nets :
        port[p] # None /\ table[n] = make_uaddr(port[p]) =>
            registered[p] /\ n = Net[p]

\* The networks that a client counts as steady have a server, and are still ahead.
SearchInv ==
    \A c \in Clients :
        /\ \A n \in client[c].steady : Working(n)
        /\ Searching(client[c]) =>
            \A n \in client[c].steady : \E j \in DOMAIN Addresses :
                j >= client[c].i /\ Addresses[j] = n
        /\ client[c].at = "refused" => client[c].steady = {}

\* The address a client was given is still the one in the table of a steady network.
ToldInv ==
    \A c \in Clients :
        client[c].at = "dial" /\ Addresses[client[c].i] \in client[c].steady =>
            table[Addresses[client[c].i]] = make_uaddr(client[c].port)

IInv == TypeInv /\ PortsInv /\ ExitUnregisters /\ TableInv /\ SearchInv /\ ToldInv

-----------------------------------------------------------------------------
\* The two bytes of a port.
LEMMA UaddrBytes ==
    \A p \in Word : \E a, b \in Byte : make_uaddr(p) = <<a, b>> /\ p = 256 * a + b
<1> TAKE p \in Word
<1>1. p \div 256 \in Byte /\ p % 256 \in Byte /\ p = 256 * (p \div 256) + (p % 256)
  BY SMT DEF Word, Byte
<1> DEFINE a == p \div 256
           b == p % 256
<1>2. a \in Byte /\ b \in Byte /\ p = 256 * a + b /\ make_uaddr(p) = <<a, b>>
  BY <1>1, SMT DEF make_uaddr
<1> HIDE DEF a, b
<1> QED
  BY <1>2, Zenon

\* The universal address of a port, on its way to rpcbind and back.
LEMMA UaddrFacts ==
    ASSUME NEW p \in Word
    PROVE  /\ make_uaddr(p) # Empty
           /\ parse_uaddr_port(make_uaddr(p)) = p
           /\ \A q \in Word : make_uaddr(p) = make_uaddr(q) => p = q
<1>1. PICK a, b \in Byte : make_uaddr(p) = <<a, b>> /\ p = 256 * a + b
  BY UaddrBytes, Zenon
<1>2. make_uaddr(p) # Empty
  BY <1>1 DEF Empty
<1>3. parse_uaddr_port(make_uaddr(p)) = p
  <2>1. make_uaddr(p)[1] = a /\ make_uaddr(p)[2] = b
    BY <1>1, SMT
  <2>2. ~ \E x \in {a, b} : x < 0 \/ x > 255
    BY SMT DEF Byte
  <2>3. parse_uaddr_port(make_uaddr(p)) = 256 * a + b
    BY <1>2, <2>1, <2>2, SMT DEF parse_uaddr_port
  <2> QED
    BY <1>1, <2>3
<1>4. ASSUME NEW q \in Word, make_uaddr(p) = make_uaddr(q) PROVE p = q
  <2>1. PICK c, d \in Byte : make_uaddr(q) = <<c, d>> /\ q = 256 * c + d
    BY UaddrBytes, Zenon
  <2>2. <<a, b>> = <<c, d>>
    BY <1>1, <1>4, <2>1, Zenon
  <2>3. a = c /\ b = d
    BY <2>2, Zenon
  <2> QED
    BY <1>1, <2>1, <2>3 DEF Byte
<1> QED
  BY <1>2, <1>3, <1>4, Zenon


LEMMA AddressFacts ==
    /\ Addresses \in Seq(Nets) /\ Len(Addresses) \in Nat /\ Len(Addresses) > 0
    /\ DOMAIN Addresses = 1..Len(Addresses)
    /\ \A j \in DOMAIN Addresses : Addresses[j] \in Nets
    /\ \A n \in Nets : \E j \in DOMAIN Addresses : Addresses[j] = n
<1>1. Addresses \in Seq(Nets) /\ Addresses # <<>>
  BY ConstantsAssumption
<1>2. Len(Addresses) \in Nat /\ Len(Addresses) > 0 /\ DOMAIN Addresses = 1..Len(Addresses)
  BY <1>1
<1> QED
  BY <1>1, <1>2, Zenon DEF Nets

\* Every port is a number of two bytes other than None, and so is what a server
\* listens on.
LEMMA ConstantFacts ==
    /\ FirstPort \in Word /\ MaxPort \in Word /\ FirstPort > 0 /\ Word \subseteq Nat
    /\ \A a \in Nat, b \in Word : a <= b => a \in Word
    /\ None \in Word
<1>1. FirstPort \in PortNumbers /\ MaxPort \in PortNumbers
  BY ConstantsAssumption
<1> QED
  BY <1>1, SMT DEF PortNumbers, Word, None

LEMMA PortFacts ==
    ASSUME TypeInv
    PROVE  /\ Ports \subseteq Word /\ None \notin Ports
           /\ \A p \in Servers : port[p] \in Word
<1>1. used \in Word /\ port \in [Servers -> Ports \cup {None}]
  BY DEF TypeInv
<1>2. Ports \subseteq Word /\ None \notin Ports
  BY <1>1, ConstantFacts DEF Ports, None
<1> QED
  BY <1>1, <1>2, ConstantFacts

LEMMA TypeStep == TypeInv /\ [Next]_vars => TypeInv'
<1> SUFFICES ASSUME TypeInv, [Next]_vars PROVE TypeInv'
  OBVIOUS
<1> USE ConstantFacts DEF TypeInv
<1>a. ASSUME client' = Observed PROVE client' \in [Clients -> Searches]
  <2>1. ASSUME NEW k \in Searches, NEW S \in SUBSET Nets
        PROVE  [k EXCEPT !.steady = S] \in Searches
    BY DEF Searches, SearchTypes, Searching
  <2>2. ASSUME NEW c \in Clients
        PROVE  {n \in client[c].steady : Working(n)'} \in SUBSET Nets
    BY DEF Searches, SearchTypes
  <2> QED
    BY <1>a, <2>1, <2>2 DEF Observed
<1>b. used' = used => Ports' = Ports /\ Addrs' = Addrs
  BY DEF Ports, Addrs
<1>1. ASSUME NEW p \in Servers, client' = Observed,
             Listen(p) \/ Connect(p) \/ Unset(p) \/ Set(p) \/ Exit(p) \/ Cleanup(p) \/ Kill(p)
      PROVE  TypeInv'
  <2>1. CASE Listen(p)
    BY <1>1, <2>1, <1>a DEF Listen, daemonVars, Ports, None, Addrs
  <2>2. CASE Connect(p)
    BY <1>1, <2>2, <1>a, <1>b DEF Connect, daemonVars
  <2>3. CASE Unset(p)
    <3>1. table' \in [Nets -> Addrs]
      BY <2>3 DEF Unset, Addrs
    <3>2. /\ pc' \in [Servers -> {"off", "connect", "unset", "set", "up", "exit"}]
          /\ \A q \in Servers : pc'[q] # "off" => pc[q] # "off"
          /\ UNCHANGED <<daemonVars, link, port, registered, exited, used>>
      BY <2>3 DEF Unset
    <3> QED
      BY <1>1, <3>1, <3>2, <1>a, <1>b DEF daemonVars
  <2>4. CASE Set(p)
    <3>1. table' \in [Nets -> Addrs] /\ registered' \in [Servers -> BOOLEAN]
      <4>1. make_uaddr(port[p]) \in Addrs
        BY <2>4 DEF Set, Addrs
      <4>2. CASE Connected(link[p]) /\ table[Net[p]] = Empty
        BY <2>4, <4>1, <4>2 DEF Set, Entry
      <4>3. CASE ~(Connected(link[p]) /\ table[Net[p]] = Empty)
        BY <2>4, <4>3 DEF Set
      <4> QED
        BY <4>2, <4>3
    <3>2. /\ pc' \in [Servers -> {"off", "connect", "unset", "set", "up", "exit"}]
          /\ \A q \in Servers : pc'[q] # "off" => pc[q] # "off"
          /\ UNCHANGED <<daemonVars, link, port, exited, used>>
      BY <2>4 DEF Set
    <3> QED
      BY <1>1, <3>1, <3>2, <1>a, <1>b DEF daemonVars
  <2>5. CASE Exit(p)
    <3>1. pc' \in [Servers -> {"off", "connect", "unset", "set", "up", "exit"}]
      BY <2>5 DEF Exit
    <3> QED
      BY <1>1, <2>5, <3>1, <1>a, <1>b DEF Exit, daemonVars
  <2>6. CASE Cleanup(p)
    <3>1. table' \in [Nets -> Addrs]
      BY <2>6 DEF Cleanup, Addrs
    <3>2. exited' \in SUBSET Ports
      BY <2>6 DEF Cleanup
    <3>3. /\ registered' \in [Servers -> BOOLEAN] /\ port' \in [Servers -> Ports \cup {None}]
          /\ pc' \in [Servers -> {"off", "connect", "unset", "set", "up", "exit"}]
          /\ \A q \in Servers : pc'[q] # "off" => port'[q] # None
          /\ UNCHANGED <<daemonVars, link, used>>
      BY <2>6 DEF Cleanup
    <3> QED
      BY <1>1, <3>1, <3>2, <3>3, <1>a, <1>b DEF daemonVars
  <2>7. CASE Kill(p)
    BY <1>1, <2>7, <1>a, <1>b DEF Kill, daemonVars
  <2> QED
    BY <1>1, <2>1, <2>2, <2>3, <2>4, <2>5, <2>6, <2>7
<1>2. ASSUME client' = Observed, Die \/ Boot PROVE TypeInv'
  <2>1. table' \in [Nets -> Addrs]
    BY <1>2 DEF Die, Boot, Addrs
  <2>2. daemon' \in BOOLEAN /\ UNCHANGED <<reach, serverVars>>
    BY <1>2, Zenon DEF Die, Boot
  <2>3. deaths' \in Nat
    BY <1>2 DEF Die, Boot
  <2> QED
    BY <1>2, <2>1, <2>2, <2>3, <1>a, <1>b DEF serverVars
<1>3. ASSUME NEW c \in Clients, Begin(c) \/ ClientStep(c) PROVE TypeInv'
  <2>a. UNCHANGED <<daemonVars, table, serverVars>>
    BY <1>3 DEF Begin, ClientStep, Ask, GetAddr, Dial, Return
  <2> SUFFICES client' \in [Clients -> Searches]
    BY <2>a, <1>b DEF daemonVars, serverVars
  <2>b. ASSUME NEW k \in Searches PROVE Onward(k) \in Searches
    <3>1. ASSUME NEW x \in DOMAIN Addresses, NEW y \in Word
          PROVE  [k EXCEPT !.at = "ask", !.i = x, !.port = y] \in Searches
      <4> DEFINE r == [k EXCEPT !.at = "ask", !.i = x, !.port = y]
      <4>1. x \in Nat
        BY AddressFacts
      <4>2. r \in SearchTypes /\ r.i = x
        BY <4>1 DEF Searches, SearchTypes
      <4> QED
        BY <4>2 DEF Searches
    <3>3. k.i \in Nat /\ (k.i < Len(Addresses) => k.i + 1 \in DOMAIN Addresses)
      BY AddressFacts DEF Searches, SearchTypes
    <3>2. [k EXCEPT !.at = "refused"] \in Searches
      BY DEF Searches, SearchTypes, Searching
    <3> QED
      BY <3>1, <3>2, <3>3, AddressFacts DEF Onward, None
  <2>1. CASE Begin(c)
    <3>1. ASSUME NEW S \in SUBSET Nets
          PROVE  [client[c] EXCEPT !.at = "ask", !.i = 1, !.steady = S] \in Searches
      <4> DEFINE r == [client[c] EXCEPT !.at = "ask", !.i = 1, !.steady = S]
      <4>1. r \in SearchTypes /\ r.i = 1
        BY DEF Searches, SearchTypes
      <4>2. 1 \in DOMAIN Addresses
        BY AddressFacts
      <4> QED
        BY <4>1, <4>2 DEF Searches
    <3>2. {n \in Nets : Working(n)} \in SUBSET Nets
      OBVIOUS
    <3> QED
      BY <2>1, <3>1, <3>2 DEF Begin
  <2>2. CASE Ask(c)
    <3>1. [client[c] EXCEPT !.at = "getaddr", !.link = deaths] \in Searches
      <4> DEFINE r == [client[c] EXCEPT !.at = "getaddr", !.link = deaths]
      <4>1. r \in SearchTypes /\ r.i = client[c].i
        BY DEF Searches, SearchTypes
      <4> QED
        BY <2>2, <4>1 DEF Searches, Searching, Ask
    <3> QED
      BY <2>2, <2>b, <3>1 DEF Ask
  <2>3. CASE GetAddr(c)
    <3>1. [client[c] EXCEPT !.at = "threw"] \in Searches
      BY DEF Searches, SearchTypes, Searching
    <3>2. ASSUME NEW n \in Nets, parse_uaddr_port(table[n]) # -1
          PROVE  parse_uaddr_port(table[n]) \in Word
      <4>1. table[n] # Empty
        BY <3>2 DEF parse_uaddr_port
      <4> QED
        <5>1. table[n] \in Addrs
          OBVIOUS
        <5>2. PICK q \in Ports : table[n] = make_uaddr(q)
          BY <4>1, <5>1 DEF Addrs
        <5> QED
          BY <5>2, UaddrFacts, PortFacts
    <3>3. ASSUME NEW x \in Word
          PROVE  [client[c] EXCEPT !.at = "dial", !.port = x] \in Searches
      <4> DEFINE r == [client[c] EXCEPT !.at = "dial", !.port = x]
      <4>1. r \in SearchTypes /\ r.i = client[c].i
        BY DEF Searches, SearchTypes
      <4> QED
        BY <2>3, <4>1 DEF Searches, Searching, GetAddr
    <3>4. Addresses[client[c].i] \in Nets
      BY <2>3, AddressFacts DEF GetAddr, Searches, Searching
    <3> QED
      BY <2>3, <2>b, <3>1, <3>2, <3>3, <3>4 DEF GetAddr
  <2>4. CASE Dial(c)
    <3>1. [client[c] EXCEPT !.at = "connected"] \in Searches
      BY DEF Searches, SearchTypes, Searching
    <3> QED
      BY <2>4, <2>b, <3>1 DEF Dial
  <2>5. CASE Return(c)
    <3>1. [client[c] EXCEPT !.at = "told"] \in Searches
      BY DEF Searches, SearchTypes, Searching
    <3> QED
      BY <2>5, <3>1 DEF Return
  <2> QED
    BY <1>3, <2>1, <2>2, <2>3, <2>4, <2>5 DEF ClientStep
<1>4. CASE UNCHANGED vars
  BY <1>4, <1>b DEF vars, daemonVars, serverVars
<1> QED
  BY <1>1, <1>2, <1>3, <1>4 DEF Next, ServerStep

LEMMA PortsStep == TypeInv /\ PortsInv /\ [Next]_vars => PortsInv'
<1> SUFFICES ASSUME TypeInv, PortsInv, [Next]_vars PROVE PortsInv'
  OBVIOUS
<1> USE ConstantFacts DEF PortsInv
<1>1. used \in Nat /\ port \in [Servers -> Ports \cup {None}] /\ exited \in SUBSET Ports
      /\ \A q \in Ports : q # None
  BY PortFacts DEF TypeInv
<1>2. ASSUME NEW p \in Servers, Listen(p) PROVE PortsInv'
  <2>1. used + 1 \notin Ports /\ used + 1 # None /\ exited' = exited
    BY <1>1, <1>2 DEF Ports, None, Listen
  <2>2. \A q \in Servers : port'[q] = IF q = p THEN used + 1 ELSE port[q]
    BY <1>1, <1>2 DEF Listen
  <2>3. port[p] # used + 1 /\ used + 1 \notin exited
    BY <1>1, <2>1
  <2>4. \A q \in Servers : port[q] # used + 1
    BY <1>1, <2>1
  <2> QED
    BY <2>1, <2>2, <2>3, <2>4
<1>3. ASSUME NEW p \in Servers, Connect(p) \/ Unset(p) \/ Set(p) \/ Exit(p) PROVE PortsInv'
  <2>1. UNCHANGED <<port, exited>>
    BY <1>3 DEF Connect, Unset, Set, Exit
  <2> QED
    BY <2>1
<1>4. ASSUME NEW p \in Servers, Cleanup(p) \/ Kill(p) PROVE PortsInv'
  <2>1. exited' \subseteq exited \cup {port[p]} /\ pc[p] # "off"
    BY <1>4 DEF Cleanup, Kill
  <2>2. \A q \in Servers : port'[q] = IF q = p THEN None ELSE port[q]
    BY <1>1, <1>4 DEF Cleanup, Kill
  <2>3. port[p] # None /\ None \notin exited
    BY <1>1, <2>1 DEF TypeInv
  <2> QED
    BY <2>1, <2>2, <2>3
<1>5. CASE Die \/ Boot \/ UNCHANGED vars
  BY <1>5 DEF Die, Boot, vars, serverVars
<1>6. ASSUME NEW c \in Clients, Begin(c) \/ ClientStep(c) PROVE PortsInv'
  BY <1>6 DEF Begin, ClientStep, Ask, GetAddr, Dial, Return, serverVars
<1> QED
  BY <1>2, <1>3, <1>4, <1>5, <1>6 DEF Next, ServerStep

\* What a step does to the table: an address leaves it, or that of a live process
\* takes an empty place.
LEMMA TableStep ==
    ASSUME TypeInv, PortsInv, TableInv, ExitUnregisters, [Next]_vars
    PROVE  TableInv' /\ ExitUnregisters'
<1> USE ConstantFacts DEF TableInv, ExitUnregisters
<1>a. \A p \in Servers : port[p] \in Word
  BY PortFacts
<1>b. \A p, q \in Word : make_uaddr(p) = make_uaddr(q) => p = q
  BY UaddrFacts
<1>c. \A p \in Word : make_uaddr(p) # Empty
  BY UaddrFacts
<1>d. /\ \A q \in exited : q \in Word
      /\ \A n \in Nets : table[n] = Empty \/ \E q \in Ports : table[n] = make_uaddr(q)
  BY PortFacts DEF TypeInv, Addrs
<1>e. table \in [Nets -> Addrs] /\ port \in [Servers -> Ports \cup {None}]
      /\ registered \in [Servers -> BOOLEAN] /\ Net \in [Servers -> Nets]
  BY ConstantsAssumption DEF TypeInv
<1>1. ASSUME NEW p \in Servers, Listen(p) PROVE TableInv' /\ ExitUnregisters'
  <2>1. used + 1 \in Word /\ used + 1 \notin Ports /\ Ports \subseteq Word
    BY <1>1, PortFacts DEF TypeInv, Listen, Ports, Word
  <2>2. \A n \in Nets : table[n] # make_uaddr(used + 1)
    BY <2>1, <1>b, <1>c, <1>d
  <2>3. \A q \in Servers : port'[q] = IF q = p THEN used + 1 ELSE port[q]
    BY <1>1, <1>e DEF Listen
  <2>4. UNCHANGED <<table, registered, exited>>
    BY <1>1 DEF Listen
  <2> QED
    BY <2>2, <2>3, <2>4
<1>2. ASSUME NEW p \in Servers, Set(p) PROVE TableInv' /\ ExitUnregisters'
  <2>1. UNCHANGED <<port, exited>> /\ port[p] # None
    BY <1>2 DEF Set, TypeInv
  <2>2. CASE ~(Connected(link[p]) /\ table[Net[p]] = Empty)
    BY <1>2, <2>1, <2>2 DEF Set
  <2>3. CASE Connected(link[p]) /\ table[Net[p]] = Empty
    <3>1. \A n \in Nets : table'[n] = IF n = Net[p] THEN make_uaddr(port[p]) ELSE table[n]
      BY <1>2, <1>e, <2>3 DEF Set
    <3>2. registered' = [registered EXCEPT ![p] = TRUE]
      BY <1>2, <2>3 DEF Set, Entry
    <3>3. TableInv'
      <4> SUFFICES ASSUME NEW q \in Servers, NEW n \in Nets,
                          port[q] # None, table'[n] = make_uaddr(port[q])
                   PROVE  registered'[q] /\ n = Net[q]
        BY <2>1
      <4>1. CASE n = Net[p]
        <5>1. q = p
          <6>1. make_uaddr(port[p]) = make_uaddr(port[q])
            BY <3>1, <4>1
          <6>2. port[p] = port[q]
            BY <6>1, <1>a, <1>b, Zenon
          <6> QED
            BY <6>2, <2>1 DEF PortsInv
        <5> QED
          BY <5>1, <4>1, <3>2, <1>e
      <4>2. CASE n # Net[p]
        <5>1. registered[q] /\ n = Net[q]
          BY <3>1, <4>2
        <5> QED
          BY <5>1, <3>2, <1>e
      <4> QED
        BY <4>1, <4>2
    <3>4. ASSUME NEW n \in Nets, NEW q \in exited PROVE table'[n] # make_uaddr(q)
      <4>1. port[p] # q /\ port[p] \in Word /\ q \in Word
        BY <1>a, <1>d DEF PortsInv
      <4>2. make_uaddr(port[p]) # make_uaddr(q)
        BY <4>1, <1>b, Zenon
      <4> QED
        BY <3>1, <4>2 DEF ExitUnregisters
    <3> QED
      BY <2>1, <3>3, <3>4
  <2> QED
    BY <2>2, <2>3
<1>3. ASSUME NEW p \in Servers, Cleanup(p) PROVE TableInv' /\ ExitUnregisters'
  <2>1. \A q \in Servers : port'[q] = (IF q = p THEN None ELSE port[q])
    BY <1>3, <1>e DEF Cleanup
  <2>2. registered' = [registered EXCEPT ![p] = FALSE] /\ port[p] # None
    BY <1>3 DEF Cleanup, TypeInv
  <2>3. \A n \in Nets : table'[n] \in {table[n], Empty}
    BY <1>3, <1>e DEF Cleanup
  <2>4. \A q \in exited' : q \in exited \/ (q = port[p] /\ (registered[p] => table'[Net[p]] = Empty))
    BY <1>3, <1>e DEF Cleanup
  <2>5. \A q \in Servers : q # p => registered'[q] = registered[q]
    BY <2>2, <1>e
  <2>6. TableInv'
    BY <2>1, <2>3, <2>5, <1>a, <1>c
  <2>7. ASSUME NEW n \in Nets, NEW q \in exited' PROVE table'[n] # make_uaddr(q)
    <3>1. q \in Word
      BY <2>4, <1>a, <1>d
    <3>2. CASE q \in exited
      BY <2>3, <3>1, <3>2, <1>c
    <3>3. CASE q = port[p] /\ (registered[p] => table'[Net[p]] = Empty)
      BY <2>2, <2>3, <3>1, <3>3, <1>c
    <3> QED
      BY <2>4, <3>2, <3>3
  <2> QED
    BY <2>6, <2>7
<1>4. ASSUME NEW p \in Servers, Connect(p) \/ Unset(p) \/ Exit(p) \/ Kill(p)
      PROVE TableInv' /\ ExitUnregisters'
  <2>1. \A n \in Nets : table'[n] \in {table[n], Empty}
    BY <1>4, <1>e DEF Connect, Unset, Exit, Kill
  <2>2. exited' = exited
    BY <1>4 DEF Connect, Unset, Exit, Kill
  <2>3. \A q \in Servers : port'[q] = None \/ (port'[q] = port[q] /\ (registered'[q] = registered[q]))
    BY <1>4, <1>e DEF Connect, Unset, Exit, Kill
  <2>4. TableInv'
    BY <2>1, <2>3, <1>a, <1>c
  <2>5. ExitUnregisters'
    BY <2>1, <2>2, <1>c, <1>d
  <2> QED
    BY <2>4, <2>5
<1>5. CASE Die \/ Boot \/ UNCHANGED vars
  <2>1. \A n \in Nets : table'[n] \in {table[n], Empty}
    BY <1>5, <1>e DEF Die, Boot, vars
  <2>2. UNCHANGED <<port, registered, exited>>
    BY <1>5 DEF Die, Boot, vars, serverVars
  <2>3. TableInv'
    BY <2>1, <2>2, <1>a, <1>c
  <2>4. ExitUnregisters'
    BY <2>1, <2>2, <1>c, <1>d
  <2> QED
    BY <2>3, <2>4
<1>6. ASSUME NEW c \in Clients, Begin(c) \/ ClientStep(c) PROVE TableInv' /\ ExitUnregisters'
  BY <1>6 DEF Begin, ClientStep, Ask, GetAddr, Dial, Return, serverVars
<1> QED
  BY <1>1, <1>2, <1>3, <1>4, <1>5, <1>6 DEF Next, ServerStep

\* An address takes only an empty place in the table.
LEMMA OnlyEmptyReplaced ==
    ASSUME TypeInv, NEW p \in Servers,
           Listen(p) \/ ServerStep(p) \/ Exit(p) \/ Kill(p) \/ Die \/ Boot
    PROVE  \A n \in Nets : table[n] # Empty => table'[n] \in {table[n], Empty}
<1>1. table \in [Nets -> Addrs]
  BY DEF TypeInv
<1>2. CASE Die \/ Boot
  BY <1>1, <1>2 DEF Die, Boot
<1>3. CASE Set(p)
  <2>1. table' = table \/ (table[Net[p]] = Empty /\ \A n \in Nets : n # Net[p] => table'[n] = table[n])
    BY <1>1, <1>3 DEF Set
  <2> QED
    BY <2>1
<1>4. CASE Listen(p) \/ Connect(p) \/ Unset(p) \/ Cleanup(p) \/ Exit(p) \/ Kill(p)
  BY <1>1, <1>4 DEF Listen, Connect, Unset, Cleanup, Exit, Kill
<1> QED
  BY <1>2, <1>3, <1>4 DEF ServerStep

\* A step of a server or of the daemon takes out of steady what it ends.
LEMMA ObservedStep ==
    ASSUME TypeInv, TypeInv', SearchInv, ToldInv, client' = Observed,
           \A n \in Nets : table[n] # Empty => table'[n] \in {table[n], Empty}
    PROVE  SearchInv' /\ ToldInv'
<1>1. ASSUME NEW c \in Clients
      PROVE  /\ client'[c].at = client[c].at /\ client'[c].i = client[c].i
             /\ client'[c].port = client[c].port
             /\ client'[c].steady = {n \in client[c].steady : Working(n)'}
  <2>1. client[c] \in SearchTypes
    BY DEF TypeInv, Searches
  <2> QED
    BY <2>1 DEF Observed, SearchTypes
<1>2. SearchInv'
  <2> SUFFICES ASSUME NEW c \in Clients
               PROVE  /\ \A n \in client'[c].steady : Working(n)'
                      /\ Searching(client'[c]) =>
                          \A n \in client'[c].steady : \E j \in DOMAIN Addresses :
                              j >= client'[c].i /\ Addresses[j] = n
                      /\ client'[c].at = "refused" => client'[c].steady = {}
    BY DEF SearchInv
  <2>1. Searching(client'[c]) <=> Searching(client[c])
    BY <1>1 DEF Searching
  <2> QED
    BY <1>1, <2>1 DEF SearchInv
<1>3. ToldInv'
  <2> SUFFICES ASSUME NEW c \in Clients,
                      client[c].at = "dial", Addresses[client[c].i] \in client'[c].steady
               PROVE  table'[Addresses[client[c].i]] = make_uaddr(client[c].port)
    BY <1>1 DEF ToldInv
  <2> PICK n : n = Addresses[client[c].i]
    OBVIOUS
  <2>1. n \in client[c].steady /\ Working(n) /\ Working(n)' /\ n \in Nets
    BY <1>1 DEF SearchInv, TypeInv, Searches, SearchTypes
  <2>2. \A p \in Word : make_uaddr(p) # Empty
    BY UaddrFacts
  <2>3. table[n] # Empty
    BY <2>1, <2>2, PortFacts DEF Working
  <2>4. \A p \in Servers : port'[p] \in Word
    <3>1. used' \in Word /\ port' \in [Servers -> Ports' \cup {None}]
      BY DEF TypeInv
    <3> QED
      BY <3>1, ConstantFacts DEF Ports
  <2>5. table'[n] # Empty
    <3>1. PICK p \in Servers : table'[n] = make_uaddr(port'[p])
      BY <2>1 DEF Working
    <3> QED
      BY <3>1, <2>2, <2>4, Zenon
  <2>6. table'[n] = table[n]
    BY <2>1, <2>3, <2>5
  <2>7. table[n] = make_uaddr(client[c].port)
    BY <2>1 DEF ToldInv
  <2> QED
    BY <2>6, <2>7
<1> QED
  BY <1>2, <1>3

\* Once the search is at address i, what is behind i is all that counts.
LEMMA OnwardFacts ==
    ASSUME TypeInv, NEW c \in Clients, SearchInv, Searching(client[c]),
           Addresses[client[c].i] \notin client[c].steady
    PROVE  /\ Onward(client[c]).steady = client[c].steady
           /\ Onward(client[c]).at \in {"ask", "refused"}
           /\ Onward(client[c]).at = "refused" => client[c].steady = {}
           /\ Searching(Onward(client[c])) =>
                \A n \in client[c].steady : \E j \in DOMAIN Addresses :
                    j >= Onward(client[c]).i /\ Addresses[j] = n
<1> DEFINE k == client[c]
<1>1. k \in SearchTypes /\ k.i \in DOMAIN Addresses
  BY DEF TypeInv, Searches
<1>2. \A n \in k.steady : \E j \in DOMAIN Addresses : j > k.i /\ Addresses[j] = n
  <2>1. \A n \in k.steady : \E j \in DOMAIN Addresses : j >= k.i /\ Addresses[j] = n
    BY DEF SearchInv
  <2>2. \A j \in DOMAIN Addresses : j >= k.i /\ Addresses[j] \in k.steady => j > k.i
    BY <1>1, AddressFacts
  <2> QED
    BY <2>1, <2>2
<1>3. CASE k.i < Len(Addresses)
  <2>1. Onward(k) = [k EXCEPT !.at = "ask", !.i = @ + 1, !.port = None]
    BY <1>3 DEF Onward
  <2>2. /\ Onward(k).at = "ask" /\ Onward(k).i = k.i + 1 /\ Onward(k).steady = k.steady
    BY <1>1, <2>1 DEF SearchTypes
  <2>3. \A j \in DOMAIN Addresses : j > k.i => j >= k.i + 1
    BY <1>1, AddressFacts
  <2> HIDE DEF k
  <2> QED
    BY <1>2, <2>2, <2>3 DEF k
<1>4. CASE ~(k.i < Len(Addresses))
  <2>1. Onward(k) = [k EXCEPT !.at = "refused"]
    BY <1>4 DEF Onward
  <2>2. Onward(k).at = "refused" /\ Onward(k).steady = k.steady
    BY <1>1, <2>1 DEF SearchTypes
  <2>3. k.steady = {}
    BY <1>1, <1>2, <1>4, AddressFacts
  <2> QED
    BY <2>2, <2>3 DEF Searching
<1> QED
  BY <1>3, <1>4

\* A step of a client: only its own record changes, and no server.
LEMMA ClientStepFacts ==
    ASSUME TypeInv, TypeInv', SearchInv, ToldInv, NEW c \in Clients, NEW k,
           client' = [client EXCEPT ![c] = k], UNCHANGED <<daemonVars, table, serverVars>>,
           \A n \in k.steady : Working(n),
           Searching(k) => \A n \in k.steady : \E j \in DOMAIN Addresses :
                                                 j >= k.i /\ Addresses[j] = n,
           k.at = "refused" => k.steady = {},
           k.at = "dial" /\ Addresses[k.i] \in k.steady =>
               table[Addresses[k.i]] = make_uaddr(k.port)
    PROVE  SearchInv' /\ ToldInv'
<1>1. \A n : Working(n)' <=> Working(n)
  BY DEF Working, Reachable, daemonVars, serverVars
<1>2. \A b \in Clients : client'[b] = IF b = c THEN k ELSE client[b]
  BY DEF TypeInv
<1>3. SearchInv'
  <2> SUFFICES ASSUME NEW b \in Clients
               PROVE  /\ \A n \in client'[b].steady : Working(n)'
                      /\ Searching(client'[b]) =>
                          \A n \in client'[b].steady : \E j \in DOMAIN Addresses :
                              j >= client'[b].i /\ Addresses[j] = n
                      /\ client'[b].at = "refused" => client'[b].steady = {}
    BY DEF SearchInv
  <2>1. CASE b = c
    BY <1>1, <1>2, <2>1
  <2>2. CASE b # c
    BY <1>1, <1>2, <2>2 DEF SearchInv
  <2> QED
    BY <2>1, <2>2
<1>4. ToldInv'
  BY <1>2 DEF ToldInv
<1> QED
  BY <1>3, <1>4

LEMMA SearchStep ==
    ASSUME TypeInv, TypeInv', SearchInv, ToldInv, [Next]_vars
    PROVE  SearchInv' /\ ToldInv'
<1>1. CASE UNCHANGED vars
  BY <1>1 DEF vars, daemonVars, serverVars, SearchInv, ToldInv, Working, Reachable
<1>2. ASSUME client' = Observed, NEW p \in Servers,
             Listen(p) \/ ServerStep(p) \/ Exit(p) \/ Kill(p) \/ Die \/ Boot
      PROVE  SearchInv' /\ ToldInv'
  BY <1>2, OnlyEmptyReplaced, ObservedStep
<1>3. ASSUME client' = Observed, Die \/ Boot
      PROVE  SearchInv' /\ ToldInv'
  <2>1. \A n \in Nets : table[n] # Empty => table'[n] \in {table[n], Empty}
    BY <1>3 DEF Die, Boot
  <2> QED
    BY <1>3, <2>1, ObservedStep
<1>4. ASSUME NEW c \in Clients, Begin(c) \/ ClientStep(c) PROVE SearchInv' /\ ToldInv'
  <2>a. UNCHANGED <<daemonVars, table, serverVars>>
    BY <1>4 DEF Begin, ClientStep, Ask, GetAddr, Dial, Return
  <2>b. client[c] \in SearchTypes /\ (Searching(client[c]) => client[c].i \in DOMAIN Addresses)
    BY DEF TypeInv, Searches
  <2>c. /\ \A n \in client[c].steady : Working(n)
        /\ Searching(client[c]) =>
            \A n \in client[c].steady : \E j \in DOMAIN Addresses :
                j >= client[c].i /\ Addresses[j] = n
    BY DEF SearchInv
  <2>d. ASSUME Searching(client[c]), Addresses[client[c].i] \notin client[c].steady,
               client' = [client EXCEPT ![c] = Onward(client[c])]
        PROVE  SearchInv' /\ ToldInv'
    <3> DEFINE k == Onward(client[c])
    <3>1. /\ k.steady = client[c].steady /\ k.at \in {"ask", "refused"}
          /\ k.at = "refused" => client[c].steady = {}
          /\ Searching(k) => \A n \in client[c].steady : \E j \in DOMAIN Addresses :
                                j >= k.i /\ Addresses[j] = n
      BY <2>d, OnwardFacts
    <3>2. client' = [client EXCEPT ![c] = k]
      BY <2>d
    <3> HIDE DEF k
    <3> QED
      BY <2>a, <2>c, <3>1, <3>2, ClientStepFacts
  <2>1. CASE Begin(c)
    <3> DEFINE k == [client[c] EXCEPT !.at = "ask", !.i = 1, !.steady = {n \in Nets : Working(n)}]
    <3>1. client' = [client EXCEPT ![c] = k]
      BY <2>1 DEF Begin
    <3>2. k.at = "ask" /\ k.i = 1 /\ k.steady = {n \in Nets : Working(n)}
      BY <2>b DEF SearchTypes
    <3>3. \A n \in k.steady : \E j \in DOMAIN Addresses : j >= k.i /\ Addresses[j] = n
      BY <3>2, AddressFacts
    <3> HIDE DEF k
    <3> QED
      BY <2>a, <3>1, <3>2, <3>3, ClientStepFacts
  <2>2. CASE Ask(c)
    <3>1. Searching(client[c])
      BY <2>2 DEF Ask, Searching
    <3>2. CASE Reachable(Addresses[client[c].i])
      <4> DEFINE k == [client[c] EXCEPT !.at = "getaddr", !.link = deaths]
      <4>1. client' = [client EXCEPT ![c] = k]
        BY <2>2, <3>2 DEF Ask
      <4>2. k.at = "getaddr" /\ k.i = client[c].i /\ k.steady = client[c].steady
        BY <2>b DEF SearchTypes
      <4> HIDE DEF k
      <4> QED
        BY <2>a, <2>c, <3>1, <4>1, <4>2, ClientStepFacts
    <3>3. CASE ~Reachable(Addresses[client[c].i])
      BY <2>2, <2>c, <2>d, <3>1, <3>3 DEF Ask, Working
    <3> QED
      BY <3>2, <3>3
  <2>3. CASE GetAddr(c)
    <3> DEFINE n == Addresses[client[c].i]
    <3>1. Searching(client[c]) /\ n \in Nets
      BY <2>3, <2>b, AddressFacts DEF GetAddr, Searching
    <3>2. ASSUME NEW q \in Ports PROVE parse_uaddr_port(make_uaddr(q)) = q /\ q # -1
      <4>1. q \in Word /\ q \in Nat
        BY PortFacts, ConstantFacts
      <4> QED
        BY <4>1, UaddrFacts
    <3>3. CASE ~Connected(client[c].link)
      <4> DEFINE k == [client[c] EXCEPT !.at = "threw"]
      <4>1. client' = [client EXCEPT ![c] = k]
        BY <2>3, <3>3 DEF GetAddr
      <4>2. k.at = "threw" /\ k.steady = client[c].steady
        BY <2>b DEF SearchTypes
      <4> HIDE DEF k
      <4> QED
        BY <2>a, <2>c, <4>1, <4>2, ClientStepFacts DEF Searching
    <3>4. CASE Connected(client[c].link) /\ parse_uaddr_port(table[n]) = -1
      <4>1. table[n] = Empty
        BY <3>1, <3>2, <3>4 DEF TypeInv, Addrs
      <4>2. ~Working(n)
        BY <4>1, UaddrFacts, PortFacts DEF Working
      <4> QED
        BY <2>3, <2>c, <2>d, <3>1, <3>4, <4>2 DEF GetAddr
    <3>5. CASE Connected(client[c].link) /\ parse_uaddr_port(table[n]) # -1
      <4> DEFINE x == parse_uaddr_port(table[n])
                 k == [client[c] EXCEPT !.at = "dial", !.port = x]
      <4>1. client' = [client EXCEPT ![c] = k]
        BY <2>3, <3>5 DEF GetAddr
      <4>2. k.at = "dial" /\ k.i = client[c].i /\ k.steady = client[c].steady /\ k.port = x
        BY <2>b DEF SearchTypes
      <4>3. table[n] = make_uaddr(x)
        <5>1. table[n] # Empty
          BY <3>5 DEF parse_uaddr_port
        <5>2. PICK q \in Ports : table[n] = make_uaddr(q)
          BY <3>1, <5>1 DEF TypeInv, Addrs
        <5> QED
          BY <3>2, <5>2
      <4> HIDE DEF k, x
      <4> QED
        BY <2>a, <2>c, <3>1, <4>1, <4>2, <4>3, ClientStepFacts
    <3> QED
      BY <3>3, <3>4, <3>5
  <2>4. CASE Dial(c)
    <3>1. Searching(client[c])
      BY <2>4 DEF Dial, Searching
    <3>2. CASE \E p \in Servers : port[p] = client[c].port
      <4> DEFINE k == [client[c] EXCEPT !.at = "connected"]
      <4>1. client' = [client EXCEPT ![c] = k]
        BY <2>4, <3>2 DEF Dial
      <4>2. k.at = "connected" /\ k.steady = client[c].steady
        BY <2>b DEF SearchTypes
      <4> HIDE DEF k
      <4> QED
        BY <2>a, <2>c, <4>1, <4>2, ClientStepFacts DEF Searching
    <3>3. CASE ~\E p \in Servers : port[p] = client[c].port
      <4> DEFINE n == Addresses[client[c].i]
      <4>1. ASSUME n \in client[c].steady PROVE FALSE
        <5>1. table[n] = make_uaddr(client[c].port)
          BY <2>4, <4>1 DEF ToldInv, Dial
        <5>2. PICK p \in Servers : table[n] = make_uaddr(port[p])
          BY <2>c, <4>1 DEF Working
        <5>3. port[p] \in Word /\ client[c].port \in Word
          BY <2>b, PortFacts DEF SearchTypes
        <5>4. port[p] = client[c].port
          BY <5>1, <5>2, <5>3, UaddrFacts
        <5> QED
          BY <3>3, <5>4
      <4>2. client' = [client EXCEPT ![c] = Onward(client[c])]
        BY <2>4, <3>3 DEF Dial
      <4> QED
        BY <2>d, <3>1, <4>1, <4>2
    <3> QED
      BY <3>2, <3>3
  <2>5. CASE Return(c)
    <3> DEFINE k == [client[c] EXCEPT !.at = "told"]
    <3>1. client' = [client EXCEPT ![c] = k]
      BY <2>5 DEF Return
    <3>2. k.at = "told" /\ k.steady = client[c].steady
      BY <2>b DEF SearchTypes
    <3> HIDE DEF k
    <3> QED
      BY <2>a, <2>c, <3>1, <3>2, ClientStepFacts DEF Searching
  <2> QED
    BY <1>4, <2>1, <2>2, <2>3, <2>4, <2>5 DEF ClientStep
<1> QED
  BY <1>1, <1>2, <1>3, <1>4 DEF Next

-----------------------------------------------------------------------------
LEMMA InitInv == Init => IInv
<1> SUFFICES ASSUME Init PROVE IInv
  OBVIOUS
<1>1. Ports = {}
  BY ConstantFacts DEF Init, Ports
<1>2. TypeInv
  BY <1>1, ConstantFacts DEF Init, TypeInv, Addrs, Searches, SearchTypes, Searching, None
<1> QED
  BY <1>2 DEF IInv, Init, PortsInv, ExitUnregisters, TableInv, SearchInv, ToldInv, Searching

LEMMA StepInv == IInv /\ [Next]_vars => IInv'
  BY TypeStep, PortsStep, TableStep, SearchStep DEF IInv

LEMMA Invariance == Spec => []IInv
  BY InitInv, StepInv, PTL DEF Spec

\* rpcbind has no address of a process that has exited (run_cleanup, rpcbind.cc:27),
\* for any number of servers, networks and failures.
THEOREM RegistrationsEndWithTheirProcess == Spec => []ExitUnregisters
<1>1. IInv => ExitUnregisters
  BY DEF IInv
<1> QED
  BY <1>1, Invariance, PTL

\* A search through any list of addresses does not miss a server that can be found all
\* the time (the loop of tcp_connect_rpc).
THEOREM SteadyServersAreFound == Spec => []FindsServer
<1>1. IInv => FindsServer
  BY DEF IInv, SearchInv, FindsServer
<1> QED
  BY <1>1, Invariance, PTL
=============================================================================
