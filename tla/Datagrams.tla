------------------------------- MODULE Datagrams -------------------------------
(***************************************************************************)
(* The exchanges of "Hi" and "Hello" in datagrams: the programs of         *)
(* "16-sockets/1/UDPinet" and "UDPlocal", of "16-sockets/2/multi_protocol" *)
(* client_udp.c and the thread handle_udp_client, and of "16-sockets/4/ip" *)
(* and "udp", whose clients use a raw socket.  Each is a script of system  *)
(* calls.  An address is a port, which is free again when its socket is    *)
(* closed, or a path, which stays until it is unlinked, whoever bound it.  *)
(***************************************************************************)
EXTENDS Integers, FiniteSets, Sequences

CONSTANTS Runs,        \* bound: runs of the server, one after the other
          Visitors     \* the clients; each runs once

ConstantsOK ==
  /\ Runs \in Nat \ {0} /\ IsFiniteSet(Visitors)
  /\ Visitors \cap (0 .. Runs) = {} /\ Visitors \cap {"server", "client"} = {}

Servers  == 1 .. Runs
Programs == Servers \cup Visitors
Nobody   == 0

InetServer  == <<"bind", "recv", "answer", "close">>
InetClient  == <<"bind", "send", "recv", "close">>
LocalServer == <<"unlink", "bind", "recv", "answer", "close", "unlink">>
LocalClient == <<"unlink", "bind", "send", "recv", "close", "unlink">>
MultiServer == <<"bind", "recv", "answer">>       \* the last two for ever
MultiClient == <<"send", "recv", "close">>
RawServer   == InetServer
RawClient   == <<"send", "sniff", "close">>

Kinds == {"inet", "local", "multi", "raw"}
Script(kind, server) ==
  CASE kind = "inet"  -> IF server THEN InetServer ELSE InetClient
    [] kind = "local" -> IF server THEN LocalServer ELSE LocalClient
    [] kind = "multi" -> IF server THEN MultiServer ELSE MultiClient
    [] kind = "raw"   -> IF server THEN RawServer ELSE RawClient
-------------------------------------------------------------------------------
VARIABLES
  pair,     \* the pair of programs; never changes
  agent,    \* where each program is in its script
  socks,    \* programs with an open socket
  bound,    \* who bound each of the two addresses in the code, or Nobody
  inbox,    \* the datagrams at each socket
  got,      \* the datagram each program printed
  robbed    \* history: programs that were killed, or lost their path to another
gramVars == <<pair, agent, socks, bound, inbox, got, robbed>>

\* A datagram: who sent it, from and to which address, and whom it answers.
None == [by |-> Nobody, from |-> "none", for |-> "none", to |-> Nobody]

Init ==
  /\ pair \in Kinds
  /\ agent = [p \in Programs |-> [at |-> "new", k |-> 1]]
  /\ socks = {} /\ bound = [a \in {"server", "client"} |-> Nobody]
  /\ inbox = [p \in Programs |-> <<>>] /\ got = [p \in Programs |-> None]
  /\ robbed = {}

MyScript(p)  == Script(pair, p \in Servers)
Doing(p, op) == agent[p].at = "run" /\ MyScript(p)[agent[p].k] = op
Paths        == pair = "local"

\* The address p binds; a client of multi_protocol is given a port of its own.
Address(p) == IF p \in Servers THEN "server" ELSE IF pair = "multi" THEN p ELSE "client"

\* The open socket at an address, if there is one.
SocketAt(a) == (IF a \in Visitors THEN {a} ELSE {bound[a]}) \cap socks

\* A raw socket is given every datagram that comes to the host, also its own.
Reach(a) == SocketAt(a) \cup (IF pair = "raw" THEN Visitors \cap socks ELSE {})

GoesOn(p) ==
  LET now == agent[p]
  IN  agent' = [agent EXCEPT ![p] = IF now.k < Len(MyScript(p)) THEN [now EXCEPT !.k = @ + 1]
                                    ELSE IF pair = "multi" /\ p \in Servers THEN [now EXCEPT !.k = 2]
                                    ELSE [now EXCEPT !.at = "done"]]

\* close, and what exit does: what has not been read is lost.
CloseSocket(p) ==
  /\ socks' = socks \ {p} /\ inbox' = [inbox EXCEPT ![p] = <<>>]
  /\ bound' = [a \in DOMAIN bound |-> IF bound[a] = p /\ ~Paths THEN Nobody ELSE bound[a]]
Exits(p, how) == agent' = [agent EXCEPT ![p].at = how] /\ CloseSocket(p)
-------------------------------------------------------------------------------
\* socket.  A server starts when the one before it has ended, a client at any time.
Start(p) ==
  /\ agent[p].at = "new"
  /\ \A s \in Servers : p \in Servers /\ s < p => agent[s].at \notin {"new", "run"}
  /\ agent' = [agent EXCEPT ![p].at = "run"] /\ socks' = socks \cup {p}
  /\ UNCHANGED <<pair, bound, inbox, got, robbed>>

\* unlink of the own path: before bind to make room, and again at the end.
Unlink(p) ==
  /\ Doing(p, "unlink") /\ GoesOn(p)
  /\ bound' = [bound EXCEPT ![Address(p)] = Nobody]
  /\ robbed' = robbed \cup (SocketAt(Address(p)) \ {p})
  /\ UNCHANGED <<pair, socks, inbox, got>>

\* bind fails if the address is taken.
Bind(p) ==
  /\ Doing(p, "bind")
  /\ IF bound[Address(p)] # Nobody THEN Exits(p, "failed")
     ELSE /\ GoesOn(p) /\ bound' = [bound EXCEPT ![Address(p)] = p]
          /\ UNCHANGED <<socks, inbox>>
  /\ UNCHANGED <<pair, got, robbed>>

\* sendto: what is sent to a port without a socket is lost, to a path it fails.
SendTo(p, address, to) ==
  /\ IF Paths /\ SocketAt(address) = {} THEN Exits(p, "failed")
     ELSE /\ GoesOn(p) /\ UNCHANGED <<socks, bound>>
          /\ inbox' = [q \in Programs |->
                         IF q \in Reach(address)
                         THEN Append(inbox[q], [by |-> p, from |-> Address(p), for |-> address, to |-> to])
                         ELSE inbox[q]]
  /\ UNCHANGED <<pair, got, robbed>>

Send(p)   == Doing(p, "send") /\ SendTo(p, "server", Nobody)
Answer(p) == Doing(p, "answer") /\ SendTo(p, got[p].from, got[p].by)

Recv(p) ==
  /\ Doing(p, "recv") /\ inbox[p] # <<>>
  /\ GoesOn(p)
  /\ got' = [got EXCEPT ![p] = Head(inbox[p])] /\ inbox' = [inbox EXCEPT ![p] = Tail(@)]
  /\ UNCHANGED <<pair, socks, bound, robbed>>

\* The loop of a raw client, which looks at the port a datagram is for.
Sniff(p) ==
  LET mine == Head(inbox[p]).for = Address(p) IN
  /\ Doing(p, "sniff") /\ inbox[p] # <<>>
  /\ IF mine THEN GoesOn(p) ELSE UNCHANGED agent
  /\ got' = [got EXCEPT ![p] = IF mine THEN Head(inbox[p]) ELSE @]
  /\ inbox' = [inbox EXCEPT ![p] = Tail(@)]
  /\ UNCHANGED <<pair, socks, bound, robbed>>

Close(p) == Doing(p, "close") /\ GoesOn(p) /\ CloseSocket(p) /\ UNCHANGED <<pair, got, robbed>>

\* A signal; a path stays.
Kill(p) ==
  /\ agent[p].at = "run" /\ Exits(p, "killed")
  /\ robbed' = robbed \cup {p}
  /\ UNCHANGED <<pair, got>>

CallStep(p) == Unlink(p) \/ Bind(p) \/ Send(p) \/ Answer(p) \/ Recv(p) \/ Sniff(p) \/ Close(p)

Next == \E p \in Programs : Start(p) \/ CallStep(p) \/ Kill(p)

\* Some program that does not wait goes on; as none runs for ever without input,
\* all do.
Fairness == WF_gramVars(\E p \in Programs : CallStep(p))
FairSpec == Init /\ [][Next]_gramVars /\ Fairness
-------------------------------------------------------------------------------
\* The type invariant; two sockets are never bound to one address.
TypeOK ==
  /\ pair \in Kinds /\ socks \subseteq Programs /\ robbed \subseteq Programs
  /\ \A a \in DOMAIN bound : bound[a] \in Programs \cup {Nobody} /\ (bound[a] = Nobody \/ Address(bound[a]) = a)
  /\ \A p \in Programs :
       /\ agent[p].at \in {"new", "run", "done", "failed", "killed"} /\ agent[p].k \in DOMAIN MyScript(p)
       /\ agent[p].at = "new" => p \notin socks
       /\ \A g \in {got[p]} \cup {inbox[p][k] : k \in DOMAIN inbox[p]} : g.by \in Programs \cup {Nobody}

\* A client that printed an answer to somebody else.
Misled(u) == got[u] # None /\ got[u].to # u

\* A server prints what a client said, and no two runs of it the same; a client
\* prints an answer of the server, and to itself, unless it came by the address of
\* a client that was killed or whose path it took (UDPlocal/client.c 37 and 58), or
\* that had left with the answer to such a client; without one every answer is to
\* who prints it.  Raw clients share a port and all print the one answer, but no
\* other datagram that comes by (16-sockets/4/udp/client.c 58, 4/ip/client.c 86).
AnsweredByName ==
  /\ \A s \in Servers : got[s] # None => got[s].by \in Visitors
  /\ pair # "multi" => \A s, t \in Servers : s # t /\ got[s] # None => got[s] # got[t]
  /\ \A v \in Visitors : got[v] # None =>
       /\ got[v].by \in Servers /\ got[v].to \in Visitors
       /\ pair # "raw" => got[v].to = v \/ (robbed # {} /\ (got[v].to \in robbed \/ Misled(got[v].to)))

\* A client whose datagram was answered ends, unless it lost its path to another.
AllHeard ==
  \A v \in Visitors \ robbed : \A s \in Servers \ robbed :
    got[s].by = v => agent[v].at # "run"
AnswersCome == []<>AllHeard
===============================================================================
