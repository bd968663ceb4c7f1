------------------------------- MODULE Broadcast -------------------------------
(***************************************************************************)
(* "16-sockets/3/broadcast": one thread with select over the sockets of    *)
(* its clients, which sends what one of them says to all the others, and   *)
(* the clients, which type a line and then read.  A socket is its          *)
(* descriptor; each end of a connection knows whether the other end is     *)
(* open, has closed ("fin"), has reset the connection ("rst"), or whether  *)
(* that reset has been reported or provoked already ("dead").              *)
(***************************************************************************)
EXTENDS Integers, FiniteSetsExt, Functions, SequencesExt

CONSTANTS Clients,
          MaxLines     \* bound: lines the clients type

ConstantsOK == IsFiniteSet(Clients) /\ MaxLines \in Nat

NoClient  == {}                            \* a free descriptor
server_fd == 3
Fds       == server_fd + 1 .. server_fd + Cardinality(Clients)

VARIABLES
  srv,      \* the server: its place, readfds, i, j, and the text in buffer
  slots,    \* client_sockets up to client_count; 0 is an empty place
  owner,    \* the client behind each open descriptor
  backlog,  \* connections not yet accepted
  user,     \* where each client is
  net,      \* each connection: texts up to the server and down to the client,
            \* and what each end knows of the other
  said,     \* history: lines each client has typed
  log,      \* history: what the server has read, and of whom
  since,    \* history: the length of the log when a client was accepted
  told,     \* history: what the server has sent to each client
  resets    \* history: read has failed with ECONNRESET
castVars == <<srv, slots, owner, backlog, user, net, said, log, since, told, resets>>

Init ==
  /\ srv = [at |-> "select", ready |-> {}, i |-> 1, j |-> 1, buffer |-> <<>>]
  /\ slots = <<>> /\ owner = [d \in Fds |-> NoClient] /\ backlog = <<>>
  /\ user = [c \in Clients |-> "out"]
  /\ net = [c \in Clients |-> [up |-> <<>>, down |-> <<>>, atServer |-> "none", atClient |-> "none"]]
  /\ said = [c \in Clients |-> 0] /\ log = <<>> /\ since = [c \in Clients |-> 0]
  /\ told = [c \in Clients |-> <<>>] /\ resets = FALSE

Of(d)       == CHOOSE c \in Clients : owner[d] = {c}
Open        == {d \in Fds : owner[d] # NoClient}
Readable(d) == d \in Open /\ (net[Of(d)].up # <<>> \/ net[Of(d)].atServer # "open")
Current     == slots[srv.i]
Scanning    == srv.at = "scan"
-------------------------------------------------------------------------------
(***************************************************************************)
(* The server.                                                             *)
(***************************************************************************)
NextPlace(k, table, ready) ==    \* mutant: FD_ISSET is not asked
  Min({n \in k .. Len(table) : table[n] > 0} \cup {Len(table) + 1})

\* The next place from k on whose socket is ready, or past the end of the table.
NextReady(k, table, ready) == Min({n \in k .. Len(table) : table[n] \in ready} \cup {Len(table) + 1})

\* The scan goes on from place k; at the end of the table it is select's turn.
ScanFrom(r, k, table) ==
  LET n == NextReady(k, table, r.ready)
  IN  IF n > Len(table) THEN [r EXCEPT !.at = "select", !.ready = {}, !.i = 1, !.j = 1]
                        ELSE [r EXCEPT !.at = "scan", !.i = n, !.j = 1]

\* select, which waits until a socket of the table has input, an end or an error.
Select ==
  LET ready == {d \in ToSet(slots) : Readable(d)} \cup (IF backlog = <<>> THEN {} ELSE {server_fd})
      r     == [srv EXCEPT !.ready = ready]
  IN  /\ srv.at = "select" /\ ready # {}
      /\ srv' = IF server_fd \in ready THEN [r EXCEPT !.at = "accept"] ELSE ScanFrom(r, 1, slots)
      /\ UNCHANGED <<slots, owner, backlog, user, net, said, log, since, told, resets>>

\* The new socket gets the lowest free descriptor and the next place of the table.
Accept ==
  LET d == Min(Fds \ Open) IN
  /\ srv.at = "accept"
  /\ owner' = [owner EXCEPT ![d] = {Head(backlog)}]
  /\ slots' = Append(slots, d)
  /\ srv' = ScanFrom(srv, 1, slots')
  /\ since' = [since EXCEPT ![Head(backlog)] = Len(log)]
  /\ backlog' = Tail(backlog)
  /\ UNCHANGED <<user, net, said, log, told, resets>>

Later(k) ==     \* mutant: the inner loop starts behind the outer one
  {n \in k .. Len(slots) : n > srv.i /\ slots[n] > 0}

\* The places the text in the buffer is sent to, from place k on.
Targets(k) == {n \in k .. Len(slots) : slots[n] # Current /\ slots[n] > 0}

\* The loop of sends from place k on, and then the scan again.
SendFrom(r, k) ==
  IF Targets(k) = {} THEN ScanFrom(r, srv.i + 1, slots)
                     ELSE [r EXCEPT !.at = "send", !.j = Min(Targets(k))]

\* read returns data: the whole input of that socket; then the loop of sends.
ReadText ==
  LET c == Of(Current) IN
  /\ Scanning /\ Current \in Open /\ net[c].up # <<>>
  /\ srv' = SendFrom([srv EXCEPT !.buffer = net[c].up], 1)
  /\ net' = [net EXCEPT ![c].up = <<>>]
  /\ log' = Append(log, [from |-> c, text |-> net[c].up])
  /\ UNCHANGED <<slots, owner, backlog, user, said, since, told, resets>>

\* read returns -1 and is taken for data: what the buffer still holds is sent again.
ReadError ==
  LET c == Of(Current) IN
  /\ Scanning /\ Current \in Open
  /\ net[c].up = <<>> /\ net[c].atServer = "rst"
  /\ srv' = SendFrom(srv, 1)
  /\ net' = [net EXCEPT ![c].atServer = "dead"]
  /\ log' = Append(log, [from |-> c, text |-> srv.buffer]) /\ resets' = TRUE
  /\ UNCHANGED <<slots, owner, backlog, user, said, since, told>>

\* read returns 0: the socket is closed and its place emptied, not taken out.
ReadEnd ==
  LET c == Of(Current) IN
  /\ Scanning /\ Current \in Open
  /\ net[c].up = <<>> /\ net[c].atServer \in {"fin", "dead"}
  /\ owner' = [owner EXCEPT ![Current] = NoClient]
  /\ slots' = [slots EXCEPT ![srv.i] = 0]
  /\ srv' = ScanFrom(srv, srv.i + 1, slots')
  /\ UNCHANGED <<backlog, user, net, said, log, since, told, resets>>

\* What becomes of an end that sends: a peer that has gone answers with a reset.
AfterSend(s) == IF s = "open" THEN "open" ELSE "dead"

SendText(d) ==
  LET c == Of(d) IN
  /\ net[c].atServer # "dead"
  /\ IF net[c].atServer = "open"
     THEN /\ net' = [net EXCEPT ![c].down = @ \o srv.buffer]
          /\ told' = [told EXCEPT ![c] = Append(@, srv.buffer)]
     ELSE /\ net' = [net EXCEPT ![c].atServer = AfterSend(@)]
          /\ UNCHANGED told
  /\ srv' = SendFrom(srv, srv.j + 1)
  /\ UNCHANGED <<slots, owner, backlog, user, said, log, since, resets>>

\* SIGPIPE ends the server, and the kernel closes its sockets.
Killed(d) ==
  /\ net[Of(d)].atServer = "dead"
  /\ srv' = [srv EXCEPT !.at = "gone"]
  /\ net' = [c \in Clients |->
               IF net[c].atServer # "open" THEN net[c]
               ELSE [net[c] EXCEPT !.atClient = IF net[c].up = <<>> /\ c \notin ToSet(backlog) THEN "fin" ELSE "rst"]]
  /\ UNCHANGED <<slots, owner, backlog, user, said, log, since, told, resets>>

Send == srv.at = "send" /\ (SendText(slots[srv.j]) \/ Killed(slots[srv.j]))

ServerStep == Select \/ Accept \/ ReadText \/ ReadError \/ ReadEnd \/ Send
-------------------------------------------------------------------------------
(***************************************************************************)
(* A client.                                                               *)
(***************************************************************************)
\* connect succeeds as soon as the connection is in the backlog.
Connect(c) ==
  /\ user[c] = "out" /\ srv.at # "gone"
  /\ user' = [user EXCEPT ![c] = "typing"]
  /\ backlog' = Append(backlog, c)
  /\ net' = [net EXCEPT ![c].atServer = "open", ![c].atClient = "open"]
  /\ UNCHANGED <<srv, slots, owner, said, log, since, told, resets>>

\* fgets and send; when the server has gone the second send ends the client.
TypeLine(c) ==
  /\ user[c] = "typing" /\ SumFunction(said) < MaxLines
  /\ said' = [said EXCEPT ![c] = @ + 1]
  /\ user' = [user EXCEPT ![c] = IF net[c].atClient = "dead" THEN "gone" ELSE "reading"]
  /\ net' = [net EXCEPT ![c].up = IF net[c].atClient = "open" THEN Append(@, <<c, said[c] + 1>>) ELSE @,
                        ![c].atClient = AfterSend(@)]
  /\ UNCHANGED <<srv, slots, owner, backlog, log, since, told, resets>>

\* read: all the server has sent, or the end or the error it finds instead.
Hear(c) ==
  /\ user[c] = "reading" /\ (net[c].down # <<>> \/ net[c].atClient # "open")
  /\ user' = [user EXCEPT ![c] = "typing"]
  /\ net' = [net EXCEPT ![c].down = <<>>,
                        ![c].atClient = IF net[c].down = <<>> /\ @ = "rst" THEN "dead" ELSE @]
  /\ UNCHANGED <<srv, slots, owner, backlog, said, log, since, told, resets>>

\* A signal ends the client; what it has not read makes its kernel reset the connection.
Die(c) ==
  /\ user[c] \in {"typing", "reading"}
  /\ user' = [user EXCEPT ![c] = "gone"]
  /\ net' = [net EXCEPT ![c].down = <<>>,
                        ![c].atServer = CASE @ # "open" -> @ [] net[c].down = <<>> -> "fin" [] OTHER -> "rst"]
  /\ UNCHANGED <<srv, slots, owner, backlog, said, log, since, told, resets>>

Next == ServerStep \/ \E c \in Clients : Connect(c) \/ TypeLine(c) \/ Hear(c) \/ Die(c)

\* The server goes on; nobody has to type, read or leave.
Fairness == WF_castVars(ServerStep)
FairSpec == Init /\ [][Next]_castVars /\ Fairness
-------------------------------------------------------------------------------
(***************************************************************************)
(* Properties.                                                             *)
(***************************************************************************)
Lines == Clients \X (1 .. MaxLines)
States == {"none", "open", "fin", "rst", "dead"}

\* The type invariant; every open socket has exactly one place in the table.
TypeOK ==
  /\ srv.at \in {"select", "accept", "scan", "send", "gone"}
  /\ srv.ready \subseteq Fds \cup {server_fd} /\ {srv.i, srv.j} \subseteq 1 .. Cardinality(Clients)
  /\ Len(slots) <= Cardinality(Clients)
  /\ ToSet(slots) \subseteq Open \cup {0}
  /\ \A d \in Fds : owner[d] \in SUBSET Clients /\ Cardinality(owner[d]) <= 1
  /\ \A d \in Open : Cardinality({k \in DOMAIN slots : slots[k] = d}) = 1
  /\ \A c \in Clients :
       /\ user[c] \in {"out", "typing", "reading", "gone"} /\ said[c] \in 0 .. MaxLines
       /\ {net[c].atServer, net[c].atClient} \subseteq States
       /\ ToSet(net[c].up) \cup ToSet(net[c].down) \subseteq Lines
       /\ user[c] = "out" <=> net[c].atServer = "none"

\* The one thread never waits in read: a socket select found ready is ready still
\* when the scan comes to it, also if places were emptied and descriptors given to
\* new connections since (lines 67-86).
NeverBlocks == Scanning => Readable(Current)

\* The places in the log, up to n, of what is meant for client c, and that it has been
\* sent all of that, in this order.
Due(c, n)    == {m \in since[c] + 1 .. n : log[m].from # c}
SentTo(c, n) == /\ Len(told[c]) = Cardinality(Due(c, n))
                /\ \A m \in Due(c, n) : told[c][Cardinality(Due(c, m))] = log[m].text

\* What c was sent has no line twice and none of its own.
NoEcho(c) ==
  \A k, l \in DOMAIN told[c] : \A m \in DOMAIN told[c][k], n \in DOMAIN told[c][l] :
    /\ told[c][k][m][1] # c
    /\ told[c][k][m] = told[c][l][n] => k = l /\ m = n

\* Whoever is connected has been sent all the server has read of the others since it
\* was accepted, in that order; it is sent a line twice, or one of its own, only
\* after a read that failed was taken for data (lines 83-98).
SameForAll ==
  \A d \in Open :
    /\ srv.at \in {"select", "accept", "scan"} /\ net[Of(d)].atServer = "open" => SentTo(Of(d), Len(log))
    /\ ~resets => NoEcho(Of(d))

\* The server reads what a client has sent, unless SIGPIPE ends it first (lines 46-101).
InputRead == \A c \in Clients : net[c].up = <<>> \/ srv.at = "gone"
AllRead   == []<>InputRead
===============================================================================
