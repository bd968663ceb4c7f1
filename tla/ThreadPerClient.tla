---------------------------- MODULE ThreadPerClient ----------------------------
(***************************************************************************)
(* simple_multi and the TCP side of multi_protocol, both of                *)
(* "16-sockets/2": main accepts a connection and starts a thread for it.   *)
(* They differ in what the thread is handed.  simple_multi passes the      *)
(* address of main's own variable, which the next accept writes to;        *)
(* multi_protocol allocates a block for each connection.                   *)
(*                                                                         *)
(* A thread has the name of the client it was started for.  Descriptors    *)
(* are numbers the kernel gives out again; recv holds the connection it    *)
(* blocks on.                                                              *)
(***************************************************************************)
EXTENDS Integers, FiniteSets, SequencesExt

CONSTANTS NClients,  \* client processes, each of which connects once
          ROUNDS,    \* messages of a client of simple_multi: 10
          Sockets    \* descriptors accept can give: enough for every client

ASSUME ClientsAssumption == NClients \in Nat
ASSUME RoundsAssumption  == ROUNDS \in Nat \ {0}
ASSUME SocketsAssumption == Sockets \subseteq Nat \ {0}

\* Clients are numbered in the order in which they connect.
Clients == 1 .. NClients
MAIN    == 0

VARIABLES
  simple,        \* which of the two servers runs; never changes
  mpc,           \* main: in accept, or about to start a thread
  latest,        \* the clients whose connection main accepted last
  cell,          \* main's sockClient, and the blocks new_sock of multi_protocol
  tpc,           \* where the thread of client c is
  sock,          \* its local sockClient (client_sock)
  round,         \* its local i
  talk           \* the connection of its last recv, or none
serverVars == <<simple, mpc, latest, cell, tpc, sock, round, talk>>

VARIABLES
  fd,            \* the open descriptors: fd[s] is the client at the other end
  pending,       \* connections that wait for accept
  cpc,           \* where client c is
  done,          \* answers client c has got
  inbox, outbox  \* messages in flight to the server and to the client, per client
netVars == <<fd, pending, cpc, done, inbox, outbox>>

\* History, read by properties only.
VARIABLES
  late,          \* threads that had not read main's variable when it was overwritten
  struck         \* connections a thread closed, or went on with, in the middle of
                 \* its work on another behind the same descriptor
vars == <<serverVars, netVars, late, struck>>

ThreadPcs == {"none", "start", "recv", "wait", "send", "close", "ended"}
ClientPcs == {"off", "connected", "sent", "failed", "gone"}

Init ==
  /\ simple \in BOOLEAN
  /\ mpc = "accept" /\ latest = {}
  /\ cell = [x \in Clients \cup {MAIN} |-> 0]
  /\ tpc = [t \in Clients |-> "none"]
  /\ sock = [t \in Clients |-> 0]
  /\ round = [t \in Clients |-> 0]
  /\ talk = [t \in Clients |-> {}]
  /\ fd = <<>> /\ pending = <<>>
  /\ cpc = [c \in Clients |-> "off"]
  /\ done = [c \in Clients |-> 0]
  /\ inbox = [c \in Clients |-> 0] /\ outbox = [c \in Clients |-> 0]
  /\ late = {} /\ struck = {}

SharedCell(t) == MAIN   \* mutant: both servers hand out one address

\* Where the thread of t finds its socket.
Cell(t) == IF simple THEN MAIN ELSE t

Goto(t, pc) == tpc' = [tpc EXCEPT ![t] = pc]
Behind(s)   == {fd[r] : r \in DOMAIN fd \cap {s}}

\* A client of simple_multi has ROUNDS messages, one of multi_protocol has one.
Turns == IF simple THEN ROUNDS ELSE 1

Gone(c) == cpc[c] \in {"failed", "gone"}

\* The server's end of c is closed: no descriptor and no blocked recv holds it.
HungUp(c) ==
  /\ cpc[c] # "off" /\ ~Contains(pending, c)
  /\ \A s \in DOMAIN fd : fd[s] # c
  /\ \A t \in Clients : ~(tpc[t] = "wait" /\ c \in talk[t])
-------------------------------------------------------------------------------
(***************************************************************************)
(* main.                                                                   *)
(***************************************************************************)
\* The kernel gives the lowest free descriptor; a thread that has not read the
\* variable it goes to never sees its own.
Accept ==
  /\ mpc = "accept" /\ pending # <<>>
  /\ \E s \in Sockets \ DOMAIN fd :
       /\ \A r \in Sockets \ DOMAIN fd : s <= r
       /\ fd' = [r \in DOMAIN fd \cup {s} |-> IF r = s THEN Head(pending) ELSE fd[r]]
       /\ cell' = [cell EXCEPT ![Cell(Head(pending))] = s]
  /\ late' = late \cup {t \in Clients : simple /\ tpc[t] = "start"}
  /\ latest' = {Head(pending)}
  /\ pending' = Tail(pending)
  /\ mpc' = "create"
  /\ UNCHANGED <<simple, tpc, sock, round, talk, cpc, done, inbox, outbox, struck>>

\* pthread_create and pthread_detach.
StartThread ==
  /\ mpc = "create"
  /\ \E t \in latest : Goto(t, "start")
  /\ mpc' = "accept"
  /\ UNCHANGED <<simple, latest, cell, sock, round, talk, netVars, late, struck>>
-------------------------------------------------------------------------------
(***************************************************************************)
(* A thread: ClientHandler, handle_tcp_client.                             *)
(***************************************************************************)
ReadSocket(t) ==
  /\ tpc[t] = "start"
  /\ sock' = [sock EXCEPT ![t] = cell[Cell(t)]]
  /\ Goto(t, "recv")
  /\ UNCHANGED <<simple, mpc, latest, cell, round, talk, netVars, late, struck>>

\* recv finds a connection, or fails because another thread closed it.
Recv(t) ==
  /\ tpc[t] = "recv"
  /\ IF Behind(sock[t]) # {}
       THEN talk' = [talk EXCEPT ![t] = Behind(sock[t])] /\ Goto(t, "wait")
       ELSE Goto(t, "close") /\ UNCHANGED talk
  /\ struck' = struck \cup (IF round[t] > 0 THEN Behind(sock[t]) \ talk[t] ELSE {})
  /\ UNCHANGED <<simple, mpc, latest, cell, sock, round, netVars, late>>

RecvMessage(t) ==
  /\ tpc[t] = "wait"
  /\ \E c \in talk[t] : inbox[c] > 0 /\ inbox' = [inbox EXCEPT ![c] = @ - 1]
  /\ Goto(t, "send")
  /\ UNCHANGED <<simple, mpc, latest, cell, sock, round, talk>>
  /\ UNCHANGED <<fd, pending, cpc, done, outbox, late, struck>>

\* recv returns 0 or an error once the client is gone.
RecvEnd(t) ==
  /\ tpc[t] = "wait"
  /\ \E c \in talk[t] : inbox[c] = 0 /\ Gone(c)
  /\ Goto(t, "close")
  /\ UNCHANGED <<simple, mpc, latest, cell, sock, round, talk, netVars, late, struck>>

\* mutant: one answer more
OneMore(t) ==
  /\ tpc[t] = "send"
  /\ LET to   == Behind(sock[t])
         stop == simple /\ (to = {} \/ round[t] = ROUNDS)
     IN  /\ outbox' = [c \in Clients |-> outbox[c] + (IF c \in to THEN 1 ELSE 0)]
         /\ round' = IF simple /\ to # {} THEN [round EXCEPT ![t] = @ + 1] ELSE round
         /\ Goto(t, IF stop THEN "close" ELSE "recv")
  /\ UNCHANGED <<simple, mpc, latest, cell, sock, talk>>
  /\ UNCHANGED <<fd, pending, cpc, done, inbox, late, struck>>

\* The answer goes to whoever is behind the descriptor now.  simple_multi stops
\* after ROUNDS answers or a failed send, multi_protocol looks at neither.
Send(t) ==
  /\ tpc[t] = "send"
  /\ LET to   == Behind(sock[t])
         stop == simple /\ (to = {} \/ round[t] + 1 = ROUNDS)
     IN  /\ outbox' = [c \in Clients |-> outbox[c] + (IF c \in to THEN 1 ELSE 0)]
         /\ round' = IF simple /\ to # {} THEN [round EXCEPT ![t] = @ + 1] ELSE round
         /\ Goto(t, IF stop THEN "close" ELSE "recv")
  /\ UNCHANGED <<simple, mpc, latest, cell, sock, talk>>
  /\ UNCHANGED <<fd, pending, cpc, done, inbox, late, struck>>

\* mutant: returns without close
KeepOpen(t) ==
  /\ tpc[t] = "close"
  /\ Goto(t, "ended")
  /\ UNCHANGED <<simple, mpc, latest, cell, sock, round, talk, netVars, late, struck>>

\* Every way out of a thread closes its socket once.
Close(t) ==
  /\ tpc[t] = "close"
  /\ fd' = [s \in DOMAIN fd \ {sock[t]} |-> fd[s]]
  /\ struck' = struck \cup (Behind(sock[t]) \ talk[t])
  /\ Goto(t, "ended")
  /\ UNCHANGED <<simple, mpc, latest, cell, sock, round, talk>>
  /\ UNCHANGED <<pending, cpc, done, inbox, outbox, late>>

ThreadStep(t) ==
  \/ ReadSocket(t) \/ Recv(t) \/ RecvMessage(t) \/ RecvEnd(t) \/ Send(t) \/ Close(t)
-------------------------------------------------------------------------------
(***************************************************************************)
(* client.c and client_tcp.c: messages and their answers, one at a time.   *)
(***************************************************************************)
At(c, from, to) == cpc[c] = from /\ cpc' = [cpc EXCEPT ![c] = to]

Connect(c) ==
  /\ \A b \in 1 .. c - 1 : cpc[b] # "off"
  /\ At(c, "off", "connected")
  /\ pending' = Append(pending, c)
  /\ UNCHANGED <<serverVars, fd, done, inbox, outbox, late, struck>>

SendMessage(c) ==
  /\ At(c, "connected", "sent")
  /\ inbox' = [inbox EXCEPT ![c] = @ + 1]
  /\ UNCHANGED <<serverVars, fd, pending, done, outbox, late, struck>>

RecvReply(c) ==
  /\ At(c, "sent", IF done[c] + 1 = Turns THEN "gone" ELSE "connected")
  /\ outbox[c] > 0
  /\ outbox' = [outbox EXCEPT ![c] = @ - 1]
  /\ done' = [done EXCEPT ![c] = @ + 1]
  /\ UNCHANGED <<serverVars, fd, pending, inbox, late, struck>>

\* recv, or a send after the reset, fails: the client ends without an answer.
RecvFails(c) ==
  /\ At(c, "sent", "failed")
  /\ outbox[c] = 0 /\ HungUp(c)
  /\ UNCHANGED <<serverVars, fd, pending, done, inbox, outbox, late, struck>>

\* The client is interrupted.
Die(c) ==
  /\ cpc[c] \in {"connected", "sent"}
  /\ cpc' = [cpc EXCEPT ![c] = "gone"]
  /\ UNCHANGED <<serverVars, fd, pending, done, inbox, outbox, late, struck>>

ClientStep(c) == SendMessage(c) \/ RecvReply(c) \/ RecvFails(c)
-------------------------------------------------------------------------------
Next ==
  \/ Accept \/ StartThread
  \/ \E t \in Clients : ThreadStep(t)
  \/ \E c \in Clients : Connect(c) \/ ClientStep(c) \/ Die(c)

Spec == Init /\ [][Next]_vars

\* main, the threads and connected clients run on whenever they can.
Fairness ==
  /\ WF_vars(Accept \/ StartThread)
  /\ \A t \in Clients : WF_vars(ThreadStep(t))
  /\ \A c \in Clients : WF_vars(ClientStep(c))

FairSpec == Spec /\ Fairness
-------------------------------------------------------------------------------
(***************************************************************************)
(* Properties.                                                             *)
(***************************************************************************)
\* Every variable has its type.
TypeOK ==
  /\ simple \in BOOLEAN /\ mpc \in {"accept", "create"} /\ latest \subseteq Clients
  /\ cell \in [Clients \cup {MAIN} -> Sockets \cup {0}]
  /\ tpc \in [Clients -> ThreadPcs]
  /\ \A t \in Clients : sock[t] = 0 <=> tpc[t] \in {"none", "start"}
  /\ round \in [Clients -> 0 .. ROUNDS] /\ talk \in [Clients -> SUBSET Clients]
  /\ DOMAIN fd \subseteq Sockets /\ \A s \in DOMAIN fd : fd[s] \in Clients
  /\ pending \in Seq(Clients) /\ cpc \in [Clients -> ClientPcs]
  /\ done \in [Clients -> 0 .. Turns]
  /\ inbox \in [Clients -> Nat] /\ outbox \in [Clients -> Nat]
  /\ late \subseteq Clients /\ struck \subseteq Clients

\* A thread talks to its own client, unless main overwrote its variable before
\* some thread of simple_multi read it; with a block per connection it always
\* does, and no thread ever touches the descriptor of another's client.  A client
\* fails only if a thread came upon its connection in the middle of its work on
\* another.
StaysHome ==
  /\ late = {} =>
       /\ \A t \in Clients : tpc[t] \in {"wait", "send"} => talk[t] = {t}
       /\ struck = {}
  /\ \A c \in Clients : cpc[c] = "failed" => c \in struck

\* The threads that work on descriptor s, or will when they read it.
Keepers(s) ==
  {t \in Clients : \/ tpc[t] \in {"recv", "wait", "send", "close"} /\ sock[t] = s
                   \/ tpc[t] = "start" /\ cell[Cell(t)] = s
                   \/ mpc = "create" /\ t \in latest /\ cell[Cell(t)] = s}

\* An open connection has a thread that will close it, unless its own thread
\* was too late to read which it is: those alone can leak.
NoOrphan == \A s \in DOMAIN fd : Keepers(s) # {} \/ fd[s] \in late

\* A client is answered or learns that it is not, unless its thread was late.
EveryoneAnswered ==
  \A c \in Clients : cpc[c] = "sent" ~> (cpc[c] # "sent" \/ c \in late)
===============================================================================
