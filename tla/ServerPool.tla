------------------------------ MODULE ServerPool ------------------------------
(***************************************************************************)
(* server_pool of "16-sockets/2": main deals the sockets it accepts to a   *)
(* pool of threads over one System V message queue.  A socket for thread i *)
(* has the type i + 1, the notice of a thread that is free again has the   *)
(* type NTHREAD + 1 and carries the thread's index.                        *)
(*                                                                         *)
(* A thread keeps the type it receives in the same struct it fills for its *)
(* notice.  After its first client it therefore receives notices, its own  *)
(* among them, takes the index in them for a socket, and never looks into  *)
(* its mailbox again.  The indices are descriptors too: of the standard    *)
(* streams, of the listening socket and of clients, so the model keeps the *)
(* whole table.                                                            *)
(***************************************************************************)
EXTENDS Integers, FiniteSets, SequencesExt

CONSTANTS Clients,     \* client processes, each of which connects once
          NTHREAD,     \* the threads of the pool
          ROUNDS,      \* messages a client sends and a thread takes from it: 10
          sockMain,    \* the listening socket's descriptor; below it, the streams
          MaxSocket    \* accept gives descriptors up to this one: enough for all

ASSUME ClientsAssumption == Clients \cap {"stream", "listener"} = {}
ASSUME ThreadAssumption == NTHREAD \in Nat \ {0}
ASSUME RoundsAssumption == ROUNDS \in Nat \ {0}
ASSUME SocketAssumption == sockMain \in Nat /\ MaxSocket \in Nat /\ sockMain <= MaxSocket

Threads == 0 .. NTHREAD - 1
Sockets == 0 .. MaxSocket
NOTICE  == NTHREAD + 1
Mail(i) == i + 1

VARIABLES
  mpc,           \* main: before accept, blocked in it, with a socket to deal, exited
  sockClient,    \* main's local: the socket accepted last
  freeThread,    \* main's view of the pool
  msgQueue,      \* the System V queue
  tpc,           \* where thread t is
  mtype,         \* t's msg.mtype
  sock,          \* t's local sockClient
  round,         \* t's local i
  talk           \* the connection of t's last recv, or none
serverVars == <<mpc, sockClient, freeThread, msgQueue, tpc, mtype, sock, round, talk>>

VARIABLES
  fd,            \* the open descriptors and what is behind them
  pending,       \* connections that wait for accept
  cpc,           \* where client c is
  done,          \* answers client c has got
  inbox, outbox  \* messages in flight to the server and to the client, per client
netVars == <<fd, pending, cpc, done, inbox, outbox>>

VARIABLE struck  \* history: what a thread closed, or went on with, in the middle of
                 \* its work on something else behind the same descriptor
vars == <<serverVars, netVars, struck>>

ThreadPcs == {"msgrcv", "recv", "wait", "send", "close", "last", "notify"}
ClientPcs == {"off", "connected", "sent", "failed", "gone"}

Init ==
  /\ mpc = "accept" /\ sockClient = 0
  /\ freeThread = [t \in Threads |-> TRUE] /\ msgQueue = <<>>
  /\ tpc = [t \in Threads |-> "msgrcv"]
  /\ mtype = [t \in Threads |-> Mail(t)]
  /\ sock = [t \in Threads |-> 0]
  /\ round = [t \in Threads |-> 0]
  /\ talk = [t \in Threads |-> {}]
  /\ fd = [s \in 0 .. sockMain |-> IF s = sockMain THEN "listener" ELSE "stream"]
  /\ pending = <<>>
  /\ cpc = [c \in Clients |-> "off"]
  /\ done = [c \in Clients |-> 0]
  /\ inbox = [c \in Clients |-> 0] /\ outbox = [c \in Clients |-> 0]
  /\ struck = {}

\* Where the queue has messages of one type; msgrcv takes the oldest of them.
Of(type)     == {k \in DOMAIN msgQueue : msgQueue[k].mtype = type}
Oldest(type) == CHOOSE k \in Of(type) : \A j \in Of(type) : k <= j
msgrcv(type) == msgQueue' = RemoveAt(msgQueue, Oldest(type))
msgsnd(type, n) == msgQueue' = Append(msgQueue, [mtype |-> type, sockClient |-> n])

Goto(t, pc) == tpc' = [tpc EXCEPT ![t] = pc]
Behind(s)   == {fd[r] : r \in DOMAIN fd \cap {s}}

\* The listening socket lives while its descriptor is open or accept blocks on it.
Listening == mpc # "exited" /\ ("listener" \in Behind(sockMain) \/ mpc = "blocked")

Gone(c) == cpc[c] \in {"failed", "gone"}

\* The server's end of c is closed: no descriptor and no blocked recv holds it.
HungUp(c) ==
  /\ cpc[c] # "off" /\ ~Contains(pending, c)
  /\ \A s \in DOMAIN fd : fd[s] # c
  /\ mpc = "exited" \/ \A t \in Threads : ~(tpc[t] = "wait" /\ c \in talk[t])
-------------------------------------------------------------------------------
(***************************************************************************)
(* main.                                                                   *)
(***************************************************************************)
CallAccept ==
  /\ mpc = "accept" /\ "listener" \in Behind(sockMain)
  /\ mpc' = "blocked"
  /\ UNCHANGED <<sockClient, freeThread, msgQueue, tpc, mtype, sock, round, talk>>
  /\ UNCHANGED <<netVars, struck>>

\* accept fails on a descriptor that is closed or another socket's: exit(1) ends
\* the process with its threads and connections.
AcceptFails ==
  /\ mpc = "accept" /\ "listener" \notin Behind(sockMain)
  /\ mpc' = "exited"
  /\ fd' = <<>> /\ pending' = <<>>
  /\ UNCHANGED <<sockClient, freeThread, msgQueue, tpc, mtype, sock, round, talk>>
  /\ UNCHANGED <<cpc, done, inbox, outbox, struck>>

\* The kernel gives the lowest free descriptor.  A listening socket that only
\* this call held goes, and with it those that still wait.
Accept ==
  /\ mpc = "blocked" /\ pending # <<>>
  /\ \E s \in Sockets \ DOMAIN fd :
       /\ \A r \in Sockets \ DOMAIN fd : s <= r
       /\ fd' = [r \in DOMAIN fd \cup {s} |-> IF r = s THEN Head(pending) ELSE fd[r]]
       /\ sockClient' = s
  /\ pending' = IF "listener" \in Behind(sockMain) THEN Tail(pending) ELSE <<>>
  /\ mpc' = "deal"
  /\ UNCHANGED <<freeThread, msgQueue, tpc, mtype, sock, round, talk>>
  /\ UNCHANGED <<cpc, done, inbox, outbox, struck>>

FirstFree == CHOOSE i \in Threads : freeThread[i] /\ \A j \in 0 .. i - 1 : ~freeThread[j]

\* mutant: the mailbox of the next thread
DealNext ==
  /\ msgsnd(FirstFree + 2, sockClient)
  /\ freeThread' = [freeThread EXCEPT ![FirstFree] = FALSE]

\* mutant: the thread stays free
DealAgain ==
  /\ msgsnd(Mail(FirstFree), sockClient)
  /\ UNCHANGED freeThread

\* mutant: every thread gets the socket
DealToAll ==
  /\ msgQueue' = msgQueue \o [k \in 1 .. NTHREAD |-> [mtype |-> k, sockClient |-> sockClient]]
  /\ freeThread' = [freeThread EXCEPT ![FirstFree] = FALSE]

DealToFirst ==
  /\ msgsnd(Mail(FirstFree), sockClient)
  /\ freeThread' = [freeThread EXCEPT ![FirstFree] = FALSE]

Deal ==
  /\ mpc = "deal" /\ \E i \in Threads : freeThread[i]
  /\ DealToFirst
  /\ mpc' = "accept"
  /\ UNCHANGED <<sockClient, tpc, mtype, sock, round, talk, netVars, struck>>

\* Nobody is free: main waits for a notice.
TakeNotice ==
  /\ mpc = "deal" /\ \A i \in Threads : ~freeThread[i]
  /\ Of(NOTICE) # {}
  /\ msgrcv(NOTICE)
  /\ freeThread' = [freeThread EXCEPT ![msgQueue[Oldest(NOTICE)].sockClient] = TRUE]
  /\ UNCHANGED <<mpc, sockClient, tpc, mtype, sock, round, talk, netVars, struck>>
-------------------------------------------------------------------------------
(***************************************************************************)
(* ClientHandler, the body of a thread.                                    *)
(***************************************************************************)
\* The type is that of the message received before; what comes is a socket, or
\* the index in a notice taken for one.
TakeJob(t) ==
  /\ tpc[t] = "msgrcv" /\ Of(mtype[t]) # {}
  /\ msgrcv(mtype[t])
  /\ sock' = [sock EXCEPT ![t] = msgQueue[Oldest(mtype[t])].sockClient]
  /\ round' = [round EXCEPT ![t] = 0]
  /\ talk' = [talk EXCEPT ![t] = {}]
  /\ Goto(t, "recv")
  /\ UNCHANGED <<mpc, sockClient, freeThread, mtype, netVars, struck>>

\* recv finds a connection, or fails: EBADF, ENOTSOCK on a stream, ENOTCONN on
\* the listening socket.
Recv(t) ==
  /\ tpc[t] = "recv"
  /\ IF Behind(sock[t]) \cap Clients # {}
       THEN talk' = [talk EXCEPT ![t] = Behind(sock[t])] /\ Goto(t, "wait")
       ELSE Goto(t, "close") /\ UNCHANGED talk
  /\ struck' = struck \cup (IF round[t] > 0 THEN Behind(sock[t]) \ talk[t] ELSE {})
  /\ UNCHANGED <<mpc, sockClient, freeThread, msgQueue, mtype, sock, round, netVars>>

RecvMessage(t) ==
  /\ tpc[t] = "wait"
  /\ \E c \in talk[t] : inbox[c] > 0 /\ inbox' = [inbox EXCEPT ![c] = @ - 1]
  /\ Goto(t, "send")
  /\ UNCHANGED <<mpc, sockClient, freeThread, msgQueue, mtype, sock, round, talk>>
  /\ UNCHANGED <<fd, pending, cpc, done, outbox, struck>>

\* recv returns 0 or an error once the client is gone.
RecvEnd(t) ==
  /\ tpc[t] = "wait"
  /\ \E c \in talk[t] : inbox[c] = 0 /\ Gone(c)
  /\ Goto(t, "close")
  /\ UNCHANGED <<mpc, sockClient, freeThread, msgQueue, mtype, sock, round, talk, netVars, struck>>

\* The answer goes to whoever is behind the descriptor now.
Send(t) ==
  /\ tpc[t] = "send"
  /\ IF Behind(sock[t]) \cap Clients # {}
       THEN /\ outbox' = [outbox EXCEPT ![fd[sock[t]]] = @ + 1]
            /\ round' = [round EXCEPT ![t] = @ + 1]
            /\ Goto(t, IF round[t] + 1 = ROUNDS THEN "last" ELSE "recv")
       ELSE Goto(t, "close") /\ UNCHANGED <<outbox, round>>
  /\ UNCHANGED <<mpc, sockClient, freeThread, msgQueue, mtype, sock, talk>>
  /\ UNCHANGED <<fd, pending, cpc, done, inbox, struck>>

\* A listening socket goes with its last descriptor, unless accept blocks on it.
close(t) ==
  /\ fd' = [s \in DOMAIN fd \ {sock[t]} |-> fd[s]]
  /\ struck' = struck \cup (Behind(sock[t]) \ talk[t])
  /\ pending' = IF "listener" \in Behind(sock[t]) /\ mpc # "blocked" THEN <<>> ELSE pending

CloseFailed(t) ==
  /\ tpc[t] = "close"
  /\ close(t)
  /\ Goto(t, "last")
  /\ UNCHANGED <<mpc, sockClient, freeThread, msgQueue, mtype, sock, round, talk>>
  /\ UNCHANGED <<cpc, done, inbox, outbox>>

CloseLast(t) ==
  /\ tpc[t] = "last"
  /\ close(t)
  /\ Goto(t, "notify")
  /\ UNCHANGED <<mpc, sockClient, freeThread, msgQueue, mtype, sock, round, talk>>
  /\ UNCHANGED <<cpc, done, inbox, outbox>>

\* mutant: counts threads from one
NotifyFromOne(t) == msgsnd(NOTICE, t + 1)
SendNotice(t)    == msgsnd(NOTICE, t)

\* The notice is written into msg, whose type the next msgrcv asks for.
Notify(t) ==
  /\ tpc[t] = "notify"
  /\ SendNotice(t)
  /\ mtype' = [mtype EXCEPT ![t] = NOTICE]
  /\ Goto(t, "msgrcv")
  /\ UNCHANGED <<mpc, sockClient, freeThread, sock, round, talk, netVars, struck>>

ThreadStep(t) ==
  /\ mpc # "exited"
  /\ \/ TakeJob(t) \/ Recv(t) \/ RecvMessage(t) \/ RecvEnd(t) \/ Send(t)
     \/ CloseFailed(t) \/ CloseLast(t) \/ Notify(t)
-------------------------------------------------------------------------------
(***************************************************************************)
(* client.c: ROUNDS times a message and its answer.                        *)
(***************************************************************************)
At(c, from, to) == cpc[c] = from /\ cpc' = [cpc EXCEPT ![c] = to]

Connect(c) ==
  /\ Listening
  /\ At(c, "off", "connected")
  /\ pending' = Append(pending, c)
  /\ UNCHANGED <<serverVars, fd, done, inbox, outbox, struck>>

SendMessage(c) ==
  /\ At(c, "connected", "sent")
  /\ inbox' = [inbox EXCEPT ![c] = @ + 1]
  /\ UNCHANGED <<serverVars, fd, pending, done, outbox, struck>>

RecvReply(c) ==
  /\ At(c, "sent", IF done[c] + 1 = ROUNDS THEN "gone" ELSE "connected")
  /\ outbox[c] > 0
  /\ outbox' = [outbox EXCEPT ![c] = @ - 1]
  /\ done' = [done EXCEPT ![c] = @ + 1]
  /\ UNCHANGED <<serverVars, fd, pending, inbox, struck>>

\* recv, or a send after the reset, fails.
RecvFails(c) ==
  /\ At(c, "sent", "failed")
  /\ outbox[c] = 0 /\ HungUp(c)
  /\ UNCHANGED <<serverVars, fd, pending, done, inbox, outbox, struck>>

\* The client is interrupted.
Die(c) ==
  /\ cpc[c] \in {"connected", "sent"}
  /\ cpc' = [cpc EXCEPT ![c] = "gone"]
  /\ UNCHANGED <<serverVars, fd, pending, done, inbox, outbox, struck>>

ClientStep(c) == SendMessage(c) \/ RecvReply(c) \/ RecvFails(c)
-------------------------------------------------------------------------------
Next ==
  \/ CallAccept \/ AcceptFails \/ Accept \/ Deal \/ TakeNotice
  \/ \E t \in Threads : ThreadStep(t)
  \/ \E c \in Clients : Connect(c) \/ ClientStep(c) \/ Die(c)

Spec == Init /\ [][Next]_vars

\* main, the threads and connected clients run on whenever they can.  The kernel
\* serves those that wait in msgrcv in the order they came, so the threads that
\* ask for notices too cannot pass main for ever.
Fairness ==
  /\ WF_vars(CallAccept \/ AcceptFails \/ Accept \/ Deal)
  /\ SF_vars(TakeNotice)
  /\ \A t \in Threads : WF_vars(ThreadStep(t))
  /\ \A c \in Clients : WF_vars(ClientStep(c))

FairSpec == Spec /\ Fairness
-------------------------------------------------------------------------------
(***************************************************************************)
(* Properties.                                                             *)
(***************************************************************************)
Messages == [mtype : {Mail(i) : i \in Threads}, sockClient : Sockets]
              \cup [mtype : {NOTICE}, sockClient : Threads]

\* Every variable has its type; a notice names a thread.
TypeOK ==
  /\ mpc \in {"accept", "blocked", "deal", "exited"} /\ sockClient \in Sockets
  /\ freeThread \in [Threads -> BOOLEAN] /\ msgQueue \in Seq(Messages)
  /\ tpc \in [Threads -> ThreadPcs]
  /\ mtype \in [Threads -> 1 .. NOTICE] /\ \A t \in Threads : mtype[t] \in {Mail(t), NOTICE}
  /\ sock \in [Threads -> Sockets \cup Threads]
  /\ round \in [Threads -> 0 .. ROUNDS] /\ talk \in [Threads -> SUBSET Clients]
  /\ DOMAIN fd \subseteq Sockets
  /\ \A s \in DOMAIN fd : fd[s] \in Clients \cup {"stream", "listener"}
  /\ pending \in Seq(Clients) /\ cpc \in [Clients -> ClientPcs]
  /\ done \in [Clients -> 0 .. ROUNDS]
  /\ inbox \in [Clients -> Nat] /\ outbox \in [Clients -> Nat]
  /\ struck \subseteq Clients \cup {"stream", "listener"}

Veteran(t) == mtype[t] = NOTICE          \* has had its first client
Idle(t)    == tpc[t] = "msgrcv"

\* main never has two sockets out with a thread on its first client, nor counts
\* it free while it talks: a thread that is counted free is waiting, or at work
\* on a notice it took for a socket.
FreeIsIdle ==
  \A t \in Threads :
    ~Veteran(t) =>
      Cardinality(Of(Mail(t))) + (IF Idle(t) THEN 0 ELSE 1) + (IF freeThread[t] THEN 1 ELSE 0) = 1

\* The mailboxes nobody will look into again.
Unread == {k \in DOMAIN msgQueue : \E t \in Threads : Veteran(t) /\ msgQueue[k].mtype = Mail(t)}

\* Each thread stands for one place in the pool, which is free, in a notice, in
\* the hands of a thread, or spent on a socket nobody will ever take: the server
\* deals no more than 2 * NTHREAD sockets and then waits for ever.
PlacesAddUp ==
  Cardinality({t \in Threads : freeThread[t]}) + Cardinality(Of(NOTICE))
    + Cardinality({t \in Threads : Veteran(t) /\ ~Idle(t)})
    + Cardinality({t \in Threads : ~Veteran(t) /\ ~freeThread[t]})
    + Cardinality(Unread) = NTHREAD

\* What main counts as free is free, and no place of the pool is lost or made (server.c
\* 75-80, 138-161).
PoolAddsUp == FreeIsIdle /\ PlacesAddUp

\* Two things do harm, a second close that strikes what came behind the descriptor
\* after the first (server.c 56, 75), and a notice taken for a socket (78-80).  Two
\* threads meet on a connection only after one of them; and a client fails only if a
\* thread came upon its connection in the middle of its work on another, or closed
\* the listening socket, at which main ends the server.
OnlyTheStruckSuffer ==
  /\ \A t, u \in Threads :
       t # u /\ {tpc[t], tpc[u]} \subseteq {"wait", "send"} /\ talk[t] \cap talk[u] # {}
         => struck # {} \/ \E v \in Threads : Veteran(v)
  /\ \A c \in Clients : cpc[c] = "failed" => c \in struck \/ "listener" \in struck

\* The socket of c lies in a mailbox nobody will look into.
Forsaken(c) == \E k \in Unread : c \in Behind(msgQueue[k].sockClient)

\* A client is answered or learns that it is not, unless its socket was dealt to
\* a thread that had its first client, or all of them have such a socket.
EveryoneAnswered ==
  \A c \in Clients :
    cpc[c] = "sent" ~> (cpc[c] # "sent" \/ Forsaken(c) \/ Cardinality(Unread) = NTHREAD)
===============================================================================
