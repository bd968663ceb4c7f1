------------------------------ MODULE ListServer ------------------------------
(***************************************************************************)
(* list_server of "16-sockets/2": main accepts connections and puts their  *)
(* sockets into a ring, a pool of threads takes them out and talks to the  *)
(* clients.  The ring is guarded by a mutex and a condition variable; a    *)
(* critical section is one step, for nothing in it blocks.                 *)
(*                                                                         *)
(* A socket is a descriptor: a number the kernel gives out again once it   *)
(* is closed.  The threads close theirs twice after a failed call, so the  *)
(* model keeps the table of descriptors and lets recv hold the connection  *)
(* it blocks on.                                                           *)
(***************************************************************************)
EXTENDS Integers, Sequences, FiniteSets, Functions

CONSTANTS Clients,      \* client processes, each of which connects once
          Threads,      \* threadPool, NTHREAD of them
          QUEUE_SIZE,   \* the slots of clientQueue
          ROUNDS,       \* messages a thread takes from one client: 10
          Sockets       \* descriptors accept can give: enough for every client

ASSUME ThreadsAssumption == IsFiniteSet(Threads)
ASSUME QueueAssumption   == QUEUE_SIZE \in Nat \ {0}
ASSUME RoundsAssumption  == ROUNDS \in Nat \ {0}
ASSUME SocketsAssumption == Sockets \subseteq Nat \ {0}

VARIABLES
  mpc,           \* main: in accept, or about to enqueue
  sockClient,    \* main's local: the socket accepted last
  clientQueue, queueStart, queueEnd,   \* the ring
  tpc,           \* where thread t is
  sock,          \* t's local sockClient
  round,         \* t's local i
  talk           \* the connection of t's last recv, or none
serverVars == <<mpc, sockClient, clientQueue, queueStart, queueEnd, tpc, sock, round, talk>>

VARIABLES
  fd,            \* the open descriptors: fd[s] is the client at the other end
  pending,       \* connections that wait for accept
  cpc,           \* where client c is
  inbox, outbox  \* messages in flight to the server and to the client, per client
netVars == <<fd, pending, cpc, inbox, outbox>>

\* History, read by properties only.
VARIABLES
  struck,        \* connections closed by a thread that did not talk on them
  forgotten      \* connections the ring lost when it wrapped onto itself
vars == <<serverVars, netVars, struck, forgotten>>

\* free: at the mutex of the loop; asleep: in pthread_cond_wait; wait: in recv;
\* close: at the close after a failed call; last: at the close after the loop.
ThreadPcs == {"free", "asleep", "recv", "wait", "send", "close", "last"}
ClientPcs == {"off", "connected", "sent", "got", "failed", "gone"}

Init ==
  /\ mpc = "accept" /\ sockClient = 0
  /\ clientQueue = [i \in 0 .. QUEUE_SIZE - 1 |-> 0] /\ queueStart = 0 /\ queueEnd = 0
  /\ tpc = [t \in Threads |-> "free"]
  /\ sock = [t \in Threads |-> 0]
  /\ round = [t \in Threads |-> 0]
  /\ talk = [t \in Threads |-> {}]
  /\ fd = <<>> /\ pending = <<>>
  /\ cpc = [c \in Clients |-> "off"]
  /\ inbox = [c \in Clients |-> 0] /\ outbox = [c \in Clients |-> 0]
  /\ struck = {} /\ forgotten = {}

isQueueEmpty == queueStart = queueEnd

\* The sockets in the ring, oldest first.
Waiting == [k \in 1 .. (queueEnd - queueStart) % QUEUE_SIZE |->
              clientQueue[(queueStart + k - 1) % QUEUE_SIZE]]

Goto(t, pc) == tpc' = [tpc EXCEPT ![t] = pc]

Gone(c) == cpc[c] \in {"failed", "gone"}

\* The server's end of c is closed: no descriptor and no blocked recv holds it.
HungUp(c) ==
  /\ cpc[c] # "off" /\ \A k \in DOMAIN pending : pending[k] # c
  /\ \A s \in DOMAIN fd : fd[s] # c
  /\ \A t \in Threads : ~(tpc[t] = "wait" /\ c \in talk[t])
-------------------------------------------------------------------------------
(***************************************************************************)
(* main.                                                                   *)
(***************************************************************************)
\* The kernel gives the lowest free descriptor.
Accept ==
  /\ mpc = "accept" /\ pending # <<>>
  /\ \E s \in Sockets \ DOMAIN fd :
       /\ \A r \in Sockets \ DOMAIN fd : s <= r
       /\ fd' = [r \in DOMAIN fd \cup {s} |-> IF r = s THEN Head(pending) ELSE fd[r]]
       /\ sockClient' = s
  /\ pending' = Tail(pending)
  /\ mpc' = "enqueue"
  /\ UNCHANGED <<clientQueue, queueStart, queueEnd, tpc, sock, round, talk>>
  /\ UNCHANGED <<cpc, inbox, outbox, struck, forgotten>>

\* mutant: a slot further each time
SkipSlot ==
  /\ clientQueue' = [clientQueue EXCEPT ![queueEnd] = sockClient]
  /\ queueEnd' = (queueEnd + 2) % QUEUE_SIZE

NoWrap ==
  /\ clientQueue' = [clientQueue EXCEPT ![queueEnd] = sockClient]
  /\ queueEnd' = queueEnd + 1   \* mutant: no wrap-around

enqueue ==
  /\ clientQueue' = [clientQueue EXCEPT ![queueEnd] = sockClient]
  /\ queueEnd' = (queueEnd + 1) % QUEUE_SIZE

NoSignal == UNCHANGED tpc   \* mutant: the signal is forgotten

\* pthread_cond_signal wakes a thread that sleeps, if any.
Signal ==
  LET asleep == {t \in Threads : tpc[t] = "asleep"}
  IN  IF asleep = {} THEN UNCHANGED tpc ELSE \E t \in asleep : Goto(t, "free")

QueueSocket ==
  /\ mpc = "enqueue"
  /\ enqueue
  /\ Signal
  /\ mpc' = "accept"
  /\ forgotten' =
       IF queueEnd' # queueStart THEN forgotten
       ELSE forgotten \cup {fd[s] : s \in DOMAIN fd \cap ({sockClient} \cup Range(Waiting))}
  /\ UNCHANGED <<sockClient, queueStart, sock, round, talk, netVars, struck>>
-------------------------------------------------------------------------------
(***************************************************************************)
(* ClientHandler, the body of a thread.                                    *)
(***************************************************************************)
Sleep(t) ==
  /\ tpc[t] = "free" /\ isQueueEmpty
  /\ Goto(t, "asleep")
  /\ UNCHANGED <<mpc, sockClient, clientQueue, queueStart, queueEnd, sock, round, talk>>
  /\ UNCHANGED <<netVars, struck, forgotten>>

\* pthread_cond_wait may return without a signal: the loop tests again.
Spurious(t) ==
  /\ tpc[t] = "asleep"
  /\ Goto(t, "free")
  /\ UNCHANGED <<mpc, sockClient, clientQueue, queueStart, queueEnd, sock, round, talk>>
  /\ UNCHANGED <<netVars, struck, forgotten>>

\* mutant: the socket stays in the ring
peek(t) ==
  /\ sock' = [sock EXCEPT ![t] = clientQueue[queueStart]]
  /\ UNCHANGED queueStart

dequeue(t) ==
  /\ sock' = [sock EXCEPT ![t] = clientQueue[queueStart]]
  /\ queueStart' = (queueStart + 1) % QUEUE_SIZE

TakeSocket(t) ==
  /\ tpc[t] = "free" /\ ~isQueueEmpty
  /\ dequeue(t)
  /\ round' = [round EXCEPT ![t] = 0]
  /\ talk' = [talk EXCEPT ![t] = {}]
  /\ Goto(t, "recv")
  /\ UNCHANGED <<mpc, sockClient, clientQueue, queueEnd, netVars, struck, forgotten>>

\* recv finds the connection behind the descriptor, or fails with EBADF.
Recv(t) ==
  /\ tpc[t] = "recv"
  /\ IF sock[t] \in DOMAIN fd
       THEN talk' = [talk EXCEPT ![t] = {fd[sock[t]]}] /\ Goto(t, "wait")
       ELSE Goto(t, "close") /\ UNCHANGED talk
  /\ UNCHANGED <<mpc, sockClient, clientQueue, queueStart, queueEnd, sock, round>>
  /\ UNCHANGED <<netVars, struck, forgotten>>

RecvMessage(t) ==
  /\ tpc[t] = "wait"
  /\ \E c \in talk[t] : inbox[c] > 0 /\ inbox' = [inbox EXCEPT ![c] = @ - 1]
  /\ Goto(t, "send")
  /\ UNCHANGED <<mpc, sockClient, clientQueue, queueStart, queueEnd, sock, round, talk>>
  /\ UNCHANGED <<fd, pending, cpc, outbox, struck, forgotten>>

\* recv returns 0 or an error once the client is gone.
RecvEnd(t) ==
  /\ tpc[t] = "wait"
  /\ \E c \in talk[t] : inbox[c] = 0 /\ Gone(c)
  /\ Goto(t, "close")
  /\ UNCHANGED <<mpc, sockClient, clientQueue, queueStart, queueEnd, sock, round, talk>>
  /\ UNCHANGED <<netVars, struck, forgotten>>

\* The reply goes to whoever is behind the descriptor now.
Send(t) ==
  /\ tpc[t] = "send"
  /\ IF sock[t] \in DOMAIN fd
       THEN /\ outbox' = [outbox EXCEPT ![fd[sock[t]]] = @ + 1]
            /\ round' = [round EXCEPT ![t] = @ + 1]
            /\ Goto(t, IF round[t] + 1 = ROUNDS THEN "last" ELSE "recv")
       ELSE Goto(t, "close") /\ UNCHANGED <<outbox, round>>
  /\ UNCHANGED <<mpc, sockClient, clientQueue, queueStart, queueEnd, sock, talk>>
  /\ UNCHANGED <<fd, pending, cpc, inbox, struck, forgotten>>

KeepOpen(t) == UNCHANGED <<fd, struck>>   \* mutant: the socket is never closed

close(t) ==
  /\ fd' = [s \in DOMAIN fd \ {sock[t]} |-> fd[s]]
  /\ struck' = struck \cup ({fd[s] : s \in DOMAIN fd \cap {sock[t]}} \ talk[t])

CloseFailed(t) ==
  /\ tpc[t] = "close"
  /\ close(t)
  /\ Goto(t, "last")
  /\ UNCHANGED <<mpc, sockClient, clientQueue, queueStart, queueEnd, sock, round, talk>>
  /\ UNCHANGED <<pending, cpc, inbox, outbox, forgotten>>

CloseLast(t) ==
  /\ tpc[t] = "last"
  /\ close(t)
  /\ Goto(t, "free")
  /\ UNCHANGED <<mpc, sockClient, clientQueue, queueStart, queueEnd, sock, round, talk>>
  /\ UNCHANGED <<pending, cpc, inbox, outbox, forgotten>>

ThreadStep(t) ==
  \/ Sleep(t) \/ TakeSocket(t) \/ Recv(t) \/ RecvMessage(t) \/ RecvEnd(t) \/ Send(t)
  \/ CloseFailed(t) \/ CloseLast(t)
-------------------------------------------------------------------------------
(***************************************************************************)
(* client.c: one message, one answer.                                      *)
(***************************************************************************)
At(c, from, to) == cpc[c] = from /\ cpc' = [cpc EXCEPT ![c] = to]

Connect(c) ==
  /\ At(c, "off", "connected")
  /\ pending' = Append(pending, c)
  /\ UNCHANGED <<serverVars, fd, inbox, outbox, struck, forgotten>>

SendMessage(c) ==
  /\ At(c, "connected", "sent")
  /\ inbox' = [inbox EXCEPT ![c] = @ + 1]
  /\ UNCHANGED <<serverVars, fd, pending, outbox, struck, forgotten>>

RecvReply(c) ==
  /\ At(c, "sent", "got")
  /\ outbox[c] > 0
  /\ outbox' = [outbox EXCEPT ![c] = @ - 1]
  /\ UNCHANGED <<serverVars, fd, pending, inbox, struck, forgotten>>

RecvFails(c) ==
  /\ At(c, "sent", "failed")
  /\ outbox[c] = 0 /\ HungUp(c)
  /\ UNCHANGED <<serverVars, fd, pending, inbox, outbox, struck, forgotten>>

Leave(c) ==
  /\ At(c, "got", "gone")
  /\ UNCHANGED <<serverVars, fd, pending, inbox, outbox, struck, forgotten>>

\* The client is interrupted.
Die(c) ==
  /\ cpc[c] \in {"connected", "sent"}
  /\ cpc' = [cpc EXCEPT ![c] = "gone"]
  /\ UNCHANGED <<serverVars, fd, pending, inbox, outbox, struck, forgotten>>

ClientStep(c) == SendMessage(c) \/ RecvReply(c) \/ RecvFails(c) \/ Leave(c)
-------------------------------------------------------------------------------
Next ==
  \/ Accept \/ QueueSocket
  \/ \E t \in Threads : ThreadStep(t) \/ Spurious(t)
  \/ \E c \in Clients : Connect(c) \/ ClientStep(c) \/ Die(c)

Spec == Init /\ [][Next]_vars

\* main and the threads run on whenever they can, and so does a client once it
\* is connected: it waits for the server only.  No wake-up without a signal is
\* counted on.
Fairness ==
  /\ WF_vars(Accept \/ QueueSocket)
  /\ \A t \in Threads : WF_vars(ThreadStep(t))
  /\ \A c \in Clients : WF_vars(ClientStep(c))

FairSpec == Spec /\ Fairness
-------------------------------------------------------------------------------
(***************************************************************************)
(* Properties.                                                             *)
(***************************************************************************)
\* Every variable has its type.
TypeOK ==
  /\ mpc \in {"accept", "enqueue"} /\ sockClient \in Sockets \cup {0}
  /\ mpc = "enqueue" => sockClient \in Sockets
  /\ clientQueue \in [0 .. QUEUE_SIZE - 1 -> Sockets \cup {0}]
  /\ queueStart \in 0 .. QUEUE_SIZE - 1 /\ queueEnd \in 0 .. QUEUE_SIZE - 1
  /\ tpc \in [Threads -> ThreadPcs] /\ sock \in [Threads -> Sockets \cup {0}]
  /\ round \in [Threads -> 0 .. ROUNDS] /\ talk \in [Threads -> SUBSET Clients]
  /\ DOMAIN fd \subseteq Sockets /\ \A s \in DOMAIN fd : fd[s] \in Clients
  /\ pending \in Seq(Clients) /\ cpc \in [Clients -> ClientPcs]
  /\ inbox \in [Clients -> Nat] /\ outbox \in [Clients -> Nat]
  /\ struck \subseteq Clients /\ forgotten \subseteq Clients

\* The ring is a first-in first-out queue that forgets all when it overflows.
Fifo == INSTANCE AcceptQueue WITH waiting <- Waiting, Room <- QUEUE_SIZE
RingIsFifo == Fifo!Spec

\* While a thread sleeps, every socket in the ring has another thread that is
\* on its way to the queue: no signal is lost between the test and the wait,
\* nor when several sockets come before the first thread woken runs.
NoLostWakeup ==
  (\E t \in Threads : tpc[t] = "asleep") =>
    Len(Waiting) <= Cardinality({t \in Threads : tpc[t] = "free"})

\* Only the second close of a descriptor does harm (server.c 55 and 72).  Two
\* threads talk on one connection only after it struck one, and the number got
\* into the ring twice; and a client fails only if its own connection was struck:
\* a thread that closes its own socket has answered, or found the client gone.
OnlyTheStruckSuffer ==
  /\ \A t, u \in Threads :
       t # u /\ {tpc[t], tpc[u]} \subseteq {"wait", "send"} /\ talk[t] \cap talk[u] # {}
         => struck # {}
  /\ \A c \in Clients : cpc[c] = "failed" => c \in struck

\* Unless the ring forgot it, a client that sent its message does not wait for ever, and
\* no descriptor leaks: a connection that was accepted is closed in the end.
EveryoneAnswered ==
  \A c \in Clients :
    /\ cpc[c] = "sent" ~> (cpc[c] # "sent" \/ c \in forgotten)
    /\ (\E s \in DOMAIN fd : fd[s] = c)
         ~> ((\A s \in DOMAIN fd : fd[s] # c) \/ c \in forgotten)
===============================================================================
