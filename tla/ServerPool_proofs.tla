--------------------------- MODULE ServerPool_proofs ---------------------------
(***************************************************************************)
(* Proofs about ServerPool, for every number of clients, threads, rounds   *)
(* and descriptors: its type invariant, what main may count as free, where *)
(* the places of the pool are, and who can suffer from a close.            *)
(***************************************************************************)
EXTENDS ServerPool, SequenceFacts

(***************************************************************************)
(* The inductive invariant.                                                *)
(***************************************************************************)
Working(t) == tpc[t] \in {"recv", "wait", "send", "close", "last"}

\* c has no connection yet, or main has not accepted it.
Waits(c) == cpc[c] = "off" \/ Contains(pending, c)

\* c needs no answer any more: it is gone, or they are all on their way.
Served(c) == Gone(c) \/ done[c] + outbox[c] >= ROUNDS

\* t has not yet closed the descriptor it works on.
Holds(t) ==
  \/ tpc[t] \in {"recv", "wait", "send", "close"}
  \/ tpc[t] = "last" /\ Behind(sock[t]) \cap talk[t] # {}

Connected(s) == s \in DOMAIN fd /\ fd[s] \in Clients

\* Threads and clients that go on have turns left.
Ready ==
  /\ \A t \in Threads : tpc[t] \in {"recv", "wait", "send"} => round[t] < ROUNDS
  /\ \A c \in Clients : cpc[c] \in {"off", "connected", "sent"} => done[c] < ROUNDS

\* Only a thread that has had its first client sends notices.
FromVeterans ==
  \A k \in DOMAIN msgQueue : msgQueue[k].mtype = NOTICE => Veteran(msgQueue[k].sockClient)

\* A client that waits for accept has no descriptor, and has talked to nobody;
\* none has two descriptors.
Untouched ==
  /\ \A c \in Clients : Waits(c) =>
       (\A s \in DOMAIN fd : fd[s] # c) /\ (\A t \in Threads : c \notin talk[t])
  /\ \A c \in Clients : cpc[c] = "off" => ~Contains(pending, c)
  /\ IsInjective(pending)
  /\ \A r, s \in DOMAIN fd : fd[r] \in Clients /\ fd[r] = fd[s] => r = s

\* As long as every thread has its first client and nothing is struck, the
\* connections that are dealt are open, and each is in one place: with one
\* thread, in one mailbox, or in main's hand.
Clean == struck = {} /\ \A v \in Threads : ~Veteran(v)

HeldOnce ==
  /\ \A t \in Threads : Holds(t) => Connected(sock[t])
  /\ \A t \in Threads :
       tpc[t] \in {"wait", "send", "close"} \/ (tpc[t] = "recv" /\ round[t] > 0)
         => talk[t] = {fd[sock[t]]}
  /\ \A t, u \in Threads : Holds(t) /\ Holds(u) /\ sock[t] = sock[u] => t = u

DealtOnce ==
  /\ \A k \in DOMAIN msgQueue : Connected(msgQueue[k].sockClient)
  /\ \A k \in DOMAIN msgQueue, t \in Threads : Holds(t) => sock[t] # msgQueue[k].sockClient
  /\ \A j, k \in DOMAIN msgQueue : msgQueue[j].sockClient = msgQueue[k].sockClient => j = k

InHandOnce ==
  mpc = "deal" =>
    /\ Connected(sockClient)
    /\ \A t \in Threads : Holds(t) => sock[t] # sockClient
    /\ \A k \in DOMAIN msgQueue : msgQueue[k].sockClient # sockClient

FirstClients == Clean => HeldOnce /\ DealtOnce /\ InHandOnce

\* While nobody has closed it, the listening socket is there and main runs.
Open == "listener" \notin struck => mpc # "exited" /\ sockMain \in DOMAIN fd /\ fd[sockMain] = "listener"

\* A thread in the middle of its work on a client that was never struck and
\* needs more answers still has its connection, which has got an answer for
\* each of the thread's rounds.
Counted ==
  /\ \A t \in Threads : talk[t] = {} \/ \E c \in Clients : talk[t] = {c}
  /\ "listener" \notin struck =>
       \A t \in Threads, c \in Clients :
         Working(t) /\ talk[t] = {c} /\ c \notin struck /\ ~Served(c) =>
           /\ tpc[t] \notin {"close", "last"} /\ sock[t] \in DOMAIN fd /\ fd[sock[t]] = c
           /\ done[c] + outbox[c] >= round[t]

\* A client that waits for an answer waits for accept, has a connection, or was
\* struck.
Reached ==
  "listener" \notin struck =>
    /\ \A c \in Clients : cpc[c] \in {"connected", "sent"} =>
         \/ Contains(pending, c) \/ Served(c) \/ c \in struck
         \/ \E s \in DOMAIN fd : fd[s] = c
    /\ \A c \in Clients : cpc[c] = "failed" => c \in struck

Inv ==
  /\ TypeOK /\ Ready
  /\ FromVeterans /\ FreeIsIdle /\ PlacesAddUp
  /\ Untouched /\ FirstClients
  /\ Open /\ Counted /\ Reached

(***************************************************************************)
(* The message queue.                                                      *)
(***************************************************************************)
Typed(types) == {m \in Messages : m.mtype \in types}
Boxes == {Mail(t) : t \in {u \in Threads : Veteran(u)}}

\* A message is a socket for a mailbox, or a notice that names a thread; the
\* mailboxes have different types.
LEMMA MessageFacts ==
  /\ \A t \in Threads : Mail(t) # NOTICE /\ Mail(t) \in 1 .. NOTICE /\ NOTICE \in 1 .. NOTICE
  /\ \A t, u \in Threads : Mail(t) = Mail(u) => t = u
  /\ \A t \in Threads, s \in Sockets : [mtype |-> Mail(t), sockClient |-> s] \in Messages
  /\ \A t \in Threads : [mtype |-> NOTICE, sockClient |-> t] \in Messages
  /\ \A m \in Messages :
       /\ m.mtype = NOTICE => m.sockClient \in Threads
       /\ m.mtype # NOTICE => m.sockClient \in Sockets /\ \E t \in Threads : m.mtype = Mail(t)
<1>1. NTHREAD \in Nat \ {0} /\ \A t \in Threads : t \in Nat /\ t < NTHREAD
  BY ThreadAssumption DEF Threads
<1>2. \A t \in Threads : Mail(t) # NOTICE /\ Mail(t) \in 1 .. NOTICE /\ NOTICE \in 1 .. NOTICE
  BY <1>1 DEF Mail, NOTICE
<1>3. \A t, u \in Threads : Mail(t) = Mail(u) => t = u
  BY <1>1 DEF Mail
<1>4. ASSUME NEW m \in Messages
      PROVE  /\ m.mtype = NOTICE => m.sockClient \in Threads
             /\ m.mtype # NOTICE => m.sockClient \in Sockets /\ \E t \in Threads : m.mtype = Mail(t)
  BY <1>2 DEF Messages
<1>5. /\ \A t \in Threads, s \in Sockets : [mtype |-> Mail(t), sockClient |-> s] \in Messages
      /\ \A t \in Threads : [mtype |-> NOTICE, sockClient |-> t] \in Messages
  BY DEF Messages
<1> QED
  BY <1>2, <1>3, <1>4, <1>5

\* The messages the properties count, as places in the queue.
LEMMA OfPlaces ==
  ASSUME msgQueue \in Seq(Messages)
  PROVE  /\ \A type : Of(type) = Places(msgQueue, Typed({type}))
         /\ Unread = Places(msgQueue, Typed(Boxes))
<1>1. \A k \in DOMAIN msgQueue : msgQueue[k] \in Messages
  BY LenProperties, ElementOfSeq
<1> QED
  BY <1>1 DEF Of, Unread, Places, Typed, Boxes

\* msgrcv takes a message of the type it asks for.
LEMMA OldestDoes ==
  ASSUME msgQueue \in Seq(Messages), NEW type, Of(type) # {}
  PROVE  /\ Oldest(type) \in DOMAIN msgQueue
         /\ msgQueue[Oldest(type)] \in Messages
         /\ msgQueue[Oldest(type)].mtype = type
<1>1. Of(type) \in SUBSET DOMAIN msgQueue
  BY DEF Of
<1>2. \E k \in Of(type) : \A j \in Of(type) : k <= j
  BY <1>1, FirstPlace
<1>3. Oldest(type) \in Of(type)
  BY <1>2 DEF Oldest
<1> QED
  BY <1>3, LenProperties, ElementOfSeq DEF Of

\* What is left in the queue, and how much of a kind.
LEMMA ReceiveDoes ==
  ASSUME msgQueue \in Seq(Messages), NEW type, Of(type) # {}, msgrcv(type)
  PROVE  /\ msgQueue' \in Seq(Messages)
         /\ \A k \in DOMAIN msgQueue' :
              \E a \in DOMAIN msgQueue \ {Oldest(type)} : msgQueue'[k] = msgQueue[a]
         /\ \A j, k \in DOMAIN msgQueue' : j # k =>
              \E a, b \in DOMAIN msgQueue \ {Oldest(type)} :
                a # b /\ msgQueue'[j] = msgQueue[a] /\ msgQueue'[k] = msgQueue[b]
         /\ \A types :
              Cardinality(Places(msgQueue', Typed(types))) =
                Cardinality(Places(msgQueue, Typed(types))) - (IF type \in types THEN 1 ELSE 0)
<1> DEFINE o == Oldest(type)
<1>1. o \in DOMAIN msgQueue /\ msgQueue[o] \in Messages /\ msgQueue[o].mtype = type
  BY OldestDoes
<1>2. msgQueue' = RemoveAt(msgQueue, o)
  BY DEF msgrcv
<1> HIDE DEF o
<1>3. \A types : msgQueue[o] \in Typed(types) <=> type \in types
  BY <1>1 DEF Typed
<1>4. ASSUME NEW types
      PROVE  Cardinality(Places(msgQueue', Typed(types))) =
               Cardinality(Places(msgQueue, Typed(types))) - (IF type \in types THEN 1 ELSE 0)
  BY <1>1, <1>2, <1>3, PlacesAfterRemove
<1>5. /\ msgQueue' \in Seq(Messages)
      /\ \A k \in DOMAIN msgQueue' : \E a \in DOMAIN msgQueue \ {o} : msgQueue'[k] = msgQueue[a]
      /\ \A j, k \in DOMAIN msgQueue' : j # k =>
           \E a, b \in DOMAIN msgQueue \ {o} :
             a # b /\ msgQueue'[j] = msgQueue[a] /\ msgQueue'[k] = msgQueue[b]
  BY <1>1, <1>2, RemovedFrom
<1> QED
  BY <1>4, <1>5 DEF o

\* A message joins those that are there.
LEMMA SendDoes ==
  ASSUME msgQueue \in Seq(Messages), NEW type, NEW n,
         [mtype |-> type, sockClient |-> n] \in Messages, msgsnd(type, n)
  PROVE  /\ msgQueue' \in Seq(Messages)
         /\ DOMAIN msgQueue \subseteq DOMAIN msgQueue'
         /\ \E e : /\ e \notin DOMAIN msgQueue /\ DOMAIN msgQueue' = DOMAIN msgQueue \cup {e}
                   /\ msgQueue'[e].mtype = type /\ msgQueue'[e].sockClient = n
         /\ \A k \in DOMAIN msgQueue : msgQueue'[k] = msgQueue[k]
         /\ \A types :
              Cardinality(Places(msgQueue', Typed(types))) =
                Cardinality(Places(msgQueue, Typed(types))) + (IF type \in types THEN 1 ELSE 0)
<1> DEFINE m == [mtype |-> type, sockClient |-> n]
<1>1. m \in Messages /\ m.mtype = type /\ m.sockClient = n
  OBVIOUS
<1>2. msgQueue' = Append(msgQueue, m)
  BY DEF msgsnd
<1> HIDE DEF m
<1>3. \A types : m \in Typed(types) <=> type \in types
  BY <1>1 DEF Typed
<1>4. ASSUME NEW types
      PROVE  Cardinality(Places(msgQueue', Typed(types))) =
               Cardinality(Places(msgQueue, Typed(types))) + (IF type \in types THEN 1 ELSE 0)
  BY <1>1, <1>2, <1>3, PlacesAfterAppend
<1> QED
  BY <1>1, <1>2, <1>4, JoinedTo

(***************************************************************************)
(* What the steps do.                                                      *)
(***************************************************************************)
\* The client accepted is new to the server and leaves the queue for good; it
\* gets a free descriptor.
LEMMA AcceptDoes ==
  ASSUME TypeOK, Untouched, Accept
  PROVE  \E c \in Clients, s \in Sockets :
           /\ Contains(pending, c) /\ cpc[c] # "off"
           /\ \A d : Contains(pending', d) => Contains(pending, d) /\ d # c
           /\ "listener" \in Behind(sockMain) =>
                \A d : Contains(pending, d) => Contains(pending', d) \/ d = c
           /\ pending' \in Seq(Clients) /\ IsInjective(pending')
           /\ s \notin DOMAIN fd /\ fd' = [r \in DOMAIN fd \cup {s} |-> IF r = s THEN c ELSE fd[r]]
           /\ sockClient' = s
<1>1. pending \in Seq(Clients) /\ pending # <<>> /\ IsInjective(pending)
  BY DEF TypeOK, Untouched, Accept
<1> DEFINE c == Head(pending)
<1>2. /\ c \in Clients /\ Contains(pending, c) /\ Tail(pending) \in Seq(Clients)
      /\ \A d : Contains(Tail(pending), d) <=> Contains(pending, d) /\ d # c
      /\ IsInjective(Tail(pending))
  BY <1>1, LeaveProperties
<1>3. PICK s \in Sockets \ DOMAIN fd :
        /\ fd' = [r \in DOMAIN fd \cup {s} |-> IF r = s THEN c ELSE fd[r]]
        /\ sockClient' = s
  BY DEF Accept
<1> HIDE DEF c
<1>4. cpc[c] # "off"
  BY <1>2 DEF Untouched
<1>5. <<>> \in Seq(Clients) /\ IsInjective(<<>>) /\ \A d : ~Contains(<<>>, d)
  BY EmptySeq DEF IsInjective, Contains
<1>6. pending' = IF "listener" \in Behind(sockMain) THEN Tail(pending) ELSE <<>>
  BY DEF Accept
<1>7. /\ \A d : Contains(pending', d) => Contains(pending, d) /\ d # c
      /\ "listener" \in Behind(sockMain) =>
           \A d : Contains(pending, d) => Contains(pending', d) \/ d = c
      /\ pending' \in Seq(Clients) /\ IsInjective(pending')
  BY <1>2, <1>5, <1>6
<1> QED
  BY <1>2, <1>3, <1>4, <1>7

\* main finds the first free thread.
LEMMA FirstFreeIsFree ==
  ASSUME \E i \in Threads : freeThread[i]
  PROVE  FirstFree \in Threads /\ freeThread[FirstFree]
<1> DEFINE Free == {i \in Threads : freeThread[i]}
<1>1. Free \in SUBSET (0 .. NTHREAD) /\ Free # {} /\ NTHREAD \in Nat
  BY ThreadAssumption DEF Threads
<1> HIDE DEF Free
<1>2. PICK i \in Free : \A j \in Free : i <= j
  BY <1>1, LeastNat
<1>3. i \in Threads /\ freeThread[i] /\ \A j \in 0 .. i - 1 : ~freeThread[j]
  BY <1>2, ThreadAssumption DEF Free, Threads
<1> QED
  BY <1>3 DEF FirstFree

\* What a step of thread t leaves alone.
LEMMA ThreadMoves ==
  ASSUME TypeOK, NEW t \in Threads, ThreadStep(t)
  PROVE  /\ mpc # "exited"
         /\ UNCHANGED <<mpc, sockClient, freeThread, cpc, done>>
         /\ \A u \in Threads \ {t} :
              /\ tpc'[u] = tpc[u] /\ mtype'[u] = mtype[u] /\ sock'[u] = sock[u]
              /\ round'[u] = round[u] /\ talk'[u] = talk[u]
         /\ tpc' \in [Threads -> ThreadPcs] /\ mtype' \in [Threads -> 1 .. NOTICE]
<1>1. mpc # "exited" /\ UNCHANGED <<mpc, sockClient, freeThread, cpc, done>>
  BY DEF ThreadStep, TakeJob, Recv, RecvMessage, RecvEnd, Send, CloseFailed, CloseLast, Notify, netVars
<1>2. \E pc \in ThreadPcs : tpc' = [tpc EXCEPT ![t] = pc]
  BY DEF ThreadStep, TakeJob, Recv, RecvMessage, RecvEnd, Send, CloseFailed, CloseLast, Notify, Goto,
         ThreadPcs
<1>3. mtype' = mtype \/ mtype' = [mtype EXCEPT ![t] = NOTICE]
  BY DEF ThreadStep, TakeJob, Recv, RecvMessage, RecvEnd, Send, CloseFailed, CloseLast, Notify
<1>4. sock' = sock \/ \E n : sock' = [sock EXCEPT ![t] = n]
  BY DEF ThreadStep, TakeJob, Recv, RecvMessage, RecvEnd, Send, CloseFailed, CloseLast, Notify
<1>5. round' = round \/ \E n : round' = [round EXCEPT ![t] = n]
  BY DEF ThreadStep, TakeJob, Recv, RecvMessage, RecvEnd, Send, CloseFailed, CloseLast, Notify
<1>6. talk' = talk \/ \E n : talk' = [talk EXCEPT ![t] = n]
  BY DEF ThreadStep, TakeJob, Recv, RecvMessage, RecvEnd, Send, CloseFailed, CloseLast, Notify
<1>7. /\ tpc \in [Threads -> ThreadPcs] /\ mtype \in [Threads -> 1 .. NOTICE]
      /\ sock \in [Threads -> Sockets \cup Threads]
      /\ round \in [Threads -> 0 .. ROUNDS] /\ talk \in [Threads -> SUBSET Clients]
  BY DEF TypeOK
<1>8. NOTICE \in 1 .. NOTICE
  BY ThreadAssumption DEF NOTICE
<1> QED
  BY <1>1, <1>2, <1>3, <1>4, <1>5, <1>6, <1>7, <1>8

\* What it does to connections.
LEMMA ThreadDoes ==
  ASSUME NEW t \in Threads, ThreadStep(t)
  PROVE  /\ \/ fd' = fd /\ pending' = pending
            \/ CloseFailed(t) \/ CloseLast(t)
         /\ \/ talk' = talk
            \/ talk' = [talk EXCEPT ![t] = {}]
            \/ Behind(sock[t]) \cap Clients # {} /\ talk' = [talk EXCEPT ![t] = Behind(sock[t])]
         /\ struck \subseteq struck'
<1>1. (fd' = fd /\ pending' = pending) \/ CloseFailed(t) \/ CloseLast(t)
  BY DEF ThreadStep, TakeJob, Recv, RecvMessage, RecvEnd, Send, Notify, netVars
<1>2. \/ talk' = talk
      \/ talk' = [talk EXCEPT ![t] = {}]
      \/ Behind(sock[t]) \cap Clients # {} /\ talk' = [talk EXCEPT ![t] = Behind(sock[t])]
  BY DEF ThreadStep, TakeJob, Recv, RecvMessage, RecvEnd, Send, CloseFailed, CloseLast, Notify
<1>3. struck \subseteq struck'
  BY DEF ThreadStep, TakeJob, Recv, RecvMessage, RecvEnd, Send, CloseFailed, CloseLast, Notify, close
<1> QED
  BY <1>1, <1>2, <1>3

\* What a step of a client does.
LEMMA ClientMoves ==
  ASSUME TypeOK, NEW c \in Clients, Connect(c) \/ ClientStep(c) \/ Die(c)
  PROVE  /\ UNCHANGED <<serverVars, fd, struck>>
         /\ cpc \in [Clients -> ClientPcs] /\ \E pc \in ClientPcs \ {"off"} : cpc' = [cpc EXCEPT ![c] = pc]
         /\ IF cpc[c] = "off" THEN pending' = Append(pending, c) /\ Listening ELSE pending' = pending
<1>1. cpc \in [Clients -> ClientPcs]
  BY DEF TypeOK
<1>2. /\ UNCHANGED <<serverVars, fd, struck>>
      /\ IF cpc[c] = "off" THEN pending' = Append(pending, c) /\ Listening ELSE pending' = pending
  BY DEF Connect, ClientStep, SendMessage, RecvReply, RecvFails, Die, At
<1>3. \E pc \in ClientPcs \ {"off"} : cpc' = [cpc EXCEPT ![c] = pc]
  BY DEF Connect, ClientStep, SendMessage, RecvReply, RecvFails, Die, At, ClientPcs
<1> QED
  BY <1>1, <1>2, <1>3

(***************************************************************************)
(* Types, and turns left.                                                  *)
(***************************************************************************)
\* What is behind a descriptor.
LEMMA BehindFacts ==
  ASSUME TypeOK, NEW s
  PROVE  /\ Behind(s) = IF s \in DOMAIN fd THEN {fd[s]} ELSE {}
         /\ Behind(s) \cap Clients # {} => Connected(s) /\ Behind(s) \subseteq Clients
         /\ Behind(s) \subseteq Clients \cup {"stream", "listener"}
<1>1. Behind(s) = IF s \in DOMAIN fd THEN {fd[s]} ELSE {}
  BY DEF Behind
<1> QED
  BY <1>1 DEF TypeOK, Connected

\* main keeps the types.
LEMMA MainTypes ==
  ASSUME Inv, CallAccept \/ AcceptFails \/ Accept \/ Deal \/ TakeNotice
  PROVE  TypeOK' /\ Ready'
<1>0. TypeOK /\ Ready /\ Untouched
  BY DEF Inv
<1>1. /\ UNCHANGED <<tpc, mtype, sock, round, talk, cpc, done, inbox, outbox, struck>>
  BY DEF CallAccept, AcceptFails, Accept, Deal, TakeNotice, netVars
<1>2. mpc' \in {"accept", "blocked", "deal", "exited"}
  BY <1>0 DEF CallAccept, AcceptFails, Accept, Deal, TakeNotice, TypeOK
<1>3. /\ sockClient' \in Sockets /\ pending' \in Seq(Clients)
      /\ DOMAIN fd' \subseteq Sockets /\ \A s \in DOMAIN fd' : fd'[s] \in Clients \cup {"stream", "listener"}
  <2>0. /\ sockClient \in Sockets /\ pending \in Seq(Clients)
        /\ DOMAIN fd \subseteq Sockets /\ \A s \in DOMAIN fd : fd[s] \in Clients \cup {"stream", "listener"}
    BY <1>0 DEF TypeOK
  <2>1. CASE Accept
    BY <1>0, <2>0, <2>1, AcceptDoes
  <2>2. CASE AcceptFails
    <3>1. fd' = <<>> /\ pending' = <<>> /\ sockClient' = sockClient
      BY <2>2 DEF AcceptFails
    <3>2. <<>> \in Seq(Clients) /\ DOMAIN (<<>>) = {}
      BY EmptySeq
    <3> QED
      BY <2>0, <3>1, <3>2
  <2>3. CASE ~Accept /\ ~AcceptFails
    BY <2>0, <2>3 DEF CallAccept, Deal, TakeNotice, netVars
  <2> QED
    BY <2>1, <2>2, <2>3
<1>4. freeThread' \in [Threads -> BOOLEAN] /\ msgQueue' \in Seq(Messages)
  <2>0. freeThread \in [Threads -> BOOLEAN] /\ msgQueue \in Seq(Messages)
    BY <1>0 DEF TypeOK
  <2>1. CASE Deal
    <3>1. /\ msgsnd(Mail(FirstFree), sockClient)
          /\ freeThread' = [freeThread EXCEPT ![FirstFree] = FALSE]
          /\ \E i \in Threads : freeThread[i]
      BY <2>1 DEF Deal, DealToFirst
    <3>2. FirstFree \in Threads
      BY <3>1, FirstFreeIsFree
    <3> QED
      BY <1>0, <2>0, <3>1, <3>2, SendDoes, MessageFacts DEF TypeOK
  <2>2. CASE TakeNotice
    BY <2>0, <2>2, ReceiveDoes DEF TakeNotice
  <2>3. CASE ~Deal /\ ~TakeNotice
    BY <2>0, <2>3 DEF CallAccept, AcceptFails, Accept
  <2> QED
    BY <2>1, <2>2, <2>3
<1>5. TypeOK'
  BY <1>0, <1>1, <1>2, <1>3, <1>4 DEF TypeOK, Mail
<1>6. Ready'
  BY <1>0, <1>1 DEF Ready
<1> QED
  BY <1>5, <1>6

\* A step of a thread keeps the types.
LEMMA ThreadTypes ==
  ASSUME Inv, NEW t \in Threads, ThreadStep(t)
  PROVE  TypeOK' /\ Ready'
<1>0. TypeOK /\ Ready
  BY DEF Inv
<1>1. msgQueue' \in Seq(Messages) /\ sock' \in [Threads -> Sockets \cup Threads]
  <2>0. /\ msgQueue \in Seq(Messages) /\ sock \in [Threads -> Sockets \cup Threads]
        /\ \A m \in Messages : m.sockClient \in Sockets \cup Threads
    BY <1>0, MessageFacts DEF TypeOK
  <2>1. CASE TakeJob(t)
    BY <2>0, <2>1, OldestDoes, ReceiveDoes DEF TakeJob
  <2>2. CASE Notify(t)
    BY <2>0, <2>2, SendDoes, MessageFacts DEF Notify, SendNotice
  <2>3. CASE ~TakeJob(t) /\ ~Notify(t)
    BY <2>0, <2>3 DEF ThreadStep, Recv, RecvMessage, RecvEnd, Send, CloseFailed, CloseLast
  <2> QED
    BY <2>1, <2>2, <2>3
<1>2. /\ round' \in [Threads -> 0 .. ROUNDS]
      /\ \A u \in Threads : tpc'[u] \in {"recv", "wait", "send"} => round'[u] < ROUNDS
  <2>0. /\ round \in [Threads -> 0 .. ROUNDS] /\ tpc \in [Threads -> ThreadPcs]
        /\ \A u \in Threads : tpc[u] \in {"recv", "wait", "send"} => round[u] < ROUNDS
        /\ ROUNDS \in Nat \ {0}
    BY <1>0, RoundsAssumption DEF TypeOK, Ready
  <2>1. \A u \in Threads \ {t} : tpc'[u] = tpc[u] /\ round'[u] = round[u]
    BY <1>0, ThreadMoves
  <2>2. CASE TakeJob(t)
    BY <2>0, <2>2 DEF TakeJob, Goto
  <2>3. CASE Send(t)
    BY <2>0, <2>3 DEF Send, Goto
  <2>4. CASE ~TakeJob(t) /\ ~Send(t)
    <3>1. round' = round /\ (tpc'[t] \in {"recv", "wait", "send"} => tpc[t] \in {"recv", "wait", "send"})
      BY <2>0, <2>4 DEF ThreadStep, Recv, RecvMessage, RecvEnd, CloseFailed, CloseLast, Notify, Goto
    <3> QED
      BY <2>0, <2>1, <3>1
  <2> QED
    BY <2>2, <2>3, <2>4
<1>3. talk' \in [Threads -> SUBSET Clients] /\ struck' \subseteq Clients \cup {"stream", "listener"}
  <2>1. /\ talk \in [Threads -> SUBSET Clients] /\ struck \subseteq Clients \cup {"stream", "listener"}
        /\ Behind(sock[t]) \subseteq Clients \cup {"stream", "listener"}
        /\ Behind(sock[t]) \cap Clients # {} => Behind(sock[t]) \subseteq Clients
    BY <1>0, BehindFacts DEF TypeOK
  <2>2. struck' \subseteq struck \cup Behind(sock[t])
    BY DEF ThreadStep, TakeJob, Recv, RecvMessage, RecvEnd, Send, CloseFailed, CloseLast, Notify, close
  <2> QED
    BY <2>1, <2>2, ThreadDoes
<1>4. /\ DOMAIN fd' \subseteq Sockets /\ \A s \in DOMAIN fd' : fd'[s] \in Clients \cup {"stream", "listener"}
      /\ pending' \in Seq(Clients)
  <2>1. /\ DOMAIN fd \subseteq Sockets /\ \A s \in DOMAIN fd : fd[s] \in Clients \cup {"stream", "listener"}
        /\ pending \in Seq(Clients) /\ <<>> \in Seq(Clients)
    BY <1>0, EmptySeq DEF TypeOK
  <2>2. CASE CloseFailed(t) \/ CloseLast(t)
    BY <2>1, <2>2 DEF CloseFailed, CloseLast, close
  <2> QED
    BY <2>1, <2>2, ThreadDoes
<1>5. inbox' \in [Clients -> Nat] /\ outbox' \in [Clients -> Nat]
  <2>1. inbox \in [Clients -> Nat] /\ outbox \in [Clients -> Nat] /\ talk[t] \subseteq Clients
    BY <1>0 DEF TypeOK
  <2>2. \/ inbox' = inbox
        \/ \E c \in talk[t] : inbox[c] > 0 /\ inbox' = [inbox EXCEPT ![c] = @ - 1]
    BY DEF ThreadStep, TakeJob, Recv, RecvMessage, RecvEnd, Send, CloseFailed, CloseLast, Notify, netVars
  <2>3. \/ outbox' = outbox
        \/ \E c \in Clients : outbox' = [outbox EXCEPT ![c] = @ + 1]
    <3>1. Behind(sock[t]) \cap Clients # {} => fd[sock[t]] \in Clients
      BY <1>0, BehindFacts DEF Connected
    <3> QED
      BY <3>1 DEF ThreadStep, TakeJob, Recv, RecvMessage, RecvEnd, Send, CloseFailed, CloseLast, Notify,
                  netVars
  <2> QED
    BY <2>1, <2>2, <2>3
<1>6. \A u \in Threads : mtype'[u] \in {Mail(u)', NOTICE}
  <2>1. \A u \in Threads : mtype[u] \in {Mail(u), NOTICE} /\ Mail(u)' = Mail(u)
    BY <1>0 DEF TypeOK, Mail
  <2>2. mtype' = mtype \/ mtype' = [mtype EXCEPT ![t] = NOTICE]
    BY DEF ThreadStep, TakeJob, Recv, RecvMessage, RecvEnd, Send, CloseFailed, CloseLast, Notify
  <2>3. mtype \in [Threads -> 1 .. NOTICE]
    BY <1>0 DEF TypeOK
  <2> QED
    BY <2>1, <2>2, <2>3
<1>7. TypeOK'
  BY <1>0, <1>1, <1>2, <1>3, <1>4, <1>5, <1>6, ThreadMoves DEF TypeOK
<1>8. Ready'
  BY <1>0, <1>2, ThreadMoves DEF Ready
<1> QED
  BY <1>7, <1>8

\* A step of a client keeps the types.
LEMMA ClientTypes ==
  ASSUME Inv, NEW c \in Clients, Connect(c) \/ ClientStep(c) \/ Die(c)
  PROVE  TypeOK' /\ Ready'
<1>0. TypeOK /\ Ready
  BY DEF Inv
<1>1. UNCHANGED <<mpc, sockClient, freeThread, msgQueue, tpc, mtype, sock, round, talk, fd, struck>>
  BY <1>0, ClientMoves DEF serverVars
<1>2. pending' \in Seq(Clients)
  <2>1. pending \in Seq(Clients)
    BY <1>0 DEF TypeOK
  <2> QED
    BY <1>0, <2>1, ClientMoves, AppendProperties
<1>3. /\ done' \in [Clients -> 0 .. ROUNDS] /\ cpc' \in [Clients -> ClientPcs]
      /\ \A d \in Clients : cpc'[d] \in {"off", "connected", "sent"} => done'[d] < ROUNDS
  <2>0. /\ done \in [Clients -> 0 .. ROUNDS] /\ cpc \in [Clients -> ClientPcs] /\ ROUNDS \in Nat \ {0}
        /\ \A d \in Clients : cpc[d] \in {"off", "connected", "sent"} => done[d] < ROUNDS
    BY <1>0, RoundsAssumption DEF TypeOK, Ready
  <2>1. CASE RecvReply(c)
    <3>1. /\ cpc[c] = "sent" /\ done' = [done EXCEPT ![c] = @ + 1]
          /\ cpc' = [cpc EXCEPT ![c] = IF done[c] + 1 = ROUNDS THEN "gone" ELSE "connected"]
      BY <2>1 DEF RecvReply, At
    <3> QED
      BY <2>0, <3>1 DEF ClientPcs
  <2>2. CASE ~RecvReply(c)
    <3>1. /\ done' = done
          /\ \E pc \in ClientPcs : cpc' = [cpc EXCEPT ![c] = pc]
               /\ (pc \in {"off", "connected", "sent"} => cpc[c] \in {"off", "connected", "sent"})
      BY <2>2 DEF Connect, ClientStep, SendMessage, RecvFails, Die, At, ClientPcs
    <3> QED
      BY <2>0, <3>1
  <2> QED
    BY <2>1, <2>2
<1>4. inbox' \in [Clients -> Nat] /\ outbox' \in [Clients -> Nat]
  <2>1. inbox \in [Clients -> Nat] /\ outbox \in [Clients -> Nat]
    BY <1>0 DEF TypeOK
  <2>2. inbox' = inbox \/ inbox' = [inbox EXCEPT ![c] = @ + 1]
    BY DEF Connect, ClientStep, SendMessage, RecvReply, RecvFails, Die
  <2>3. outbox' = outbox \/ (outbox[c] > 0 /\ outbox' = [outbox EXCEPT ![c] = @ - 1])
    BY DEF Connect, ClientStep, SendMessage, RecvReply, RecvFails, Die
  <2> QED
    BY <2>1, <2>2, <2>3
<1>5. TypeOK'
  BY <1>0, <1>1, <1>2, <1>3, <1>4 DEF TypeOK, Mail
<1>6. Ready'
  BY <1>0, <1>1, <1>3 DEF Ready
<1> QED
  BY <1>5, <1>6

(***************************************************************************)
(* The pool: what main counts as free, and where the places are.           *)
(***************************************************************************)
FreeThreads == {t \in Threads : freeThread[t]}
AtWork      == {t \in Threads : Veteran(t) /\ ~Idle(t)}
WithFirst   == {t \in Threads : ~Veteran(t) /\ ~freeThread[t]}
Number(types) == Cardinality(Places(msgQueue, Typed(types)))

\* Counting threads, one more or less.
LEMMA CountThreads ==
  ASSUME NEW S \in SUBSET Threads
  PROVE  /\ Cardinality(S) \in Nat
         /\ \A t \in Threads \ S : Cardinality(S \cup {t}) = Cardinality(S) + 1
         /\ \A t \in S : Cardinality(S \ {t}) = Cardinality(S) - 1
<1>1. IsFiniteSet(Threads)
  BY ThreadAssumption, FS_Interval DEF Threads
<1>2. IsFiniteSet(S)
  BY <1>1, FS_Subset
<1> QED
  BY <1>2, FS_CardinalityType, FS_AddElement, FS_RemoveElement

\* The two properties in these terms, before and after a step.
FreeInNumbers ==
  \A t \in Threads : ~Veteran(t) =>
    Number({Mail(t)}) + (IF Idle(t) THEN 0 ELSE 1) + (IF freeThread[t] THEN 1 ELSE 0) = 1

PlacesInNumbers ==
  Cardinality(FreeThreads) + Number({NOTICE}) + Cardinality(AtWork)
    + Cardinality(WithFirst) + Number(Boxes) = NTHREAD

LEMMA InNumbers == TypeOK => (FreeIsIdle <=> FreeInNumbers) /\ (PlacesAddUp <=> PlacesInNumbers)
<1> SUFFICES ASSUME TypeOK
             PROVE  (FreeIsIdle <=> FreeInNumbers) /\ (PlacesAddUp <=> PlacesInNumbers)
  OBVIOUS
<1>1. \A type : Of(type) = Places(msgQueue, Typed({type}))
  BY OfPlaces DEF TypeOK
<1>2. Unread = Places(msgQueue, Typed(Boxes))
  BY OfPlaces DEF TypeOK
<1>3. FreeIsIdle <=> FreeInNumbers
  BY <1>1 DEF FreeIsIdle, Number, FreeInNumbers
<1>4. PlacesAddUp <=> PlacesInNumbers
  BY <1>1, <1>2 DEF PlacesAddUp, Number, FreeThreads, AtWork, WithFirst, PlacesInNumbers
<1> QED
  BY <1>3, <1>4

LEMMA InNumbersNext == (TypeOK => (FreeIsIdle <=> FreeInNumbers) /\ (PlacesAddUp <=> PlacesInNumbers))'
BY InNumbers, PTL

LEMMA NumbersNat ==
  ASSUME TypeOK
  PROVE  /\ \A types : Number(types) \in Nat
         /\ Cardinality(FreeThreads) \in Nat /\ Cardinality(AtWork) \in Nat
         /\ Cardinality(WithFirst) \in Nat
<1>1. \A types : Number(types) \in Nat
  BY PlacesFinite DEF TypeOK, Number
<1>2. FreeThreads \in SUBSET Threads /\ AtWork \in SUBSET Threads /\ WithFirst \in SUBSET Threads
  BY DEF FreeThreads, AtWork, WithFirst
<1> QED
  BY <1>1, <1>2, CountThreads

\* The boxes nobody looks into, and the others.
LEMMA BoxFacts ==
  /\ NOTICE \notin Boxes
  /\ \A t \in Threads : Mail(t) \in Boxes <=> Veteran(t)
BY MessageFacts DEF Boxes

\* A step that leaves the flags, the queue, the types asked for and who waits
\* as they are.
LEMMA PoolUntouched ==
  ASSUME FromVeterans, FreeIsIdle, PlacesAddUp, UNCHANGED <<freeThread, msgQueue, mtype>>,
         \A t \in Threads : Idle(t)' = Idle(t)
  PROVE  FromVeterans' /\ FreeIsIdle' /\ PlacesAddUp'
<1>1. FromVeterans'
  BY DEF FromVeterans, Veteran, NOTICE
<1>2. \A t \in Threads : Veteran(t)' = Veteran(t) /\ Of(Mail(t))' = Of(Mail(t))
  BY DEF Veteran, Of, Mail, NOTICE
<1>3. FreeIsIdle'
  BY <1>2 DEF FreeIsIdle
<1>4. Of(NOTICE)' = Of(NOTICE) /\ Unread' = Unread
  BY <1>2 DEF Of, Unread, NOTICE, Mail
<1>5. /\ {t \in Threads : freeThread'[t]} = {t \in Threads : freeThread[t]}
      /\ {t \in Threads : Veteran(t) /\ ~Idle(t)}' = {t \in Threads : Veteran(t) /\ ~Idle(t)}
      /\ {t \in Threads : ~Veteran(t) /\ ~freeThread[t]}' = {t \in Threads : ~Veteran(t) /\ ~freeThread[t]}
  BY <1>2
<1>6. PlacesAddUp'
  BY <1>4, <1>5 DEF PlacesAddUp
<1> QED
  BY <1>1, <1>3, <1>6

\* main deals to a free thread: a thread with its first client, or a box nobody
\* will look into.
LEMMA DealKeepsPool ==
  ASSUME TypeOK, FromVeterans, FreeIsIdle, PlacesAddUp, Deal, TypeOK'
  PROVE  FromVeterans' /\ FreeIsIdle' /\ PlacesAddUp'
<1> DEFINE i == FirstFree
<1>1. i \in Threads /\ freeThread[i] /\ freeThread \in [Threads -> BOOLEAN]
  BY FirstFreeIsFree DEF Deal, TypeOK
<1>2. /\ msgsnd(Mail(i), sockClient) /\ freeThread' = [freeThread EXCEPT ![i] = FALSE]
      /\ UNCHANGED <<tpc, mtype>>
  BY DEF Deal, DealToFirst
<1> HIDE DEF i
<1>3. /\ msgQueue \in Seq(Messages) /\ [mtype |-> Mail(i), sockClient |-> sockClient] \in Messages
  BY <1>1, MessageFacts DEF TypeOK
<1>4. \A types : Number(types)' = Number(types) + (IF Mail(i) \in types THEN 1 ELSE 0)
  <2>1. \A types : Typed(types)' = Typed(types)
    BY DEF Typed, Messages, Mail, NOTICE
  <2> QED
    BY <1>2, <1>3, <2>1, SendDoes DEF Number
<1>5. \A t \in Threads : Veteran(t)' = Veteran(t) /\ Idle(t)' = Idle(t) /\ Mail(t)' = Mail(t)
  BY <1>2 DEF Veteran, Idle, NOTICE, Mail
<1>6. FromVeterans'
  <2>0. Mail(i) # NOTICE
    BY <1>1, MessageFacts
  <2>1. \A k \in DOMAIN msgQueue' : msgQueue'[k].mtype = NOTICE =>
          k \in DOMAIN msgQueue /\ msgQueue'[k] = msgQueue[k]
    <3>1. PICK e : DOMAIN msgQueue' = DOMAIN msgQueue \cup {e} /\ msgQueue'[e].mtype = Mail(i)
      BY <1>2, <1>3, SendDoes
    <3>2. \A k \in DOMAIN msgQueue : msgQueue'[k] = msgQueue[k]
      BY <1>2, <1>3, SendDoes
    <3> QED
      BY <2>0, <3>1, <3>2
  <2> QED
    BY <1>2, <2>1 DEF FromVeterans, Veteran, NOTICE
<1>7. FreeIsIdle'
  <2>1. ASSUME NEW t \in Threads, ~Veteran(t)
        PROVE  Number({Mail(t)})' + (IF Idle(t) THEN 0 ELSE 1) + (IF freeThread'[t] THEN 1 ELSE 0) = 1
    <3>1. Number({Mail(t)}) + (IF Idle(t) THEN 0 ELSE 1) + (IF freeThread[t] THEN 1 ELSE 0) = 1
      BY <2>1, InNumbers DEF FreeInNumbers
    <3>2. Number({Mail(t)})' = Number({Mail(t)}) + (IF t = i THEN 1 ELSE 0)
      BY <1>1, <1>4, <1>5, MessageFacts
    <3>3. freeThread'[t] = IF t = i THEN FALSE ELSE freeThread[t]
      BY <1>1, <1>2
    <3>4. Number({Mail(t)}) \in Nat
      BY NumbersNat
    <3> QED
      BY <1>1, <3>1, <3>2, <3>3, <3>4
  <2>2. FreeInNumbers'
    BY <1>5, <2>1 DEF FreeInNumbers
  <2> QED
    BY <2>2, InNumbersNext
<1>8. PlacesAddUp'
  <2>1. Number({NOTICE})' = Number({NOTICE})
    BY <1>1, <1>4, MessageFacts, NumbersNat
  <2>2. AtWork' = AtWork /\ Boxes' = Boxes
    BY <1>5 DEF AtWork, Boxes
  <2>3. Number(Boxes)' = Number(Boxes) + (IF Veteran(i) THEN 1 ELSE 0)
    BY <1>1, <1>4, <2>2, BoxFacts
  <2>4. FreeThreads' = FreeThreads \ {i} /\ i \in FreeThreads
    BY <1>1, <1>2 DEF FreeThreads
  <2>5. WithFirst' = IF Veteran(i) THEN WithFirst ELSE WithFirst \cup {i}
    BY <1>1, <1>2, <1>5 DEF WithFirst
  <2>6. i \notin WithFirst /\ FreeThreads \in SUBSET Threads /\ WithFirst \in SUBSET Threads
    BY <1>1 DEF WithFirst, FreeThreads
  <2>7. /\ Cardinality(FreeThreads') = Cardinality(FreeThreads) - 1
        /\ Cardinality(WithFirst') = Cardinality(WithFirst) + (IF Veteran(i) THEN 0 ELSE 1)
    BY <1>1, <2>4, <2>5, <2>6, CountThreads
  <2>8. Cardinality(FreeThreads) + Number({NOTICE}) + Cardinality(AtWork)
          + Cardinality(WithFirst) + Number(Boxes) = NTHREAD
    BY InNumbers DEF PlacesInNumbers
  <2>9. Cardinality(FreeThreads') + Number({NOTICE})' + Cardinality(AtWork')
          + Cardinality(WithFirst') + Number(Boxes)' = NTHREAD
    BY <2>1, <2>2, <2>3, <2>7, <2>8, NumbersNat
  <2>10. PlacesInNumbers'
    BY <2>9 DEF PlacesInNumbers
  <2> QED
    BY <2>10, InNumbersNext
<1> QED
  BY <1>6, <1>7, <1>8

\* main takes a notice only when no thread is free: the thread named in it is
\* one that has had its first client.
LEMMA NoticeKeepsPool ==
  ASSUME TypeOK, FromVeterans, FreeIsIdle, PlacesAddUp, TakeNotice, TypeOK'
  PROVE  FromVeterans' /\ FreeIsIdle' /\ PlacesAddUp'
<1> DEFINE i == msgQueue[Oldest(NOTICE)].sockClient
<1>1. /\ Of(NOTICE) # {} /\ msgrcv(NOTICE) /\ freeThread' = [freeThread EXCEPT ![i] = TRUE]
      /\ \A t \in Threads : ~freeThread[t]
      /\ UNCHANGED <<tpc, mtype>>
  BY DEF TakeNotice
<1>2. msgQueue \in Seq(Messages) /\ freeThread \in [Threads -> BOOLEAN]
  BY DEF TypeOK
<1>3. i \in Threads /\ Veteran(i)
  BY <1>1, <1>2, OldestDoes, MessageFacts DEF FromVeterans
<1> HIDE DEF i
<1>4. \A types : Number(types)' = Number(types) - (IF NOTICE \in types THEN 1 ELSE 0)
  <2>1. \A types : Typed(types)' = Typed(types)
    BY DEF Typed, Messages, Mail, NOTICE
  <2> QED
    BY <1>1, <1>2, <2>1, ReceiveDoes DEF Number
<1>5. \A t \in Threads : Veteran(t)' = Veteran(t) /\ Idle(t)' = Idle(t) /\ Mail(t)' = Mail(t)
  BY <1>1 DEF Veteran, Idle, NOTICE, Mail
<1>6. FromVeterans'
  <2>1. \A k \in DOMAIN msgQueue' : \E a \in DOMAIN msgQueue : msgQueue'[k] = msgQueue[a]
    BY <1>1, <1>2, ReceiveDoes
  <2> QED
    BY <1>1, <2>1 DEF FromVeterans, Veteran, NOTICE
<1>7. FreeIsIdle'
  <2>1. ASSUME NEW t \in Threads, ~Veteran(t)
        PROVE  Number({Mail(t)})' + (IF Idle(t) THEN 0 ELSE 1) + (IF freeThread'[t] THEN 1 ELSE 0) = 1
    <3>1. Number({Mail(t)}) + (IF Idle(t) THEN 0 ELSE 1) + (IF freeThread[t] THEN 1 ELSE 0) = 1
      BY <2>1, InNumbers DEF FreeInNumbers
    <3>2. Number({Mail(t)})' = Number({Mail(t)})
      BY <1>4, <1>5, MessageFacts, NumbersNat
    <3>3. freeThread'[t] = freeThread[t]
      BY <1>1, <1>2, <1>3, <2>1
    <3> QED
      BY <3>1, <3>2, <3>3
  <2>2. FreeInNumbers'
    BY <1>5, <2>1 DEF FreeInNumbers
  <2> QED
    BY <2>2, InNumbersNext
<1>8. PlacesAddUp'
  <2>1. Number({NOTICE})' = Number({NOTICE}) - 1
    BY <1>4
  <2>2. AtWork' = AtWork /\ Boxes' = Boxes
    BY <1>5 DEF AtWork, Boxes
  <2>3. Number(Boxes)' = Number(Boxes)
    BY <1>4, <2>2, BoxFacts, NumbersNat
  <2>4. FreeThreads' = FreeThreads \cup {i} /\ i \notin FreeThreads
    BY <1>1, <1>2, <1>3 DEF FreeThreads
  <2>5. WithFirst' = WithFirst
    BY <1>1, <1>2, <1>3, <1>5 DEF WithFirst
  <2>6. FreeThreads \in SUBSET Threads
    BY DEF FreeThreads
  <2>7. Cardinality(FreeThreads') = Cardinality(FreeThreads) + 1
    BY <1>3, <2>4, <2>6, CountThreads
  <2>8. Cardinality(FreeThreads) + Number({NOTICE}) + Cardinality(AtWork)
          + Cardinality(WithFirst) + Number(Boxes) = NTHREAD
    BY InNumbers DEF PlacesInNumbers
  <2>9. Cardinality(FreeThreads') + Number({NOTICE})' + Cardinality(AtWork')
          + Cardinality(WithFirst') + Number(Boxes)' = NTHREAD
    BY <2>1, <2>2, <2>3, <2>5, <2>7, <2>8, NumbersNat
  <2>10. PlacesInNumbers'
    BY <2>9 DEF PlacesInNumbers
  <2> QED
    BY <2>10, InNumbersNext
<1> QED
  BY <1>6, <1>7, <1>8

\* A thread takes a socket from its own box, or a notice.
LEMMA JobKeepsPool ==
  ASSUME TypeOK, FromVeterans, FreeIsIdle, PlacesAddUp, TypeOK', NEW t \in Threads, TakeJob(t)
  PROVE  FromVeterans' /\ FreeIsIdle' /\ PlacesAddUp'
<1>1. /\ Of(mtype[t]) # {} /\ msgrcv(mtype[t]) /\ tpc[t] = "msgrcv"
      /\ tpc' = [tpc EXCEPT ![t] = "recv"] /\ UNCHANGED <<freeThread, mtype>>
  BY DEF TakeJob, Goto
<1>2. /\ msgQueue \in Seq(Messages) /\ tpc \in [Threads -> ThreadPcs]
      /\ mtype[t] = IF Veteran(t) THEN NOTICE ELSE Mail(t)
  BY DEF TypeOK, Veteran
<1>3. \A types : Number(types)' = Number(types) - (IF mtype[t] \in types THEN 1 ELSE 0)
  <2>1. \A types : Typed(types)' = Typed(types)
    BY DEF Typed, Messages, Mail, NOTICE
  <2> QED
    BY <1>1, <1>2, <2>1, ReceiveDoes DEF Number
<1>4. /\ \A u \in Threads : Veteran(u)' = Veteran(u) /\ Mail(u)' = Mail(u)
      /\ \A u \in Threads : Idle(u)' <=> Idle(u) /\ u # t
      /\ Idle(t)
  BY <1>1, <1>2 DEF Veteran, Idle, NOTICE, Mail
<1>5. FromVeterans'
  BY <1>1, <1>2, ReceiveDoes DEF FromVeterans, Veteran, NOTICE
<1>6. FreeIsIdle'
  <2>1. ASSUME NEW u \in Threads, ~Veteran(u)
        PROVE  Number({Mail(u)})' + (IF Idle(u)' THEN 0 ELSE 1) + (IF freeThread[u] THEN 1 ELSE 0) = 1
    <3>1. Number({Mail(u)}) + (IF Idle(u) THEN 0 ELSE 1) + (IF freeThread[u] THEN 1 ELSE 0) = 1
      BY <2>1, InNumbers DEF FreeInNumbers
    <3>2. mtype[t] = Mail(u) <=> u = t
      BY <1>2, <2>1, MessageFacts
    <3>3. Number({Mail(u)})' = Number({Mail(u)}) - (IF u = t THEN 1 ELSE 0) /\ Number({Mail(u)}) \in Nat
      BY <1>3, <1>4, <3>2, NumbersNat
    <3> QED
      BY <1>4, <3>1, <3>3
  <2>2. FreeInNumbers'
    BY <1>1, <1>4, <2>1 DEF FreeInNumbers
  <2> QED
    BY <2>2, InNumbersNext
<1>7. PlacesAddUp'
  <2>1. Number({NOTICE})' = Number({NOTICE}) - (IF Veteran(t) THEN 1 ELSE 0)
    BY <1>2, <1>3, MessageFacts
  <2>2. Boxes' = Boxes /\ FreeThreads' = FreeThreads /\ WithFirst' = WithFirst
    BY <1>1, <1>4 DEF Boxes, FreeThreads, WithFirst
  <2>3. Number(Boxes)' = Number(Boxes)
    BY <1>2, <1>3, <2>2, BoxFacts, NumbersNat
  <2>4. AtWork' = IF Veteran(t) THEN AtWork \cup {t} ELSE AtWork
    BY <1>4 DEF AtWork
  <2>5. t \notin AtWork /\ AtWork \in SUBSET Threads
    BY <1>4 DEF AtWork
  <2>6. Cardinality(AtWork') = Cardinality(AtWork) + (IF Veteran(t) THEN 1 ELSE 0)
    BY <2>4, <2>5, CountThreads
  <2>7. Cardinality(FreeThreads) + Number({NOTICE}) + Cardinality(AtWork)
          + Cardinality(WithFirst) + Number(Boxes) = NTHREAD
    BY InNumbers DEF PlacesInNumbers
  <2>8. Cardinality(FreeThreads') + Number({NOTICE})' + Cardinality(AtWork')
          + Cardinality(WithFirst') + Number(Boxes)' = NTHREAD
    BY <2>1, <2>2, <2>3, <2>6, <2>7, NumbersNat
  <2>9. PlacesInNumbers'
    BY <2>8 DEF PlacesInNumbers
  <2> QED
    BY <2>9, InNumbersNext
<1> QED
  BY <1>5, <1>6, <1>7

\* After its notice a thread asks for notices.  If it was with its first client
\* its own box is empty, so no socket is forgotten by that.
LEMMA NotifyKeepsPool ==
  ASSUME TypeOK, FromVeterans, FreeIsIdle, PlacesAddUp, TypeOK', NEW t \in Threads, Notify(t)
  PROVE  FromVeterans' /\ FreeIsIdle' /\ PlacesAddUp'
<1>1. /\ msgsnd(NOTICE, t) /\ tpc[t] = "notify"
      /\ tpc' = [tpc EXCEPT ![t] = "msgrcv"] /\ mtype' = [mtype EXCEPT ![t] = NOTICE]
      /\ freeThread' = freeThread
  BY DEF Notify, SendNotice, Goto
<1>2. /\ msgQueue \in Seq(Messages) /\ tpc \in [Threads -> ThreadPcs]
      /\ mtype \in [Threads -> 1 .. NOTICE] /\ [mtype |-> NOTICE, sockClient |-> t] \in Messages
  BY MessageFacts DEF TypeOK
<1>3. \A types : Number(types)' = Number(types) + (IF NOTICE \in types THEN 1 ELSE 0)
  <2>1. \A types : Typed(types)' = Typed(types)
    BY DEF Typed, Messages, Mail, NOTICE
  <2> QED
    BY <1>1, <1>2, <2>1, SendDoes DEF Number
<1>4. /\ \A u \in Threads : (Veteran(u)' <=> Veteran(u) \/ u = t) /\ Mail(u)' = Mail(u)
      /\ \A u \in Threads : Idle(u)' <=> Idle(u) \/ u = t
      /\ ~Idle(t)
  BY <1>1, <1>2 DEF Veteran, Idle, NOTICE, Mail
<1>5. FromVeterans'
  <2>1. PICK e : /\ DOMAIN msgQueue' = DOMAIN msgQueue \cup {e} /\ msgQueue'[e].sockClient = t
    BY <1>1, <1>2, SendDoes
  <2>2. \A k \in DOMAIN msgQueue : msgQueue'[k] = msgQueue[k]
    BY <1>1, <1>2, SendDoes
  <2>3. \A k \in DOMAIN msgQueue : msgQueue[k].mtype = NOTICE => msgQueue[k].sockClient \in Threads
    <3>1. \A k \in DOMAIN msgQueue : msgQueue[k] \in Messages
      BY <1>2, LenProperties, ElementOfSeq
    <3> QED
      BY <3>1, MessageFacts
  <2>4. NOTICE' = NOTICE
    BY DEF NOTICE
  <2> QED
    BY <1>4, <2>1, <2>2, <2>3, <2>4 DEF FromVeterans
<1>6. FreeIsIdle'
  <2>1. ASSUME NEW u \in Threads, ~Veteran(u)'
        PROVE  Number({Mail(u)})' + (IF Idle(u)' THEN 0 ELSE 1) + (IF freeThread[u] THEN 1 ELSE 0) = 1
    <3>1. u # t /\ ~Veteran(u)
      BY <1>4, <2>1
    <3>2. Number({Mail(u)}) + (IF Idle(u) THEN 0 ELSE 1) + (IF freeThread[u] THEN 1 ELSE 0) = 1
      BY <3>1, InNumbers DEF FreeInNumbers
    <3>3. Number({Mail(u)})' = Number({Mail(u)})
      BY <1>3, <1>4, MessageFacts, NumbersNat
    <3> QED
      BY <1>4, <3>1, <3>2, <3>3
  <2>2. FreeInNumbers'
    BY <1>1, <2>1 DEF FreeInNumbers
  <2> QED
    BY <2>2, InNumbersNext
<1>7. PlacesAddUp'
  <2>1. Number({NOTICE})' = Number({NOTICE}) + 1
    BY <1>3
  <2>2. FreeThreads' = FreeThreads
    BY <1>1 DEF FreeThreads
  <2>3. Cardinality(FreeThreads) + Number({NOTICE}) + Cardinality(AtWork)
          + Cardinality(WithFirst) + Number(Boxes) = NTHREAD
    BY InNumbers DEF PlacesInNumbers
  <2>4. AtWork \in SUBSET Threads /\ WithFirst \in SUBSET Threads
    BY DEF AtWork, WithFirst
  <2>5. CASE Veteran(t)
    <3>1. Boxes' = Boxes /\ WithFirst' = WithFirst
      BY <1>1, <1>4, <2>5 DEF Boxes, WithFirst
    <3>2. Number(Boxes)' = Number(Boxes)
      BY <1>3, <3>1, BoxFacts, NumbersNat
    <3>3. AtWork' = AtWork \ {t} /\ t \in AtWork
      BY <1>4, <2>5 DEF AtWork
    <3>4. Cardinality(AtWork') = Cardinality(AtWork) - 1
      BY <2>4, <3>3, CountThreads
    <3> QED
      BY <2>1, <2>2, <2>3, <3>1, <3>2, <3>4, NumbersNat, InNumbersNext DEF PlacesInNumbers
  <2>6. CASE ~Veteran(t)
    <3>1. Number({Mail(t)}) + 1 + (IF freeThread[t] THEN 1 ELSE 0) = 1 /\ Number({Mail(t)}) \in Nat
      BY <1>4, <2>6, InNumbers, NumbersNat DEF FreeInNumbers
    <3>2. Number({Mail(t)}) = 0 /\ ~freeThread[t]
      BY <3>1
    <3>3. AtWork' = AtWork /\ WithFirst' = WithFirst \ {t} /\ t \in WithFirst
      BY <1>1, <1>4, <2>6, <3>2 DEF AtWork, WithFirst
    <3>4. Cardinality(WithFirst') = Cardinality(WithFirst) - 1
      BY <2>4, <3>3, CountThreads
    <3>5. Boxes' = Boxes \cup {Mail(t)}
      BY <1>4, <2>6 DEF Boxes
    <3>6. Number(Boxes') = Number(Boxes)
      <4>1. IsFiniteSet(Places(msgQueue, Typed({Mail(t)})))
        BY <1>2, PlacesFinite
      <4>2. Places(msgQueue, Typed({Mail(t)})) = {}
        BY <3>2, <4>1, FS_EmptySet DEF Number
      <4>3. Places(msgQueue, Typed(Boxes')) = Places(msgQueue, Typed(Boxes))
        BY <3>5, <4>2 DEF Places, Typed
      <4> QED
        BY <4>3 DEF Number
    <3>7. NOTICE \notin Boxes'
      BY <3>5, BoxFacts, MessageFacts
    <3>8. Number(Boxes)' = Number(Boxes)
      <4>1. \A types : Typed(types)' = Typed(types)
        BY DEF Typed, Messages, Mail, NOTICE
      <4>2. Cardinality(Places(msgQueue', Typed(Boxes'))) = Cardinality(Places(msgQueue, Typed(Boxes')))
        BY <1>1, <1>2, <3>7, SendDoes, PlacesFinite
      <4> QED
        BY <3>6, <4>1, <4>2 DEF Number
    <3> QED
      BY <2>1, <2>2, <2>3, <3>3, <3>4, <3>8, NumbersNat, InNumbersNext DEF PlacesInNumbers
  <2> QED
    BY <2>5, <2>6
<1> QED
  BY <1>5, <1>6, <1>7

\* Every step keeps the pool in order.
LEMMA PoolKept ==
  ASSUME Inv, Next
  PROVE  FromVeterans' /\ FreeIsIdle' /\ PlacesAddUp'
<1>0. TypeOK /\ FromVeterans /\ FreeIsIdle /\ PlacesAddUp /\ tpc \in [Threads -> ThreadPcs]
  BY DEF Inv, TypeOK
<1>1. TypeOK'
  BY MainTypes, ThreadTypes, ClientTypes DEF Next
<1>2. CASE Deal
  BY <1>0, <1>1, <1>2, DealKeepsPool
<1>3. CASE TakeNotice
  BY <1>0, <1>1, <1>3, NoticeKeepsPool
<1>4. CASE CallAccept \/ AcceptFails \/ Accept
  BY <1>0, <1>4, PoolUntouched DEF CallAccept, AcceptFails, Accept, Idle
<1>5. ASSUME NEW t \in Threads, ThreadStep(t)
      PROVE  FromVeterans' /\ FreeIsIdle' /\ PlacesAddUp'
  <2>1. CASE TakeJob(t)
    BY <1>0, <1>1, <2>1, JobKeepsPool
  <2>2. CASE Notify(t)
    BY <1>0, <1>1, <2>2, NotifyKeepsPool
  <2>3. CASE ~TakeJob(t) /\ ~Notify(t)
    <3>1. /\ UNCHANGED <<freeThread, msgQueue, mtype>>
          /\ tpc[t] # "msgrcv"
          /\ \E pc \in ThreadPcs \ {"msgrcv"} : tpc' = [tpc EXCEPT ![t] = pc]
      BY <1>5, <2>3 DEF ThreadStep, Recv, RecvMessage, RecvEnd, Send, CloseFailed, CloseLast, Goto, ThreadPcs
    <3>2. \A u \in Threads : Idle(u)' = Idle(u)
      BY <1>0, <3>1 DEF Idle
    <3> QED
      BY <1>0, <3>1, <3>2, PoolUntouched
  <2> QED
    BY <2>1, <2>2, <2>3
<1>6. ASSUME NEW c \in Clients, Connect(c) \/ ClientStep(c) \/ Die(c)
      PROVE  FromVeterans' /\ FreeIsIdle' /\ PlacesAddUp'
  BY <1>0, <1>6, ClientMoves, PoolUntouched DEF serverVars, Idle
<1> QED
  BY <1>2, <1>3, <1>4, <1>5, <1>6 DEF Next

(***************************************************************************)
(* Connections: who waits, who holds one, and who loses one.               *)
(***************************************************************************)
\* close takes one descriptor off the table, and strikes what is behind it
\* unless it is what the thread talked to.
LEMMA CloseDoes ==
  ASSUME NEW t \in Threads, CloseFailed(t) \/ CloseLast(t)
  PROVE  /\ fd' = [s \in DOMAIN fd \ {sock[t]} |-> fd[s]]
         /\ struck' = struck \cup (Behind(sock[t]) \ talk[t])
         /\ pending' = pending \/ ("listener" \in Behind(sock[t]) /\ pending' = <<>>)
         /\ tpc[t] \in {"close", "last"} /\ tpc' = [tpc EXCEPT ![t] = IF tpc[t] = "close" THEN "last" ELSE "notify"]
         /\ UNCHANGED <<sock, round, talk, cpc, done, outbox, mpc, sockClient, msgQueue, mtype>>
BY DEF CloseFailed, CloseLast, close, Goto

LEMMA UntouchedKept ==
  ASSUME Inv, Next
  PROVE  Untouched'
<1>0. TypeOK /\ Untouched /\ pending \in Seq(Clients) /\ talk \in [Threads -> SUBSET Clients]
  BY DEF Inv, TypeOK
<1>1. CASE Accept
  <2>1. PICK c \in Clients, s \in Sockets :
           /\ Contains(pending, c) /\ cpc[c] # "off"
           /\ \A d : Contains(pending', d) => Contains(pending, d) /\ d # c
           /\ IsInjective(pending')
           /\ s \notin DOMAIN fd /\ fd' = [r \in DOMAIN fd \cup {s} |-> IF r = s THEN c ELSE fd[r]]
    BY <1>0, <1>1, AcceptDoes
  <2>2. UNCHANGED <<talk, cpc>>
    BY <1>1 DEF Accept
  <2>3. ASSUME NEW d \in Clients, Waits(d)'
        PROVE  Waits(d) /\ d # c
    BY <2>1, <2>2, <2>3 DEF Waits
  <2>4. \A r \in DOMAIN fd : fd[r] # c
    BY <1>0, <2>1 DEF Untouched, Waits
  <2>5. \A r, q \in DOMAIN fd' : fd'[r] \in Clients /\ fd'[r] = fd'[q] => r = q
    BY <1>0, <2>1, <2>4 DEF Untouched
  <2>6. \A d \in Clients : Waits(d)' =>
          (\A r \in DOMAIN fd' : fd'[r] # d) /\ (\A t \in Threads : d \notin talk'[t])
    BY <1>0, <2>1, <2>2, <2>3 DEF Untouched
  <2> QED
    BY <1>0, <2>1, <2>2, <2>5, <2>6 DEF Untouched
<1>2. CASE AcceptFails
  <2>1. pending' = <<>> /\ fd' = <<>> /\ UNCHANGED <<talk, cpc>>
    BY <1>2 DEF AcceptFails
  <2>2. DOMAIN (<<>>) = {} /\ \A d : ~Contains(<<>>, d)
    BY EmptySeq DEF Contains
  <2>3. \A d \in Clients : Waits(d)' => Waits(d)
    BY <2>1, <2>2 DEF Waits
  <2> QED
    BY <1>0, <2>1, <2>2, <2>3 DEF Untouched, IsInjective
<1>3. CASE CallAccept \/ Deal \/ TakeNotice
  BY <1>0, <1>3 DEF CallAccept, Deal, TakeNotice, netVars, Untouched, Waits
<1>4. ASSUME NEW t \in Threads, ThreadStep(t)
      PROVE  Untouched'
  <2>1. cpc' = cpc
    BY <1>0, <1>4, ThreadMoves
  <2>2. /\ DOMAIN fd' \subseteq DOMAIN fd /\ \A s \in DOMAIN fd' : fd'[s] = fd[s]
        /\ pending' = pending \/ pending' = <<>>
    <3>1. CASE CloseFailed(t) \/ CloseLast(t)
      <4>1. /\ fd' = [s \in DOMAIN fd \ {sock[t]} |-> fd[s]]
            /\ pending' = pending \/ pending' = <<>>
        BY <3>1, CloseDoes
      <4> QED
        BY <4>1
    <3>2. CASE fd' = fd /\ pending' = pending
      BY <3>2
    <3> QED
      BY <1>4, <3>1, <3>2, ThreadDoes
  <2>3. /\ \A d : Contains(pending', d) => Contains(pending, d)
        /\ IsInjective(pending')
    <3>1. IsInjective(<<>>) /\ \A d : ~Contains(<<>>, d)
      BY EmptySeq DEF IsInjective, Contains
    <3> QED
      BY <1>0, <2>2, <3>1 DEF Untouched
  <2>4. \A d \in Clients : Waits(d)' => Waits(d)
    BY <2>1, <2>3 DEF Waits
  <2>5. ASSUME NEW d \in Clients, Waits(d), NEW u \in Threads
        PROVE  d \notin talk'[u]
    <3>1. d \notin Behind(sock[t]) /\ d \notin talk[u]
      BY <1>0, <2>5 DEF Untouched, Behind
    <3>2. talk'[u] \subseteq talk[u] \cup Behind(sock[t])
      BY <1>0, <1>4, ThreadDoes
    <3> QED
      BY <3>1, <3>2
  <2> QED
    BY <1>0, <2>1, <2>2, <2>3, <2>4, <2>5 DEF Untouched
<1>5. ASSUME NEW c \in Clients, Connect(c) \/ ClientStep(c) \/ Die(c)
      PROVE  Untouched'
  <2>1. /\ UNCHANGED <<talk, fd>>
        /\ cpc \in [Clients -> ClientPcs] /\ \E pc \in ClientPcs \ {"off"} : cpc' = [cpc EXCEPT ![c] = pc]
        /\ IF cpc[c] = "off" THEN pending' = Append(pending, c) ELSE pending' = pending
    BY <1>0, <1>5, ClientMoves DEF serverVars
  <2>2. /\ \A d : Contains(pending', d) <=> Contains(pending, d) \/ (cpc[c] = "off" /\ d = c)
        /\ IsInjective(pending')
    <3>1. cpc[c] = "off" => ~Contains(pending, c) /\ pending' = Append(pending, c)
      BY <1>0, <2>1 DEF Untouched
    <3>2. IsInjective(pending) /\ (cpc[c] # "off" => pending' = pending)
      BY <1>0, <2>1 DEF Untouched
    <3>3. CASE cpc[c] = "off"
      <4>1. /\ \A d : Contains(Append(pending, c), d) <=> Contains(pending, d) \/ d = c
            /\ IsInjective(pending) /\ ~Contains(pending, c) => IsInjective(Append(pending, c))
        BY <1>0, JoinProperties
      <4> QED
        BY <3>1, <3>2, <3>3, <4>1
    <3>4. CASE cpc[c] # "off"
      BY <3>2, <3>4
    <3> QED
      BY <3>3, <3>4
  <2>3. \A d \in Clients : Waits(d)' => Waits(d)
    BY <2>1, <2>2 DEF Waits
  <2>4. \A d \in Clients : cpc'[d] = "off" => cpc[d] = "off" /\ d # c
    BY <2>1
  <2> QED
    BY <1>0, <2>1, <2>2, <2>3, <2>4 DEF Untouched
<1> QED
  BY <1>1, <1>2, <1>3, <1>4, <1>5 DEF Next

\* The listening socket goes only by a close, which strikes it.
LEMMA OpenKept ==
  ASSUME Inv, Next
  PROVE  Open'
<1> SUFFICES ASSUME "listener" \notin struck'
             PROVE  mpc' # "exited" /\ sockMain \in DOMAIN fd' /\ fd'[sockMain] = "listener"
  BY DEF Open
<1>0. TypeOK /\ Open /\ "listener" \notin Clients
  BY ClientsAssumption DEF Inv
<1>1. struck \subseteq struck'
  BY <1>0, ThreadDoes, ClientMoves DEF Next, CallAccept, AcceptFails, Accept, Deal, TakeNotice
<1>2. mpc # "exited" /\ sockMain \in DOMAIN fd /\ fd[sockMain] = "listener"
  BY <1>0, <1>1 DEF Open
<1>3. ~AcceptFails
  BY <1>2 DEF AcceptFails, Behind
<1>4. CASE Accept
  BY <1>2, <1>4 DEF Accept
<1>5. CASE CallAccept \/ Deal \/ TakeNotice
  BY <1>2, <1>5 DEF CallAccept, Deal, TakeNotice, netVars
<1>6. ASSUME NEW t \in Threads, ThreadStep(t)
      PROVE  mpc' # "exited" /\ sockMain \in DOMAIN fd' /\ fd'[sockMain] = "listener"
  <2>1. mpc' = mpc
    BY <1>0, <1>6, ThreadMoves
  <2>2. CASE CloseFailed(t) \/ CloseLast(t)
    <3>1. sock[t] # sockMain
      <4> SUFFICES ASSUME sock[t] = sockMain
                   PROVE  FALSE
        OBVIOUS
      <4>1. "listener" \in Behind(sock[t])
        BY <1>2 DEF Behind
      <4>2. "listener" \notin talk[t]
        BY <1>0 DEF TypeOK
      <4> QED
        BY <2>2, <4>1, <4>2, CloseDoes
    <3> QED
      BY <1>2, <2>1, <2>2, <3>1, CloseDoes
  <2> QED
    BY <1>2, <1>6, <2>1, <2>2, ThreadDoes
<1>7. ASSUME NEW c \in Clients, Connect(c) \/ ClientStep(c) \/ Die(c)
      PROVE  mpc' # "exited" /\ sockMain \in DOMAIN fd' /\ fd'[sockMain] = "listener"
  BY <1>0, <1>2, <1>7, ClientMoves DEF serverVars
<1> QED
  BY <1>3, <1>4, <1>5, <1>6, <1>7 DEF Next

\* A thread that works on a client of its own keeps its hold on it.
LEMMA HoldsUnchanged ==
  ASSUME TypeOK, NEW t \in Threads, Recv(t) \/ RecvMessage(t) \/ RecvEnd(t) \/ Send(t),
         HeldOnce
  PROVE  /\ \A u \in Threads : Holds(u)' <=> Holds(u)
         /\ UNCHANGED <<mpc, sockClient, msgQueue, sock, fd>>
         /\ \A u \in Threads \ {t} : tpc'[u] = tpc[u] /\ round'[u] = round[u] /\ talk'[u] = talk[u]
         /\ talk'[t] = {fd[sock[t]]}
<1>1. /\ UNCHANGED <<mpc, sockClient, msgQueue, sock, fd>> /\ tpc[t] \in {"recv", "wait", "send"}
  BY DEF Recv, RecvMessage, RecvEnd, Send, netVars
<1>2. /\ \A u \in Threads \ {t} : tpc'[u] = tpc[u] /\ round'[u] = round[u] /\ talk'[u] = talk[u]
      /\ tpc \in [Threads -> ThreadPcs] /\ talk \in [Threads -> SUBSET Clients]
  <2>2. \E pc \in ThreadPcs : tpc' = [tpc EXCEPT ![t] = pc]
    BY DEF Recv, RecvMessage, RecvEnd, Send, Goto, ThreadPcs
  <2>3. round' = round \/ \E n : round' = [round EXCEPT ![t] = n]
    BY DEF Recv, RecvMessage, RecvEnd, Send
  <2>4. talk' = talk \/ \E n : talk' = [talk EXCEPT ![t] = n]
    BY DEF Recv, RecvMessage, RecvEnd, Send
  <2> QED
    BY <2>2, <2>3, <2>4 DEF TypeOK
<1>3. \A s : Behind(s)' = Behind(s)
  BY <1>1 DEF Behind
<1>4. Holds(t) /\ Connected(sock[t])
  BY <1>1 DEF HeldOnce, Holds
<1>5. Behind(sock[t]) = {fd[sock[t]]} /\ fd[sock[t]] \in Clients
  BY <1>4, BehindFacts DEF Connected
<1>6. /\ tpc'[t] \in {"recv", "wait", "send", "close", "last"}
      /\ talk'[t] = {fd[sock[t]]}
  <2>1. CASE Recv(t)
    BY <1>2, <1>5, <2>1 DEF Recv, Goto
  <2>2. CASE RecvMessage(t) \/ RecvEnd(t) \/ Send(t)
    <3>1. /\ tpc[t] \in {"wait", "send"} /\ talk' = talk
          /\ tpc'[t] \in {"recv", "wait", "send", "close", "last"}
      BY <1>2, <2>2 DEF RecvMessage, RecvEnd, Send, Goto
    <3> QED
      BY <3>1 DEF HeldOnce
  <2> QED
    BY <2>1, <2>2
<1>7. Holds(t)'
  <2>1. Behind(sock[t])' = {fd[sock[t]]}
    BY <1>1, <1>5 DEF Behind
  <2> QED
    BY <1>6, <2>1 DEF Holds
<1>8. \A u \in Threads \ {t} : Holds(u)' <=> Holds(u)
  <2>1. \A u \in Threads : Behind(sock[u])' = Behind(sock[u])
    BY <1>1 DEF Behind
  <2> QED
    BY <1>2, <2>1 DEF Holds
<1> QED
  BY <1>1, <1>2, <1>4, <1>6, <1>7, <1>8

LEMMA FirstClientsKept ==
  ASSUME Inv, Next
  PROVE  FirstClients'
<1> SUFFICES ASSUME Clean'
             PROVE  HeldOnce' /\ DealtOnce' /\ InHandOnce'
  BY DEF FirstClients
<1>0. /\ TypeOK /\ FromVeterans /\ Untouched /\ Counted /\ Open /\ msgQueue \in Seq(Messages)
      /\ tpc \in [Threads -> ThreadPcs] /\ sock \in [Threads -> Sockets \cup Threads]
      /\ talk \in [Threads -> SUBSET Clients]
  BY DEF Inv, TypeOK
<1>1. Clean
  <2>1. struck \subseteq struck'
    BY <1>0, ThreadDoes, ClientMoves DEF Next, CallAccept, AcceptFails, Accept, Deal, TakeNotice
  <2>2. \A v \in Threads : Veteran(v) => Veteran(v)'
    <3>1. mtype' = mtype \/ \E t \in Threads : mtype' = [mtype EXCEPT ![t] = NOTICE]
      BY <1>0, ClientMoves DEF Next, CallAccept, AcceptFails, Accept, Deal, TakeNotice, ThreadStep,
         TakeJob, Recv, RecvMessage, RecvEnd, Send, CloseFailed, CloseLast, Notify, serverVars
    <3>2. mtype \in [Threads -> 1 .. NOTICE] /\ NOTICE' = NOTICE
      BY <1>0 DEF TypeOK, NOTICE
    <3> QED
      BY <3>1, <3>2 DEF Veteran
  <2> QED
    BY <2>1, <2>2 DEF Clean
<1>2. HeldOnce /\ DealtOnce /\ InHandOnce
  BY <1>1 DEF Inv, FirstClients
<1>3. ~AcceptFails
  BY <1>0, <1>1 DEF AcceptFails, Behind, Open, Clean
<1>4. ~TakeNotice
  <2> SUFFICES ASSUME Of(NOTICE) # {}
               PROVE  FALSE
    BY DEF TakeNotice
  <2>1. \E t \in Threads : Veteran(t)
    BY <1>0, OldestDoes, MessageFacts DEF FromVeterans
  <2> QED
    BY <1>1, <2>1 DEF Clean
<1>5. CASE CallAccept
  <2>1. UNCHANGED <<sockClient, msgQueue, tpc, sock, round, talk, fd>> /\ mpc' = "blocked"
    BY <1>5 DEF CallAccept, netVars
  <2> QED
    BY <1>2, <2>1 DEF HeldOnce, DealtOnce, InHandOnce, Holds, Connected, Behind
<1>6. CASE Accept
  <2>1. PICK c \in Clients, s \in Sockets :
           /\ Contains(pending, c)
           /\ s \notin DOMAIN fd /\ fd' = [r \in DOMAIN fd \cup {s} |-> IF r = s THEN c ELSE fd[r]]
           /\ sockClient' = s
    BY <1>0, <1>6, AcceptDoes
  <2>2. UNCHANGED <<msgQueue, tpc, sock, round, talk>>
    BY <1>6 DEF Accept
  <2>3. \A r : Connected(r) => Connected(r)' /\ r # s /\ fd'[r] = fd[r]
    BY <2>1 DEF Connected
  <2>4. \A u \in Threads : Holds(u)' <=> Holds(u)
    <3>1. ASSUME NEW u \in Threads
          PROVE  Behind(sock[u])' \cap talk[u] = Behind(sock[u]) \cap talk[u]
      <4>1. c \notin talk[u]
        BY <1>0, <2>1 DEF Untouched, Waits
      <4>2. /\ sock[u] = s => Behind(sock[u])' = {c} /\ Behind(sock[u]) = {}
            /\ sock[u] # s => Behind(sock[u])' = Behind(sock[u])
        BY <2>1, <2>2 DEF Behind
      <4> QED
        BY <4>1, <4>2
    <3> QED
      BY <2>2, <3>1 DEF Holds
  <2>5. HeldOnce'
    <3>1. \A u \in Threads : Holds(u)' => Connected(sock[u])' /\ fd'[sock[u]] = fd[sock[u]]
      <4>1. \A u \in Threads : Holds(u)' => Connected(sock[u])
        BY <1>2, <2>4 DEF HeldOnce
      <4>2. \A u \in Threads : Connected(sock[u]) => Connected(sock[u])' /\ fd'[sock[u]] = fd[sock[u]]
        BY <2>1, <2>2 DEF Connected
      <4> QED
        BY <4>1, <4>2
    <3>2. \A u \in Threads : tpc[u] \in {"recv", "wait", "send", "close"} => Holds(u)'
      BY <2>4 DEF Holds
    <3> QED
      BY <1>2, <2>2, <2>4, <3>1, <3>2 DEF HeldOnce
  <2>6. DealtOnce'
    BY <1>2, <2>1, <2>2, <2>3, <2>4 DEF DealtOnce, Connected
  <2>7. InHandOnce'
    <3>1. Connected(s)'
      BY <2>1 DEF Connected
    <3>2. \A u \in Threads : Holds(u) => sock[u] # s
      BY <1>2, <2>3 DEF HeldOnce
    <3>3. \A k \in DOMAIN msgQueue : msgQueue[k].sockClient # s
      BY <1>2, <2>3 DEF DealtOnce
    <3> QED
      BY <2>1, <2>2, <2>4, <3>1, <3>2, <3>3 DEF InHandOnce
  <2> QED
    BY <2>5, <2>6, <2>7
<1>7. CASE Deal
  <2>1. /\ msgsnd(Mail(FirstFree), sockClient) /\ mpc = "deal" /\ mpc' = "accept"
        /\ UNCHANGED <<sockClient, tpc, sock, round, talk, fd>> /\ \E i \in Threads : freeThread[i]
    BY <1>7 DEF Deal, DealToFirst, netVars
  <2>2. [mtype |-> Mail(FirstFree), sockClient |-> sockClient] \in Messages
    BY <1>0, <2>1, FirstFreeIsFree, MessageFacts DEF TypeOK
  <2>3. PICK e : /\ e \notin DOMAIN msgQueue /\ DOMAIN msgQueue' = DOMAIN msgQueue \cup {e}
                 /\ msgQueue'[e].sockClient = sockClient
    BY <1>0, <2>1, <2>2, SendDoes, ZenonT(60)
  <2>4. \A k \in DOMAIN msgQueue : msgQueue'[k] = msgQueue[k]
    BY <1>0, <2>1, <2>2, SendDoes
  <2>5. /\ Connected(sockClient)
        /\ \A t \in Threads : Holds(t) => sock[t] # sockClient
        /\ \A k \in DOMAIN msgQueue : msgQueue[k].sockClient # sockClient
    BY <1>2, <2>1 DEF InHandOnce
  <2>6. \A u \in Threads : Holds(u)' <=> Holds(u)
    BY <2>1 DEF Holds, Behind
  <2>7. HeldOnce'
    BY <1>2, <2>1, <2>6 DEF HeldOnce, Connected
  <2>8. DealtOnce'
    BY <1>2, <2>1, <2>3, <2>4, <2>5, <2>6 DEF DealtOnce, Connected
  <2>9. InHandOnce'
    BY <2>1 DEF InHandOnce
  <2> QED
    BY <2>7, <2>8, <2>9
<1>8. ASSUME NEW t \in Threads, ThreadStep(t)
      PROVE  HeldOnce' /\ DealtOnce' /\ InHandOnce'
  <2>1. CASE TakeJob(t)
    <3> DEFINE o == Oldest(mtype[t])
               s == msgQueue[o].sockClient
    <3>1. /\ Of(mtype[t]) # {} /\ msgrcv(mtype[t]) /\ tpc[t] = "msgrcv"
          /\ tpc' = [tpc EXCEPT ![t] = "recv"] /\ sock' = [sock EXCEPT ![t] = s]
          /\ round'[t] = 0 /\ UNCHANGED <<fd, mpc, sockClient>>
      BY <1>0, <2>1 DEF TakeJob, Goto, netVars, TypeOK
    <3>2. o \in DOMAIN msgQueue
      BY <1>0, <3>1, OldestDoes
    <3>3. /\ \A k \in DOMAIN msgQueue' :
               \E a \in DOMAIN msgQueue \ {o} : msgQueue'[k] = msgQueue[a]
          /\ \A j, k \in DOMAIN msgQueue' : j # k =>
               \E a, b \in DOMAIN msgQueue \ {o} :
                 a # b /\ msgQueue'[j] = msgQueue[a] /\ msgQueue'[k] = msgQueue[b]
      BY <1>0, <3>1, ReceiveDoes
    <3> HIDE DEF o
    <3>4. /\ Connected(s) /\ \A u \in Threads : Holds(u) => sock[u] # s
          /\ mpc = "deal" => s # sockClient
      BY <1>2, <3>2 DEF DealtOnce, InHandOnce
    <3> HIDE DEF s
    <3>5. \A u \in Threads \ {t} : tpc'[u] = tpc[u] /\ sock'[u] = sock[u] /\ round'[u] = round[u] /\ talk'[u] = talk[u]
      BY <1>0, <1>8, ThreadMoves
    <3>6. \A u \in Threads \ {t} : Holds(u)' <=> Holds(u)
      BY <3>1, <3>5 DEF Holds, Behind
    <3>7. tpc'[t] = "recv" /\ sock'[t] = s /\ Holds(t)'
      BY <1>0, <3>1 DEF Holds
    <3>8. HeldOnce'
      BY <1>2, <3>1, <3>4, <3>5, <3>6, <3>7 DEF HeldOnce, Connected
    <3>9. \A k \in DOMAIN msgQueue' : msgQueue'[k].sockClient # s
      BY <1>2, <3>2, <3>3 DEF DealtOnce, s
    <3>10. DealtOnce'
      <4>1. \A k \in DOMAIN msgQueue' : Connected(msgQueue'[k].sockClient)
        BY <1>2, <3>3 DEF DealtOnce
      <4>2. \A k \in DOMAIN msgQueue', u \in Threads : Holds(u)' => sock'[u] # msgQueue'[k].sockClient
        BY <1>2, <3>3, <3>5, <3>6, <3>7, <3>9 DEF DealtOnce
      <4>3. \A j, k \in DOMAIN msgQueue' : msgQueue'[j].sockClient = msgQueue'[k].sockClient => j = k
        BY <1>2, <3>3 DEF DealtOnce
      <4> QED
        BY <3>1, <4>1, <4>2, <4>3 DEF DealtOnce, Connected
    <3>11. InHandOnce'
      BY <1>2, <3>1, <3>3, <3>4, <3>5, <3>6, <3>7 DEF InHandOnce, Connected
    <3> QED
      BY <3>8, <3>10, <3>11
  <2>2. CASE Recv(t) \/ RecvMessage(t) \/ RecvEnd(t) \/ Send(t)
    <3>1. /\ \A u \in Threads : Holds(u)' <=> Holds(u)
          /\ UNCHANGED <<mpc, sockClient, msgQueue, sock, fd>>
          /\ \A u \in Threads \ {t} : tpc'[u] = tpc[u] /\ round'[u] = round[u] /\ talk'[u] = talk[u]
          /\ tpc'[t] \in {"recv", "wait", "send", "close"} => talk'[t] = {fd[sock[t]]}
      BY <1>0, <1>2, <2>2, HoldsUnchanged
    <3>2. HeldOnce'
      BY <1>2, <3>1 DEF HeldOnce, Connected
    <3>3. DealtOnce' /\ InHandOnce'
      BY <1>2, <3>1 DEF DealtOnce, InHandOnce, Connected
    <3> QED
      BY <3>2, <3>3
  <2>3. CASE CloseFailed(t) \/ CloseLast(t)
    <3>1. /\ fd' = [s \in DOMAIN fd \ {sock[t]} |-> fd[s]]
          /\ struck' = struck \cup (Behind(sock[t]) \ talk[t])
          /\ tpc[t] \in {"close", "last"} /\ tpc'[t] \in {"last", "notify"}
          /\ UNCHANGED <<sock, round, talk, mpc, sockClient, msgQueue>>
      BY <1>0, <2>3, CloseDoes
    <3>2. Behind(sock[t]) \subseteq talk[t]
      BY <3>1 DEF Clean
    <3>3. ~Holds(t)'
      <4>1. Behind(sock[t])' = {}
        BY <3>1 DEF Behind
      <4> QED
        BY <3>1, <4>1 DEF Holds
    <3>4. \A u \in Threads \ {t} : tpc'[u] = tpc[u]
      BY <1>0, <1>8, ThreadMoves
    <3>5. \A u \in Threads : Holds(u)' => Holds(u) /\ u # t
      <4>1. \A u \in Threads : Behind(sock[u])' \subseteq Behind(sock[u])
        BY <3>1 DEF Behind
      <4> QED
        BY <3>1, <3>3, <3>4, <4>1 DEF Holds
    <3>6. ~Holds(t) => sock[t] \notin DOMAIN fd
      <4> SUFFICES ASSUME sock[t] \in DOMAIN fd
                   PROVE  Holds(t)
        OBVIOUS
      <4>1. fd[sock[t]] \in Behind(sock[t])
        BY DEF Behind
      <4> QED
        BY <3>1, <3>2, <4>1 DEF Holds
    <3>7. \A r : Connected(r) /\ (Holds(t) => r # sock[t]) => Connected(r)' /\ fd'[r] = fd[r]
      BY <3>1, <3>6 DEF Connected
    <3>8. \A u \in Threads : Holds(u)' => Connected(sock[u])' /\ fd'[sock[u]] = fd[sock[u]]
      <4>1. ASSUME NEW u \in Threads, Holds(u)'
            PROVE  Connected(sock[u]) /\ (Holds(t) => sock[u] # sock[t])
        BY <1>2, <3>5, <4>1 DEF HeldOnce
      <4>2. ASSUME NEW u \in Threads, Connected(sock[u]), Holds(t) => sock[u] # sock[t]
            PROVE  Connected(sock[u])' /\ fd'[sock[u]] = fd[sock[u]]
        BY <3>1, <3>6, <4>2 DEF Connected
      <4> QED
        BY <4>1, <4>2
    <3>9. HeldOnce'
      <4>1. \A u \in Threads : tpc'[u] \in {"recv", "wait", "send", "close"} => tpc[u] = tpc'[u] /\ Holds(u)'
        BY <3>1, <3>4 DEF Holds
      <4> QED
        BY <1>2, <3>1, <3>5, <3>8, <4>1 DEF HeldOnce
    <3>10. DealtOnce'
      BY <1>2, <3>1, <3>5, <3>7 DEF DealtOnce, Connected
    <3>11. InHandOnce'
      BY <1>2, <3>1, <3>5, <3>7 DEF InHandOnce, Connected
    <3> QED
      BY <3>9, <3>10, <3>11
  <2>4. ~Notify(t)
    <3> SUFFICES ASSUME Notify(t)
                 PROVE  FALSE
      OBVIOUS
    <3>1. mtype' = [mtype EXCEPT ![t] = NOTICE] /\ mtype \in [Threads -> 1 .. NOTICE] /\ NOTICE' = NOTICE
      BY <1>0 DEF Notify, TypeOK, NOTICE
    <3>2. Veteran(t)'
      BY <3>1 DEF Veteran
    <3> QED
      BY <3>2 DEF Clean
  <2> QED
    BY <1>8, <2>1, <2>2, <2>3, <2>4 DEF ThreadStep
<1>9. ASSUME NEW c \in Clients, Connect(c) \/ ClientStep(c) \/ Die(c)
      PROVE  HeldOnce' /\ DealtOnce' /\ InHandOnce'
  <2>1. UNCHANGED <<mpc, sockClient, msgQueue, tpc, sock, round, talk, fd>>
    BY <1>0, <1>9, ClientMoves DEF serverVars
  <2> QED
    BY <1>2, <2>1 DEF HeldOnce, DealtOnce, InHandOnce, Holds, Connected, Behind
<1> QED
  BY <1>3, <1>4, <1>5, <1>6, <1>7, <1>8, <1>9 DEF Next

\* A send of the server: one answer more for whoever is behind the descriptor.
LEMMA AnswersGrow ==
  ASSUME TypeOK, NEW t \in Threads, ThreadStep(t)
  PROVE  \/ outbox' = outbox
         \/ \E c \in Clients : outbox' = [outbox EXCEPT ![c] = @ + 1]
<1>1. Behind(sock[t]) \cap Clients # {} => fd[sock[t]] \in Clients
  BY BehindFacts DEF Connected
<1> QED
  BY <1>1 DEF ThreadStep, TakeJob, Recv, RecvMessage, RecvEnd, Send, CloseFailed, CloseLast, Notify, netVars

\* A client that needs no answer will need none, and what is struck stays so.
LEMMA ServedStays ==
  ASSUME Inv, Next
  PROVE  /\ \A c \in Clients : Served(c) => Served(c)'
         /\ \A c \in Clients : done[c] + outbox[c] <= done'[c] + outbox'[c]
         /\ struck \subseteq struck'
<1>0. /\ TypeOK /\ done \in [Clients -> 0 .. ROUNDS] /\ outbox \in [Clients -> Nat]
      /\ cpc \in [Clients -> ClientPcs] /\ ROUNDS \in Nat
  BY RoundsAssumption DEF Inv, TypeOK
<1>1. /\ \A c \in Clients : done[c] + outbox[c] <= done'[c] + outbox'[c]
      /\ \A c \in Clients : Gone(c) => Gone(c)'
      /\ struck \subseteq struck'
  <2>1. CASE CallAccept \/ AcceptFails \/ Accept \/ Deal \/ TakeNotice
    BY <1>0, <2>1 DEF CallAccept, AcceptFails, Accept, Deal, TakeNotice, netVars, Gone
  <2>2. ASSUME NEW t \in Threads, ThreadStep(t)
        PROVE  <1>1!:
    BY <1>0, <2>2, ThreadMoves, ThreadDoes, AnswersGrow DEF Gone
  <2>3. ASSUME NEW c \in Clients, Connect(c) \/ ClientStep(c) \/ Die(c)
        PROVE  <1>1!:
    <3>1. struck' = struck
      BY <1>0, <2>3, ClientMoves
    <3>2. \E pc \in ClientPcs : cpc' = [cpc EXCEPT ![c] = pc] /\ (Gone(c) => pc \in {"failed", "gone"})
      BY <2>3 DEF Connect, ClientStep, SendMessage, RecvReply, RecvFails, Die, At, ClientPcs, Gone
    <3>3. \/ done' = done /\ outbox' = outbox
          \/ /\ outbox[c] > 0 /\ outbox' = [outbox EXCEPT ![c] = @ - 1]
             /\ done' = [done EXCEPT ![c] = @ + 1]
      BY <2>3 DEF Connect, ClientStep, SendMessage, RecvReply, RecvFails, Die
    <3> QED
      BY <1>0, <3>1, <3>2, <3>3 DEF Gone
  <2> QED
    BY <2>1, <2>2, <2>3 DEF Next
<1>2. done' \in [Clients -> 0 .. ROUNDS] /\ outbox' \in [Clients -> Nat]
  BY MainTypes, ThreadTypes, ClientTypes DEF Next, TypeOK
<1> QED
  BY <1>0, <1>1, <1>2 DEF Served

\* A close takes the connection of a client that needs answers only if it
\* strikes it.
LEMMA CloseStrikes ==
  ASSUME Inv, NEW t \in Threads, CloseFailed(t) \/ CloseLast(t), "listener" \notin struck',
         NEW c \in Clients, c \in Behind(sock[t]), c \notin struck'
  PROVE  Served(c)
<1>1. /\ c \in talk[t] /\ tpc[t] \in {"close", "last"} /\ c \notin struck /\ "listener" \notin struck
  BY CloseDoes
<1>2. talk[t] = {c}
  BY <1>1 DEF Inv, Counted
<1> QED
  BY <1>1, <1>2 DEF Inv, Counted, Working

LEMMA CountedKept ==
  ASSUME Inv, Next
  PROVE  Counted'
<1>0. /\ TypeOK /\ Open /\ Counted /\ tpc \in [Threads -> ThreadPcs]
      /\ talk \in [Threads -> SUBSET Clients] /\ round \in [Threads -> 0 .. ROUNDS]
      /\ sock \in [Threads -> Sockets \cup Threads] /\ ROUNDS \in Nat \ {0}
  BY RoundsAssumption DEF Inv, TypeOK
<1>1. /\ \A c \in Clients : Served(c) => Served(c)'
      /\ \A c \in Clients : done[c] + outbox[c] <= done'[c] + outbox'[c]
      /\ struck \subseteq struck'
  BY ServedStays
<1>2. /\ \A c \in Clients : done[c] + outbox[c] \in Nat /\ done'[c] + outbox'[c] \in Nat
  <2>1. TypeOK'
    BY MainTypes, ThreadTypes, ClientTypes DEF Next
  <2> QED
    BY <1>0, <2>1 DEF TypeOK
<1>3. CASE CallAccept \/ AcceptFails \/ Accept \/ Deal \/ TakeNotice
  <2>1. UNCHANGED <<tpc, sock, round, talk, struck>>
    BY <1>3 DEF CallAccept, AcceptFails, Accept, Deal, TakeNotice
  <2>2. "listener" \notin struck => \A r \in DOMAIN fd : r \in DOMAIN fd' /\ fd'[r] = fd[r]
    <3>1. "listener" \notin struck => ~AcceptFails
      BY <1>0 DEF AcceptFails, Behind, Open
    <3>2. CASE Accept
      <4>1. \E c \in Clients, s \in Sockets :
               s \notin DOMAIN fd /\ fd' = [r \in DOMAIN fd \cup {s} |-> IF r = s THEN c ELSE fd[r]]
        BY <1>0, <3>2, AcceptDoes DEF Inv
      <4> QED
        BY <4>1
    <3>3. CASE CallAccept \/ Deal \/ TakeNotice
      BY <3>3 DEF CallAccept, Deal, TakeNotice, netVars
    <3> QED
      BY <1>3, <3>1, <3>2, <3>3
  <2> QED
    BY <1>0, <1>1, <1>2, <2>1, <2>2 DEF Counted, Working
<1>4. ASSUME NEW t \in Threads, ThreadStep(t)
      PROVE  Counted'
  <2>1. /\ UNCHANGED <<cpc, done>>
        /\ \A u \in Threads \ {t} :
              tpc'[u] = tpc[u] /\ sock'[u] = sock[u] /\ round'[u] = round[u] /\ talk'[u] = talk[u]
    BY <1>0, <1>4, ThreadMoves
  <2>2. ASSUME NEW u \in Threads
        PROVE  talk'[u] = {} \/ \E c \in Clients : talk'[u] = {c}
    <3>1. Behind(sock[t]) \cap Clients # {} => \E c \in Clients : Behind(sock[t]) = {c}
      BY <1>0, BehindFacts DEF Connected
    <3> QED
      BY <1>0, <1>4, <3>1, ThreadDoes DEF Counted
  <2>3. ASSUME NEW u \in Threads \ {t}, NEW c \in Clients, "listener" \notin struck',
               Working(u)', talk'[u] = {c}, c \notin struck', ~Served(c)'
        PROVE  /\ tpc'[u] \notin {"close", "last"} /\ sock'[u] \in DOMAIN fd' /\ fd'[sock'[u]] = c
               /\ done'[c] + outbox'[c] >= round'[u]
    <3>1. /\ Working(u) /\ talk[u] = {c} /\ c \notin struck /\ ~Served(c) /\ "listener" \notin struck
      BY <1>1, <2>1, <2>3 DEF Working
    <3>2. /\ tpc[u] \notin {"close", "last"} /\ sock[u] \in DOMAIN fd /\ fd[sock[u]] = c
          /\ done[c] + outbox[c] >= round[u]
      BY <1>0, <3>1 DEF Counted
    <3>3. sock[u] \in DOMAIN fd' /\ fd'[sock[u]] = c
      <4>1. CASE fd' = fd
        BY <3>2, <4>1
      <4>2. CASE CloseFailed(t) \/ CloseLast(t)
        <5>1. c \notin Behind(sock[t])
          BY <2>3, <3>1, <4>2, CloseStrikes
        <5>2. sock[u] # sock[t]
          BY <3>2, <5>1 DEF Behind
        <5> QED
          BY <3>2, <4>2, <5>2, CloseDoes
      <4> QED
        BY <1>4, <4>1, <4>2, ThreadDoes
    <3>4. round[u] \in Int
      BY <1>0
    <3> QED
      BY <1>1, <1>2, <2>1, <3>2, <3>3, <3>4
  <2>4. ASSUME NEW c \in Clients, "listener" \notin struck',
               Working(t)', talk'[t] = {c}, c \notin struck', ~Served(c)'
        PROVE  /\ tpc'[t] \notin {"close", "last"} /\ sock'[t] \in DOMAIN fd' /\ fd'[sock'[t]] = c
               /\ done'[c] + outbox'[c] >= round'[t]
    <3>1. c \notin struck /\ ~Served(c) /\ "listener" \notin struck /\ round[t] \in Nat
      BY <1>0, <1>1, <2>4
    <3>2. Working(t) /\ talk[t] = {c} =>
            /\ tpc[t] \notin {"close", "last"} /\ sock[t] \in DOMAIN fd /\ fd[sock[t]] = c
            /\ done[c] + outbox[c] >= round[t]
            /\ Behind(sock[t]) = {c}
      BY <1>0, <3>1 DEF Counted, Behind
    <3>3. CASE TakeJob(t)
      BY <1>0, <2>4, <3>3 DEF TakeJob
    <3>4. CASE Recv(t)
      <4>1. /\ tpc[t] = "recv" /\ UNCHANGED <<sock, round, fd>>
            /\ struck' = struck \cup (IF round[t] > 0 THEN Behind(sock[t]) \ talk[t] ELSE {})
        BY <3>4 DEF Recv, netVars
      <4>2. CASE Behind(sock[t]) \cap Clients # {}
        <5>1. talk'[t] = Behind(sock[t]) /\ tpc'[t] = "wait"
          BY <1>0, <3>4, <4>2 DEF Recv, Goto
        <5>2. sock[t] \in DOMAIN fd /\ fd[sock[t]] = c
          BY <2>4, <5>1 DEF Behind
        <5>3. round[t] > 0 => talk[t] = {c}
          <6> SUFFICES ASSUME round[t] > 0
                       PROVE  talk[t] = {c}
            OBVIOUS
          <6>1. c \in talk[t]
            BY <2>4, <4>1, <5>1
          <6> QED
            BY <1>0, <6>1 DEF Counted
        <5>4. done[c] + outbox[c] >= round[t]
          BY <1>2, <3>1, <3>2, <4>1, <5>3 DEF Working
        <5> QED
          BY <1>1, <1>2, <3>1, <4>1, <5>1, <5>2, <5>4
      <4>3. CASE Behind(sock[t]) \cap Clients = {}
        <5>1. talk'[t] = talk[t]
          BY <3>4, <4>3 DEF Recv
        <5>2. Behind(sock[t]) = {c}
          BY <2>4, <3>2, <4>1, <5>1 DEF Working
        <5> QED
          BY <4>3, <5>2
      <4> QED
        BY <4>2, <4>3
    <3>5. CASE RecvMessage(t)
      <4>1. tpc[t] = "wait" /\ tpc'[t] = "send" /\ UNCHANGED <<sock, round, talk, fd, outbox, done>>
        BY <1>0, <2>1, <3>5 DEF RecvMessage, Goto
      <4> QED
        BY <2>4, <3>2, <4>1 DEF Working
    <3>6. CASE RecvEnd(t)
      <4>1. talk' = talk /\ \E d \in talk[t] : Gone(d)
        BY <3>6 DEF RecvEnd
      <4> QED
        BY <2>4, <3>1, <4>1 DEF Served
    <3>7. CASE Send(t)
      <4>1. tpc[t] = "send" /\ UNCHANGED <<sock, talk, fd>>
        BY <3>7 DEF Send
      <4>2. /\ sock[t] \in DOMAIN fd /\ fd[sock[t]] = c /\ Behind(sock[t]) = {c}
            /\ done[c] + outbox[c] >= round[t]
        BY <2>4, <3>2, <4>1 DEF Working
      <4>3. /\ outbox' = [outbox EXCEPT ![c] = @ + 1] /\ round' = [round EXCEPT ![t] = @ + 1]
            /\ tpc' = [tpc EXCEPT ![t] = IF round[t] + 1 = ROUNDS THEN "last" ELSE "recv"]
        BY <3>7, <4>2 DEF Send, Goto
      <4>4. outbox'[c] = outbox[c] + 1 /\ round'[t] = round[t] + 1
            /\ done[c] \in Nat /\ outbox[c] \in Nat /\ done'[c] = done[c]
        BY <1>0, <2>1, <4>3 DEF TypeOK
      <4>5. done'[c] + outbox'[c] >= round[t] + 1
        BY <3>1, <4>2, <4>4
      <4>6. tpc'[t] = "recv"
        <5> SUFFICES ASSUME round[t] + 1 = ROUNDS
                     PROVE  FALSE
          BY <1>0, <4>3
        <5> QED
          BY <2>4, <4>5 DEF Served
      <4> QED
        BY <4>1, <4>2, <4>4, <4>5, <4>6
    <3>8. CASE CloseFailed(t) \/ CloseLast(t)
      BY <2>4, <3>2, <3>8, CloseDoes DEF Working
    <3>9. CASE Notify(t)
      BY <1>0, <2>4, <3>9 DEF Notify, Goto, Working
    <3> QED
      BY <1>4, <3>3, <3>4, <3>5, <3>6, <3>7, <3>8, <3>9 DEF ThreadStep
  <2> QED
    BY <2>2, <2>3, <2>4 DEF Counted
<1>5. ASSUME NEW c \in Clients, Connect(c) \/ ClientStep(c) \/ Die(c)
      PROVE  Counted'
  <2>1. UNCHANGED <<tpc, sock, round, talk, fd, struck>>
    BY <1>0, <1>5, ClientMoves DEF serverVars
  <2> QED
    BY <1>0, <1>1, <1>2, <2>1 DEF Counted, Working
<1> QED
  BY <1>3, <1>4, <1>5 DEF Next

\* Only a strike takes its connection from a client that waits for an answer.
LEMMA ReachedKept ==
  ASSUME Inv, Next
  PROVE  Reached'
<1> SUFFICES ASSUME "listener" \notin struck'
             PROVE  /\ \A d \in Clients : cpc'[d] \in {"connected", "sent"} =>
                         \/ Contains(pending', d) \/ Served(d)' \/ d \in struck'
                         \/ \E s \in DOMAIN fd' : fd'[s] = d
                    /\ \A d \in Clients : cpc'[d] = "failed" => d \in struck'
  BY DEF Reached
<1>0. TypeOK /\ Ready /\ Open /\ Untouched /\ cpc \in [Clients -> ClientPcs] /\ pending \in Seq(Clients)
  BY DEF Inv, TypeOK
<1>1. /\ \A c \in Clients : Served(c) => Served(c)'
      /\ struck \subseteq struck' /\ "listener" \notin struck
  BY ServedStays
<1>2. /\ \A c \in Clients : cpc[c] \in {"connected", "sent"} =>
           Contains(pending, c) \/ Served(c) \/ c \in struck \/ \E s \in DOMAIN fd : fd[s] = c
      /\ \A c \in Clients : cpc[c] = "failed" => c \in struck
      /\ mpc # "exited" /\ "listener" \in Behind(sockMain)
  BY <1>0, <1>1 DEF Inv, Reached, Open, Behind
<1>3. CASE CallAccept \/ AcceptFails \/ Accept \/ Deal \/ TakeNotice
  <2>1. cpc' = cpc
    BY <1>3 DEF CallAccept, AcceptFails, Accept, Deal, TakeNotice, netVars
  <2>2. CASE Accept
    <3>1. PICK c \in Clients, s \in Sockets :
             /\ \A d : Contains(pending, d) => Contains(pending', d) \/ d = c
             /\ s \notin DOMAIN fd /\ fd' = [r \in DOMAIN fd \cup {s} |-> IF r = s THEN c ELSE fd[r]]
      BY <1>0, <1>2, <2>2, AcceptDoes
    <3>2. \A d : Contains(pending, d) => Contains(pending', d) \/ \E r \in DOMAIN fd' : fd'[r] = d
      BY <3>1
    <3>3. \A d : (\E r \in DOMAIN fd : fd[r] = d) => \E r \in DOMAIN fd' : fd'[r] = d
      BY <3>1
    <3> QED
      BY <1>1, <1>2, <2>1, <3>2, <3>3
  <2>3. CASE CallAccept \/ Deal \/ TakeNotice
    BY <1>1, <1>2, <2>1, <2>3 DEF CallAccept, Deal, TakeNotice, netVars
  <2>4. ~AcceptFails
    BY <1>2 DEF AcceptFails
  <2> QED
    BY <1>3, <2>2, <2>3, <2>4
<1>4. ASSUME NEW t \in Threads, ThreadStep(t)
      PROVE  /\ \A d \in Clients : cpc'[d] \in {"connected", "sent"} =>
                  \/ Contains(pending', d) \/ Served(d)' \/ d \in struck'
                  \/ \E s \in DOMAIN fd' : fd'[s] = d
             /\ \A d \in Clients : cpc'[d] = "failed" => d \in struck'
  <2>1. cpc' = cpc
    BY <1>0, <1>4, ThreadMoves
  <2>2. pending' = pending
    <3>1. CASE CloseFailed(t) \/ CloseLast(t)
      <4>1. /\ struck' = struck \cup (Behind(sock[t]) \ talk[t])
            /\ pending' = pending \/ "listener" \in Behind(sock[t])
        BY <3>1, CloseDoes
      <4>2. "listener" \notin talk[t]
        BY <1>0, ClientsAssumption DEF TypeOK
      <4> QED
        BY <4>1, <4>2
    <3> QED
      BY <1>4, <3>1, ThreadDoes
  <2>3. ASSUME NEW c \in Clients, c \notin struck', ~Served(c), NEW s \in DOMAIN fd, fd[s] = c
        PROVE  \E r \in DOMAIN fd' : fd'[r] = c
    <3>1. CASE fd' = fd
      BY <2>3, <3>1
    <3>2. CASE CloseFailed(t) \/ CloseLast(t)
      <4>1. c \notin Behind(sock[t])
        BY <2>3, <3>2, CloseStrikes
      <4>2. s # sock[t]
        BY <2>3, <4>1 DEF Behind
      <4> QED
        BY <2>3, <3>2, <4>2, CloseDoes
    <3> QED
      BY <1>4, <3>1, <3>2, ThreadDoes
  <2> QED
    BY <1>1, <1>2, <2>1, <2>2, <2>3
<1>5. ASSUME NEW c \in Clients, Connect(c) \/ ClientStep(c) \/ Die(c)
      PROVE  /\ \A d \in Clients : cpc'[d] \in {"connected", "sent"} =>
                  \/ Contains(pending', d) \/ Served(d)' \/ d \in struck'
                  \/ \E s \in DOMAIN fd' : fd'[s] = d
             /\ \A d \in Clients : cpc'[d] = "failed" => d \in struck'
  <2>1. /\ UNCHANGED <<fd, struck>>
        /\ IF cpc[c] = "off" THEN pending' = Append(pending, c) ELSE pending' = pending
        /\ \E pc \in ClientPcs \ {"off"} : cpc' = [cpc EXCEPT ![c] = pc]
    BY <1>0, <1>5, ClientMoves
  <2>2. /\ \A d : Contains(pending, d) => Contains(pending', d)
        /\ cpc[c] = "off" => Contains(pending', c)
    <3>1. \A d : Contains(Append(pending, c), d) <=> Contains(pending, d) \/ d = c
      BY <1>0, JoinProperties
    <3> QED
      BY <2>1, <3>1
  <2>3. ASSUME NEW d \in Clients, cpc'[d] \in {"connected", "sent"}
        PROVE  Contains(pending', d) \/ Served(d)' \/ d \in struck' \/ \E s \in DOMAIN fd' : fd'[s] = d
    <3>1. CASE d = c /\ cpc[c] = "off"
      BY <2>2, <3>1
    <3>2. CASE cpc[d] \in {"connected", "sent"}
      BY <1>1, <1>2, <2>1, <2>2, <3>2
    <3>3. CASE d = c /\ Gone(c)
      BY <1>5, <2>3, <3>3 DEF Connect, ClientStep, SendMessage, RecvReply, RecvFails, Die, At, Gone
    <3> QED
      BY <1>0, <2>1, <2>3, <3>1, <3>2, <3>3 DEF ClientPcs, Gone
  <2>4. ASSUME NEW d \in Clients, cpc'[d] = "failed"
        PROVE  d \in struck'
    <3>1. CASE cpc[d] = "failed"
      BY <1>1, <1>2, <3>1
    <3>2. CASE cpc[d] # "failed"
      <4>1. d = c /\ RecvFails(c)
        BY <1>0, <1>5, <2>1, <2>4, <3>2 DEF Connect, ClientStep, SendMessage, RecvReply, Die, At
      <4>2. /\ cpc[c] = "sent" /\ outbox[c] = 0 /\ ~Contains(pending, c) /\ \A s \in DOMAIN fd : fd[s] # c
        BY <4>1 DEF RecvFails, At, HungUp
      <4>3. done[c] \in Int /\ ROUNDS \in Int /\ done[c] < ROUNDS
        BY <1>0, <4>2, RoundsAssumption DEF Ready, TypeOK
      <4>4. ~Served(c)
        BY <4>2, <4>3 DEF Served, Gone
      <4> QED
        BY <1>1, <1>2, <4>1, <4>2, <4>4
    <3> QED
      BY <3>1, <3>2
  <2> QED
    BY <2>3, <2>4
<1> QED
  BY <1>3, <1>4, <1>5 DEF Next

(***************************************************************************)
(* The theorems.                                                           *)
(***************************************************************************)
LEMMA InitInv == Init => Inv
<1> SUFFICES ASSUME Init
             PROVE  Inv
  OBVIOUS
<1>1. /\ <<>> \in Seq(Clients) /\ <<>> \in Seq(Messages) /\ DOMAIN (<<>>) = {}
      /\ IsInjective(<<>>) /\ \A d : ~Contains(<<>>, d)
  BY EmptySeq DEF IsInjective, Contains
<1>2. /\ 0 \in 0 .. ROUNDS /\ 0 < ROUNDS
      /\ 0 .. sockMain \subseteq Sockets /\ 0 \in Sockets /\ sockMain \in 0 .. sockMain
  BY RoundsAssumption, SocketAssumption DEF Sockets
<1>3. /\ \A t \in Threads : mtype[t] = Mail(t) /\ Mail(t) # NOTICE /\ ~Veteran(t)
      /\ mtype \in [Threads -> 1 .. NOTICE]
  BY MessageFacts DEF Init, Veteran
<1>4. TypeOK
  BY <1>1, <1>2, <1>3 DEF Init, TypeOK, ThreadPcs, ClientPcs
<1>5. Ready /\ Open /\ Counted /\ Reached
  BY <1>2 DEF Init, Ready, Open, Counted, Reached
<1>6. FromVeterans /\ Untouched
  BY <1>1, ClientsAssumption DEF Init, FromVeterans, Untouched
<1>7. FirstClients
  BY <1>1 DEF Init, FirstClients, HeldOnce, DealtOnce, InHandOnce, Holds
<1>8. \A types : Number(types) = 0
  <2>1. \A types : Places(msgQueue, Typed(types)) = {}
    BY <1>1 DEF Init, Places
  <2> QED
    BY <2>1, FS_EmptySet DEF Number
<1>9. FreeIsIdle
  <2>1. FreeInNumbers
    BY <1>8 DEF Init, FreeInNumbers, Idle
  <2> QED
    BY <1>4, <2>1, InNumbers
<1>10. PlacesAddUp
  <2>1. FreeThreads = Threads /\ AtWork = {} /\ WithFirst = {}
    BY <1>3 DEF Init, FreeThreads, AtWork, WithFirst
  <2>2. Cardinality(Threads) = NTHREAD
    BY ThreadAssumption, FS_Interval DEF Threads
  <2>3. Cardinality({}) = 0
    BY FS_EmptySet
  <2>4. PlacesInNumbers
    BY <1>8, <2>1, <2>2, <2>3, ThreadAssumption DEF PlacesInNumbers
  <2> QED
    BY <1>4, <2>4, InNumbers
<1> QED
  BY <1>4, <1>5, <1>6, <1>7, <1>9, <1>10 DEF Inv

LEMMA NextInv == Inv /\ [Next]_vars => Inv'
<1> SUFFICES ASSUME Inv, [Next]_vars
             PROVE  Inv'
  OBVIOUS
<1>1. CASE Next
  BY <1>1, MainTypes, ThreadTypes, ClientTypes, PoolKept, UntouchedKept, FirstClientsKept, OpenKept,
     CountedKept, ReachedKept
  DEF Next, Inv
<1>2. CASE UNCHANGED vars
  <2>1. /\ UNCHANGED <<mpc, sockClient, freeThread, msgQueue, tpc, mtype, sock, round, talk>>
        /\ UNCHANGED <<fd, pending, cpc, done, inbox, outbox, struck>>
    BY <1>2 DEF vars, serverVars, netVars
  <2>2. TypeOK' /\ Ready'
    BY <2>1 DEF Inv, TypeOK, Ready, Mail
  <2>3. FromVeterans' /\ FreeIsIdle' /\ PlacesAddUp'
    BY <2>1, PoolUntouched DEF Inv, Idle
  <2>4. Untouched' /\ FirstClients'
    BY <2>1 DEF Inv, Untouched, Waits, FirstClients, Clean, HeldOnce, DealtOnce, InHandOnce, Holds,
                Connected, Behind, Veteran, NOTICE
  <2>5. Open' /\ Counted' /\ Reached'
    BY <2>1 DEF Inv, Open, Counted, Reached, Working, Served, Gone
  <2> QED
    BY <2>2, <2>3, <2>4, <2>5 DEF Inv
<1> QED
  BY <1>1, <1>2

\* Every variable keeps its type: a message is a socket for a mailbox or a
\* notice that names a thread, though threads take the one for the other.
THEOREM TypeCorrect == Spec => []TypeOK
<1>1. Inv => TypeOK
  BY DEF Inv
<1> QED
  BY InitInv, NextInv, <1>1, PTL DEF Spec

\* What main counts as free is free, and a thread with its first client has one
\* socket only; the places of the pool are free, in notices, with threads, or spent on
\* sockets in dead mailboxes, none is lost and none is made: for any number of threads.
THEOREM PoolAddsUpHolds == Spec => []PoolAddsUp
<1>1. Inv => PoolAddsUp
  BY DEF Inv, PoolAddsUp
<1> QED
  BY InitInv, NextInv, <1>1, PTL DEF Spec

\* Before the first strike and the first notice no two threads meet on a
\* connection; and a client fails only if it, or the listening socket, was
\* struck.
THEOREM OnlyTheStruckSufferHolds == Spec => []OnlyTheStruckSuffer
<1>1. Inv => OnlyTheStruckSuffer
  <2> SUFFICES ASSUME Inv
               PROVE  OnlyTheStruckSuffer
    OBVIOUS
  <2>1. ASSUME NEW t \in Threads, NEW u \in Threads, t # u,
               {tpc[t], tpc[u]} \subseteq {"wait", "send"}, talk[t] \cap talk[u] # {}, Clean
        PROVE  FALSE
    <3>1. HeldOnce /\ Untouched
      BY <2>1 DEF Inv, FirstClients
    <3>2. /\ Holds(t) /\ Connected(sock[t]) /\ talk[t] = {fd[sock[t]]}
          /\ Holds(u) /\ Connected(sock[u]) /\ talk[u] = {fd[sock[u]]}
      BY <2>1, <3>1 DEF HeldOnce, Holds
    <3>3. sock[t] = sock[u]
      BY <2>1, <3>1, <3>2 DEF Untouched, Connected
    <3> QED
      BY <2>1, <3>1, <3>2, <3>3 DEF HeldOnce
  <2>2. \A c \in Clients : cpc[c] = "failed" => c \in struck \/ "listener" \in struck
    BY DEF Inv, Reached
  <2> QED
    BY <2>1, <2>2 DEF OnlyTheStruckSuffer, Clean
<1> QED
  BY InitInv, NextInv, <1>1, PTL DEF Spec
===============================================================================
