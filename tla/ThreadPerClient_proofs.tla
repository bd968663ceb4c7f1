------------------------ MODULE ThreadPerClient_proofs ------------------------
(***************************************************************************)
(* Proofs about ThreadPerClient, for every number of clients, of rounds    *)
(* and every set of descriptors: its type invariant, that a thread stays   *)
(* with its client, and that no connection is without a thread to close it *)
(* unless its thread was late.                                             *)
(***************************************************************************)
EXTENDS ThreadPerClient, SequenceFacts

(***************************************************************************)
(* The inductive invariant.                                                *)
(***************************************************************************)
Working(t) == tpc[t] \in {"recv", "wait", "send", "close"}

\* c has no connection yet, or main has not accepted it.
Waits(c) == cpc[c] = "off" \/ Contains(pending, c)

\* The thread of c has descriptor s, or will read it.
Keeps(c, s) ==
  \/ mpc = "create" /\ latest = {c} /\ cell[Cell(c)] = s
  \/ tpc[c] = "start" /\ cell[Cell(c)] = s
  \/ Working(c) /\ sock[c] = s

\* c needs no answer any more: it is gone, or they are all on their way.
Served(c) == Gone(c) \/ done[c] + outbox[c] >= Turns

\* What the types leave open: a thread finds a descriptor in its cell, and main,
\* threads and clients that go on have turns left.
Ready ==
  /\ sock \in [Clients -> Sockets \cup {0}]
  /\ mpc = "create" => \E c \in Clients : latest = {c} /\ tpc[c] = "none" /\ cell[Cell(c)] # 0
  /\ \A t \in Clients : tpc[t] = "start" => cell[Cell(t)] # 0
  /\ \A t \in Clients : tpc[t] \notin {"close", "ended"} => round[t] < ROUNDS
  /\ \A t \in Clients : tpc[t] \in {"none", "start"} => round[t] = 0 /\ talk[t] = {}
  /\ \A c \in Clients : cpc[c] \in {"off", "connected", "sent"} => done[c] < Turns

\* A client that waits for accept has neither thread nor descriptor, and waits
\* at one place.
Untouched ==
  /\ \A c \in Clients : Waits(c) =>
       /\ tpc[c] = "none" /\ ~(mpc = "create" /\ latest = {c})
       /\ \A s \in DOMAIN fd : fd[s] # c
       /\ \A t \in Clients : c \notin talk[t]
  /\ \A c \in Clients : cpc[c] = "off" => ~Contains(pending, c)
  /\ IsInjective(pending)

\* The thread of a connection keeps its descriptor, unless it is late.
Kept == \A s \in DOMAIN fd : fd[s] \in late \/ Keeps(fd[s], s)

\* As long as no thread is late, what a thread keeps is its own connection, and
\* it has talked to nobody else.
Home ==
  late = {} =>
    /\ \A t \in Clients, s \in Sockets : Keeps(t, s) => s \in DOMAIN fd /\ fd[s] = t
    /\ \A t \in Clients :
         tpc[t] \in {"wait", "send", "close"} \/ (tpc[t] = "recv" /\ round[t] > 0) => talk[t] = {t}
    /\ struck = {}

\* A thread in the middle of its work on a client that was never struck and
\* needs more answers still has its connection, which has got an answer for
\* each of the thread's rounds.
Counted ==
  /\ \A t \in Clients : talk[t] = {} \/ \E c \in Clients : talk[t] = {c}
  /\ \A t, c \in Clients :
       Working(t) /\ talk[t] = {c} /\ c \notin struck /\ ~Served(c) =>
         /\ tpc[t] # "close" /\ sock[t] \in DOMAIN fd /\ fd[sock[t]] = c
         /\ simple => done[c] + outbox[c] >= round[t]

\* A client that waits for an answer waits for accept, has a connection, or was
\* struck.
Reached ==
  /\ \A c \in Clients : cpc[c] \in {"connected", "sent"} =>
       \/ Waits(c) \/ Served(c) \/ c \in struck
       \/ \E s \in DOMAIN fd : fd[s] = c
  /\ \A c \in Clients : cpc[c] = "failed" => c \in struck

Inv == TypeOK /\ Ready /\ Untouched /\ Kept /\ Home /\ Counted /\ Reached

LEMMA InitInv == Init => Inv
<1> SUFFICES ASSUME Init
             PROVE  Inv
  OBVIOUS
<1>1. <<>> \in Seq(Clients) /\ DOMAIN (<<>>) = {} /\ Len(<<>>) = 0
  BY EmptySeq
<1>2. 0 \in 0 .. ROUNDS /\ 0 < ROUNDS /\ 0 \in 0 .. Turns /\ 0 < Turns
  BY RoundsAssumption DEF Turns
<1>3. TypeOK
  BY <1>1, <1>2, SocketsAssumption DEF Init, TypeOK, ThreadPcs, ClientPcs
<1>4. Ready /\ Counted /\ Reached
  BY <1>2 DEF Init, Ready, Counted, Reached, Working
<1>5. Untouched /\ Kept /\ Home
  BY <1>1 DEF Init, Untouched, Kept, Home, Keeps, Working, Contains, IsInjective
<1> QED
  BY <1>3, <1>4, <1>5 DEF Inv

(***************************************************************************)
(* What main's steps do.                                                   *)
(***************************************************************************)
\* The client accepted is new to the server and leaves the queue for good; it
\* gets a free descriptor.
LEMMA AcceptDoes ==
  ASSUME Inv, Accept
  PROVE  \E c \in Clients, s \in Sockets :
           /\ Waits(c) /\ cpc[c] # "off"
           /\ \A d \in Clients : Contains(pending', d) <=> Contains(pending, d) /\ d # c
           /\ pending' \in Seq(Clients)
           /\ IsInjective(pending')
           /\ s \notin DOMAIN fd /\ fd' = [r \in DOMAIN fd \cup {s} |-> IF r = s THEN c ELSE fd[r]]
           /\ cell' = [cell EXCEPT ![Cell(c)] = s]
           /\ latest' = {c}
<1>1. pending \in Seq(Clients) /\ pending # <<>> /\ IsInjective(pending)
  BY DEF Inv, TypeOK, Untouched, Accept
<1> DEFINE c == Head(pending)
<1>2. /\ c \in Clients /\ Contains(pending, c) /\ Tail(pending) \in Seq(Clients)
      /\ \A d : Contains(Tail(pending), d) <=> Contains(pending, d) /\ d # c
      /\ IsInjective(Tail(pending))
  BY <1>1, LeaveProperties
<1> HIDE DEF c
<1>4. cpc[c] # "off"
  BY <1>2 DEF Inv, Untouched
<1>7. pending' = Tail(pending)
  BY DEF Accept
<1>8. PICK s \in Sockets \ DOMAIN fd :
        /\ fd' = [r \in DOMAIN fd \cup {s} |-> IF r = s THEN c ELSE fd[r]]
        /\ cell' = [cell EXCEPT ![Cell(c)] = s]
  BY DEF Accept, c
<1>9. latest' = {c}
  BY DEF Accept, c
<1> QED
  BY <1>2, <1>4, <1>7, <1>8, <1>9 DEF Waits

(***************************************************************************)
(* Types, and turns left.                                                  *)
(***************************************************************************)
LEMMA CellIsCell ==
  ASSUME NEW t \in Clients
  PROVE  Cell(t) \in Clients \cup {MAIN}
BY DEF Cell

\* main keeps the types.
LEMMA MainTypes ==
  ASSUME Inv, Accept \/ StartThread
  PROVE  TypeOK' /\ Ready'
<1>0. TypeOK /\ Ready /\ Untouched
  BY DEF Inv
<1>1. CASE Accept
  <2>1. PICK c \in Clients, s \in Sockets :
           /\ Waits(c)
           /\ pending' \in Seq(Clients)
           /\ s \notin DOMAIN fd /\ fd' = [r \in DOMAIN fd \cup {s} |-> IF r = s THEN c ELSE fd[r]]
           /\ cell' = [cell EXCEPT ![Cell(c)] = s]
           /\ latest' = {c}
    BY <1>1, AcceptDoes
  <2>2. s # 0 /\ tpc[c] = "none"
    BY <1>0, <2>1, SocketsAssumption DEF Untouched
  <2>3. /\ DOMAIN fd' \subseteq Sockets /\ \A r \in DOMAIN fd' : fd'[r] \in Clients
        /\ cell' \in [Clients \cup {MAIN} -> Sockets \cup {0}]
        /\ \A t \in Clients : cell'[Cell(t)] = s \/ cell'[Cell(t)] = cell[Cell(t)]
        /\ cell'[Cell(c)] = s
    BY <1>0, <2>1, CellIsCell DEF TypeOK
  <2>4. /\ UNCHANGED <<simple, tpc, sock, round, talk, cpc, done, inbox, outbox, struck>>
        /\ mpc' = "create" /\ late' \subseteq late \cup Clients
    BY <1>1 DEF Accept
  <2>5. TypeOK'
    BY <1>0, <2>1, <2>3, <2>4 DEF TypeOK, Turns
  <2>6. \A t \in Clients : Cell(t)' = Cell(t)
    BY <2>4 DEF Cell
  <2>7. Ready'
    BY <1>0, <2>1, <2>2, <2>3, <2>4, <2>6 DEF Ready, Turns
  <2> QED
    BY <2>5, <2>7
<1>2. CASE StartThread
  <2>1. mpc = "create" /\ \E t \in latest : tpc' = [tpc EXCEPT ![t] = "start"]
    BY <1>2 DEF StartThread, Goto
  <2>2. PICK c \in Clients : latest = {c} /\ tpc[c] = "none" /\ cell[Cell(c)] # 0
    BY <1>0, <2>1 DEF Ready
  <2>3. tpc' = [tpc EXCEPT ![c] = "start"]
    BY <2>1, <2>2
  <2>4. /\ UNCHANGED <<simple, latest, cell, sock, round, talk, fd, pending, cpc, done, inbox, outbox>>
        /\ UNCHANGED <<late, struck>> /\ mpc' = "accept"
    BY <1>2 DEF StartThread, netVars
  <2>5. TypeOK'
    BY <1>0, <2>2, <2>3, <2>4 DEF TypeOK, Turns, ThreadPcs
  <2>6. \A t \in Clients : Cell(t)' = Cell(t)
    BY <2>4 DEF Cell
  <2>7. tpc \in [Clients -> ThreadPcs]
    BY <1>0 DEF TypeOK
  <2>8. Ready'
    BY <1>0, <2>2, <2>3, <2>4, <2>6, <2>7 DEF Ready, Turns
  <2> QED
    BY <2>5, <2>8
<1> QED
  BY <1>1, <1>2

\* What a step of thread t leaves alone, and how it moves on.
LEMMA ThreadMoves ==
  ASSUME TypeOK, NEW t \in Clients, ThreadStep(t)
  PROVE  /\ UNCHANGED <<simple, mpc, latest, cell, pending, cpc, done, late>>
         /\ \A u \in Clients : Cell(u)' = Cell(u)
         /\ Turns' = Turns
         /\ tpc' \in [Clients -> ThreadPcs]
         /\ \A u \in Clients \ {t} : tpc'[u] = tpc[u]
         /\ tpc[t] # "none" /\ tpc'[t] \notin {"none", "start"}
<1>1. UNCHANGED <<simple, mpc, latest, cell, pending, cpc, done, late>>
  BY DEF ThreadStep, ReadSocket, Recv, RecvMessage, RecvEnd, Send, Close, netVars
<1>2. \E pc \in ThreadPcs \ {"none", "start"} : tpc[t] # "none" /\ tpc' = [tpc EXCEPT ![t] = pc]
  BY DEF ThreadStep, ReadSocket, Recv, RecvMessage, RecvEnd, Send, Close, Goto, ThreadPcs
<1>3. tpc \in [Clients -> ThreadPcs]
  BY DEF TypeOK
<1> QED
  BY <1>1, <1>2, <1>3 DEF Cell, Turns

\* A step of a thread keeps the types.
LEMMA ThreadTypes ==
  ASSUME Inv, NEW t \in Clients, ThreadStep(t)
  PROVE  TypeOK' /\ Ready'
<1>0. TypeOK /\ Ready
  BY DEF Inv
<1>1. /\ sock' \in [Clients -> Sockets \cup {0}]
      /\ \A u \in Clients : sock'[u] = 0 <=> tpc'[u] \in {"none", "start"}
  <2>1. sock \in [Clients -> Sockets \cup {0}] /\ \A u \in Clients : sock[u] = 0 <=> tpc[u] \in {"none", "start"}
    BY <1>0 DEF TypeOK, Ready
  <2>2. CASE ReadSocket(t)
    <3>1. sock' = [sock EXCEPT ![t] = cell[Cell(t)]] /\ tpc[t] = "start"
      BY <2>2 DEF ReadSocket
    <3>2. cell[Cell(t)] \in Sockets /\ cell[Cell(t)] # 0
      BY <1>0, <3>1, CellIsCell DEF TypeOK, Ready
    <3> QED
      BY <1>0, <2>1, <3>1, <3>2, ThreadMoves
  <2>3. CASE ~ReadSocket(t)
    <3>1. sock' = sock /\ tpc[t] # "start"
      BY <2>3 DEF ThreadStep, Recv, RecvMessage, RecvEnd, Send, Close
    <3> QED
      BY <1>0, <2>1, <3>1, ThreadMoves
  <2> QED
    BY <2>2, <2>3
<1>2. /\ round' \in [Clients -> 0 .. ROUNDS]
      /\ \A u \in Clients : tpc'[u] \notin {"close", "ended"} => round'[u] < ROUNDS
      /\ \A u \in Clients : tpc'[u] \in {"none", "start"} => round'[u] = 0
  <2>1. /\ round \in [Clients -> 0 .. ROUNDS]
        /\ \A u \in Clients : tpc[u] \notin {"close", "ended"} => round[u] < ROUNDS
        /\ \A u \in Clients : tpc[u] \in {"none", "start"} => round[u] = 0
    BY <1>0 DEF TypeOK, Ready
  <2>2. CASE Send(t)
    <3>1. /\ tpc[t] = "send"
          /\ round' = IF simple /\ Behind(sock[t]) # {} THEN [round EXCEPT ![t] = @ + 1] ELSE round
      BY <2>2 DEF Send
    <3>2. tpc' = [tpc EXCEPT ![t] = IF simple /\ (Behind(sock[t]) = {} \/ round[t] + 1 = ROUNDS)
                                      THEN "close" ELSE "recv"]
      BY <2>2 DEF Send, Goto
    <3>3. tpc \in [Clients -> ThreadPcs]
      BY <1>0 DEF TypeOK
    <3> QED
      BY <2>1, <3>1, <3>2, <3>3, RoundsAssumption
  <2>3. CASE ~Send(t)
    <3>1. round' = round /\ (tpc[t] \in {"close", "ended"} => tpc'[t] \in {"close", "ended"})
      BY <1>0, <2>3 DEF ThreadStep, ReadSocket, Recv, RecvMessage, RecvEnd, Close, Goto, TypeOK
    <3> QED
      BY <1>0, <2>1, <3>1, ThreadMoves
  <2> QED
    BY <2>2, <2>3
<1>3. /\ talk' \in [Clients -> SUBSET Clients] /\ struck' \subseteq Clients
      /\ \A u \in Clients : tpc'[u] \in {"none", "start"} => talk'[u] = {}
  <2>0. \A u \in Clients : tpc[u] \in {"none", "start"} => talk[u] = {}
    BY <1>0 DEF Ready
  <2>1. talk \in [Clients -> SUBSET Clients] /\ struck \subseteq Clients /\ Behind(sock[t]) \subseteq Clients
    BY <1>0 DEF TypeOK, Behind
  <2>2. /\ talk' = talk \/ talk' = [talk EXCEPT ![t] = Behind(sock[t])]
        /\ struck' \subseteq struck \cup Behind(sock[t])
    BY DEF ThreadStep, ReadSocket, Recv, RecvMessage, RecvEnd, Send, Close
  <2> QED
    BY <1>0, <2>0, <2>1, <2>2, ThreadMoves
<1>4. DOMAIN fd' \subseteq Sockets /\ \A s \in DOMAIN fd' : fd'[s] \in Clients
  <2>1. DOMAIN fd \subseteq Sockets /\ \A s \in DOMAIN fd : fd[s] \in Clients
    BY <1>0 DEF TypeOK
  <2>2. fd' = fd \/ fd' = [s \in DOMAIN fd \ {sock[t]} |-> fd[s]]
    BY DEF ThreadStep, ReadSocket, Recv, RecvMessage, RecvEnd, Send, Close, netVars
  <2> QED
    BY <2>1, <2>2
<1>5. inbox' \in [Clients -> Nat] /\ outbox' \in [Clients -> Nat]
  <2>1. inbox \in [Clients -> Nat] /\ outbox \in [Clients -> Nat] /\ talk[t] \subseteq Clients
    BY <1>0 DEF TypeOK
  <2>2. \/ inbox' = inbox
        \/ \E c \in talk[t] : inbox[c] > 0 /\ inbox' = [inbox EXCEPT ![c] = @ - 1]
    BY DEF ThreadStep, ReadSocket, Recv, RecvMessage, RecvEnd, Send, Close, netVars
  <2>3. \/ outbox' = outbox
        \/ outbox' = [c \in Clients |-> outbox[c] + (IF c \in Behind(sock[t]) THEN 1 ELSE 0)]
    BY DEF ThreadStep, ReadSocket, Recv, RecvMessage, RecvEnd, Send, Close, netVars
  <2> QED
    BY <2>1, <2>2, <2>3
<1>6. TypeOK'
  BY <1>0, <1>1, <1>2, <1>3, <1>4, <1>5, ThreadMoves DEF TypeOK
<1>7. Ready'
  BY <1>0, <1>1, <1>2, <1>3, ThreadMoves DEF Ready
<1> QED
  BY <1>6, <1>7

\* A step of a client keeps the types.
LEMMA ClientTypes ==
  ASSUME Inv, NEW c \in Clients, Connect(c) \/ ClientStep(c) \/ Die(c)
  PROVE  TypeOK' /\ Ready'
<1>0. TypeOK /\ Ready
  BY DEF Inv
<1>1. /\ UNCHANGED <<simple, mpc, latest, cell, tpc, sock, round, talk, fd, late, struck>>
      /\ Turns' = Turns /\ \A t \in Clients : Cell(t)' = Cell(t)
  BY DEF Connect, ClientStep, SendMessage, RecvReply, RecvFails, Die, serverVars, Cell, Turns
<1>2. pending' \in Seq(Clients)
  <2>1. pending \in Seq(Clients)
    BY <1>0 DEF TypeOK
  <2>2. pending' = pending \/ pending' = Append(pending, c)
    BY DEF Connect, ClientStep, SendMessage, RecvReply, RecvFails, Die
  <2> QED
    BY <2>1, <2>2, AppendProperties
<1>3. cpc' \in [Clients -> ClientPcs] /\ inbox' \in [Clients -> Nat] /\ outbox' \in [Clients -> Nat]
  <2>1. cpc \in [Clients -> ClientPcs] /\ inbox \in [Clients -> Nat] /\ outbox \in [Clients -> Nat]
    BY <1>0 DEF TypeOK
  <2>2. \E pc \in ClientPcs : cpc' = [cpc EXCEPT ![c] = pc]
    BY DEF Connect, ClientStep, SendMessage, RecvReply, RecvFails, Die, At, ClientPcs
  <2>3. inbox' = inbox \/ inbox' = [inbox EXCEPT ![c] = @ + 1]
    BY DEF Connect, ClientStep, SendMessage, RecvReply, RecvFails, Die
  <2>4. outbox' = outbox \/ (outbox[c] > 0 /\ outbox' = [outbox EXCEPT ![c] = @ - 1])
    BY DEF Connect, ClientStep, SendMessage, RecvReply, RecvFails, Die
  <2> QED
    BY <2>1, <2>2, <2>3, <2>4
<1>4. /\ done' \in [Clients -> 0 .. Turns]
      /\ \A d \in Clients : cpc'[d] \in {"off", "connected", "sent"} => done'[d] < Turns
  <2>1. /\ done \in [Clients -> 0 .. Turns] /\ cpc \in [Clients -> ClientPcs] /\ Turns \in Nat
        /\ \A d \in Clients : cpc[d] \in {"off", "connected", "sent"} => done[d] < Turns
    BY <1>0, RoundsAssumption DEF TypeOK, Ready, Turns
  <2>2. CASE RecvReply(c)
    BY <2>1, <2>2 DEF RecvReply, At
  <2>3. CASE ~RecvReply(c)
    BY <2>1, <2>3 DEF Connect, ClientStep, SendMessage, RecvFails, Die, At
  <2> QED
    BY <2>2, <2>3
<1>5. TypeOK'
  BY <1>0, <1>1, <1>2, <1>3, <1>4 DEF TypeOK
<1>6. Ready'
  BY <1>0, <1>1, <1>4 DEF Ready
<1> QED
  BY <1>5, <1>6

(***************************************************************************)
(* Who keeps which descriptor.                                             *)
(***************************************************************************)
\* What StartThread does.
LEMMA StartDoes ==
  ASSUME Inv, StartThread
  PROVE  \E c \in Clients :
           /\ mpc = "create" /\ latest = {c} /\ tpc[c] = "none" /\ ~Waits(c)
           /\ mpc' = "accept" /\ tpc' = [tpc EXCEPT ![c] = "start"]
           /\ tpc \in [Clients -> ThreadPcs]
           /\ UNCHANGED <<simple, latest, cell, sock, round, talk, netVars, late, struck>>
<1>1. mpc = "create" /\ \E t \in latest : tpc' = [tpc EXCEPT ![t] = "start"]
  BY DEF StartThread, Goto
<1>2. PICK c \in Clients : latest = {c} /\ tpc[c] = "none"
  BY <1>1 DEF Inv, Ready
<1>3. ~Waits(c) /\ tpc \in [Clients -> ThreadPcs]
  BY <1>1, <1>2 DEF Inv, TypeOK, Untouched
<1> QED
  BY <1>1, <1>2, <1>3 DEF StartThread

\* A step of a thread opens no descriptor, closes its own at most, and talks to
\* who is behind it.
LEMMA ThreadDoes ==
  ASSUME Inv, NEW t \in Clients, ThreadStep(t)
  PROVE  /\ fd' = fd \/ fd' = [s \in DOMAIN fd \ {sock[t]} |-> fd[s]]
         /\ talk' = talk \/ (Recv(t) /\ talk' = [talk EXCEPT ![t] = Behind(sock[t])])
         /\ fd' # fd => Close(t)
         /\ sock' # sock => ReadSocket(t)
         /\ \A u \in Clients \ {t} : sock'[u] = sock[u] /\ round'[u] = round[u] /\ talk'[u] = talk[u]
<1>1. /\ fd' = fd \/ (Close(t) /\ fd' = [s \in DOMAIN fd \ {sock[t]} |-> fd[s]])
      /\ talk' = talk \/ (Recv(t) /\ talk' = [talk EXCEPT ![t] = Behind(sock[t])])
  BY DEF ThreadStep, ReadSocket, Recv, RecvMessage, RecvEnd, Send, Close, netVars
<1>2. /\ sock' = sock \/ (ReadSocket(t) /\ sock' = [sock EXCEPT ![t] = cell[Cell(t)]])
      /\ round' = round \/ round' = [round EXCEPT ![t] = @ + 1]
  BY DEF ThreadStep, ReadSocket, Recv, RecvMessage, RecvEnd, Send, Close
<1>3. /\ sock \in [Clients -> Sockets \cup {0}] /\ round \in [Clients -> 0 .. ROUNDS]
      /\ talk \in [Clients -> SUBSET Clients]
  BY DEF Inv, TypeOK, Ready
<1> QED
  BY <1>1, <1>2, <1>3

\* What the steps of clients leave alone.
LEMMA ClientMoves ==
  ASSUME TypeOK, NEW c \in Clients, Connect(c) \/ ClientStep(c) \/ Die(c)
  PROVE  /\ UNCHANGED <<serverVars, fd, late, struck>>
         /\ Turns' = Turns /\ \A t \in Clients : Cell(t)' = Cell(t)
         /\ cpc \in [Clients -> ClientPcs] /\ \E pc \in ClientPcs \ {"off"} : cpc' = [cpc EXCEPT ![c] = pc]
         /\ IF cpc[c] = "off" THEN pending' = Append(pending, c) ELSE pending' = pending
BY DEF Connect, ClientStep, SendMessage, RecvReply, RecvFails, Die, At, serverVars, TypeOK, ClientPcs,
       Cell, Turns

\* Clients that wait for accept stay untouched.
LEMMA UntouchedKept ==
  ASSUME Inv, Next
  PROVE  Untouched'
<1>0. TypeOK /\ Untouched /\ tpc \in [Clients -> ThreadPcs] /\ pending \in Seq(Clients)
  BY DEF Inv, TypeOK
<1>1. CASE Accept
  <2>1. PICK c \in Clients, s \in Sockets :
           /\ Waits(c) /\ cpc[c] # "off"
           /\ \A d \in Clients : Contains(pending', d) <=> Contains(pending, d) /\ d # c
           /\ IsInjective(pending')
           /\ s \notin DOMAIN fd /\ fd' = [r \in DOMAIN fd \cup {s} |-> IF r = s THEN c ELSE fd[r]]
           /\ latest' = {c}
    BY <1>1, AcceptDoes
  <2>2. UNCHANGED <<tpc, talk, cpc>>
    BY <1>1 DEF Accept
  <2>3. ASSUME NEW d \in Clients, Waits(d)'
        PROVE  Waits(d) /\ d # c
    BY <2>1, <2>2, <2>3 DEF Waits
  <2> QED
    BY <1>0, <2>1, <2>2, <2>3 DEF Untouched
<1>2. CASE StartThread
  <2>1. PICK c \in Clients :
           /\ ~Waits(c) /\ mpc' = "accept" /\ tpc' = [tpc EXCEPT ![c] = "start"]
           /\ UNCHANGED <<latest, talk, fd, pending, cpc>>
    BY <1>2, StartDoes DEF netVars
  <2> QED
    BY <1>0, <2>1 DEF Untouched, Waits
<1>3. ASSUME NEW t \in Clients, ThreadStep(t)
      PROVE  Untouched'
  <2>1. UNCHANGED <<mpc, latest, pending, cpc>> /\ tpc[t] # "none"
        /\ \A u \in Clients \ {t} : tpc'[u] = tpc[u]
    BY <1>0, <1>3, ThreadMoves
  <2>2. /\ DOMAIN fd' \subseteq DOMAIN fd /\ \A s \in DOMAIN fd' : fd'[s] = fd[s]
        /\ talk \in [Clients -> SUBSET Clients] /\ (talk' = talk \/ talk' = [talk EXCEPT ![t] = Behind(sock[t])])
    <3>1. fd' = fd \/ fd' = [s \in DOMAIN fd \ {sock[t]} |-> fd[s]]
      BY <1>3, ThreadDoes
    <3>2. talk' = talk \/ talk' = [talk EXCEPT ![t] = Behind(sock[t])]
      BY <1>3, ThreadDoes
    <3>3. talk \in [Clients -> SUBSET Clients]
      BY <1>0 DEF TypeOK
    <3> QED
      BY <3>1, <3>2, <3>3
  <2>3. \A d \in Clients : Waits(d)' <=> Waits(d)
    BY <2>1 DEF Waits
  <2>4. \A d \in Clients : Waits(d) => d \notin Behind(sock[t])
    BY <1>0 DEF Untouched, Behind
  <2> QED
    BY <1>0, <2>1, <2>2, <2>3, <2>4 DEF Untouched
<1>4. ASSUME NEW c \in Clients, Connect(c) \/ ClientStep(c) \/ Die(c)
      PROVE  Untouched'
  <2>1. /\ UNCHANGED <<mpc, latest, tpc, talk, fd>>
        /\ cpc \in [Clients -> ClientPcs] /\ \E pc \in ClientPcs \ {"off"} : cpc' = [cpc EXCEPT ![c] = pc]
        /\ IF cpc[c] = "off" THEN pending' = Append(pending, c) ELSE pending' = pending
    BY <1>0, <1>4, ClientMoves DEF serverVars
  <2>2. CASE cpc[c] # "off"
    BY <1>0, <2>1, <2>2 DEF Untouched, Waits
  <2>3. CASE cpc[c] = "off"
    <3>2. ~Contains(pending, c)
      BY <1>0, <2>3 DEF Untouched
    <3>3. /\ \A d \in Clients : Contains(pending', d) <=> Contains(pending, d) \/ d = c
          /\ IsInjective(pending')
      <4>1. IsInjective(pending) /\ pending' = Append(pending, c)
        BY <1>0, <2>1, <2>3 DEF Untouched
      <4> QED
        BY <1>0, <3>2, <4>1, JoinProperties
    <3>5. \A d \in Clients : Waits(d)' <=> Waits(d)
      BY <2>1, <2>3, <3>3 DEF Waits
    <3>6. \A d \in Clients : cpc'[d] = "off" => cpc[d] = "off" /\ d # c
      BY <2>1
    <3> QED
      BY <1>0, <2>1, <3>3, <3>5, <3>6 DEF Untouched
  <2> QED
    BY <2>2, <2>3
<1> QED
  BY <1>1, <1>2, <1>3, <1>4 DEF Next

\* A descriptor loses its thread only when main overwrites the cell the thread
\* has not read, which makes it late.
LEMMA KeptKept ==
  ASSUME Inv, Next
  PROVE  Kept'
<1>0. TypeOK /\ Untouched /\ Kept /\ tpc \in [Clients -> ThreadPcs]
  BY DEF Inv, TypeOK
<1>1. CASE Accept
  <2>1. PICK c \in Clients, s \in Sockets :
           /\ Waits(c)
           /\ s \notin DOMAIN fd /\ fd' = [r \in DOMAIN fd \cup {s} |-> IF r = s THEN c ELSE fd[r]]
           /\ cell' = [cell EXCEPT ![Cell(c)] = s]
           /\ latest' = {c}
    BY <1>1, AcceptDoes
  <2>2. /\ UNCHANGED <<simple, tpc, sock>> /\ mpc = "accept" /\ mpc' = "create"
        /\ late' = late \cup {t \in Clients : simple /\ tpc[t] = "start"}
    BY <1>1 DEF Accept
  <2>3. cell'[Cell(c)] = s /\ \A t \in Clients : Cell(t)' = Cell(t)
    BY <1>0, <2>1, <2>2, CellIsCell DEF TypeOK, Cell
  <2>4. Keeps(c, s)'
    BY <2>1, <2>2, <2>3 DEF Keeps
  <2>5. ASSUME NEW r \in DOMAIN fd, NEW d \in Clients, d = fd[r], d \notin late'
        PROVE  Keeps(d, r)'
    <3>1. Keeps(d, r) /\ d # c
      BY <1>0, <2>1, <2>2, <2>5 DEF Kept, Untouched
    <3>2. CASE tpc[d] = "start"
      <4>1. Cell(d) # Cell(c)
        BY <2>2, <2>5, <3>1, <3>2 DEF Cell
      <4> QED
        BY <2>1, <2>2, <2>3, <3>1, <3>2, <4>1 DEF Keeps, Working
    <3>3. CASE tpc[d] # "start"
      BY <2>2, <3>1, <3>3 DEF Keeps, Working
    <3> QED
      BY <3>2, <3>3
  <2> QED
    BY <1>0, <2>1, <2>4, <2>5 DEF Kept, TypeOK
<1>2. CASE StartThread
  <2>1. PICK c \in Clients :
           /\ mpc = "create" /\ latest = {c} /\ tpc[c] = "none"
           /\ mpc' = "accept" /\ tpc' = [tpc EXCEPT ![c] = "start"]
           /\ UNCHANGED <<simple, latest, cell, sock, fd, late>>
    BY <1>2, StartDoes DEF netVars
  <2>2. \A d \in Clients, s \in DOMAIN fd : Keeps(d, s) => Keeps(d, s)'
    BY <1>0, <2>1 DEF Keeps, Working, Cell
  <2> QED
    BY <1>0, <2>1, <2>2 DEF Kept, TypeOK
<1>3. ASSUME NEW t \in Clients, ThreadStep(t)
      PROVE  Kept'
  <2>1. /\ UNCHANGED <<simple, mpc, latest, cell, late>>
        /\ \A u \in Clients \ {t} : tpc'[u] = tpc[u]
        /\ \A u \in Clients : Cell(u)' = Cell(u)
    BY <1>0, <1>3, ThreadMoves
  <2>2. /\ DOMAIN fd' \subseteq DOMAIN fd /\ \A s \in DOMAIN fd' : fd'[s] = fd[s]
        /\ \A u \in Clients \ {t} : sock'[u] = sock[u]
    BY <1>0, <1>3, ThreadDoes
  <2>3. ASSUME NEW s \in DOMAIN fd', Keeps(t, s)
        PROVE  Keeps(t, s)'
    <3>1. CASE ReadSocket(t)
      <4>1. tpc[t] = "start" /\ tpc' = [tpc EXCEPT ![t] = "recv"] /\ sock' = [sock EXCEPT ![t] = cell[Cell(t)]]
        BY <3>1 DEF ReadSocket, Goto
      <4>2. tpc'[t] = "recv" /\ sock'[t] = cell[Cell(t)]
        BY <1>0, <4>1 DEF Inv, Ready
      <4> QED
        BY <2>1, <2>3, <4>1, <4>2 DEF Keeps, Working
    <3>2. CASE Close(t)
      <4>1. tpc[t] = "close" /\ s # sock[t]
        BY <3>2 DEF Close
      <4> QED
        BY <2>1, <2>3, <4>1 DEF Keeps, Working, Cell
    <3>3. CASE ~ReadSocket(t) /\ ~Close(t)
      <4>1. Working(t) /\ Working(t)' /\ sock' = sock
        BY <1>0, <1>3, <3>3 DEF ThreadStep, Recv, RecvMessage, RecvEnd, Send, Working, Goto
      <4> QED
        BY <2>1, <2>3, <4>1 DEF Keeps, Working, Cell
    <3> QED
      BY <3>1, <3>2, <3>3
  <2>4. \A d \in Clients \ {t}, s \in DOMAIN fd : Keeps(d, s) => Keeps(d, s)'
    BY <2>1, <2>2 DEF Keeps, Working
  <2> QED
    BY <1>0, <2>1, <2>2, <2>3, <2>4 DEF Kept, TypeOK
<1>4. ASSUME NEW c \in Clients, Connect(c) \/ ClientStep(c) \/ Die(c)
      PROVE  Kept'
  <2>1. UNCHANGED <<serverVars, fd, late>> /\ \A t \in Clients : Cell(t)' = Cell(t)
    BY <1>0, <1>4, ClientMoves
  <2> QED
    BY <1>0, <2>1 DEF Kept, Keeps, Working, serverVars, TypeOK
<1> QED
  BY <1>1, <1>2, <1>3, <1>4 DEF Next

\* While no thread was late, threads stay with their connections: only the
\* thread of a client knows its descriptor, so nobody else closes it.
LEMMA HomeKept ==
  ASSUME Inv, Next
  PROVE  Home'
<1>0. TypeOK /\ Ready /\ Untouched /\ Home /\ tpc \in [Clients -> ThreadPcs]
  BY DEF Inv, TypeOK
<1>1. CASE Accept
  <2> SUFFICES ASSUME late' = {}
               PROVE  Home'
    BY DEF Home
  <2>1. PICK c \in Clients, s \in Sockets :
           /\ Waits(c)
           /\ s \notin DOMAIN fd /\ fd' = [r \in DOMAIN fd \cup {s} |-> IF r = s THEN c ELSE fd[r]]
           /\ cell' = [cell EXCEPT ![Cell(c)] = s]
           /\ latest' = {c}
    BY <1>1, AcceptDoes
  <2>2. /\ UNCHANGED <<simple, tpc, sock, round, talk, struck>> /\ mpc = "accept" /\ mpc' = "create"
        /\ late' = late \cup {t \in Clients : simple /\ tpc[t] = "start"}
    BY <1>1 DEF Accept
  <2>3. late = {} /\ \A t \in Clients : tpc[t] = "start" => ~simple /\ t # c
    BY <1>0, <2>1, <2>2 DEF Untouched
  <2>4. cell'[Cell(c)] = s /\ \A t \in Clients : Cell(t)' = Cell(t)
    BY <1>0, <2>1, <2>2, CellIsCell DEF TypeOK, Cell
  <2>5. \A t \in Clients : tpc[t] = "start" => cell'[Cell(t)] = cell[Cell(t)]
    BY <2>1, <2>3 DEF Cell
  <2>6. ASSUME NEW t \in Clients, NEW r \in Sockets, Keeps(t, r)'
        PROVE  r \in DOMAIN fd' /\ fd'[r] = t
    <3>1. CASE t = c /\ r = s
      BY <2>1, <3>1
    <3>2. CASE Keeps(t, r)
      BY <1>0, <2>1, <2>3, <3>2 DEF Home
    <3> QED
      BY <2>1, <2>2, <2>4, <2>5, <2>6, <3>1, <3>2 DEF Keeps, Working
  <2> QED
    BY <1>0, <2>2, <2>3, <2>6 DEF Home
<1>2. CASE StartThread
  <2>1. PICK c \in Clients :
           /\ mpc = "create" /\ latest = {c} /\ tpc[c] = "none"
           /\ mpc' = "accept" /\ tpc' = [tpc EXCEPT ![c] = "start"]
           /\ UNCHANGED <<simple, latest, cell, sock, round, talk, fd, late, struck>>
    BY <1>2, StartDoes DEF netVars
  <2>2. \A d \in Clients, s \in Sockets : Keeps(d, s)' => Keeps(d, s)
    BY <1>0, <2>1 DEF Keeps, Working, Cell
  <2> QED
    BY <1>0, <2>1, <2>2 DEF Home
<1>3. ASSUME NEW t \in Clients, ThreadStep(t)
      PROVE  Home'
  <2>1. UNCHANGED <<simple, mpc, latest, cell, late>> /\ \A u \in Clients \ {t} : tpc'[u] = tpc[u]
    BY <1>0, <1>3, ThreadMoves
  <2> SUFFICES ASSUME late = {}
               PROVE  Home'
    BY <2>1 DEF Home
  <2>2. \A u \in Clients \ {t} : sock'[u] = sock[u] /\ round'[u] = round[u] /\ talk'[u] = talk[u]
    BY <1>3, ThreadDoes
  <2>3. /\ Working(t) => sock[t] \in DOMAIN fd /\ Behind(sock[t]) = {t}
        /\ Working(t) => sock[t] \in Sockets
    <3>1. Working(t) => sock[t] \in Sockets /\ Keeps(t, sock[t])
      BY <1>0 DEF Working, Keeps, TypeOK, Ready
    <3> QED
      BY <1>0, <3>1 DEF Home, Behind
  <2>4. ASSUME NEW u \in Clients \ {t}, NEW s \in Sockets, Keeps(u, s)'
        PROVE  s \in DOMAIN fd' /\ fd'[s] = u
    <3>1. Keeps(u, s)
      BY <2>1, <2>2, <2>4 DEF Keeps, Working, Cell
    <3>2. s \in DOMAIN fd /\ fd[s] = u
      BY <1>0, <3>1 DEF Home
    <3>3. CASE fd' = fd
      BY <3>2, <3>3
    <3>4. CASE Close(t)
      <4>1. fd' = [r \in DOMAIN fd \ {sock[t]} |-> fd[r]] /\ Working(t)
        BY <3>4 DEF Close, Working
      <4>2. sock[t] # s
        BY <2>3, <3>2, <4>1 DEF Behind, Working
      <4> QED
        BY <3>2, <4>1, <4>2
    <3> QED
      BY <1>3, <3>3, <3>4, ThreadDoes
  <2>5. ASSUME NEW s \in Sockets, Keeps(t, s)'
        PROVE  s \in DOMAIN fd' /\ fd'[s] = t
    <3>1. CASE ReadSocket(t)
      <4>1. tpc[t] = "start" /\ tpc' = [tpc EXCEPT ![t] = "recv"] /\ sock' = [sock EXCEPT ![t] = cell[Cell(t)]]
            /\ fd' = fd
        BY <3>1 DEF ReadSocket, Goto, netVars
      <4>2. tpc'[t] = "recv" /\ sock'[t] = cell[Cell(t)]
        BY <1>0, <4>1 DEF Ready
      <4>3. Keeps(t, s)
        BY <2>1, <2>5, <4>1, <4>2 DEF Keeps, Working, Cell
      <4> QED
        BY <1>0, <4>1, <4>3 DEF Home
    <3>2. CASE Close(t)
      <4>1. tpc[t] = "close" /\ tpc'[t] = "ended" /\ Behind(sock[t]) = {t}
        BY <1>0, <2>3, <3>2 DEF Close, Goto, Working
      <4>2. mpc = "create" /\ latest = {t}
        BY <2>1, <2>5, <4>1 DEF Keeps, Working
      <4> QED
        BY <1>0, <4>1, <4>2 DEF Ready
    <3>3. CASE ~ReadSocket(t) /\ ~Close(t)
      <4>1. Working(t) /\ Working(t)' /\ sock' = sock /\ fd' = fd
        BY <1>0, <1>3, <3>3 DEF ThreadStep, Recv, RecvMessage, RecvEnd, Send, Working, Goto, netVars
      <4>2. Keeps(t, s)
        BY <2>1, <2>5, <4>1 DEF Keeps, Working, Cell
      <4> QED
        BY <1>0, <4>1, <4>2 DEF Home
    <3> QED
      BY <3>1, <3>2, <3>3
  <2>6. /\ tpc'[t] \in {"wait", "send", "close"} \/ (tpc'[t] = "recv" /\ round'[t] > 0) => talk'[t] = {t}
        /\ struck' = {}
    <3>0. /\ tpc[t] \in {"wait", "send", "close"} \/ (tpc[t] = "recv" /\ round[t] > 0) => talk[t] = {t}
          /\ struck = {} /\ talk \in [Clients -> SUBSET Clients] /\ round \in [Clients -> 0 .. ROUNDS]
      BY <1>0 DEF Home, TypeOK
    <3>1. CASE ReadSocket(t)
      <4>1. tpc'[t] = "recv" /\ UNCHANGED <<round, talk, struck>> /\ tpc[t] = "start"
        BY <1>0, <3>1 DEF ReadSocket, Goto
      <4> QED
        BY <1>0, <3>0, <4>1 DEF Ready
    <3>2. CASE Recv(t)
      <4>1. tpc[t] = "recv" /\ Behind(sock[t]) = {t}
        BY <2>3, <3>2 DEF Recv, Working
      <4> QED
        BY <1>0, <3>0, <3>2, <4>1 DEF Recv, Goto
    <3>3. CASE RecvMessage(t) \/ RecvEnd(t) \/ Send(t)
      BY <1>0, <3>0, <3>3 DEF RecvMessage, RecvEnd, Send, Goto
    <3>4. CASE Close(t)
      <4>1. tpc[t] = "close" /\ Behind(sock[t]) = {t}
        BY <2>3, <3>4 DEF Close, Working
      <4> QED
        BY <1>0, <3>0, <3>4, <4>1 DEF Close, Goto
    <3> QED
      BY <1>3, <3>1, <3>2, <3>3, <3>4 DEF ThreadStep
  <2> QED
    BY <1>0, <2>1, <2>2, <2>4, <2>5, <2>6 DEF Home
<1>4. ASSUME NEW c \in Clients, Connect(c) \/ ClientStep(c) \/ Die(c)
      PROVE  Home'
  <2>1. UNCHANGED <<serverVars, fd, late, struck>> /\ \A t \in Clients : Cell(t)' = Cell(t)
    BY <1>0, <1>4, ClientMoves
  <2> QED
    BY <1>0, <2>1 DEF Home, Keeps, Working, serverVars
<1> QED
  BY <1>1, <1>2, <1>3, <1>4 DEF Next

(***************************************************************************)
(* Who is answered.                                                        *)
(***************************************************************************)
\* A client that needs no answer any more never will, and who was struck stays
\* so.
LEMMA ServedStays ==
  ASSUME Inv, Next
  PROVE  /\ Turns' = Turns /\ struck \subseteq struck'
         /\ \A c \in Clients : Served(c) => Served(c)'
         /\ \A c \in Clients : done[c] + outbox[c] <= done'[c] + outbox'[c]
<1>0. /\ cpc \in [Clients -> ClientPcs] /\ done \in [Clients -> 0 .. Turns] /\ Turns \in Nat
      /\ outbox \in [Clients -> Nat]
  BY RoundsAssumption DEF Inv, TypeOK, Turns
<1>1. /\ Turns' = Turns /\ struck \subseteq struck'
      /\ \A c \in Clients : Gone(c) => Gone(c)'
      /\ \A c \in Clients : done[c] + outbox[c] <= done'[c] + outbox'[c]
  <2>1. CASE Accept \/ StartThread
    BY <1>0, <2>1 DEF Accept, StartThread, netVars, Turns, Gone
  <2>2. ASSUME NEW t \in Clients, ThreadStep(t)
        PROVE  <1>1!:
    <3>1. UNCHANGED <<simple, cpc, done>> /\ Turns' = Turns
      BY <2>2, ThreadMoves DEF Inv
    <3>2. struck \subseteq struck'
      BY <2>2 DEF ThreadStep, ReadSocket, Recv, RecvMessage, RecvEnd, Send, Close
    <3>3. \/ outbox' = outbox
          \/ outbox' = [c \in Clients |-> outbox[c] + (IF c \in Behind(sock[t]) THEN 1 ELSE 0)]
      BY <2>2 DEF ThreadStep, ReadSocket, Recv, RecvMessage, RecvEnd, Send, Close, netVars
    <3> QED
      BY <1>0, <3>1, <3>2, <3>3 DEF Gone
  <2>3. ASSUME NEW c \in Clients, Connect(c) \/ ClientStep(c) \/ Die(c)
        PROVE  <1>1!:
    <3>1. Turns' = Turns /\ struck' = struck
      BY <2>3, ClientMoves DEF Inv
    <3>2. \E pc \in ClientPcs : cpc' = [cpc EXCEPT ![c] = pc] /\ (Gone(c) => pc \in {"failed", "gone"})
      BY <2>3 DEF Connect, ClientStep, SendMessage, RecvReply, RecvFails, Die, At, ClientPcs, Gone
    <3>3. \/ done' = done /\ outbox' = outbox
          \/ /\ outbox[c] > 0 /\ outbox' = [outbox EXCEPT ![c] = @ - 1]
             /\ done' = [done EXCEPT ![c] = @ + 1]
      BY <2>3 DEF Connect, ClientStep, SendMessage, RecvReply, RecvFails, Die
    <3> QED
      BY <1>0, <3>1, <3>2, <3>3 DEF Gone
  <2> QED
    BY <2>1, <2>2, <2>3 DEF Next
<1>2. done' \in [Clients -> 0 .. Turns] /\ outbox' \in [Clients -> Nat]
  BY <1>1, MainTypes, ThreadTypes, ClientTypes DEF Next, TypeOK
<1> QED
  BY <1>0, <1>1, <1>2 DEF Served

\* A thread never closes the connection of a client it has talked to and that
\* needs more answers, unless it strikes it.
LEMMA CloseStrikes ==
  ASSUME Inv, NEW t \in Clients, Close(t), NEW c \in Clients, c \in Behind(sock[t]), c \notin struck'
  PROVE  Served(c)
<1>1. c \in talk[t] /\ c \notin struck /\ tpc[t] = "close"
  BY DEF Close
<1>2. talk[t] = {c}
  BY <1>1 DEF Inv, Counted
<1> QED
  BY <1>1, <1>2 DEF Inv, Counted, Working

LEMMA CountedKept ==
  ASSUME Inv, Next
  PROVE  Counted'
<1>0. /\ TypeOK /\ Ready /\ Counted /\ tpc \in [Clients -> ThreadPcs]
      /\ talk \in [Clients -> SUBSET Clients]
  BY DEF Inv, TypeOK
<1>1. CASE Accept
  <2>1. /\ UNCHANGED <<simple, tpc, sock, round, talk, cpc, done, outbox, struck>>
        /\ \E s \in Sockets \ DOMAIN fd :
             fd' = [r \in DOMAIN fd \cup {s} |-> IF r = s THEN Head(pending) ELSE fd[r]]
    BY <1>1 DEF Accept
  <2>2. \A r \in DOMAIN fd : r \in DOMAIN fd' /\ fd'[r] = fd[r]
    BY <2>1
  <2> QED
    BY <1>0, <2>1, <2>2 DEF Counted, Working, Served, Gone, Turns
<1>2. CASE StartThread
  <2>1. PICK c \in Clients :
           /\ tpc[c] = "none" /\ tpc' = [tpc EXCEPT ![c] = "start"]
           /\ UNCHANGED <<simple, sock, round, talk, fd, cpc, done, outbox, struck>>
    BY <1>2, StartDoes DEF netVars
  <2>2. \A t \in Clients : Working(t)' => Working(t) /\ tpc'[t] = tpc[t]
    BY <1>0, <2>1 DEF Working
  <2> QED
    BY <1>0, <2>1, <2>2 DEF Counted, Served, Gone, Turns
<1>3. ASSUME NEW t \in Clients, ThreadStep(t)
      PROVE  Counted'
  <2>1. UNCHANGED <<simple, cpc, done>> /\ \A u \in Clients \ {t} : tpc'[u] = tpc[u]
    BY <1>0, <1>3, ThreadMoves
  <2>2. \A u \in Clients \ {t} : sock'[u] = sock[u] /\ round'[u] = round[u] /\ talk'[u] = talk[u]
    BY <1>3, ThreadDoes
  <2>3. /\ \A c \in Clients : Served(c) => Served(c)'
        /\ \A c \in Clients : c \in struck => c \in struck'
        /\ \A c \in Clients : done[c] + outbox[c] <= done'[c] + outbox'[c]
    BY <1>3, ServedStays DEF Next
  <2>4. /\ done \in [Clients -> Nat] /\ outbox \in [Clients -> Nat] /\ round \in [Clients -> Nat]
        /\ done' = done /\ outbox' \in [Clients -> Nat]
    BY <1>0, <1>3, <2>1, ThreadTypes, RoundsAssumption DEF TypeOK, Turns
  <2>5. ASSUME NEW u \in Clients
        PROVE  talk'[u] = {} \/ \E c \in Clients : talk'[u] = {c}
    <3>1. Behind(sock[t]) = {} \/ \E c \in Clients : Behind(sock[t]) = {c}
      BY <1>0 DEF Behind, TypeOK
    <3>2. talk' = talk \/ talk' = [talk EXCEPT ![t] = Behind(sock[t])]
      BY <1>3, ThreadDoes
    <3> QED
      BY <1>0, <3>1, <3>2 DEF Counted
  <2>6. ASSUME NEW u \in Clients \ {t}, NEW c \in Clients,
               Working(u)', talk'[u] = {c}, c \notin struck', ~Served(c)'
        PROVE  /\ tpc'[u] # "close" /\ sock'[u] \in DOMAIN fd' /\ fd'[sock'[u]] = c
               /\ simple' => done'[c] + outbox'[c] >= round'[u]
    <3>1. Working(u) /\ talk[u] = {c} /\ c \notin struck /\ ~Served(c)
      BY <2>1, <2>2, <2>3, <2>6 DEF Working
    <3>2. /\ tpc[u] # "close" /\ sock[u] \in DOMAIN fd /\ fd[sock[u]] = c
          /\ simple => done[c] + outbox[c] >= round[u]
      BY <1>0, <3>1 DEF Counted
    <3>3. sock[u] \in DOMAIN fd' /\ fd'[sock[u]] = c
      <4>1. CASE fd' = fd
        BY <3>2, <4>1
      <4>2. CASE Close(t)
        <5>1. c \notin Behind(sock[t])
          BY <2>6, <3>1, <4>2, CloseStrikes
        <5>2. sock[u] # sock[t]
          BY <3>2, <5>1 DEF Behind
        <5> QED
          BY <3>2, <4>2, <5>2 DEF Close
      <4> QED
        BY <1>3, <4>1, <4>2, ThreadDoes
    <3> QED
      BY <2>1, <2>2, <2>3, <2>4, <3>2, <3>3
  <2>7. ASSUME NEW c \in Clients, Working(t)', talk'[t] = {c}, c \notin struck', ~Served(c)'
        PROVE  /\ tpc'[t] # "close" /\ sock'[t] \in DOMAIN fd' /\ fd'[sock'[t]] = c
               /\ simple' => done'[c] + outbox'[c] >= round'[t]
    <3>1. c \notin struck /\ ~Served(c)
      BY <2>3, <2>7
    <3>2. Working(t) /\ talk[t] = {c} =>
            /\ tpc[t] # "close" /\ sock[t] \in DOMAIN fd /\ fd[sock[t]] = c /\ Behind(sock[t]) = {c}
            /\ simple => done[c] + outbox[c] >= round[t]
      BY <1>0, <3>1 DEF Counted, Behind
    <3>3. CASE ReadSocket(t)
      BY <1>0, <2>7, <3>3 DEF ReadSocket, Ready
    <3>4. CASE Recv(t)
      <4>1. /\ tpc[t] = "recv" /\ UNCHANGED <<sock, round, fd, outbox>>
            /\ struck' = struck \cup (IF round[t] > 0 THEN Behind(sock[t]) \ talk[t] ELSE {})
        BY <3>4 DEF Recv, netVars
      <4>2. CASE Behind(sock[t]) # {}
        <5>1. talk'[t] = Behind(sock[t]) /\ tpc'[t] = "wait"
          BY <1>0, <3>4, <4>2 DEF Recv, Goto
        <5>2. sock[t] \in DOMAIN fd /\ fd[sock[t]] = c
          BY <2>7, <5>1 DEF Behind
        <5>3. round[t] > 0 => talk[t] = {c}
          BY <1>0, <2>7, <4>1, <5>1 DEF Counted
        <5> QED
          BY <2>1, <2>4, <3>2, <4>1, <5>1, <5>2, <5>3 DEF Working
      <4>3. CASE Behind(sock[t]) = {}
        BY <2>7, <3>2, <3>4, <4>1, <4>3 DEF Recv, Working
      <4> QED
        BY <4>2, <4>3
    <3>5. CASE RecvMessage(t)
      <4>1. tpc[t] = "wait" /\ tpc'[t] = "send" /\ UNCHANGED <<sock, round, talk, fd, outbox>>
        BY <1>0, <3>5 DEF RecvMessage, Goto
      <4> QED
        BY <2>1, <2>7, <3>2, <4>1 DEF Working
    <3>6. CASE RecvEnd(t)
      <4>1. talk' = talk /\ \E d \in talk[t] : Gone(d)
        BY <3>6 DEF RecvEnd
      <4> QED
        BY <2>7, <3>1, <4>1 DEF Served
    <3>7. CASE Send(t)
      <4>1. tpc[t] = "send" /\ UNCHANGED <<sock, talk, fd>>
        BY <3>7 DEF Send
      <4>2. /\ tpc[t] # "close" /\ sock[t] \in DOMAIN fd /\ fd[sock[t]] = c /\ Behind(sock[t]) = {c}
            /\ simple => done[c] + outbox[c] >= round[t]
        BY <2>7, <3>2, <4>1 DEF Working
      <4>3. /\ outbox' = [d \in Clients |-> outbox[d] + (IF d \in {c} THEN 1 ELSE 0)]
            /\ round' = IF simple THEN [round EXCEPT ![t] = @ + 1] ELSE round
            /\ tpc' = [tpc EXCEPT ![t] = IF simple /\ round[t] + 1 = ROUNDS THEN "close" ELSE "recv"]
        BY <3>7, <4>2 DEF Send, Goto
      <4>4. outbox'[c] = outbox[c] + 1
        BY <4>3
      <4>5. simple => round'[t] = round[t] + 1 /\ done'[c] + outbox'[c] >= round[t] + 1
        BY <2>4, <4>2, <4>3, <4>4
      <4>6. tpc'[t] # "close"
        <5> SUFFICES ASSUME simple, round[t] + 1 = ROUNDS
                     PROVE  FALSE
          BY <1>0, <4>3
        <5>1. done'[c] + outbox'[c] >= ROUNDS
          BY <4>5
        <5> QED
          BY <2>1, <2>7, <5>1 DEF Served, Turns
      <4> QED
        BY <2>1, <2>4, <4>1, <4>2, <4>5, <4>6
    <3>8. CASE Close(t)
      BY <1>0, <2>7, <3>8 DEF Close, Goto, Working
    <3> QED
      BY <1>3, <3>3, <3>4, <3>5, <3>6, <3>7, <3>8 DEF ThreadStep
  <2> QED
    BY <2>5, <2>6, <2>7 DEF Counted
<1>4. ASSUME NEW c \in Clients, Connect(c) \/ ClientStep(c) \/ Die(c)
      PROVE  Counted'
  <2>1. UNCHANGED <<simple, tpc, sock, round, talk, fd, struck>>
    BY <1>0, <1>4, ClientMoves DEF serverVars
  <2>2. /\ \A d \in Clients : Served(d) => Served(d)'
        /\ \A d \in Clients : done[d] + outbox[d] <= done'[d] + outbox'[d]
    BY <1>4, ServedStays DEF Next
  <2>3. /\ done \in [Clients -> Nat] /\ outbox \in [Clients -> Nat] /\ round \in [Clients -> Nat]
        /\ done' \in [Clients -> Nat] /\ outbox' \in [Clients -> Nat]
    BY <1>0, <1>4, ClientTypes, RoundsAssumption DEF TypeOK, Turns
  <2> QED
    BY <1>0, <2>1, <2>2, <2>3 DEF Counted, Working
<1> QED
  BY <1>1, <1>2, <1>3, <1>4 DEF Next

\* Only a strike takes its connection from a client that waits for an answer.
LEMMA ReachedKept ==
  ASSUME Inv, Next
  PROVE  Reached'
<1>0. TypeOK /\ Ready /\ Reached /\ cpc \in [Clients -> ClientPcs]
  BY DEF Inv, TypeOK
<1>1. \A c \in Clients : (Served(c) => Served(c)') /\ (c \in struck => c \in struck')
  BY ServedStays
<1>2. CASE Accept
  <2>1. PICK c \in Clients, s \in Sockets :
           /\ \A d \in Clients : Contains(pending', d) <=> Contains(pending, d) /\ d # c
           /\ s \notin DOMAIN fd /\ fd' = [r \in DOMAIN fd \cup {s} |-> IF r = s THEN c ELSE fd[r]]
    BY <1>2, AcceptDoes
  <2>2. UNCHANGED <<cpc, struck>>
    BY <1>2 DEF Accept
  <2>3. \E r \in DOMAIN fd' : fd'[r] = c
    BY <2>1
  <2>4. \A d \in Clients : (\E r \in DOMAIN fd : fd[r] = d) => \E r \in DOMAIN fd' : fd'[r] = d
    BY <2>1
  <2> QED
    BY <1>0, <1>1, <2>1, <2>2, <2>3, <2>4 DEF Reached, Waits
<1>3. CASE StartThread
  BY <1>0, <1>1, <1>3 DEF StartThread, netVars, Reached, Waits
<1>4. ASSUME NEW t \in Clients, ThreadStep(t)
      PROVE  Reached'
  <2>1. UNCHANGED <<cpc, pending>>
    BY <1>0, <1>4, ThreadMoves
  <2>2. ASSUME NEW c \in Clients, c \notin struck', ~Served(c), NEW s \in DOMAIN fd, fd[s] = c
        PROVE  \E r \in DOMAIN fd' : fd'[r] = c
    <3>1. CASE fd' = fd
      BY <2>2, <3>1
    <3>2. CASE Close(t)
      <4>1. c \notin Behind(sock[t])
        BY <2>2, <3>2, CloseStrikes
      <4>2. s # sock[t]
        BY <2>2, <4>1 DEF Behind
      <4> QED
        BY <2>2, <3>2, <4>2 DEF Close
    <3> QED
      BY <1>4, <3>1, <3>2, ThreadDoes
  <2> QED
    BY <1>0, <1>1, <2>1, <2>2 DEF Reached, Waits
<1>5. ASSUME NEW c \in Clients, Connect(c) \/ ClientStep(c) \/ Die(c)
      PROVE  Reached'
  <2>1. /\ UNCHANGED <<fd, struck>>
        /\ IF cpc[c] = "off" THEN pending' = Append(pending, c) ELSE pending' = pending
        /\ \E pc \in ClientPcs \ {"off"} : cpc' = [cpc EXCEPT ![c] = pc]
    BY <1>0, <1>5, ClientMoves
  <2>2. \A d \in Clients : Contains(pending, d) => Contains(pending', d)
    <3>1. pending \in Seq(Clients)
      BY <1>0 DEF TypeOK
    <3> QED
      BY <2>1, <3>1, AppendProperties, LenProperties DEF Contains
  <2>3. cpc[c] = "off" => Contains(pending', c)
    <3>1. pending \in Seq(Clients)
      BY <1>0 DEF TypeOK
    <3> QED
      BY <2>1, <3>1, AppendProperties, LenProperties DEF Contains
  <2>4. ASSUME NEW d \in Clients, cpc'[d] \in {"connected", "sent"}
        PROVE  Waits(d)' \/ Served(d)' \/ d \in struck' \/ \E s \in DOMAIN fd' : fd'[s] = d
    <3>1. CASE d = c /\ cpc[c] = "off"
      BY <2>3, <3>1 DEF Waits
    <3>2. CASE cpc[d] \in {"connected", "sent"}
      <4>1. Waits(d) => Waits(d)'
        BY <2>2, <3>2 DEF Waits
      <4> QED
        BY <1>0, <1>1, <2>1, <3>2, <4>1 DEF Reached
    <3>3. CASE d = c /\ Gone(c)
      BY <1>5, <2>4, <3>3 DEF Connect, ClientStep, SendMessage, RecvReply, RecvFails, Die, At, Gone
    <3> QED
      BY <1>0, <2>1, <2>4, <3>1, <3>2, <3>3 DEF ClientPcs, Gone
  <2>5. ASSUME NEW d \in Clients, cpc'[d] = "failed"
        PROVE  d \in struck'
    <3>1. CASE cpc[d] = "failed"
      BY <1>0, <2>1, <3>1 DEF Reached
    <3>2. CASE cpc[d] # "failed"
      <4>1. d = c /\ RecvFails(c)
        BY <1>0, <1>5, <2>1, <2>5, <3>2 DEF Connect, ClientStep, SendMessage, RecvReply, Die, At
      <4>2. /\ cpc[c] = "sent" /\ outbox[c] = 0 /\ ~Waits(c) /\ \A s \in DOMAIN fd : fd[s] # c
        BY <4>1 DEF RecvFails, At, HungUp, Waits
      <4>3. done[c] \in Int /\ Turns \in Int /\ done[c] < Turns
        BY <1>0, <4>2, RoundsAssumption DEF Ready, TypeOK, Turns
      <4>4. ~Served(c)
        BY <4>2, <4>3 DEF Served, Gone
      <4> QED
        BY <1>0, <2>1, <4>1, <4>2, <4>4 DEF Reached
    <3> QED
      BY <3>1, <3>2
  <2> QED
    BY <2>4, <2>5 DEF Reached
<1> QED
  BY <1>2, <1>3, <1>4, <1>5 DEF Next

(***************************************************************************)
(* The theorems.                                                           *)
(***************************************************************************)
LEMMA NextInv == Inv /\ [Next]_vars => Inv'
<1> SUFFICES ASSUME Inv, [Next]_vars
             PROVE  Inv'
  OBVIOUS
<1>1. CASE Next
  BY <1>1, MainTypes, ThreadTypes, ClientTypes, UntouchedKept, KeptKept, HomeKept, CountedKept,
     ReachedKept
  DEF Next, Inv
<1>2. CASE UNCHANGED vars
  <2>1. UNCHANGED <<simple, mpc, latest, cell, tpc, sock, round, talk>>
        /\ UNCHANGED <<fd, pending, cpc, done, inbox, outbox, late, struck>>
    BY <1>2 DEF vars, serverVars, netVars
  <2>2. TypeOK' /\ Ready'
    BY <2>1 DEF Inv, TypeOK, Ready, Turns, Cell
  <2>3. Untouched' /\ Kept' /\ Home'
    BY <2>1 DEF Inv, Untouched, Kept, Home, Waits, Keeps, Working, Cell
  <2>4. Counted' /\ Reached'
    BY <2>1 DEF Inv, Counted, Reached, Working, Served, Waits, Gone, Turns
  <2> QED
    BY <2>2, <2>3, <2>4 DEF Inv
<1> QED
  BY <1>1, <1>2

\* Every variable keeps its type, whichever of the two servers runs: a thread
\* has a descriptor from the moment it has read its cell.
THEOREM TypeCorrect == Spec => []TypeOK
<1>1. Inv => TypeOK
  BY DEF Inv
<1> QED
  BY InitInv, NextInv, <1>1, PTL DEF Spec

\* A thread talks to its own client unless main has overwritten its variable
\* under some thread, and a client fails only if its connection was struck:
\* for any number of clients and rounds, and however the kernel reuses numbers.
THEOREM StaysHomeHolds == Spec => []StaysHome
<1>1. Inv => StaysHome
  BY DEF Inv, Home, Reached, StaysHome
<1> QED
  BY InitInv, NextInv, <1>1, PTL DEF Spec

\* Every open connection has a thread that will close it, unless its own thread
\* was late.
THEOREM NoOrphanHolds == Spec => []NoOrphan
<1>1. Inv => NoOrphan
  <2> SUFFICES ASSUME Inv, NEW s \in DOMAIN fd, fd[s] \notin late
               PROVE  Keepers(s) # {}
    BY DEF NoOrphan
  <2>1. Keeps(fd[s], s) /\ fd[s] \in Clients
    BY DEF Inv, Kept, TypeOK
  <2>2. fd[s] \in Keepers(s)
    BY <2>1 DEF Keepers, Keeps, Working
  <2> QED
    BY <2>2
<1> QED
  BY InitInv, NextInv, <1>1, PTL DEF Spec
===============================================================================
