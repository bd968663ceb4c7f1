-------------------------- MODULE ListServer_proofs --------------------------
(***************************************************************************)
(* Proofs about ListServer, for every number of clients, threads, slots    *)
(* and rounds: its type invariant, that the ring is a first-in first-out   *)
(* queue up to its overflow, that no wake-up is lost, and who can suffer   *)
(* from a descriptor being closed.                                         *)
(***************************************************************************)
EXTENDS ListServer, SequenceFacts

(***************************************************************************)
(* The ring.                                                               *)
(***************************************************************************)
Slots == 0 .. QUEUE_SIZE - 1

\* How many slots from b on are before e, the slot after e, and the k-th slot
\* from b on.
Used(b, e) == IF b <= e THEN e - b ELSE e - b + QUEUE_SIZE
After(e) == IF e + 1 = QUEUE_SIZE THEN 0 ELSE e + 1
Slot(b, k) == IF b + k - 1 < QUEUE_SIZE THEN b + k - 1 ELSE b + k - 1 - QUEUE_SIZE

\* Arithmetic modulo QUEUE_SIZE, next to the range of the slots.
LEMMA ModFacts ==
  ASSUME NEW x \in Int
  PROVE  /\ 0 <= x /\ x < QUEUE_SIZE => x % QUEUE_SIZE = x
         /\ QUEUE_SIZE <= x /\ x < 2 * QUEUE_SIZE => x % QUEUE_SIZE = x - QUEUE_SIZE
         /\ -QUEUE_SIZE <= x /\ x < 0 => x % QUEUE_SIZE = x + QUEUE_SIZE
BY QueueAssumption

\* How many slots are in use.
LEMMA UsedMod ==
  ASSUME NEW b \in Slots, NEW e \in Slots
  PROVE  (e - b) % QUEUE_SIZE = Used(b, e) /\ Used(b, e) \in Slots
<1> DEFINE x == e - b
<1>1. x \in Int /\ IF b <= e THEN 0 <= x /\ x < QUEUE_SIZE ELSE -QUEUE_SIZE <= x /\ x < 0
  BY QueueAssumption DEF Slots
<1> HIDE DEF x
<1>2. x % QUEUE_SIZE = IF b <= e THEN x ELSE x + QUEUE_SIZE
  BY <1>1, ModFacts
<1> QED
  BY <1>1, <1>2, QueueAssumption DEF x, Used, Slots

\* An index moves on to the next slot, round the end of the array.
LEMMA AfterMod ==
  ASSUME NEW e \in Slots
  PROVE  (e + 1) % QUEUE_SIZE = After(e) /\ After(e) \in Slots
<1> DEFINE x == e + 1
<1>1. x \in Int /\ 0 <= x /\ x < 2 * QUEUE_SIZE /\ (x < QUEUE_SIZE \/ x = QUEUE_SIZE)
  BY QueueAssumption DEF Slots
<1> HIDE DEF x
<1>2. CASE x < QUEUE_SIZE
  <2>1. x % QUEUE_SIZE = x
    BY <1>1, <1>2, ModFacts
  <2> QED
    BY <1>1, <1>2, <2>1, QueueAssumption DEF x, After, Slots
<1>3. CASE x = QUEUE_SIZE
  <2>1. x % QUEUE_SIZE = x - QUEUE_SIZE
    BY <1>1, <1>3, ModFacts, QueueAssumption
  <2> QED
    BY <1>1, <1>3, <2>1, QueueAssumption DEF x, After, Slots
<1> QED
  BY <1>1, <1>2, <1>3

\* The k-th slot from b on is a slot.
LEMMA SlotMod ==
  ASSUME NEW b \in Slots, NEW k \in 1 .. QUEUE_SIZE
  PROVE  (b + k - 1) % QUEUE_SIZE = Slot(b, k) /\ Slot(b, k) \in Slots
<1> DEFINE x == b + k - 1
<1>1. x \in Int /\ 0 <= x /\ x < 2 * QUEUE_SIZE
  BY QueueAssumption DEF Slots
<1> HIDE DEF x
<1>2. x % QUEUE_SIZE = IF x < QUEUE_SIZE THEN x ELSE x - QUEUE_SIZE
  BY <1>1, ModFacts, QueueAssumption
<1> QED
  BY <1>1, <1>2, QueueAssumption DEF x, Slot, Slots

\* The ring as it is in one state: q holds the slots, b is the oldest one in use
\* and e the next free one.
InRing(q, b, e) ==
  [k \in 1 .. (e - b) % QUEUE_SIZE |-> q[(b + k - 1) % QUEUE_SIZE]]

\* The sockets in the ring form a sequence.
LEMMA RingIsSeq ==
  ASSUME NEW S, NEW q \in [Slots -> S], NEW b \in Slots, NEW e \in Slots
  PROVE  /\ InRing(q, b, e) \in Seq(S)
         /\ Len(InRing(q, b, e)) = Used(b, e)
         /\ \A k \in 1 .. Used(b, e) : InRing(q, b, e)[k] = q[Slot(b, k)]
<1> DEFINE l == Used(b, e)
           w == InRing(q, b, e)
<1>1. (e - b) % QUEUE_SIZE = l /\ l \in Slots
  BY UsedMod
<1>2. l \in Nat /\ \A k \in 1 .. l : k \in 1 .. QUEUE_SIZE
  BY <1>1, QueueAssumption DEF Slots
<1>3. \A k \in 1 .. l : (b + k - 1) % QUEUE_SIZE = Slot(b, k) /\ Slot(b, k) \in Slots
  BY <1>2, SlotMod
<1> HIDE DEF l
<1>4. w = [k \in 1 .. l |-> q[Slot(b, k)]]
  BY <1>1, <1>3 DEF InRing
<1>5. w \in [1 .. l -> S]
  BY <1>3, <1>4
<1>6. w \in Seq(S)
  BY <1>2, <1>5, SeqDef
<1>7. Len(w) = l
  BY <1>2, <1>5, <1>6, LenProperties
<1>8. \A k \in 1 .. l : w[k] = q[Slot(b, k)]
  BY <1>4
<1> HIDE DEF w
<1> QED
  BY <1>6, <1>7, <1>8 DEF l, w

\* Writing a socket at e and moving e on appends it, unless that makes the two
\* indices meet: then nothing is left.
LEMMA RingPut ==
  ASSUME NEW S, NEW q \in [Slots -> S], NEW b \in Slots, NEW e \in Slots, NEW s \in S
  PROVE  LET w == InRing(q, b, e)
             x == InRing([q EXCEPT ![e] = s], b, (e + 1) % QUEUE_SIZE)
         IN  x = IF Len(w) + 1 < QUEUE_SIZE THEN Append(w, s) ELSE <<>>
<1> DEFINE w == InRing(q, b, e)
           l == Used(b, e)
           p == [q EXCEPT ![e] = s]
           f == After(e)
           x == InRing(p, b, f)
<1>1. f \in Slots /\ (e + 1) % QUEUE_SIZE = f
  BY AfterMod
<1>2. /\ p \in [Slots -> S] /\ p[e] = s
      /\ \A i \in Slots : i # e => p[i] = q[i]
  OBVIOUS
<1> HIDE DEF p
<1>3. w \in Seq(S) /\ Len(w) = l /\ \A k \in 1 .. l : w[k] = q[Slot(b, k)]
  BY RingIsSeq
<1>4. x \in Seq(S) /\ Len(x) = Used(b, f) /\ \A k \in 1 .. Used(b, f) : x[k] = p[Slot(b, k)]
  BY <1>1, <1>2, RingIsSeq, ZenonT(60)
<1>5. l \in 0 .. QUEUE_SIZE - 1
  BY UsedMod DEF Slots
<1>6. Used(b, f) = IF l + 1 < QUEUE_SIZE THEN l + 1 ELSE 0
  BY QueueAssumption DEF Used, After, Slots
<1>7. Slot(b, l + 1) = e /\ \A k \in 1 .. l : Slot(b, k) # e /\ Slot(b, k) \in Slots
  BY QueueAssumption DEF Used, Slot, Slots
<1> HIDE DEF f, w, x, l
<1>8. CASE l + 1 < QUEUE_SIZE
  <2>1. /\ Append(w, s) \in Seq(S) /\ Len(Append(w, s)) = l + 1
        /\ \A k \in 1 .. l : Append(w, s)[k] = w[k]
        /\ Append(w, s)[l + 1] = s
    BY <1>3, AppendProperties
  <2>2. ASSUME NEW k \in 1 .. l + 1
        PROVE  x[k] = Append(w, s)[k]
    <3>1. x[k] = p[Slot(b, k)]
      BY <1>4, <1>6, <1>8
    <3>2. CASE k = l + 1
      BY <3>1, <3>2, <2>1, <1>2, <1>7
    <3>3. CASE k \in 1 .. l
      <4>1. Slot(b, k) \in Slots /\ Slot(b, k) # e
        BY <3>3, <1>7
      <4>2. x[k] = q[Slot(b, k)]
        BY <4>1, <3>1, <1>2
      <4> QED
        BY <4>2, <3>3, <2>1, <1>3
    <3>4. k = l + 1 \/ k \in 1 .. l
      BY <1>5, QueueAssumption
    <3> QED
      BY <3>2, <3>3, <3>4
  <2>3. Len(x) = l + 1
    BY <1>4, <1>6, <1>8
  <2>4. x = Append(w, s)
    BY <2>1, <2>2, <2>3, <1>4, SeqEqual
  <2> QED
    BY <2>4, <1>1, <1>3, <1>8 DEF f, p, w, x
<1>9. CASE ~(l + 1 < QUEUE_SIZE)
  <2>1. x = <<>>
    BY <1>4, <1>6, <1>9, EmptySeq
  <2> QED
    BY <2>1, <1>1, <1>3, <1>9 DEF f, p, w, x
<1> QED
  BY <1>8, <1>9

\* Moving b on takes the oldest socket away.
LEMMA RingTake ==
  ASSUME NEW S, NEW q \in [Slots -> S], NEW b \in Slots, NEW e \in Slots, b # e
  PROVE  LET w == InRing(q, b, e)
         IN  /\ w # <<>> /\ Len(w) \in Nat
             /\ InRing(q, (b + 1) % QUEUE_SIZE, e) = Tail(w)
             /\ Len(InRing(q, (b + 1) % QUEUE_SIZE, e)) = Len(w) - 1
<1> DEFINE w == InRing(q, b, e)
           l == Used(b, e)
           c == After(b)
           x == InRing(q, c, e)
<1>1. c \in Slots /\ (b + 1) % QUEUE_SIZE = c
  BY AfterMod
<1>2. w \in Seq(S) /\ Len(w) = l /\ \A k \in 1 .. l : w[k] = q[Slot(b, k)]
  BY RingIsSeq
<1>3. x \in Seq(S) /\ Len(x) = Used(c, e) /\ \A k \in 1 .. Used(c, e) : x[k] = q[Slot(c, k)]
  BY <1>1, RingIsSeq, ZenonT(60)
<1>4. l \in Nat \ {0} /\ Used(c, e) = l - 1
  BY QueueAssumption DEF Used, After, Slots
<1>5. \A k \in 1 .. l - 1 : Slot(c, k) = Slot(b, k + 1)
  BY QueueAssumption DEF Used, After, Slot, Slots
<1> HIDE DEF c, w, x, l
<1>6. w # <<>>
  BY <1>2, <1>4, EmptySeq
<1>7. /\ Tail(w) \in Seq(S) /\ Len(Tail(w)) = l - 1
      /\ \A k \in 1 .. l - 1 : Tail(w)[k] = w[k + 1]
  BY <1>2, <1>6, HeadTailProperties
<1>8. ASSUME NEW k \in 1 .. l - 1
      PROVE  x[k] = Tail(w)[k]
  <2>1. k + 1 \in 1 .. l
    BY <1>4
  <2> QED
    BY <2>1, <1>2, <1>3, <1>4, <1>5, <1>7
<1>9. x = Tail(w)
  BY <1>3, <1>4, <1>7, <1>8, SeqEqual
<1> QED
  BY <1>1, <1>2, <1>3, <1>4, <1>6, <1>9 DEF c, w, x

(***************************************************************************)
(* The type invariant.                                                     *)
(***************************************************************************)
\* A thread that still talks has rounds left: without it round could pass ROUNDS.
RoundsLeft == \A t \in Threads : tpc[t] \in {"recv", "wait", "send"} => round[t] < ROUNDS

Inv == TypeOK /\ RoundsLeft

LEMMA InitInv == Init => Inv
<1> SUFFICES ASSUME Init
             PROVE  Inv
  OBVIOUS
<1>1. <<>> \in Seq(Clients) /\ DOMAIN (<<>>) = {}
  BY EmptySeq
<1>2. 0 \in 0 .. QUEUE_SIZE - 1 /\ 0 \in 0 .. ROUNDS
  BY QueueAssumption, RoundsAssumption
<1> QED
  BY <1>1, <1>2 DEF Init, Inv, TypeOK, RoundsLeft, ThreadPcs, ClientPcs

\* main keeps the types.
LEMMA MainTypes ==
  ASSUME Inv, Accept \/ QueueSocket
  PROVE  Inv'
<1> USE DEF Inv, TypeOK, RoundsLeft
<1>1. CASE Accept
  <2>1. pending \in Seq(Clients) /\ pending # <<>>
    BY <1>1 DEF Accept
  <2>2. Head(pending) \in Clients /\ Tail(pending) \in Seq(Clients)
    BY <2>1, HeadTailProperties
  <2> QED
    BY <1>1, <2>2 DEF Accept
<1>2. CASE QueueSocket
  <2>1. queueEnd' \in 0 .. QUEUE_SIZE - 1
    BY <1>2, AfterMod DEF QueueSocket, enqueue, Slots
  <2>2. clientQueue' \in [0 .. QUEUE_SIZE - 1 -> Sockets \cup {0}]
    BY <1>2 DEF QueueSocket, enqueue
  <2>3. /\ tpc' \in [Threads -> ThreadPcs]
        /\ \A t \in Threads : tpc'[t] = tpc[t] \/ tpc'[t] = "free"
    BY <1>2 DEF QueueSocket, Signal, Goto, ThreadPcs
  <2>4. forgotten' \subseteq Clients
    BY <1>2 DEF QueueSocket
  <2> QED
    BY <1>2, <2>1, <2>2, <2>3, <2>4 DEF QueueSocket, netVars
<1> QED
  BY <1>1, <1>2

\* A step of a thread keeps the types.
LEMMA ThreadTypes ==
  ASSUME Inv, NEW t \in Threads, ThreadStep(t) \/ Spurious(t)
  PROVE  Inv'
<1> USE DEF Inv, TypeOK, RoundsLeft, ThreadPcs, Goto
<1>1. CASE Sleep(t) \/ Spurious(t)
  BY <1>1 DEF Sleep, Spurious, netVars
<1>2. CASE TakeSocket(t)
  <2>1. queueStart' \in 0 .. QUEUE_SIZE - 1
    BY <1>2, AfterMod DEF TakeSocket, dequeue, Slots
  <2>2. clientQueue[queueStart] \in Sockets \cup {0}
    OBVIOUS
  <2>3. sock' \in [Threads -> Sockets \cup {0}] /\ talk' \in [Threads -> SUBSET Clients]
    BY <1>2, <2>2 DEF TakeSocket, dequeue
  <2>4. round' \in [Threads -> 0 .. ROUNDS] /\ tpc' \in [Threads -> ThreadPcs]
    BY <1>2, RoundsAssumption DEF TakeSocket
  <2>5. RoundsLeft'
    BY <1>2, RoundsAssumption DEF TakeSocket
  <2> QED
    BY <1>2, <2>1, <2>3, <2>4, <2>5 DEF TakeSocket, netVars
<1>3. CASE Recv(t)
  <2>1. talk' \in [Threads -> SUBSET Clients]
    <3>1. CASE sock[t] \in DOMAIN fd
      <4>1. {fd[sock[t]]} \in SUBSET Clients
        BY <3>1
      <4>2. talk' = [talk EXCEPT ![t] = {fd[sock[t]]}]
        BY <1>3, <3>1 DEF Recv
      <4> QED
        BY <4>1, <4>2
    <3>2. CASE sock[t] \notin DOMAIN fd
      BY <1>3, <3>2 DEF Recv
    <3> QED
      BY <3>1, <3>2
  <2>2. RoundsLeft' /\ tpc' \in [Threads -> ThreadPcs]
    BY <1>3 DEF Recv
  <2> QED
    BY <1>3, <2>1, <2>2 DEF Recv, netVars
<1>4. CASE RecvMessage(t)
  <2>1. inbox' \in [Clients -> Nat]
    BY <1>4 DEF RecvMessage
  <2>2. RoundsLeft' /\ tpc' \in [Threads -> ThreadPcs]
    BY <1>4 DEF RecvMessage
  <2> QED
    BY <1>4, <2>1, <2>2 DEF RecvMessage
<1>5. CASE RecvEnd(t)
  <2>1. RoundsLeft' /\ tpc' \in [Threads -> ThreadPcs]
    BY <1>5 DEF RecvEnd
  <2> QED
    BY <1>5, <2>1 DEF RecvEnd, netVars
<1>6. CASE Send(t)
  <2>1. round[t] \in 0 .. ROUNDS /\ round[t] < ROUNDS /\ ROUNDS \in Nat
    BY <1>6, RoundsAssumption DEF Send
  <2>2. outbox' \in [Clients -> Nat] /\ round' \in [Threads -> 0 .. ROUNDS]
    <3>1. CASE sock[t] \in DOMAIN fd
      <4>1. fd[sock[t]] \in Clients /\ round[t] + 1 \in 0 .. ROUNDS
        BY <2>1, <3>1
      <4>2. /\ outbox' = [outbox EXCEPT ![fd[sock[t]]] = @ + 1]
            /\ round' = [round EXCEPT ![t] = @ + 1]
        BY <1>6, <3>1 DEF Send
      <4> QED
        BY <4>1, <4>2
    <3>2. CASE sock[t] \notin DOMAIN fd
      BY <1>6, <3>2 DEF Send
    <3> QED
      BY <3>1, <3>2
  <2>3. RoundsLeft'
    BY <1>6, <2>1 DEF Send
  <2>4. tpc' \in [Threads -> ThreadPcs]
    BY <1>6 DEF Send
  <2> QED
    BY <1>6, <2>2, <2>3, <2>4 DEF Send
<1>7. CASE CloseFailed(t) \/ CloseLast(t)
  <2>1. DOMAIN fd' \subseteq Sockets /\ \A s \in DOMAIN fd' : fd'[s] \in Clients
    BY <1>7 DEF CloseFailed, CloseLast, close
  <2>2. struck' \subseteq Clients
    BY <1>7 DEF CloseFailed, CloseLast, close
  <2> QED
    BY <1>7, <2>1, <2>2 DEF CloseFailed, CloseLast
<1> QED
  BY <1>1, <1>2, <1>3, <1>4, <1>5, <1>6, <1>7 DEF ThreadStep

\* A step of a client keeps the types.
LEMMA ClientTypes ==
  ASSUME Inv, NEW c \in Clients, Connect(c) \/ ClientStep(c) \/ Die(c)
  PROVE  Inv'
<1> USE DEF Inv, TypeOK, RoundsLeft, ClientPcs, At
<1>1. CASE Connect(c)
  <2>1. pending' \in Seq(Clients)
    BY <1>1, AppendProperties DEF Connect
  <2> QED
    BY <1>1, <2>1 DEF Connect, serverVars
<1>2. CASE SendMessage(c)
  BY <1>2 DEF SendMessage, serverVars
<1>3. CASE RecvReply(c)
  <2>1. outbox' \in [Clients -> Nat]
    BY <1>3 DEF RecvReply
  <2> QED
    BY <1>3, <2>1 DEF RecvReply, serverVars
<1>4. CASE RecvFails(c) \/ Leave(c) \/ Die(c)
  BY <1>4 DEF RecvFails, Leave, Die, serverVars
<1> QED
  BY <1>1, <1>2, <1>3, <1>4 DEF ClientStep

LEMMA NextInv == Inv /\ [Next]_vars => Inv'
<1> SUFFICES ASSUME Inv, [Next]_vars
             PROVE  Inv'
  OBVIOUS
<1>1. CASE UNCHANGED vars
  BY <1>1 DEF Inv, TypeOK, RoundsLeft, vars, serverVars, netVars
<1> QED
  BY <1>1, MainTypes, ThreadTypes, ClientTypes DEF Next

\* Every variable keeps its type, for every size of the ring and of the pool.
THEOREM TypeCorrect == Spec => []TypeOK
<1>1. Inv => TypeOK
  BY DEF Inv
<1> QED
  BY InitInv, NextInv, <1>1, PTL DEF Spec

(***************************************************************************)
(* The ring implements the queue of AcceptQueue.                           *)
(***************************************************************************)
LEMMA WaitingIsRing ==
  /\ Waiting = InRing(clientQueue, queueStart, queueEnd)
  /\ Waiting' = InRing(clientQueue', queueStart', queueEnd')
BY DEF Waiting, InRing

\* The types of the ring, as its lemmas want them.
LEMMA RingTypes ==
  ASSUME Inv
  PROVE  /\ clientQueue \in [Slots -> Sockets \cup {0}]
         /\ queueStart \in Slots /\ queueEnd \in Slots
         /\ Waiting \in Seq(Sockets \cup {0}) /\ Len(Waiting) \in Nat
<1>1. clientQueue \in [Slots -> Sockets \cup {0}] /\ queueStart \in Slots /\ queueEnd \in Slots
  BY DEF Inv, TypeOK, Slots
<1>2. Waiting \in Seq(Sockets \cup {0})
  BY <1>1, RingIsSeq, WaitingIsRing
<1> QED
  BY <1>1, <1>2, LenProperties

\* main puts a socket behind those that wait.
LEMMA QueuePuts ==
  ASSUME Inv, QueueSocket
  PROVE  /\ sockClient \in Sockets
         /\ Waiting' = IF Len(Waiting) + 1 < QUEUE_SIZE THEN Append(Waiting, sockClient) ELSE <<>>
<1>1. sockClient \in Sockets
  BY DEF Inv, TypeOK, QueueSocket
<1>2. /\ clientQueue' = [clientQueue EXCEPT ![queueEnd] = sockClient]
      /\ queueStart' = queueStart /\ queueEnd' = (queueEnd + 1) % QUEUE_SIZE
  BY DEF QueueSocket, enqueue
<1> DEFINE S == Sockets \cup {0}
<1>3. sockClient \in S
  BY <1>1
<1>4. clientQueue \in [Slots -> S] /\ queueStart \in Slots /\ queueEnd \in Slots
  BY RingTypes
<1> HIDE DEF S
<1>5. InRing([clientQueue EXCEPT ![queueEnd] = sockClient], queueStart, (queueEnd + 1) % QUEUE_SIZE)
        = IF Len(InRing(clientQueue, queueStart, queueEnd)) + 1 < QUEUE_SIZE
            THEN Append(InRing(clientQueue, queueStart, queueEnd), sockClient) ELSE <<>>
  BY <1>3, <1>4, RingPut
<1> QED
  BY <1>1, <1>2, <1>5, WaitingIsRing

\* A thread takes the socket that waits longest.
LEMMA ThreadTakes ==
  ASSUME Inv, NEW t \in Threads, TakeSocket(t)
  PROVE  Waiting # <<>> /\ Waiting' = Tail(Waiting) /\ Len(Waiting') = Len(Waiting) - 1
<1>1. /\ clientQueue' = clientQueue /\ queueEnd' = queueEnd /\ queueStart # queueEnd
      /\ queueStart' = (queueStart + 1) % QUEUE_SIZE
  BY DEF TakeSocket, dequeue, isQueueEmpty
<1> DEFINE S == Sockets \cup {0}
<1>2. clientQueue \in [Slots -> S] /\ queueStart \in Slots /\ queueEnd \in Slots
  BY RingTypes
<1> HIDE DEF S
<1> QED
  BY <1>1, <1>2, RingTake, WaitingIsRing

\* No other step touches the ring.
LEMMA RingElsewhere ==
  ASSUME [Next]_vars, ~QueueSocket, \A t \in Threads : ~TakeSocket(t)
  PROVE  Waiting' = Waiting
<1>1. UNCHANGED <<clientQueue, queueStart, queueEnd>>
  BY DEF Next, vars, serverVars, Accept, ThreadStep, Sleep, Spurious, Recv, RecvMessage, RecvEnd,
         Send, CloseFailed, CloseLast, Connect, ClientStep, SendMessage, RecvReply, RecvFails,
         Leave, Die
<1> QED
  BY <1>1, WaitingIsRing

\* The ring under its mutex is the queue of AcceptQueue: first in first out, and
\* forgetting everything when its last slot is filled, whatever QUEUE_SIZE is.
THEOREM RingRefines == Spec => RingIsFifo
<1>1. Init => Waiting = <<>>
  <2> SUFFICES ASSUME Init
               PROVE  Waiting = <<>>
    OBVIOUS
  <2>1. Inv /\ queueStart = 0 /\ queueEnd = 0
    BY InitInv DEF Init
  <2>2. Len(Waiting) = Used(0, 0)
    BY <2>1, RingTypes, RingIsSeq, WaitingIsRing
  <2>3. Len(Waiting) = 0
    BY <2>2 DEF Used
  <2> QED
    BY <2>1, <2>3, RingTypes, EmptySeq
<1>2. Inv /\ [Next]_vars => [Fifo!Put \/ Fifo!Take]_Waiting
  BY QueuePuts, ThreadTakes, RingElsewhere DEF Fifo!Put, Fifo!Take
<1> QED
  BY <1>1, <1>2, InitInv, NextInv, PTL DEF Spec, RingIsFifo, Fifo!Spec

(***************************************************************************)
(* No wake-up is lost.                                                     *)
(***************************************************************************)
Awake == {t \in Threads : tpc[t] = "free"}
Asleep == {t \in Threads : tpc[t] = "asleep"}

\* NoLostWakeup with names for the two sets of threads.
Covered == Asleep # {} => Len(Waiting) <= Cardinality(Awake)

\* The pool is finite, and a set of threads that grows or shrinks by one does so
\* in number.
LEMMA AwakeFacts ==
  /\ IsFiniteSet(Awake) /\ Cardinality(Awake) \in Nat
  /\ IsFiniteSet(Awake') /\ Cardinality(Awake') \in Nat
  /\ Awake \subseteq Awake' => Cardinality(Awake) <= Cardinality(Awake')
  /\ \A t \in Threads :
       /\ t \notin Awake /\ Awake \cup {t} \subseteq Awake'
            => Cardinality(Awake) + 1 <= Cardinality(Awake')
       /\ t \in Awake /\ Awake \ {t} \subseteq Awake'
            => Cardinality(Awake) - 1 <= Cardinality(Awake')
<1>1. IsFiniteSet(Awake) /\ IsFiniteSet(Awake')
  BY ThreadsAssumption, FS_Subset DEF Awake
<1>2. Cardinality(Awake) \in Nat /\ Cardinality(Awake') \in Nat
  BY <1>1, FS_CardinalityType
<1>3. Awake \subseteq Awake' => Cardinality(Awake) <= Cardinality(Awake')
  BY <1>1, FS_Subset
<1>4. ASSUME NEW t \in Threads, t \notin Awake, Awake \cup {t} \subseteq Awake'
      PROVE  Cardinality(Awake) + 1 <= Cardinality(Awake')
  <2>1. Cardinality(Awake \cup {t}) = Cardinality(Awake) + 1
    BY <1>1, <1>4, FS_AddElement
  <2>2. Cardinality(Awake \cup {t}) <= Cardinality(Awake')
    BY <1>1, <1>4, FS_Subset
  <2> QED
    BY <2>1, <2>2
<1>5. ASSUME NEW t \in Threads, t \in Awake, Awake \ {t} \subseteq Awake'
      PROVE  Cardinality(Awake) - 1 <= Cardinality(Awake')
  <2>1. Cardinality(Awake \ {t}) = Cardinality(Awake) - 1
    BY <1>1, <1>5, FS_RemoveElement
  <2>2. Cardinality(Awake \ {t}) <= Cardinality(Awake')
    BY <1>1, <1>5, FS_Subset
  <2> QED
    BY <2>1, <2>2
<1> QED
  BY <1>1, <1>2, <1>3, <1>4, <1>5

\* main adds one socket and, if a thread sleeps, wakes one.
LEMMA QueueCovers ==
  ASSUME Inv, Covered, QueueSocket
  PROVE  Covered'
<1>1. Len(Waiting) \in Nat /\ Len(Waiting') <= Len(Waiting) + 1
  <2>1. Len(Waiting) \in Nat /\ Waiting \in Seq(Sockets \cup {0}) /\ sockClient \in Sockets \cup {0}
    BY RingTypes, QueuePuts
  <2>2. Len(Append(Waiting, sockClient)) = Len(Waiting) + 1 /\ Len(<<>>) = 0
    BY <2>1, AppendProperties, EmptySeq
  <2> QED
    BY <2>1, <2>2, QueuePuts
<1>2. CASE Asleep = {}
  <2>1. Asleep' = {}
    BY <1>2 DEF QueueSocket, Signal, Goto, Asleep
  <2> QED
    BY <2>1 DEF Covered
<1>3. CASE Asleep # {}
  <2>1. PICK t \in Threads : t \in Asleep /\ tpc' = [tpc EXCEPT ![t] = "free"]
    BY <1>3 DEF QueueSocket, Signal, Goto, Asleep
  <2>2. t \notin Awake /\ Awake \cup {t} \subseteq Awake'
    BY <2>1 DEF Awake, Asleep, Inv, TypeOK
  <2>3. Cardinality(Awake) + 1 <= Cardinality(Awake')
    BY <2>2, AwakeFacts
  <2>4. Len(Waiting) <= Cardinality(Awake)
    BY <1>3 DEF Covered
  <2>5. Len(Waiting') \in Nat
    BY NextInv, RingTypes DEF Next
  <2> QED
    BY <1>1, <2>3, <2>4, <2>5, AwakeFacts DEF Covered
<1> QED
  BY <1>2, <1>3

\* A step of a thread takes a socket, sleeps on an empty ring, or only adds to
\* the threads on their way to the queue.
LEMMA ThreadCovers ==
  ASSUME Inv, Covered, NEW t \in Threads, ThreadStep(t) \/ Spurious(t)
  PROVE  Covered'
<1>1. CASE TakeSocket(t)
  <2>1. Asleep' = Asleep /\ t \in Awake /\ Awake \ {t} \subseteq Awake'
    BY <1>1 DEF TakeSocket, Goto, Awake, Asleep, Inv, TypeOK
  <2>2. Cardinality(Awake) - 1 <= Cardinality(Awake')
    BY <2>1, AwakeFacts
  <2>3. Len(Waiting') = Len(Waiting) - 1 /\ Len(Waiting) \in Nat
    BY <1>1, ThreadTakes, RingTypes
  <2> QED
    BY <2>1, <2>2, <2>3, AwakeFacts DEF Covered
<1>2. CASE Sleep(t)
  <2>1. Len(Waiting') = 0
    <3>1. queueStart = queueEnd /\ Waiting' = Waiting
      BY <1>2, WaitingIsRing DEF Sleep, isQueueEmpty
    <3>2. Len(Waiting) = Used(queueStart, queueEnd) /\ queueStart \in 0 .. QUEUE_SIZE - 1
      BY RingTypes, RingIsSeq, WaitingIsRing DEF Slots
    <3> QED
      BY <3>1, <3>2, QueueAssumption DEF Used
  <2> QED
    BY <2>1, AwakeFacts DEF Covered
<1>3. CASE ~TakeSocket(t) /\ ~Sleep(t)
  <2>1. Waiting' = Waiting
    <3>1. UNCHANGED <<clientQueue, queueStart, queueEnd>>
      BY <1>3 DEF ThreadStep, Spurious, Recv, RecvMessage, RecvEnd, Send, CloseFailed, CloseLast
    <3> QED
      BY <3>1, WaitingIsRing
  <2>2. \E pc \in ThreadPcs \ {"asleep"} : tpc[t] # "free" /\ tpc' = [tpc EXCEPT ![t] = pc]
    BY <1>3 DEF ThreadStep, Spurious, Recv, RecvMessage, RecvEnd, Send, CloseFailed, CloseLast,
                Goto, ThreadPcs
  <2>3. Asleep' \subseteq Asleep /\ Awake \subseteq Awake'
    BY <2>2 DEF Awake, Asleep, Inv, TypeOK
  <2>4. Cardinality(Awake) <= Cardinality(Awake')
    BY <2>3, AwakeFacts
  <2> QED
    BY <2>1, <2>3, <2>4, AwakeFacts, RingTypes DEF Covered
<1> QED
  BY <1>1, <1>2, <1>3

\* While a thread sleeps there is a thread on its way for every socket in the
\* ring: pthread_cond_signal once per enqueue is enough, for any number of
\* threads and slots.
THEOREM NoWakeupIsLost == Spec => []NoLostWakeup
<1>1. Init => Covered
  BY DEF Init, Covered, Asleep
<1>2. Inv /\ Covered /\ [Next]_vars => Covered'
  <2> SUFFICES ASSUME Inv, Covered, [Next]_vars
               PROVE  Covered'
    OBVIOUS
  <2>1. ASSUME UNCHANGED <<clientQueue, queueStart, queueEnd, tpc>>
        PROVE  Covered'
    <3>1. Waiting' = Waiting /\ Awake' = Awake /\ Asleep' = Asleep
      BY <2>1, WaitingIsRing DEF Awake, Asleep
    <3> QED
      BY <3>1 DEF Covered
  <2>2. CASE Accept \/ UNCHANGED vars
    BY <2>1, <2>2 DEF Accept, vars, serverVars
  <2>3. CASE \E c \in Clients : Connect(c) \/ ClientStep(c) \/ Die(c)
    BY <2>1, <2>3 DEF Connect, ClientStep, SendMessage, RecvReply, RecvFails, Leave, Die, serverVars
  <2> QED
    BY <2>2, <2>3, QueueCovers, ThreadCovers DEF Next
<1>3. Covered => NoLostWakeup
  BY DEF Covered, NoLostWakeup, Awake, Asleep
<1> QED
  BY <1>1, <1>2, <1>3, InitInv, NextInv, PTL DEF Spec


(***************************************************************************)
(* Who suffers from a close.                                               *)
(***************************************************************************)
Working(t) == tpc[t] \in {"recv", "wait", "send", "close", "last"}

\* c has no connection yet, or main has not accepted it.
Waits(c) == cpc[c] = "off" \/ Contains(pending, c)

\* c needs no answer any more: it is gone, or the answer is there.
Served(c) == Gone(c) \/ cpc[c] = "got" \/ outbox[c] > 0

\* t has not yet closed the descriptor it works on.
Holds(t) ==
  \/ tpc[t] \in {"recv", "wait", "send", "close"}
  \/ tpc[t] = "last" /\ sock[t] \in DOMAIN fd /\ fd[sock[t]] \in talk[t]

\* A client that waits for accept has no descriptor, and has talked to nobody;
\* none has two descriptors.
Untouched ==
  /\ \A c \in Clients : Waits(c) =>
       (\A s \in DOMAIN fd : fd[s] # c) /\ (\A t \in Threads : c \notin talk[t])
  /\ \A c \in Clients : cpc[c] = "off" => ~Contains(pending, c)
  /\ IsInjective(pending)
  /\ IsInjective(fd)

\* As long as nothing is struck, a thread that has not closed its descriptor
\* has it to itself, and talks on the connection behind it.
HeldOnce ==
  /\ \A t \in Threads : Holds(t) => sock[t] \in DOMAIN fd
  /\ \A t \in Threads :
       tpc[t] \in {"wait", "send", "close"} => talk[t] = {fd[sock[t]]}
  /\ \A t, u \in Threads : Holds(t) /\ Holds(u) /\ sock[t] = sock[u] => t = u

\* So are the sockets in the ring open, each there once and with no thread.
RingOnce ==
  /\ \A s \in Sockets \cup {0} : Contains(Waiting, s) =>
       s \in DOMAIN fd /\ \A t \in Threads : Holds(t) => sock[t] # s
  /\ IsInjective(Waiting)

\* And so is the one main has accepted.
InHandOnce ==
  mpc = "enqueue" =>
    /\ sockClient \in DOMAIN fd
    /\ \A t \in Threads : Holds(t) => sock[t] # sockClient
    /\ ~Contains(Waiting, sockClient)

Unshared == struck = {} => HeldOnce /\ RingOnce /\ InHandOnce

\* A thread in the middle of its work on a client that was never struck and
\* has no answer yet still has its connection, and is before its send.
Counted ==
  /\ \A t \in Threads : talk[t] = {} \/ \E c \in Clients : talk[t] = {c}
  /\ \A t \in Threads, c \in Clients :
       Working(t) /\ talk[t] = {c} /\ c \notin struck /\ ~Served(c) =>
         tpc[t] \in {"wait", "send"} /\ sock[t] \in DOMAIN fd /\ fd[sock[t]] = c

\* A client that waits for an answer waits for accept, has a connection, or was
\* struck.
Reached ==
  /\ \A c \in Clients : cpc[c] \in {"connected", "sent"} =>
       \/ Contains(pending, c) \/ Served(c) \/ c \in struck
       \/ \E s \in DOMAIN fd : fd[s] = c
  /\ \A c \in Clients : cpc[c] = "failed" => c \in struck

SafeInv == Untouched /\ Unshared /\ Counted /\ Reached


\* The kernel gives a client that waited a new descriptor.
LEMMA AcceptDoes ==
  ASSUME Inv, Untouched, Accept
  PROVE  \E c \in Clients, s \in Sockets :
           /\ Contains(pending, c) /\ cpc[c] # "off"
           /\ \A d : Contains(pending', d) <=> Contains(pending, d) /\ d # c
           /\ IsInjective(pending')
           /\ s \notin DOMAIN fd /\ fd' = [r \in DOMAIN fd \cup {s} |-> IF r = s THEN c ELSE fd[r]]
           /\ sockClient' = s
<1>1. pending \in Seq(Clients) /\ pending # <<>> /\ IsInjective(pending) /\ pending' = Tail(pending)
  BY DEF Inv, TypeOK, Untouched, Accept
<1> DEFINE c == Head(pending)
<1>2. /\ c \in Clients /\ Contains(pending, c)
      /\ \A d : Contains(Tail(pending), d) <=> Contains(pending, d) /\ d # c
      /\ IsInjective(Tail(pending))
  BY <1>1, LeaveProperties
<1>3. PICK s \in Sockets \ DOMAIN fd :
        /\ fd' = [r \in DOMAIN fd \cup {s} |-> IF r = s THEN c ELSE fd[r]]
        /\ sockClient' = s
  BY DEF Accept
<1> HIDE DEF c
<1>4. cpc[c] # "off"
  BY <1>2 DEF Untouched
<1> QED
  BY <1>1, <1>2, <1>3, <1>4

\* What a step of main leaves alone.
LEMMA MainDoes ==
  ASSUME Inv, Accept \/ QueueSocket
  PROVE  /\ UNCHANGED <<sock, talk, cpc, outbox, struck>>
         /\ \A t \in Threads : tpc'[t] = tpc[t] \/ (tpc[t] = "asleep" /\ tpc'[t] = "free")
         /\ QueueSocket => UNCHANGED <<fd, pending>>
BY DEF Accept, QueueSocket, Signal, Goto, netVars, Inv, TypeOK

\* What a step of a thread leaves alone.
LEMMA ThreadDoes ==
  ASSUME Inv, NEW t \in Threads, ThreadStep(t) \/ Spurious(t)
  PROVE  /\ UNCHANGED <<mpc, sockClient, pending, cpc>>
         /\ \A u \in Threads \ {t} : tpc'[u] = tpc[u] /\ sock'[u] = sock[u] /\ talk'[u] = talk[u]
         /\ (fd' = fd /\ struck' = struck) \/ CloseFailed(t) \/ CloseLast(t)
         /\ \/ talk' = talk
            \/ talk' = [talk EXCEPT ![t] = {}]
            \/ sock[t] \in DOMAIN fd /\ talk' = [talk EXCEPT ![t] = {fd[sock[t]]}]
         /\ struck \subseteq struck'
         /\ \A c \in Clients : outbox[c] <= outbox'[c]
<1> USE DEF ThreadStep, Sleep, Spurious, TakeSocket, Recv, RecvMessage, RecvEnd, Send, CloseFailed, CloseLast
<1>1. UNCHANGED <<mpc, sockClient, pending, cpc>>
  BY DEF netVars
<1>2. (fd' = fd /\ struck' = struck) \/ CloseFailed(t) \/ CloseLast(t)
  BY DEF netVars
<1>3. struck \subseteq struck'
  BY <1>2 DEF close
<1>4. \/ talk' = talk
      \/ talk' = [talk EXCEPT ![t] = {}]
      \/ sock[t] \in DOMAIN fd /\ talk' = [talk EXCEPT ![t] = {fd[sock[t]]}]
  OBVIOUS
<1>5. \E pc : tpc' = [tpc EXCEPT ![t] = pc]
  BY DEF Goto
<1>6. sock' = sock \/ \E s : sock' = [sock EXCEPT ![t] = s]
  BY DEF dequeue
<1>7. outbox' = outbox \/ \E d \in Clients : outbox' = [outbox EXCEPT ![d] = @ + 1]
  <2>1. outbox' = outbox \/ (sock[t] \in DOMAIN fd /\ outbox' = [outbox EXCEPT ![fd[sock[t]]] = @ + 1])
    BY DEF netVars
  <2> QED
    BY <2>1 DEF Inv, TypeOK
<1>8. \A c \in Clients : outbox[c] <= outbox'[c]
  <2>1. \A c \in Clients : outbox[c] \in Nat
    BY DEF Inv, TypeOK
  <2>2. outbox \in [Clients -> Nat]
    BY DEF Inv, TypeOK
  <2>3. CASE outbox' = outbox
    BY <2>1, <2>3
  <2>4. ASSUME NEW d \in Clients, outbox' = [outbox EXCEPT ![d] = @ + 1]
        PROVE  \A c \in Clients : outbox[c] <= outbox'[c]
    BY <2>1, <2>2, <2>4
  <2> QED
    BY <1>7, <2>3, <2>4
<1>9. \A u \in Threads \ {t} : tpc'[u] = tpc[u] /\ sock'[u] = sock[u] /\ talk'[u] = talk[u]
  BY <1>4, <1>5, <1>6 DEF Inv, TypeOK
<1> QED
  BY <1>1, <1>2, <1>3, <1>4, <1>8, <1>9

\* close takes one descriptor off the table, and strikes what is behind it
\* unless it is what the thread talked to.
LEMMA CloseDoes ==
  ASSUME Inv, NEW t \in Threads, CloseFailed(t) \/ CloseLast(t)
  PROVE  /\ fd' = [s \in DOMAIN fd \ {sock[t]} |-> fd[s]]
         /\ \A c : c \in struck' <=> c \in struck \/ (sock[t] \in DOMAIN fd /\ c = fd[sock[t]] /\ c \notin talk[t])
         /\ tpc[t] \in {"close", "last"} /\ tpc'[t] = IF tpc[t] = "close" THEN "last" ELSE "free"
         /\ UNCHANGED <<sock, talk, Waiting>>
<1>1. /\ fd' = [s \in DOMAIN fd \ {sock[t]} |-> fd[s]]
      /\ struck' = struck \cup ({fd[s] : s \in DOMAIN fd \cap {sock[t]}} \ talk[t])
      /\ UNCHANGED <<sock, talk, clientQueue, queueStart, queueEnd>>
  BY DEF CloseFailed, CloseLast, close
<1>2. /\ tpc[t] \in {"close", "last"}
      /\ tpc' = [tpc EXCEPT ![t] = IF tpc[t] = "close" THEN "last" ELSE "free"]
  BY DEF CloseFailed, CloseLast, Goto
<1>3. tpc'[t] = IF tpc[t] = "close" THEN "last" ELSE "free"
  BY <1>2 DEF Inv, TypeOK
<1>4. Waiting' = Waiting
  BY <1>1, WaitingIsRing
<1>5. \A c : c \in struck' <=> c \in struck \/ (sock[t] \in DOMAIN fd /\ c = fd[sock[t]] /\ c \notin talk[t])
  BY <1>1
<1> QED
  BY <1>1, <1>2, <1>3, <1>4, <1>5

\* A client only goes forward.
LEMMA ClientMoves ==
  ASSUME Inv, NEW c \in Clients, Connect(c) \/ ClientStep(c) \/ Die(c)
  PROVE  /\ UNCHANGED <<serverVars, fd, struck, Waiting>>
         /\ \E pc \in ClientPcs \ {"off"} : cpc' = [cpc EXCEPT ![c] = pc]
         /\ IF cpc[c] = "off" THEN pending' = Append(pending, c) ELSE pending' = pending
<1>1. /\ UNCHANGED <<serverVars, fd, struck, Waiting>>
      /\ IF cpc[c] = "off" THEN pending' = Append(pending, c) ELSE pending' = pending
  BY DEF Connect, ClientStep, SendMessage, RecvReply, RecvFails, Leave, Die, At, serverVars, Waiting
<1>2. \E pc \in ClientPcs \ {"off"} : cpc' = [cpc EXCEPT ![c] = pc]
  BY DEF Connect, ClientStep, SendMessage, RecvReply, RecvFails, Leave, Die, At, ClientPcs
<1> QED
  BY <1>1, <1>2

\* A new connection is behind a new descriptor, and a client that waits for
\* accept has none.
LEMMA UntouchedKept ==
  ASSUME Inv, Untouched, Next
  PROVE  Untouched'
<1>0. pending \in Seq(Clients) /\ talk \in [Threads -> SUBSET Clients] /\ cpc \in [Clients -> ClientPcs]
  BY DEF Inv, TypeOK
<1>1. CASE Accept
  <2>1. PICK c \in Clients, s \in Sockets :
           /\ Contains(pending, c) /\ cpc[c] # "off"
           /\ \A d : Contains(pending', d) => Contains(pending, d) /\ d # c
           /\ IsInjective(pending')
           /\ s \notin DOMAIN fd /\ fd' = [r \in DOMAIN fd \cup {s} |-> IF r = s THEN c ELSE fd[r]]
    BY <1>1, AcceptDoes
  <2>2. UNCHANGED <<talk, cpc>>
    BY <1>1 DEF Accept
  <2>3. \A d \in Clients : Waits(d)' => Waits(d) /\ d # c
    BY <2>1, <2>2 DEF Waits
  <2>4. \A r \in DOMAIN fd : fd[r] # c
    BY <2>1 DEF Untouched, Waits
  <2>5. IsInjective(fd')
    BY <2>1, <2>4 DEF Untouched, IsInjective
  <2>6. \A d \in Clients : Waits(d)' =>
          (\A r \in DOMAIN fd' : fd'[r] # d) /\ (\A t \in Threads : d \notin talk'[t])
    BY <2>1, <2>2, <2>3 DEF Untouched
  <2> QED
    BY <2>1, <2>2, <2>5, <2>6 DEF Untouched
<1>2. CASE QueueSocket
  BY <1>2, MainDoes DEF Untouched, Waits
<1>3. ASSUME NEW t \in Threads, ThreadStep(t) \/ Spurious(t)
      PROVE  Untouched'
  <2>1. UNCHANGED <<cpc, pending>>
    BY <1>3, ThreadDoes
  <2>2. DOMAIN fd' \subseteq DOMAIN fd /\ \A s \in DOMAIN fd' : fd'[s] = fd[s]
    <3>1. fd' = fd \/ fd' = [s \in DOMAIN fd \ {sock[t]} |-> fd[s]]
      BY <1>3, ThreadDoes, CloseDoes
    <3> QED
      BY <3>1
  <2>3. ASSUME NEW d \in Clients, Waits(d), NEW u \in Threads
        PROVE  d \notin talk'[u]
    <3>1. d \notin talk[u] /\ (sock[t] \in DOMAIN fd => d # fd[sock[t]])
      BY <2>3 DEF Untouched
    <3>2. \/ talk'[u] = talk[u] \/ talk'[u] = {}
          \/ sock[t] \in DOMAIN fd /\ talk'[u] = {fd[sock[t]]}
      BY <1>0, <1>3, ThreadDoes
    <3> QED
      BY <3>1, <3>2
  <2>4. IsInjective(fd')
    BY <2>2 DEF Untouched, IsInjective
  <2>5. \A d \in Clients : Waits(d)' = Waits(d)
    BY <2>1 DEF Waits
  <2> QED
    BY <2>1, <2>2, <2>3, <2>4, <2>5 DEF Untouched
<1>4. ASSUME NEW c \in Clients, Connect(c) \/ ClientStep(c) \/ Die(c)
      PROVE  Untouched'
  <2>1. /\ UNCHANGED <<talk, fd>> /\ \E pc \in ClientPcs \ {"off"} : cpc' = [cpc EXCEPT ![c] = pc]
        /\ IF cpc[c] = "off" THEN pending' = Append(pending, c) ELSE pending' = pending
    BY <1>4, ClientMoves DEF serverVars
  <2>2. /\ \A d : Contains(pending', d) <=> Contains(pending, d) \/ (cpc[c] = "off" /\ d = c)
        /\ IsInjective(pending')
    <3>1. IsInjective(pending) /\ (cpc[c] = "off" => ~Contains(pending, c))
      BY DEF Untouched
    <3>2. CASE cpc[c] = "off"
      <4>1. /\ \A d : Contains(Append(pending, c), d) <=> Contains(pending, d) \/ d = c
            /\ IsInjective(pending) /\ ~Contains(pending, c) => IsInjective(Append(pending, c))
        BY <1>0, JoinProperties
      <4> QED
        BY <2>1, <3>1, <3>2, <4>1
    <3>3. CASE cpc[c] # "off"
      BY <2>1, <3>1, <3>3
    <3> QED
      BY <3>2, <3>3
  <2>3. \A d \in Clients : Waits(d)' => Waits(d)
    BY <1>0, <2>1, <2>2 DEF Waits
  <2>4. \A d \in Clients : cpc'[d] = "off" => cpc[d] = "off" /\ d # c
    BY <1>0, <2>1
  <2> QED
    BY <2>1, <2>2, <2>3, <2>4 DEF Untouched
<1> QED
  BY <1>1, <1>2, <1>3, <1>4 DEF Next


\* Whoever is served stays so.
LEMMA ServedStays ==
  ASSUME Inv, Next
  PROVE  struck \subseteq struck' /\ \A c \in Clients : Served(c) => Served(c)'
<1>0. outbox \in [Clients -> Nat] /\ cpc \in [Clients -> ClientPcs]
  BY DEF Inv, TypeOK
<1>1. CASE Accept \/ QueueSocket
  BY <1>1, MainDoes DEF Served, Gone
<1>2. ASSUME NEW t \in Threads, ThreadStep(t) \/ Spurious(t)
      PROVE  struck \subseteq struck' /\ \A c \in Clients : Served(c) => Served(c)'
  <2>1. \A c \in Clients : outbox[c] \in Nat /\ outbox'[c] \in Nat
    BY <1>0, <1>2, NextInv DEF Next, Inv, TypeOK
  <2>2. cpc' = cpc /\ struck \subseteq struck' /\ \A c \in Clients : outbox[c] <= outbox'[c]
    BY <1>2, ThreadDoes
  <2> QED
    BY <2>1, <2>2 DEF Served, Gone
<1>3. ASSUME NEW c \in Clients, Connect(c) \/ ClientStep(c) \/ Die(c)
      PROVE  struck \subseteq struck' /\ \A d \in Clients : Served(d) => Served(d)'
  <2>1. struck' = struck
    BY <1>3, ClientMoves
  <2>2. CASE RecvReply(c)
    <3>1. cpc' = [cpc EXCEPT ![c] = "got"] /\ outbox' = [outbox EXCEPT ![c] = @ - 1]
      BY <2>2 DEF RecvReply, At
    <3> QED
      BY <1>0, <2>1, <3>1 DEF Served, Gone
  <2>3. CASE ~RecvReply(c)
    <3>1. outbox' = outbox
      BY <1>3, <2>3 DEF Connect, ClientStep, SendMessage, RecvFails, Leave, Die
    <3>2. \E pc \in ClientPcs :
            /\ cpc' = [cpc EXCEPT ![c] = pc]
            /\ Gone(c) => pc \in {"failed", "gone"}
            /\ cpc[c] = "got" => pc = "gone"
      BY <1>3, <2>3 DEF Connect, ClientStep, SendMessage, RecvFails, Leave, Die, At, ClientPcs, Gone
    <3> QED
      BY <1>0, <2>1, <3>1, <3>2 DEF Served, Gone
  <2> QED
    BY <2>2, <2>3
<1> QED
  BY <1>1, <1>2, <1>3 DEF Next

\* A close takes the connection of a client that has no answer only if it
\* strikes it.
LEMMA CloseStrikes ==
  ASSUME Inv, Counted, NEW t \in Threads, CloseFailed(t) \/ CloseLast(t),
         NEW c \in Clients, sock[t] \in DOMAIN fd, fd[sock[t]] = c, c \notin struck'
  PROVE  Served(c)
<1>1. c \in talk[t] /\ tpc[t] \in {"close", "last"} /\ c \notin struck
  BY CloseDoes
<1>2. talk[t] = {c}
  BY <1>1 DEF Counted
<1> QED
  BY <1>1, <1>2 DEF Counted, Working

\* The connection of a client without an answer stays behind its descriptor.
LEMMA StaysBehind ==
  ASSUME Inv, Untouched, Counted, Next,
         NEW c \in Clients, c \notin struck', ~Served(c),
         NEW s \in DOMAIN fd, fd[s] = c
  PROVE  s \in DOMAIN fd' /\ fd'[s] = c
<1>1. CASE fd' = fd
  BY <1>1
<1>2. CASE Accept
  <2>1. PICK d \in Clients, r \in Sockets :
           r \notin DOMAIN fd /\ fd' = [q \in DOMAIN fd \cup {r} |-> IF q = r THEN d ELSE fd[q]]
    BY <1>2, AcceptDoes
  <2> QED
    BY <2>1
<1>3. ASSUME NEW t \in Threads, CloseFailed(t) \/ CloseLast(t)
      PROVE  s \in DOMAIN fd' /\ fd'[s] = c
  <2>1. s # sock[t]
    BY <1>3, CloseStrikes
  <2>2. fd' = [r \in DOMAIN fd \ {sock[t]} |-> fd[r]]
    BY <1>3, CloseDoes
  <2> QED
    BY <2>1, <2>2
<1> QED
  BY <1>1, <1>2, <1>3, MainDoes, ThreadDoes, ClientMoves DEF Next

LEMMA CountedKept ==
  ASSUME Inv, Untouched, Counted, Next
  PROVE  Counted'
<1>0. /\ tpc \in [Threads -> ThreadPcs] /\ talk \in [Threads -> SUBSET Clients]
      /\ sock \in [Threads -> Sockets \cup {0}]
      /\ \A s \in DOMAIN fd : fd[s] \in Clients
  BY DEF Inv, TypeOK
<1>1. struck \subseteq struck' /\ \A c \in Clients : Served(c) => Served(c)'
  BY ServedStays
<1>2. ASSUME NEW u \in Threads, Working(u)' => Working(u), UNCHANGED <<sock, talk>>,
             tpc'[u] = tpc[u] \/ ~Working(u)',
             NEW c \in Clients, Working(u)', talk'[u] = {c}, c \notin struck', ~Served(c)'
      PROVE  tpc'[u] \in {"wait", "send"} /\ sock'[u] \in DOMAIN fd' /\ fd'[sock'[u]] = c
  <2>1. tpc[u] \in {"wait", "send"} /\ sock[u] \in DOMAIN fd /\ fd[sock[u]] = c
    BY <1>1, <1>2 DEF Counted
  <2> QED
    BY <1>1, <1>2, <2>1, StaysBehind
<1>3. CASE Accept \/ QueueSocket
  <2>1. UNCHANGED <<sock, talk>>
    BY <1>3, MainDoes
  <2>2. \A u \in Threads : (Working(u)' => Working(u)) /\ (tpc'[u] = tpc[u] \/ ~Working(u)')
    BY <1>3, MainDoes DEF Working
  <2> QED
    BY <1>2, <2>1, <2>2 DEF Counted
<1>4. ASSUME NEW t \in Threads, ThreadStep(t) \/ Spurious(t)
      PROVE  Counted'
  <2>1. ASSUME NEW u \in Threads
        PROVE  talk'[u] = {} \/ \E d \in Clients : talk'[u] = {d}
    <3>1. \/ talk'[u] = talk[u] \/ talk'[u] = {}
          \/ sock[t] \in DOMAIN fd /\ talk'[u] = {fd[sock[t]]}
      BY <1>0, <1>4, ThreadDoes
    <3> QED
      BY <1>0, <3>1 DEF Counted
  <2>2. ASSUME NEW u \in Threads \ {t}, NEW c \in Clients,
               Working(u)', talk'[u] = {c}, c \notin struck', ~Served(c)'
        PROVE  tpc'[u] \in {"wait", "send"} /\ sock'[u] \in DOMAIN fd' /\ fd'[sock'[u]] = c
    <3>1. tpc'[u] = tpc[u] /\ sock'[u] = sock[u] /\ talk'[u] = talk[u]
      BY <1>4, ThreadDoes
    <3>2. tpc[u] \in {"wait", "send"} /\ sock[u] \in DOMAIN fd /\ fd[sock[u]] = c
      BY <1>1, <2>2, <3>1 DEF Counted, Working
    <3> QED
      BY <1>1, <2>2, <3>1, <3>2, StaysBehind
  <2>3. ASSUME NEW c \in Clients, Working(t)', talk'[t] = {c}, c \notin struck', ~Served(c)'
        PROVE  tpc'[t] \in {"wait", "send"} /\ sock'[t] \in DOMAIN fd' /\ fd'[sock'[t]] = c
    <3>1. c \notin struck /\ ~Served(c)
      BY <1>1, <2>3
    <3>2. Working(t) /\ talk[t] = {c} =>
            tpc[t] \in {"wait", "send"} /\ sock[t] \in DOMAIN fd /\ fd[sock[t]] = c
      BY <3>1 DEF Counted
    <3>3. CASE Sleep(t) \/ Spurious(t)
      BY <1>0, <2>3, <3>3 DEF Sleep, Spurious, Goto, Working
    <3>4. CASE TakeSocket(t)
      BY <1>0, <2>3, <3>4 DEF TakeSocket
    <3>5. CASE Recv(t)
      <4>1. tpc[t] = "recv" /\ UNCHANGED <<sock, fd>>
        BY <3>5 DEF Recv, netVars
      <4>2. CASE sock[t] \in DOMAIN fd
        BY <1>0, <2>3, <3>5, <4>1, <4>2 DEF Recv, Goto
      <4>3. CASE sock[t] \notin DOMAIN fd
        BY <2>3, <3>2, <3>5, <4>1, <4>3 DEF Recv, Working
      <4> QED
        BY <4>2, <4>3
    <3>6. CASE RecvMessage(t)
      <4>1. tpc[t] = "wait" /\ tpc'[t] = "send" /\ UNCHANGED <<sock, talk, fd>>
        BY <1>0, <3>6 DEF RecvMessage, Goto
      <4> QED
        BY <2>3, <3>2, <4>1 DEF Working
    <3>7. CASE RecvEnd(t)
      <4>1. talk' = talk /\ \E d \in talk[t] : Gone(d)
        BY <3>7 DEF RecvEnd
      <4> QED
        BY <2>3, <3>1, <4>1 DEF Served
    <3>8. CASE Send(t)
      <4>1. tpc[t] = "send" /\ UNCHANGED <<sock, talk, fd, cpc>>
        BY <3>8 DEF Send
      <4>2. sock[t] \in DOMAIN fd /\ fd[sock[t]] = c
        BY <2>3, <3>2, <4>1 DEF Working
      <4>3. outbox' = [outbox EXCEPT ![c] = @ + 1]
        BY <3>8, <4>2 DEF Send
      <4>4. outbox \in [Clients -> Nat]
        BY DEF Inv, TypeOK
      <4>5. outbox'[c] > 0
        BY <4>3, <4>4
      <4> QED
        BY <2>3, <4>5 DEF Served
    <3>9. CASE CloseFailed(t) \/ CloseLast(t)
      BY <2>3, <3>2, <3>9, CloseDoes DEF Working
    <3> QED
      BY <1>4, <3>3, <3>4, <3>5, <3>6, <3>7, <3>8, <3>9 DEF ThreadStep
  <2> QED
    BY <2>1, <2>2, <2>3 DEF Counted
<1>5. ASSUME NEW c \in Clients, Connect(c) \/ ClientStep(c) \/ Die(c)
      PROVE  Counted'
  <2>1. UNCHANGED <<tpc, sock, talk>>
    BY <1>5, ClientMoves DEF serverVars
  <2>2. \A u \in Threads : Working(u)' = Working(u)
    BY <2>1 DEF Working
  <2> QED
    BY <1>2, <2>1, <2>2 DEF Counted
<1> QED
  BY <1>3, <1>4, <1>5 DEF Next

\* Only a strike takes its connection from a client that waits for an answer.
LEMMA ReachedKept ==
  ASSUME Inv, Untouched, Counted, Reached, Next
  PROVE  Reached'
<1>0. pending \in Seq(Clients) /\ cpc \in [Clients -> ClientPcs] /\ Len(pending) \in Nat
  BY LenProperties DEF Inv, TypeOK
<1>1. struck \subseteq struck' /\ \A c \in Clients : Served(c) => Served(c)'
  BY ServedStays
<1>2. ASSUME NEW d \in Clients, cpc'[d] \in {"connected", "sent"}, d \notin struck', ~Served(d)'
      PROVE  cpc[d] \in {"off", "connected", "sent"}
  <2>1. ~Gone(d) /\ cpc[d] # "got"
    BY <1>1, <1>2 DEF Served
  <2> QED
    BY <1>0, <2>1 DEF Gone, ClientPcs
<1>3. ASSUME NEW d \in Clients, cpc'[d] \in {"connected", "sent"}, d \notin struck', ~Served(d)'
      PROVE  Contains(pending', d) \/ \E s \in DOMAIN fd' : fd'[s] = d
  <2>1. CASE cpc[d] = "off"
    <3>1. PICK c \in Clients : Connect(c) \/ ClientStep(c) \/ Die(c)
      BY <1>3, <2>1, MainDoes, ThreadDoes DEF Next
    <3>2. d = c /\ pending' = Append(pending, c)
      BY <1>0, <1>3, <2>1, <3>1, ClientMoves
    <3>3. Contains(Append(pending, c), c)
      BY <1>0, JoinProperties
    <3> QED
      BY <3>2, <3>3
  <2>2. CASE \E s \in DOMAIN fd : fd[s] = d
    BY <1>1, <1>3, <2>2, StaysBehind
  <2>3. CASE Contains(pending, d)
    <3>1. CASE Accept
      <4>1. PICK c \in Clients, s \in Sockets :
               /\ \A e : Contains(pending', e) <=> Contains(pending, e) /\ e # c
               /\ s \notin DOMAIN fd /\ fd' = [r \in DOMAIN fd \cup {s} |-> IF r = s THEN c ELSE fd[r]]
        BY <3>1, AcceptDoes
      <4> QED
        BY <2>3, <4>1
    <3>2. ASSUME NEW c \in Clients, Connect(c) \/ ClientStep(c) \/ Die(c)
          PROVE  Contains(pending', d)
      <4>1. \A e : Contains(Append(pending, c), e) <=> Contains(pending, e) \/ e = c
        BY <1>0, JoinProperties
      <4> QED
        BY <2>3, <3>2, <4>1, ClientMoves
    <3> QED
      BY <2>3, <3>1, <3>2, MainDoes, ThreadDoes DEF Next
  <2> QED
    BY <1>1, <1>2, <1>3, <2>1, <2>2, <2>3 DEF Reached
<1>4. ASSUME NEW d \in Clients, cpc'[d] = "failed", cpc[d] # "failed"
      PROVE  d \in struck
  <2>1. PICK c \in Clients : Connect(c) \/ ClientStep(c) \/ Die(c)
    BY <1>4, MainDoes, ThreadDoes DEF Next
  <2>2. d = c /\ RecvFails(c)
    BY <1>0, <1>4, <2>1 DEF Connect, ClientStep, SendMessage, RecvReply, Leave, Die, At, RecvFails
  <2>3. /\ cpc[d] = "sent" /\ outbox[d] = 0 /\ \A s \in DOMAIN fd : fd[s] # d
        /\ \A k \in DOMAIN pending : pending[k] # d
    BY <2>2 DEF RecvFails, At, HungUp
  <2>4. ~Served(d) /\ ~Contains(pending, d)
    <3>1. DOMAIN pending = 1 .. Len(pending)
      BY <1>0, LenProperties
    <3> QED
      BY <2>3, <3>1 DEF Served, Gone, Contains
  <2> QED
    BY <2>3, <2>4 DEF Reached
<1> QED
  BY <1>1, <1>3, <1>4 DEF Reached


\* A thread takes the socket that waits longest for its own.
LEMMA TakesOldest ==
  ASSUME Inv, NEW t \in Threads, TakeSocket(t)
  PROVE  /\ Waiting \in Seq(Sockets \cup {0}) /\ Waiting # <<>> /\ Waiting' = Tail(Waiting)
         /\ sock' = [sock EXCEPT ![t] = Head(Waiting)]
<1>1. /\ clientQueue \in [Slots -> Sockets \cup {0}] /\ queueStart \in Slots /\ queueEnd \in Slots
      /\ Waiting \in Seq(Sockets \cup {0}) /\ Waiting # <<>> /\ Waiting' = Tail(Waiting)
  BY RingTypes, ThreadTakes
<1>2. Len(Waiting) \in Nat \ {0} /\ Head(Waiting) = Waiting[1]
  BY <1>1, EmptySeq, HeadTailProperties, LenProperties
<1>3. Waiting[1] = clientQueue[Slot(queueStart, 1)]
  <2>1. Waiting = InRing(clientQueue, queueStart, queueEnd)
    BY WaitingIsRing
  <2>2. /\ Len(Waiting) = Used(queueStart, queueEnd)
        /\ \A k \in 1 .. Used(queueStart, queueEnd) : Waiting[k] = clientQueue[Slot(queueStart, k)]
    BY <1>1, <2>1, RingIsSeq
  <2> QED
    BY <1>2, <2>2
<1>4. Slot(queueStart, 1) = queueStart
  BY <1>1, QueueAssumption DEF Slot, Slots
<1> QED
  BY <1>1, <1>2, <1>3, <1>4 DEF TakeSocket, dequeue

\* A thread that talks on a connection of its own keeps its hold on it.
LEMMA HoldsUnchanged ==
  ASSUME Inv, HeldOnce, NEW t \in Threads, Recv(t) \/ RecvMessage(t) \/ RecvEnd(t) \/ Send(t)
  PROVE  /\ \A u \in Threads : Holds(u)' <=> Holds(u)
         /\ UNCHANGED <<mpc, sockClient, Waiting, sock, fd>>
         /\ talk'[t] = {fd[sock[t]]}
<1>0. tpc \in [Threads -> ThreadPcs] /\ talk \in [Threads -> SUBSET Clients]
  BY DEF Inv, TypeOK
<1>1. /\ UNCHANGED <<mpc, sockClient, clientQueue, queueStart, queueEnd, sock, fd>>
      /\ tpc[t] \in {"recv", "wait", "send"}
  BY DEF Recv, RecvMessage, RecvEnd, Send, netVars
<1>2. Waiting' = Waiting
  BY <1>1, WaitingIsRing
<1>3. Holds(t) /\ sock[t] \in DOMAIN fd
  BY <1>1 DEF HeldOnce, Holds
<1>4. tpc'[t] \in {"recv", "wait", "send", "close", "last"} /\ talk'[t] = {fd[sock[t]]}
  <2>1. CASE Recv(t)
    BY <1>0, <1>3, <2>1 DEF Recv, Goto
  <2>2. CASE RecvMessage(t) \/ RecvEnd(t) \/ Send(t)
    <3>1. /\ tpc[t] \in {"wait", "send"} /\ talk' = talk
          /\ tpc'[t] \in {"recv", "wait", "send", "close", "last"}
      BY <1>0, <2>2 DEF RecvMessage, RecvEnd, Send, Goto
    <3> QED
      BY <3>1 DEF HeldOnce
  <2> QED
    BY <2>1, <2>2
<1>5. Holds(t)'
  BY <1>1, <1>3, <1>4 DEF Holds
<1>6. \A u \in Threads \ {t} : Holds(u)' <=> Holds(u)
  <2>1. \A u \in Threads \ {t} : tpc'[u] = tpc[u] /\ talk'[u] = talk[u]
    BY ThreadDoes DEF ThreadStep
  <2> QED
    BY <1>1, <2>1 DEF Holds
<1> QED
  BY <1>1, <1>2, <1>3, <1>4, <1>5, <1>6

LEMMA UnsharedKept ==
  ASSUME Inv, Untouched, Unshared, Next
  PROVE  Unshared'
<1> SUFFICES ASSUME struck' = {}
             PROVE  HeldOnce' /\ RingOnce' /\ InHandOnce'
  BY DEF Unshared
<1>0. /\ tpc \in [Threads -> ThreadPcs] /\ talk \in [Threads -> SUBSET Clients]
      /\ sock \in [Threads -> Sockets \cup {0}] /\ DOMAIN fd \subseteq Sockets
  BY DEF Inv, TypeOK
<1>1. HeldOnce /\ RingOnce /\ InHandOnce
  BY ServedStays DEF Unshared
<1>2. ASSUME UNCHANGED <<mpc, sockClient, Waiting, sock, talk, fd>>, \A u \in Threads : (Holds(u)' <=> Holds(u)),
             \A u \in Threads : tpc'[u] = tpc[u] \/ tpc'[u] \notin {"wait", "send", "close"}
      PROVE  HeldOnce' /\ RingOnce' /\ InHandOnce'
  BY <1>1, <1>2 DEF HeldOnce, RingOnce, InHandOnce
<1>3. CASE Accept
  <2>1. PICK c \in Clients, s \in Sockets :
           /\ Contains(pending, c)
           /\ s \notin DOMAIN fd /\ fd' = [r \in DOMAIN fd \cup {s} |-> IF r = s THEN c ELSE fd[r]]
           /\ sockClient' = s
    BY <1>3, AcceptDoes
  <2>2. UNCHANGED <<tpc, sock, talk, Waiting>>
    <3>1. UNCHANGED <<tpc, sock, talk, clientQueue, queueStart, queueEnd>>
      BY <1>3 DEF Accept
    <3> QED
      BY <3>1, WaitingIsRing
  <2>3. \A r \in DOMAIN fd : r # s /\ r \in DOMAIN fd' /\ fd'[r] = fd[r]
    BY <2>1
  <2>4. \A u \in Threads : Holds(u)' => Holds(u) /\ sock[u] # s
    <3>1. \A u \in Threads : c \notin talk[u]
      BY <2>1 DEF Untouched, Waits
    <3>2. \A r : r \in DOMAIN fd' => r \in DOMAIN fd \/ fd'[r] = c
      BY <2>1
    <3>3. \A u \in Threads : Holds(u)' => Holds(u)
      BY <2>2, <2>3, <3>1, <3>2 DEF Holds
    <3> QED
      BY <1>1, <2>1, <3>3 DEF HeldOnce
  <2>5. HeldOnce'
    <3>1. \A u \in Threads : tpc[u] \in {"wait", "send", "close"} => Holds(u)
      BY DEF Holds
    <3> QED
      BY <1>1, <2>2, <2>3, <2>4, <3>1 DEF HeldOnce
  <2>6. RingOnce'
    BY <1>1, <2>2, <2>3, <2>4 DEF RingOnce
  <2>7. InHandOnce'
    <3>1. ~Contains(Waiting, s) /\ s \in DOMAIN fd'
      BY <1>1, <2>1 DEF RingOnce
    <3> QED
      BY <2>1, <2>2, <2>4, <3>1 DEF InHandOnce
  <2> QED
    BY <2>5, <2>6, <2>7
<1>4. CASE QueueSocket
  <2>1. UNCHANGED <<sock, talk, fd>>
    BY <1>4, MainDoes
  <2>2. \A u \in Threads : /\ Holds(u)' <=> Holds(u)
                           /\ (tpc'[u] = tpc[u] \/ tpc'[u] \notin {"wait", "send", "close"})
    BY <1>4, <2>1, MainDoes DEF Holds
  <2>3. mpc = "enqueue" /\ mpc' = "accept"
    BY <1>4 DEF QueueSocket
  <2>4. /\ IsInjective(Waiting')
        /\ \A s : Contains(Waiting', s) => Contains(Waiting, s) \/ s = sockClient
    <3>1. Waiting \in Seq(Sockets \cup {0}) /\ sockClient \in Sockets \cup {0}
      BY <1>4, RingTypes, QueuePuts
    <3>2. /\ \A s : Contains(Append(Waiting, sockClient), s) <=> Contains(Waiting, s) \/ s = sockClient
          /\ IsInjective(Waiting) /\ ~Contains(Waiting, sockClient) => IsInjective(Append(Waiting, sockClient))
      BY <3>1, JoinProperties
    <3>3. IsInjective(Waiting) /\ ~Contains(Waiting, sockClient)
      BY <1>1, <2>3 DEF RingOnce, InHandOnce
    <3>4. IsInjective(<<>>) /\ \A s : ~Contains(<<>>, s)
      BY EmptySeq DEF IsInjective, Contains
    <3>5. Waiting' = Append(Waiting, sockClient) \/ Waiting' = <<>>
      BY <1>4, QueuePuts
    <3> QED
      BY <3>2, <3>3, <3>4, <3>5
  <2>5. HeldOnce'
    BY <1>1, <2>1, <2>2 DEF HeldOnce
  <2>6. RingOnce'
    BY <1>1, <2>1, <2>2, <2>3, <2>4 DEF RingOnce, InHandOnce
  <2> QED
    BY <2>3, <2>5, <2>6 DEF InHandOnce
<1>5. ASSUME NEW t \in Threads, ThreadStep(t) \/ Spurious(t)
      PROVE  HeldOnce' /\ RingOnce' /\ InHandOnce'
  <2>0. /\ UNCHANGED <<mpc, sockClient>>
        /\ \A u \in Threads \ {t} : tpc'[u] = tpc[u] /\ sock'[u] = sock[u] /\ talk'[u] = talk[u]
    BY <1>5, ThreadDoes
  <2>1. CASE Sleep(t) \/ Spurious(t)
    <3>1. UNCHANGED <<sock, talk, fd, clientQueue, queueStart, queueEnd>>
      BY <2>1 DEF Sleep, Spurious, netVars
    <3>2. \A u \in Threads : tpc'[u] = tpc[u] \/ {tpc[u], tpc'[u]} \subseteq {"free", "asleep"}
      BY <1>0, <2>1 DEF Sleep, Spurious, Goto
    <3>3. \A u \in Threads : Holds(u)' <=> Holds(u)
      BY <3>1, <3>2 DEF Holds
    <3> QED
      BY <1>2, <2>0, <3>1, <3>2, <3>3, WaitingIsRing
  <2>2. CASE TakeSocket(t)
    <3>1. UNCHANGED fd /\ tpc[t] = "free" /\ tpc'[t] = "recv"
      BY <1>0, <2>2 DEF TakeSocket, Goto, netVars
    <3>2. /\ Waiting \in Seq(Sockets \cup {0}) /\ Waiting # <<>> /\ Waiting' = Tail(Waiting)
          /\ sock' = [sock EXCEPT ![t] = Head(Waiting)]
      BY <2>2, TakesOldest
    <3>3. IsInjective(Waiting)
      BY <1>1 DEF RingOnce
    <3>4. /\ Head(Waiting) \in Sockets \cup {0} /\ Contains(Waiting, Head(Waiting))
          /\ \A s : Contains(Waiting', s) <=> Contains(Waiting, s) /\ s # Head(Waiting)
          /\ IsInjective(Waiting')
      BY <3>2, <3>3, LeaveProperties
    <3> DEFINE h == Head(Waiting)
    <3>5. h \in DOMAIN fd /\ \A u \in Threads : Holds(u) => sock[u] # h
      BY <1>1, <3>4 DEF RingOnce
    <3>6. sock'[t] = h
      BY <1>0, <3>2
    <3> HIDE DEF h
    <3>7. \A u \in Threads \ {t} : Holds(u)' <=> Holds(u)
      BY <2>0, <3>1 DEF Holds
    <3>8. HeldOnce'
      BY <1>1, <2>0, <3>1, <3>5, <3>6, <3>7 DEF HeldOnce
    <3>9. RingOnce'
      BY <1>1, <2>0, <3>1, <3>4, <3>6, <3>7 DEF RingOnce, h
    <3>10. InHandOnce'
      BY <1>1, <2>0, <3>1, <3>4, <3>6, <3>7 DEF InHandOnce, h
    <3> QED
      BY <3>8, <3>9, <3>10
  <2>3. CASE Recv(t) \/ RecvMessage(t) \/ RecvEnd(t) \/ Send(t)
    <3>1. /\ \A u \in Threads : Holds(u)' <=> Holds(u)
          /\ UNCHANGED <<Waiting, sock, fd>> /\ talk'[t] = {fd[sock[t]]}
      BY <1>1, <2>3, HoldsUnchanged
    <3>2. HeldOnce'
      BY <1>1, <2>0, <3>1 DEF HeldOnce
    <3> QED
      BY <1>1, <2>0, <3>1, <3>2 DEF RingOnce, InHandOnce
  <2>4. CASE CloseFailed(t) \/ CloseLast(t)
    <3>1. /\ fd' = [s \in DOMAIN fd \ {sock[t]} |-> fd[s]]
          /\ tpc[t] \in {"close", "last"} /\ tpc'[t] = IF tpc[t] = "close" THEN "last" ELSE "free"
          /\ UNCHANGED <<sock, talk, Waiting>>
      BY <2>4, CloseDoes
    <3>2. sock[t] \in DOMAIN fd => Holds(t)
      <4>1. sock[t] \in DOMAIN fd => fd[sock[t]] \in talk[t]
        BY <2>4, CloseDoes
      <4> QED
        BY <3>1, <4>1 DEF Holds
    <3>3. ~Holds(t)'
      BY <3>1 DEF Holds
    <3>4. ASSUME NEW u \in Threads, Holds(u)'
          PROVE  u # t /\ Holds(u) /\ sock[u] \in DOMAIN fd'
      <4>1. u # t /\ Holds(u)
        BY <2>0, <3>1, <3>3, <3>4 DEF Holds
      <4>2. sock[u] \in DOMAIN fd /\ sock[u] # sock[t]
        BY <1>1, <3>2, <4>1 DEF HeldOnce
      <4> QED
        BY <3>1, <4>1, <4>2
    <3>5. \A r \in DOMAIN fd' : fd'[r] = fd[r]
      BY <3>1
    <3>6. \A r \in DOMAIN fd : r \in DOMAIN fd' \/ (Holds(t) /\ sock[t] = r)
      BY <3>1, <3>2
    <3>7. HeldOnce'
      <4>1. \A u \in Threads : tpc'[u] \in {"wait", "send", "close"} => Holds(u)'
        BY DEF Holds
      <4>2. \A u \in Threads : tpc'[u] \in {"wait", "send", "close"} => tpc'[u] = tpc[u]
        BY <2>0, <3>1
      <4> QED
        BY <1>1, <3>1, <3>4, <3>5, <4>1, <4>2 DEF HeldOnce
    <3>8. RingOnce'
      BY <1>1, <3>1, <3>4, <3>6 DEF RingOnce
    <3>9. InHandOnce'
      BY <1>1, <2>0, <3>1, <3>4, <3>6 DEF InHandOnce
    <3> QED
      BY <3>7, <3>8, <3>9
  <2> QED
    BY <1>5, <2>1, <2>2, <2>3, <2>4 DEF ThreadStep
<1>6. ASSUME NEW c \in Clients, Connect(c) \/ ClientStep(c) \/ Die(c)
      PROVE  HeldOnce' /\ RingOnce' /\ InHandOnce'
  <2>1. UNCHANGED <<mpc, sockClient, Waiting, tpc, sock, talk, fd>>
    BY <1>6, ClientMoves DEF serverVars
  <2>2. \A u \in Threads : Holds(u)' <=> Holds(u)
    BY <2>1 DEF Holds
  <2> QED
    BY <1>2, <2>1, <2>2
<1> QED
  BY <1>3, <1>4, <1>5, <1>6 DEF Next

\* No two threads meet on a connection before the first strike, and only a
\* client that was struck fails, for any number of threads, clients and slots.
THEOREM OnlyTheStruckSufferHolds == Spec => []OnlyTheStruckSuffer
<1>1. Init => SafeInv
  <2> SUFFICES ASSUME Init
               PROVE  SafeInv
    OBVIOUS
  <2>1. DOMAIN (<<>>) = {} /\ IsInjective(<<>>) /\ \A d : ~Contains(<<>>, d)
    BY EmptySeq DEF IsInjective, Contains
  <2>2. Waiting = <<>>
    <3>1. Inv /\ queueStart = 0 /\ queueEnd = 0 /\ 0 \in Slots
      BY InitInv, QueueAssumption DEF Init, Slots
    <3>2. Len(Waiting) = Used(0, 0)
      BY <3>1, RingTypes, RingIsSeq, WaitingIsRing
    <3> QED
      BY <3>1, <3>2, RingTypes, EmptySeq DEF Used
  <2>3. Untouched /\ Counted /\ Reached
    BY <2>1 DEF Init, Untouched, Counted, Reached
  <2>4. HeldOnce /\ RingOnce /\ InHandOnce
    BY <2>1, <2>2 DEF Init, HeldOnce, RingOnce, InHandOnce, Holds
  <2> QED
    BY <2>3, <2>4 DEF SafeInv, Unshared
<1>2. Inv /\ SafeInv /\ [Next]_vars => SafeInv'
  <2> SUFFICES ASSUME Inv, SafeInv, [Next]_vars
               PROVE  SafeInv'
    OBVIOUS
  <2>1. CASE Next
    BY <2>1, UntouchedKept, UnsharedKept, CountedKept, ReachedKept DEF SafeInv
  <2>2. CASE UNCHANGED vars
    <3>1. UNCHANGED <<mpc, sockClient, clientQueue, queueStart, queueEnd, tpc, sock, talk>>
      BY <2>2 DEF vars, serverVars
    <3>2. UNCHANGED <<fd, pending, cpc, outbox, struck>>
      BY <2>2 DEF vars, netVars
    <3>3. Waiting' = Waiting
      BY <3>1, WaitingIsRing
    <3>4. Untouched' /\ Counted' /\ Reached'
      BY <3>1, <3>2 DEF SafeInv, Untouched, Counted, Reached, Waits, Working, Served, Gone
    <3>5. Unshared'
      BY <3>1, <3>2, <3>3 DEF SafeInv, Unshared, HeldOnce, RingOnce, InHandOnce, Holds
    <3> QED
      BY <3>4, <3>5 DEF SafeInv
  <2> QED
    BY <2>1, <2>2
<1>3. SafeInv => OnlyTheStruckSuffer
  <2> SUFFICES ASSUME SafeInv
               PROVE  OnlyTheStruckSuffer
    OBVIOUS
  <2>1. ASSUME NEW t \in Threads, NEW u \in Threads, t # u,
               {tpc[t], tpc[u]} \subseteq {"wait", "send"}, talk[t] \cap talk[u] # {}, struck = {}
        PROVE  FALSE
    <3>1. HeldOnce /\ IsInjective(fd)
      BY <2>1 DEF SafeInv, Unshared, Untouched
    <3>2. /\ Holds(t) /\ sock[t] \in DOMAIN fd /\ talk[t] = {fd[sock[t]]}
          /\ Holds(u) /\ sock[u] \in DOMAIN fd /\ talk[u] = {fd[sock[u]]}
      BY <2>1, <3>1 DEF HeldOnce, Holds
    <3>3. sock[t] = sock[u]
      BY <2>1, <3>1, <3>2 DEF IsInjective
    <3> QED
      BY <2>1, <3>1, <3>2, <3>3 DEF HeldOnce
  <2>2. \A c \in Clients : cpc[c] = "failed" => c \in struck
    BY DEF SafeInv, Reached
  <2> QED
    BY <2>1, <2>2 DEF OnlyTheStruckSuffer
<1> QED
  BY <1>1, <1>2, <1>3, InitInv, NextInv, PTL DEF Spec
===============================================================================
