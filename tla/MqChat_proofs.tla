----------------------------- MODULE MqChat_proofs -----------------------------
(***************************************************************************)
(* Proofs about MqChat, for every set of clients and every size of the     *)
(* queues: its type invariant; a user number has one owner; a client that  *)
(* logged in finds its queues, the list of users agrees with the users,    *)
(* the last to leave is the last to run, what a user says is said under    *)
(* its name, no login is lost but where the code loses it, whoever listens *)
(* is woken but for the race of mq_notify, no line is lost out of sight,   *)
(* and lines are printed in the order in which they were said.             *)
(***************************************************************************)
EXTENDS MqChat, SequenceFacts

(***************************************************************************)
(* Queues: what sending to and receiving from a queue of PosixQueue does,  *)
(* for every queue.                                                        *)
(***************************************************************************)
\* A nonempty queue has an oldest message of the highest priority.
LEMMA TopExists ==
  ASSUME NEW M, NEW q \in Seq(M), q # <<>>, NEW P \in Nat,
         \A m \in M : m.prio \in 0 .. P
  PROVE  \E k \in DOMAIN q : \A j \in DOMAIN q :
            q[j].prio < q[k].prio \/ (q[j].prio = q[k].prio /\ k <= j)
<1>1. DOMAIN q = 1 .. Len(q) /\ Len(q) \in Nat \ {0}
  BY LenProperties, EmptySeq
<1>2. \A k \in DOMAIN q : q[k].prio \in 0 .. P
  BY <1>1, ElementOfSeq
<1> DEFINE T == {P - q[k].prio : k \in DOMAIN q}
<1>3. T \in SUBSET (0 .. P) /\ T # {}
  BY <1>1, <1>2
<1>4. PICK t \in T : \A u \in T : t <= u
  BY <1>3, LeastNat
<1>5. ASSUME NEW j \in DOMAIN q
      PROVE  q[j].prio <= P - t
  <2>1. P - q[j].prio \in T /\ t \in 0 .. P
    BY <1>3
  <2>2. t <= P - q[j].prio
    BY <2>1, <1>4
  <2> QED
    BY <2>1, <2>2, <1>2
<1> DEFINE K == {k \in DOMAIN q : q[k].prio = P - t}
<1>6. K \in SUBSET (0 .. Len(q)) /\ K # {}
  BY <1>1, <1>2, <1>3
<1>7. PICK k \in K : \A j \in K : k <= j
  BY <1>1, <1>6, LeastNat
<1>8. \A j \in DOMAIN q : q[j].prio < q[k].prio \/ (q[j].prio = q[k].prio /\ k <= j)
  BY <1>2, <1>3, <1>5, <1>7
<1>9. k \in DOMAIN q
  OBVIOUS
<1> HIDE DEF T, K
<1> QED
  BY <1>8, <1>9

\* mq_receive on a nonempty queue takes one of its messages.
LEMMA TopInQueue ==
  ASSUME NEW M, NEW q \in Seq(M), q # <<>>, NEW P \in Nat,
         \A m \in M : m.prio \in 0 .. P
  PROVE  Top(q) \in 1 .. Len(q)
<1>1. DOMAIN q = 1 .. Len(q)
  BY LenProperties
<1> QED
  BY <1>1, TopExists DEF Top

\* mq_receive returns a message of the queue and leaves all the others: each
\* position of what remains is a different position of the queue, none of them
\* the one that was taken.
LEMMA ReceiveProperties ==
  ASSUME NEW M, NEW q \in Seq(M), q # <<>>, NEW P \in Nat,
         \A m \in M : m.prio \in 0 .. P
  PROVE  /\ Top(q) \in 1 .. Len(q)
         /\ Received(q) \in M
         /\ Remaining(q) \in Seq(M)
         /\ Len(Remaining(q)) = Len(q) - 1
         /\ \A i \in 1 .. Len(q) - 1 :
              Remaining(q)[i] = IF i < Top(q) THEN q[i] ELSE q[i + 1]
<1>1. Top(q) \in 1 .. Len(q)
  BY TopInQueue
<1>2. q[Top(q)] \in M
  BY <1>1, ElementOfSeq
<1> QED
  BY <1>1, <1>2, RemoveAtProperties DEF Received, Remaining

\* A send keeps what the queue holds and adds m behind it, or drops m.
LEMMA OfferProperties ==
  ASSUME NEW M, NEW q \in Seq(M), NEW m \in M, NEW max \in Nat
  PROVE  /\ Offer(q, max, m) \in Seq(M)
         /\ Offer(q, max, m) = q \/ Offer(q, max, m) = Append(q, m)
  BY AppendProperties DEF Offer

\* The position mq_receive takes from holds a message of the highest priority.
LEMMA TopIsHighest ==
  ASSUME NEW M, NEW q \in Seq(M), q # <<>>, NEW P \in Nat,
         \A m \in M : m.prio \in 0 .. P
  PROVE  \A j \in DOMAIN q : q[j].prio <= q[Top(q)].prio
<1>1. DOMAIN q = 1 .. Len(q) /\ Len(q) \in Nat \ {0}
  BY LenProperties, EmptySeq
<1>2. \A k \in DOMAIN q : q[k].prio \in 0 .. P
  BY <1>1, ElementOfSeq
<1>3. \E k \in DOMAIN q : \A j \in DOMAIN q :
        q[j].prio < q[k].prio \/ (q[j].prio = q[k].prio /\ k <= j)
  BY TopExists
<1>4. /\ Top(q) \in DOMAIN q
      /\ \A j \in DOMAIN q :
           q[j].prio < q[Top(q)].prio \/ (q[j].prio = q[Top(q)].prio /\ Top(q) <= j)
  BY <1>3 DEF Top
<1> QED
  BY <1>2, <1>4

\* What mq_receive takes and what it leaves, message by message: it takes one
\* of the highest priority, and every other message is still there.
LEMMA TakenAndLeft ==
  ASSUME NEW M, NEW q \in Seq(M), q # <<>>, NEW P \in Nat,
         \A m \in M : m.prio \in 0 .. P
  PROVE  /\ Received(q) \in M /\ Contains(q, Received(q)) /\ Remaining(q) \in Seq(M)
         /\ \A m : Contains(Remaining(q), m) => Contains(q, m)
         /\ \A m : Contains(q, m) => m = Received(q) \/ Contains(Remaining(q), m)
         /\ \A m : Contains(q, m) => m.prio <= Received(q).prio
<1> DEFINE t == Top(q)
           r == Remaining(q)
<1>1. /\ t \in 1 .. Len(q) /\ Received(q) = q[t] /\ Received(q) \in M
      /\ r \in Seq(M) /\ Len(r) = Len(q) - 1
      /\ \A i \in 1 .. Len(q) - 1 : r[i] = IF i < t THEN q[i] ELSE q[i + 1]
  BY ReceiveProperties DEF Received
<1>2. Len(q) \in Nat /\ DOMAIN q = 1 .. Len(q)
  BY LenProperties
<1>3. \A j \in DOMAIN q : q[j].prio <= q[t].prio
  BY TopIsHighest
<1> HIDE DEF t, r
<1>4. ASSUME NEW m, Contains(r, m)
      PROVE  Contains(q, m)
  BY <1>1, <1>2, <1>4 DEF Contains
<1>5. ASSUME NEW m, Contains(q, m)
      PROVE  (m = Received(q) \/ Contains(r, m)) /\ m.prio <= Received(q).prio
  <2>1. PICK j \in 1 .. Len(q) : q[j] = m
    BY <1>5 DEF Contains
  <2>2. CASE j < t
    <3>1. j \in 1 .. Len(r) /\ r[j] = m
      BY <1>1, <1>2, <2>1, <2>2
    <3> QED
      BY <1>1, <1>2, <1>3, <2>1, <3>1 DEF Contains
  <2>3. CASE j = t
    BY <1>1, <1>2, <1>3, <2>1, <2>3
  <2>4. CASE j > t
    <3>1. j - 1 \in 1 .. Len(r) /\ r[j - 1] = m
      BY <1>1, <1>2, <2>1, <2>4
    <3> QED
      BY <1>1, <1>2, <1>3, <2>1, <3>1 DEF Contains
  <2> QED
    BY <1>1, <1>2, <2>1, <2>2, <2>3, <2>4
<1> QED
  BY <1>1, <1>2, <1>4, <1>5 DEF r, Contains

\* What a queue holds after a send.
LEMMA OfferHolds ==
  ASSUME NEW M, NEW q \in Seq(M), NEW m \in M, NEW max \in Nat
  PROVE  /\ \A x : Contains(Offer(q, max, m), x) => Contains(q, x) \/ x = m
         /\ \A x : Contains(q, x) => Contains(Offer(q, max, m), x)
         /\ HasRoom(q, max) => Contains(Offer(q, max, m), m)
BY JoinProperties DEF Offer

\* Among the messages of its priority mq_receive takes the one that came first.
LEMMA TopIsFirst ==
  ASSUME NEW M, NEW q \in Seq(M), q # <<>>, NEW P \in Nat,
         \A m \in M : m.prio \in 0 .. P
  PROVE  \A j \in DOMAIN q : q[j].prio = q[Top(q)].prio => Top(q) <= j
<1>1. DOMAIN q = 1 .. Len(q) /\ \A k \in DOMAIN q : q[k].prio \in 0 .. P
  BY LenProperties, ElementOfSeq
<1>2. \E k \in DOMAIN q : \A j \in DOMAIN q :
        q[j].prio < q[k].prio \/ (q[j].prio = q[k].prio /\ k <= j)
  BY TopExists
<1>3. /\ Top(q) \in DOMAIN q
      /\ \A j \in DOMAIN q :
           q[j].prio < q[Top(q)].prio \/ (q[j].prio = q[Top(q)].prio /\ Top(q) <= j)
  BY <1>2 DEF Top
<1> QED
  BY <1>1, <1>3

\* The messages of S are in q once each.
OnceIn(q, S) == \A j, k \in DOMAIN q : q[j] = q[k] /\ q[j] \in S => j = k

LEMMA OfferOnce ==
  ASSUME NEW M, NEW q \in Seq(M), NEW m \in M, NEW max \in Nat, NEW S,
         OnceIn(q, S), m \in S => ~Contains(q, m)
  PROVE  OnceIn(Offer(q, max, m), S)
<1>1. DOMAIN q = 1 .. Len(q)
  BY LenProperties
<1>2. m \in S => \A j \in DOMAIN q : q[j] # m
  BY <1>1 DEF Contains
<1>3. OnceIn(Append(q, m), S)
  BY <1>2, JoinedTo DEF OnceIn
<1> QED
  BY <1>3 DEF Offer

LEMMA ReceiveOnce ==
  ASSUME NEW M, NEW q \in Seq(M), q # <<>>, NEW P \in Nat,
         \A m \in M : m.prio \in 0 .. P, NEW S, OnceIn(q, S)
  PROVE  /\ OnceIn(Remaining(q), S)
         /\ Received(q) \in S => ~Contains(Remaining(q), Received(q))
<1> DEFINE t == Top(q)
           r == Remaining(q)
<1>1. /\ t \in 1 .. Len(q) /\ Received(q) = q[t]
      /\ r \in Seq(M) /\ Len(r) = Len(q) - 1
      /\ \A i \in 1 .. Len(q) - 1 : r[i] = IF i < t THEN q[i] ELSE q[i + 1]
  BY ReceiveProperties DEF Received
<1>2. Len(q) \in Nat /\ DOMAIN q = 1 .. Len(q) /\ DOMAIN r = 1 .. Len(q) - 1
  BY <1>1, LenProperties
<1> HIDE DEF t, r
<1>3. ASSUME NEW j \in DOMAIN r, NEW k \in DOMAIN r, r[j] = r[k], r[j] \in S
      PROVE  j = k
  <2> DEFINE at(i) == IF i < t THEN i ELSE i + 1
  <2>1. /\ at(j) \in DOMAIN q /\ at(k) \in DOMAIN q
        /\ r[j] = q[at(j)] /\ r[k] = q[at(k)]
    BY <1>1, <1>2
  <2>2. at(j) = at(k)
    BY <1>3, <2>1 DEF OnceIn
  <2> QED
    BY <1>1, <1>2, <2>2
<1>4. ASSUME q[t] \in S, NEW k \in DOMAIN r, r[k] = q[t]
      PROVE  FALSE
  <2>1. CASE k < t
    <3>1. k \in DOMAIN q /\ q[k] = q[t] /\ k # t
      BY <1>1, <1>2, <1>4, <2>1
    <3> QED
      BY <1>1, <1>2, <1>4, <3>1 DEF OnceIn
  <2>2. CASE ~(k < t)
    <3>1. k + 1 \in DOMAIN q /\ q[k + 1] = q[t] /\ k + 1 # t
      BY <1>1, <1>2, <1>4, <2>2
    <3> QED
      BY <1>1, <1>2, <1>4, <3>1 DEF OnceIn
  <2> QED
    BY <2>1, <2>2
<1>5. OnceIn(r, S)
  BY <1>3 DEF OnceIn
<1>6. Received(q) \in S => ~Contains(r, Received(q))
  BY <1>1, <1>2, <1>4 DEF Contains
<1> QED
  BY <1>5, <1>6 DEF r

USE DEF USER_PRIORITY, SERVER_PRIORYTY, MSG_PRIORYTY, USRNAME_PRIORITY,
        UPDUSER_PRIORITY, DISCONNECT_PRIORITY

(***************************************************************************)
(* Messages.                                                               *)
(***************************************************************************)
\* What a message of /login can be.
LEMMA LoginMsgFacts ==
  /\ Request \in LoginMsgs
  /\ \A i \in Nat : Answer(i) \in LoginMsgs /\ Answer(i).prio = SERVER_PRIORYTY /\ Answer(i).id = i
  /\ Request.prio = USER_PRIORITY
  /\ \A m \in LoginMsgs : /\ m.prio \in 0 .. 7
                          /\ m.prio = SERVER_PRIORYTY => m.id \in Nat
BY DEF LoginMsgs, Request, Answer

\* What a message of a client to the server can be.
LEMMA CtsMsgFacts ==
  /\ Bye \in CtsMsgs
  /\ \A c \in Clients : Name(c) \in CtsMsgs
  /\ \A t \in Texts : Typed(t) \in CtsMsgs
  /\ \A m \in CtsMsgs : /\ m.prio \in 0 .. 7
                        /\ m.prio = USRNAME_PRIORITY => m.login \in Clients
                        /\ m.prio = USER_PRIORITY => m.text \in Texts
BY DEF CtsMsgs, Bye, Name, Typed

\* What a message of the server to a client can be.
LEMMA StcMsgFacts ==
  /\ Bye \in StcMsgs /\ UsersList \in StcMsgs
  /\ \A l \in Logins, t \in Texts : Line(l, t) \in StcMsgs
  /\ \A m \in StcMsgs : m.prio \in 0 .. 7
  /\ NoMsg.prio = 0
BY DEF StcMsgs, Bye, UsersList, Line, NoMsg

(***************************************************************************)
(* Queues.                                                                 *)
(***************************************************************************)
\* Sending to a user's queue keeps the queues well formed.
LEMMA BroadcastTypes ==
  ASSUME TypeOK, NEW m \in StcMsgs, NEW to \in SUBSET DOMAIN users, Broadcast(m, to)
  PROVE  /\ stc' \in Seq(Seq(StcMsgs)) /\ Len(stc') = Len(stc)
         /\ missed' \subseteq Nat \X StcMsgs
         /\ notif' \in [Clients -> BOOLEAN]
         /\ hpc' \in [Clients -> HandlerPcs]
         /\ raced' \in [Clients -> BOOLEAN]
         /\ \A c \in Clients : /\ notif'[c] => notif[c]
                               /\ hpc'[c] # "none" => hpc[c] # "none" \/ notif[c]
<1> USE DEF TypeOK
<1>1. DOMAIN users = 1 .. Len(users) /\ DOMAIN stc = 1 .. Len(stc) /\ Len(stc) \in Nat
      /\ Len(users) = Len(stc)
  BY LenProperties DEF ServerTypeOK, QueuesTypeOK
<1>2. \A i \in DOMAIN stc : Offer(stc[i], UserMax, m) \in Seq(StcMsgs) /\ stc[i] \in Seq(StcMsgs)
  BY <1>1, ElementOfSeq, OfferProperties, UserMaxAssumption DEF QueuesTypeOK
<1>3. stc' \in Seq(Seq(StcMsgs)) /\ Len(stc') = Len(stc)
  BY <1>1, <1>2 DEF Broadcast
<1>4. missed' \subseteq Nat \X StcMsgs
  BY <1>1 DEF Broadcast, HistoryTypeOK
<1>5. notif' \in [Clients -> BOOLEAN] /\ raced' \in [Clients -> BOOLEAN]
  BY Zenon DEF Broadcast, HistoryTypeOK, QueuesTypeOK
<1>6. hpc' \in [Clients -> HandlerPcs]
  BY DEF Broadcast, ClientsTypeOK, HandlerPcs
<1>7. \A c \in Clients : /\ notif'[c] => notif[c]
                         /\ hpc'[c] # "none" => hpc[c] # "none" \/ notif[c]
  BY DEF Broadcast
<1> QED
  BY <1>3, <1>4, <1>5, <1>6, <1>7

\* Taking a message off /login: what it carried, and what is left, keep their
\* numbers apart.
LEMMA TakeLogin ==
  ASSUME NEW q \in Seq(LoginMsgs), q # <<>>
  PROVE  /\ Received(q) \in LoginMsgs /\ Remaining(q) \in Seq(LoginMsgs)
         /\ Received(q).prio = SERVER_PRIORYTY => \E k \in Answers(q) : q[k].id = Received(q).id
         /\ \A k \in Answers(Remaining(q)) : \E j \in Answers(q) : q[j].id = Remaining(q)[k].id
         /\ Distinct(q) => Distinct(Remaining(q))
         /\ Distinct(q) /\ Received(q).prio = SERVER_PRIORYTY =>
              \A k \in Answers(Remaining(q)) : Remaining(q)[k].id # Received(q).id
<1> DEFINE r == Remaining(q)
           t == Top(q)
           old(k) == IF k < t THEN k ELSE k + 1
<1>1. /\ t \in 1 .. Len(q) /\ Received(q) \in LoginMsgs
      /\ r \in Seq(LoginMsgs) /\ Len(r) = Len(q) - 1
      /\ \A i \in 1 .. Len(q) - 1 : r[i] = IF i < t THEN q[i] ELSE q[i + 1]
  BY ReceiveProperties, LoginMsgFacts
<1>2. DOMAIN q = 1 .. Len(q) /\ DOMAIN r = 1 .. Len(q) - 1 /\ Len(q) \in Nat
  BY <1>1, LenProperties
<1>3. Received(q) = q[t]
  BY DEF Received
<1> HIDE DEF r, t
<1>4. \A k \in DOMAIN r : old(k) \in DOMAIN q /\ old(k) # t /\ r[k] = q[old(k)]
  BY <1>1, <1>2
<1>5. \A j, k \in DOMAIN r : old(j) = old(k) => j = k
  BY <1>1, <1>2
<1> HIDE DEF old
<1>6. \A k \in Answers(r) : old(k) \in Answers(q) /\ r[k].id = q[old(k)].id /\ old(k) # t
  BY <1>4 DEF Answers
<1>7. Received(q).prio = SERVER_PRIORYTY => t \in Answers(q)
  BY <1>1, <1>2, <1>3 DEF Answers
<1>8. Distinct(q) => Distinct(r)
  BY <1>4, <1>5, <1>6 DEF Distinct, Answers
<1>9. Distinct(q) /\ Received(q).prio = SERVER_PRIORYTY =>
        \A k \in Answers(r) : r[k].id # Received(q).id
  BY <1>3, <1>6, <1>7 DEF Distinct
<1> QED
  BY <1>1, <1>3, <1>6, <1>7, <1>8, <1>9 DEF r

\* Appending to /login adds at most the number of the answer appended.
LEMMA PostLogin ==
  ASSUME NEW q \in Seq(LoginMsgs), NEW m \in LoginMsgs
  PROVE  /\ Append(q, m) \in Seq(LoginMsgs)
         /\ \A k \in Answers(Append(q, m)) :
              \/ k \in Answers(q) /\ Append(q, m)[k] = q[k]
              \/ k = Len(q) + 1 /\ Append(q, m)[k] = m /\ m.prio = SERVER_PRIORYTY
         /\ \A i \in Nat : Distinct(q) /\ m.id = i /\ (\A k \in Answers(q) : q[k].id # i)
                             => Distinct(Append(q, m))
         /\ Distinct(q) /\ m.prio # SERVER_PRIORYTY => Distinct(Append(q, m))
<1> DEFINE r == Append(q, m)
<1>1. /\ r \in Seq(LoginMsgs) /\ Len(r) = Len(q) + 1
      /\ \A i \in 1 .. Len(q) : r[i] = q[i]
      /\ r[Len(q) + 1] = m
  BY AppendProperties
<1>2. DOMAIN q = 1 .. Len(q) /\ DOMAIN r = 1 .. Len(q) + 1 /\ Len(q) \in Nat
  BY <1>1, LenProperties
<1> HIDE DEF r
<1>3. \A k \in Answers(r) : \/ k \in Answers(q) /\ r[k] = q[k]
                            \/ k = Len(q) + 1 /\ r[k] = m /\ m.prio = SERVER_PRIORYTY
  BY <1>1, <1>2 DEF Answers
<1>4. \A i \in Nat : Distinct(q) /\ m.id = i /\ (\A k \in Answers(q) : q[k].id # i) => Distinct(r)
  BY <1>3 DEF Distinct
<1>5. Distinct(q) /\ m.prio # SERVER_PRIORYTY => Distinct(r)
  BY <1>3 DEF Distinct
<1> QED
  BY <1>1, <1>3, <1>4, <1>5 DEF r

\* Taking a message off a user's queue, at whatever end.
LEMMA TakeUserQueue ==
  ASSUME NEW M, NEW qs \in Seq(Seq(M)), NEW i \in DOMAIN qs, qs[i] # <<>>,
         \A m \in M : m.prio \in 0 .. 7
  PROVE  /\ [qs EXCEPT ![i] = Remaining(@)] \in Seq(Seq(M))
         /\ Len([qs EXCEPT ![i] = Remaining(@)]) = Len(qs)
         /\ Received(qs[i]) \in M
<1>1. i \in 1 .. Len(qs)
  BY LenProperties
<1>2. qs[i] \in Seq(M)
  BY <1>1, ElementOfSeq
<1>3. Remaining(qs[i]) \in Seq(M) /\ Received(qs[i]) \in M
  BY <1>2, ReceiveProperties
<1> QED
  BY <1>1, <1>3, ExceptSeq

\* A client's send to its cts queue.
LEMMA SentCtsTypes ==
  ASSUME TypeOK, NEW c \in Clients, NEW m \in CtsMsgs
  PROVE  SentCts(c, m) \in Seq(Seq(CtsMsgs)) /\ Len(SentCts(c, m)) = Len(cts)
<1>1. DOMAIN users = 1 .. Len(users) /\ DOMAIN cts = 1 .. Len(cts) /\ Len(users) = Len(cts)
  BY LenProperties DEF TypeOK, ServerTypeOK, QueuesTypeOK
<1>2. cts \in Seq(Seq(CtsMsgs))
  BY DEF TypeOK, QueuesTypeOK
<1>3. CASE cid[c] \in linked
  <2>1. cid[c] \in 1 .. Len(cts)
    BY <1>1, <1>3 DEF TypeOK, QueuesTypeOK
  <2>2. Offer(cts[cid[c]], UserMax, m) \in Seq(CtsMsgs)
    BY <2>1, <1>2, ElementOfSeq, OfferProperties, UserMaxAssumption
  <2> QED
    BY <1>2, <1>3, <2>1, <2>2, ExceptSeq DEF SentCts
<1>4. CASE cid[c] \notin linked
  BY <1>2, <1>4 DEF SentCts
<1> QED
  BY <1>3, <1>4

\* What a client's exit leaves behind.
LEMMA LeaveTypes ==
  ASSUME TypeOK, NEW c \in Clients, Leave(c)
  PROVE  /\ cts' \in Seq(Seq(CtsMsgs)) /\ Len(cts') = Len(cts)
         /\ cpc' \in [Clients -> ClientPcs] /\ hpc' \in [Clients -> HandlerPcs]
         /\ notif' \in [Clients -> BOOLEAN]
         /\ rcv_buf' \in [Clients -> StcMsgs \cup {NoMsg}]
         /\ buf' \in [Clients -> StcMsgs \cup {NoMsg}]
         /\ cpc' = [cpc EXCEPT ![c] = "exited"]
         /\ hpc' = [hpc EXCEPT ![c] = "none"] /\ notif' = [notif EXCEPT ![c] = FALSE]
<1>1. cts' \in Seq(Seq(CtsMsgs)) /\ Len(cts') = Len(cts)
  BY SentCtsTypes, CtsMsgFacts DEF Leave, TypeOK, QueuesTypeOK
<1>2. /\ cpc' \in [Clients -> ClientPcs] /\ hpc' \in [Clients -> HandlerPcs]
      /\ notif' \in [Clients -> BOOLEAN]
      /\ rcv_buf' \in [Clients -> StcMsgs \cup {NoMsg}]
      /\ buf' \in [Clients -> StcMsgs \cup {NoMsg}]
  BY DEF Leave, Goto, TypeOK, ClientsTypeOK, QueuesTypeOK, ClientPcs, HandlerPcs
<1> QED
  BY <1>1, <1>2 DEF Leave, Goto

(***************************************************************************)
(* The inductive invariant.                                                *)
(***************************************************************************)
Inv == TypeOK /\ OneOwner /\ NumbersKnown

USE DEF serverVars, queueVars, clientVars, historyVars

\* The programs start in the invariant.
LEMMA InitInv == Init => Inv
<1> SUFFICES ASSUME Init PROVE Inv
  OBVIOUS
<1>1. TypeOK
  BY EmptySeq DEF Init, TypeOK, ServerTypeOK, QueuesTypeOK, ClientsTypeOK, HistoryTypeOK,
     ServerPcs, ClientPcs, HandlerPcs
<1>2. OneOwner /\ NumbersKnown
  BY DEF Init, OneOwner, NumbersKnown, Distinct, Answers, Unnumbered, Numbered
<1> QED
  BY <1>1, <1>2 DEF Inv

\* A client with a number has its queues in the model.
LEMMA OwnQueue ==
  ASSUME Inv, NEW c \in Clients, cid[c] # 0
  PROVE  cid[c] \in DOMAIN stc /\ cid[c] \in DOMAIN cts
BY LenProperties DEF Inv, TypeOK, ServerTypeOK, QueuesTypeOK, NumbersKnown

\* A step that leaves the numbers alone keeps their owners.
LEMMA OwnersFrame ==
  ASSUME OneOwner, UNCHANGED <<login_q, hand, cid>>
  PROVE  OneOwner'
BY DEF OneOwner, Distinct, Answers

\* Nor does it change what is known of them, if it starts no handler and
\* registers nothing for a client without a number.
LEMMA NumbersFrame ==
  ASSUME NumbersKnown, UNCHANGED <<login_q, hand, cid>>, DOMAIN users' = DOMAIN users,
         spc' \in {"reans", "answer", "list"} => UNCHANGED <<spc, users>>,
         \A c \in Clients :
           /\ cpc'[c] \in Unnumbered => cpc[c] \in Unnumbered
           /\ cpc'[c] \in Numbered => cid[c] # 0
           /\ hpc'[c] # "none" \/ notif'[c] => cid[c] # 0
  PROVE  NumbersKnown'
<1>1. /\ spc' = "reans" => hand' # 0
      /\ spc' \in {"answer", "list"} => users' # <<>>
  BY DEF NumbersKnown
<1>2. spc' = "answer" =>
        /\ users'[Len(users')].id = Len(users')
        /\ hand' # Len(users')
        /\ \A c \in Clients : cid'[c] # Len(users')
        /\ \A k \in Answers(login_q)' : login_q'[k].id # Len(users')
  BY DEF NumbersKnown, Answers
<1>3. \A c \in Clients :
        /\ cid'[c] \in DOMAIN users' \cup {0}
        /\ cpc'[c] \in Unnumbered => cid'[c] = 0
        /\ cpc'[c] \in Numbered => cid'[c] # 0
        /\ hpc'[c] # "none" \/ notif'[c] => cid'[c] # 0
  BY DEF NumbersKnown
<1>4. /\ \A k \in Answers(login_q)' : login_q'[k].id \in DOMAIN users'
      /\ hand' \in DOMAIN users' \cup {0}
  BY DEF NumbersKnown, Answers
<1> QED
  BY <1>1, <1>2, <1>3, <1>4 DEF NumbersKnown

(***************************************************************************)
(* The server's steps.                                                     *)
(***************************************************************************)
\* The server's steps that leave /login alone, user by user.
LEMMA ServerQuietInv ==
  ASSUME Inv, ServerStart \/ PollLogin \/ EndScan \/ SkipUser
  PROVE  Inv'
<1> USE DEF Inv, ServerStart, PollLogin, StartScan, EndScan, SkipUser
<1>1. TypeOK'
  <2>1. ServerTypeOK'
    BY DEF TypeOK, ServerTypeOK, ServerPcs
  <2>2. QueuesTypeOK' /\ ClientsTypeOK' /\ HistoryTypeOK'
    BY DEF TypeOK, QueuesTypeOK, ClientsTypeOK, HistoryTypeOK
  <2> QED
    BY <2>1, <2>2 DEF TypeOK
<1>2. OneOwner'
  BY OwnersFrame
<1>3. NumbersKnown'
  <2>1. /\ UNCHANGED <<login_q, hand, cid, cpc, hpc, notif, users>>
        /\ spc' \notin {"reans", "answer", "list"}
        \/ UNCHANGED <<login_q, hand, cid, cpc, hpc, notif, users, spc>>
    OBVIOUS
  <2> QED
    BY <2>1, NumbersFrame DEF NumbersKnown
<1> QED
  BY <1>1, <1>2, <1>3

\* The server takes one of its own answers off /login.
LEMMA TakeOwnAnswerInv == ASSUME Inv, TakeOwnAnswer PROVE Inv'
<1> USE DEF Inv, TakeOwnAnswer
<1>1. login_q \in Seq(LoginMsgs) /\ login_q # <<>> /\ Distinct(login_q)
  BY DEF TypeOK, QueuesTypeOK, OneOwner
<1>2. /\ hand' \in DOMAIN users /\ hand' \in Nat
      /\ login_q' \in Seq(LoginMsgs)
      /\ Distinct(login_q)'
      /\ \A k \in Answers(login_q') : login_q'[k].id # hand'
      /\ \E k \in Answers(login_q) : login_q[k].id = hand'
      /\ \A k \in Answers(login_q') : \E j \in Answers(login_q) : login_q[j].id = login_q'[k].id
  BY <1>1, TakeLogin, LoginMsgFacts, SMTT(30) DEF NumbersKnown, Distinct
<1>3. TypeOK'
  <2>1. ServerTypeOK'
    BY <1>2 DEF TypeOK, ServerTypeOK, ServerPcs
  <2>2. QueuesTypeOK' /\ ClientsTypeOK' /\ HistoryTypeOK'
    BY <1>2 DEF TypeOK, QueuesTypeOK, ClientsTypeOK, HistoryTypeOK
  <2> QED
    BY <2>1, <2>2 DEF TypeOK
<1>4. OneOwner'
  BY <1>2 DEF OneOwner
<1>5. hand' # 0
  BY <1>2, LenProperties DEF TypeOK, ServerTypeOK
<1>6. NumbersKnown'
  BY <1>2, <1>5 DEF NumbersKnown
<1> QED
  BY <1>3, <1>4, <1>6

\* Sending an answer with a number nobody holds and no answer on /login carries.
LEMMA PostAnswerOwners ==
  ASSUME Inv, NEW i \in DOMAIN users, PostAnswer(i),
         \A c \in Clients : cid[c] # i,
         \A k \in Answers(login_q) : login_q[k].id # i
  PROVE  /\ login_q' \in Seq(LoginMsgs) /\ lost' \in Nat
         /\ Distinct(login_q)'
         /\ \A k \in Answers(login_q') :
              login_q'[k].id = i \/ \E j \in Answers(login_q) : login_q[j].id = login_q'[k].id
<1>1. i \in Nat
  BY LenProperties DEF Inv, TypeOK, ServerTypeOK
<1>2. login_q \in Seq(LoginMsgs) /\ Distinct(login_q) /\ lost \in Nat
  BY DEF Inv, TypeOK, QueuesTypeOK, HistoryTypeOK, OneOwner
<1>3. lost' \in Nat
  BY <1>2 DEF PostAnswer
<1>4. CASE login_q' = login_q
  BY <1>2, <1>3, <1>4
<1>5. CASE login_q' = Append(login_q, Answer(i))
  <2>1. Answer(i) \in LoginMsgs /\ Answer(i).id = i
    BY <1>1, LoginMsgFacts
  <2>2. Distinct(Append(login_q, Answer(i)))
    BY <1>1, <1>2, <2>1, PostLogin
  <2>3. \A k \in Answers(login_q') :
          login_q'[k].id = i \/ \E j \in Answers(login_q) : login_q[j].id = login_q'[k].id
    BY <1>2, <1>5, <2>1, PostLogin
  <2> QED
    BY <1>2, <1>3, <1>5, <2>1, <2>2, <2>3, PostLogin
<1> QED
  BY <1>4, <1>5 DEF PostAnswer, Offer

\* The server puts its own answer back.
LEMMA ReturnAnswerInv ==
  ASSUME Inv, ReturnAnswer
  PROVE  Inv'
<1> USE DEF Inv, ReturnAnswer, StartScan
<1>1. hand \in DOMAIN users /\ hand # 0 /\ PostAnswer(hand)
  BY DEF NumbersKnown
<1>2. /\ \A c \in Clients : cid[c] # hand
      /\ \A k \in Answers(login_q) : login_q[k].id # hand
  BY <1>1 DEF OneOwner
<1>3. /\ login_q' \in Seq(LoginMsgs) /\ lost' \in Nat
      /\ Distinct(login_q)'
      /\ \A k \in Answers(login_q') :
           login_q'[k].id = hand \/ \E j \in Answers(login_q) : login_q[j].id = login_q'[k].id
  BY <1>1, <1>2, PostAnswerOwners
<1>4. TypeOK'
  <2>1. ServerTypeOK'
    BY DEF TypeOK, ServerTypeOK, ServerPcs
  <2>2. QueuesTypeOK' /\ ClientsTypeOK' /\ HistoryTypeOK'
    BY <1>3 DEF TypeOK, QueuesTypeOK, ClientsTypeOK, HistoryTypeOK
  <2> QED
    BY <2>1, <2>2 DEF TypeOK
<1>5. \A k \in Answers(login_q') : login_q'[k].id \in DOMAIN users
  BY <1>1, <1>3 DEF NumbersKnown
<1>6. DOMAIN users = 1 .. Len(users)
  BY LenProperties DEF TypeOK, ServerTypeOK
<1>7. OneOwner'
  BY <1>2, <1>3, <1>5, <1>6 DEF OneOwner
<1>8. NumbersKnown'
  BY <1>3, <1>5 DEF NumbersKnown
<1> QED
  BY <1>4, <1>7, <1>8

\* The server registers a user under the next number.
LEMMA RegisterInv == ASSUME Inv, Register PROVE Inv'
<1> USE DEF Inv, Register, NewId
<1> DEFINE n == Len(users) + 1
           u == [id |-> n, login |-> n]
<1>1. /\ DOMAIN users = 1 .. Len(users) /\ Len(users) \in Nat
      /\ Len(cts) = Len(users) /\ Len(stc) = Len(users)
      /\ login_q \in Seq(LoginMsgs) /\ login_q # <<>> /\ Distinct(login_q)
  BY LenProperties DEF TypeOK, ServerTypeOK, QueuesTypeOK, OneOwner
<1>2. u \in [id : {Gone} \cup Nat, login : Logins]
  BY <1>1 DEF Logins
<1>3. /\ users' \in Seq([id : {Gone} \cup Nat, login : Logins])
      /\ Len(users') = n /\ users'[n] = u
  BY <1>1, <1>2, AppendProperties DEF TypeOK, ServerTypeOK
<1>4. DOMAIN users' = 1 .. n
  BY <1>3, LenProperties
<1>5. /\ login_q' \in Seq(LoginMsgs) /\ Distinct(login_q)'
      /\ \A k \in Answers(login_q') : \E j \in Answers(login_q) : login_q[j].id = login_q'[k].id
  <2>1. login_q' = Remaining(login_q)
    OBVIOUS
  <2>2. /\ Remaining(login_q) \in Seq(LoginMsgs) /\ Distinct(Remaining(login_q))
        /\ \A k \in Answers(Remaining(login_q)) :
             \E j \in Answers(login_q) : login_q[j].id = Remaining(login_q)[k].id
    BY <1>1, TakeLogin
  <2> QED
    BY <2>1, <2>2 DEF Distinct
<1>6. TypeOK'
  <2>1. ServerTypeOK'
    BY <1>1, <1>3 DEF TypeOK, ServerTypeOK, ServerPcs
  <2>2. cts' \in Seq(Seq(CtsMsgs)) /\ Len(cts') = n
    BY <1>1, EmptySeq, AppendProperties DEF TypeOK, QueuesTypeOK
  <2>3. stc' \in Seq(Seq(StcMsgs)) /\ Len(stc') = n
    BY <1>1, EmptySeq, AppendProperties DEF TypeOK, QueuesTypeOK
  <2>4. linked' \subseteq DOMAIN users'
    BY <1>1, <1>4 DEF TypeOK, QueuesTypeOK
  <2>5. QueuesTypeOK'
    BY <1>3, <1>5, <2>2, <2>3, <2>4 DEF TypeOK, QueuesTypeOK
  <2>6. ClientsTypeOK' /\ HistoryTypeOK'
    BY DEF TypeOK, ClientsTypeOK, HistoryTypeOK
  <2> QED
    BY <2>1, <2>5, <2>6 DEF TypeOK
<1>7. OneOwner'
  BY <1>5 DEF OneOwner
<1>8. NumbersKnown'
  <2>1. DOMAIN users \subseteq DOMAIN users' /\ n \notin DOMAIN users /\ n # 0 /\ n \in DOMAIN users'
    BY <1>1, <1>4
  <2>2. \A k \in Answers(login_q') : login_q'[k].id \in DOMAIN users
    BY <1>5 DEF NumbersKnown
  <2>3. users' # <<>> /\ users'[Len(users')].id = Len(users')
    BY <1>3, <2>1, <1>4
  <2>4. spc' = "answer" /\ hand' = hand /\ cid' = cid /\ Len(users') = n
    BY <1>3
  <2>5. hand \in DOMAIN users \cup {0} /\ \A c \in Clients : cid[c] \in DOMAIN users \cup {0}
    BY DEF NumbersKnown
  <2> HIDE DEF n
  <2> QED
    BY <2>1, <2>2, <2>3, <2>4, <2>5 DEF NumbersKnown
<1> QED
  BY <1>6, <1>7, <1>8

\* The answer with the number just given.
LEMMA SendAnswerInv == ASSUME Inv, SendAnswer PROVE Inv'
<1> USE DEF Inv, SendAnswer
<1> DEFINE i == Len(users)
<1>1. /\ users # <<>> /\ users[i].id = i /\ DOMAIN users = 1 .. Len(users) /\ i \in DOMAIN users
      /\ i # hand /\ (\A c \in Clients : cid[c] # i)
      /\ \A k \in Answers(login_q) : login_q[k].id # i
  BY LenProperties, EmptySeq DEF NumbersKnown, TypeOK, ServerTypeOK
<1>2. PostAnswer(i)
  BY <1>1
<1> HIDE DEF i
<1>3. /\ login_q' \in Seq(LoginMsgs) /\ lost' \in Nat
      /\ Distinct(login_q)'
      /\ \A k \in Answers(login_q') :
           login_q'[k].id = i \/ \E j \in Answers(login_q) : login_q[j].id = login_q'[k].id
  BY <1>1, <1>2, PostAnswerOwners
<1>4. TypeOK'
  <2>1. ServerTypeOK'
    BY DEF TypeOK, ServerTypeOK, ServerPcs
  <2>2. QueuesTypeOK' /\ ClientsTypeOK' /\ HistoryTypeOK'
    BY <1>3 DEF TypeOK, QueuesTypeOK, ClientsTypeOK, HistoryTypeOK
  <2> QED
    BY <2>1, <2>2 DEF TypeOK
<1>5. OneOwner'
  BY <1>1, <1>3 DEF OneOwner
<1>6. NumbersKnown'
  BY <1>1, <1>3 DEF NumbersKnown
<1> QED
  BY <1>4, <1>5, <1>6

\* The server sends a list or a line to users: /login, the numbers and the
\* clients' main threads are not concerned.
LEMMA BroadcastInv ==
  ASSUME Inv, NEW m \in StcMsgs, NEW to \in SUBSET DOMAIN users, Broadcast(m, to),
         UNCHANGED <<hand, login_q, cpc, cid, typed, rcv_buf, buf>>,
         cts' \in Seq(Seq(CtsMsgs)), Len(cts') = Len(cts),
         linked' \subseteq linked, lost' \in Nat,
         Len(users') = Len(users), spc' \notin {"reans", "answer", "list"}, ServerTypeOK'
  PROVE  Inv'
<1> USE DEF Inv
<1>1. /\ stc' \in Seq(Seq(StcMsgs)) /\ Len(stc') = Len(stc)
      /\ missed' \subseteq Nat \X StcMsgs
      /\ notif' \in [Clients -> BOOLEAN]
      /\ hpc' \in [Clients -> HandlerPcs]
      /\ raced' \in [Clients -> BOOLEAN]
      /\ \A c \in Clients : /\ notif'[c] => notif[c]
                            /\ hpc'[c] # "none" => hpc[c] # "none" \/ notif[c]
  BY BroadcastTypes
<1>2. DOMAIN users' = DOMAIN users
  BY LenProperties DEF TypeOK, ServerTypeOK
<1>3. TypeOK'
  <2>1. QueuesTypeOK'
    BY <1>1, <1>2 DEF TypeOK, QueuesTypeOK
  <2>2. ClientsTypeOK' /\ HistoryTypeOK'
    BY <1>1 DEF TypeOK, ClientsTypeOK, HistoryTypeOK
  <2> QED
    BY <2>1, <2>2 DEF TypeOK
<1>4. OneOwner'
  BY OwnersFrame
<1>5. NumbersKnown'
  <2>1. \A c \in Clients :
          /\ cpc'[c] \in Unnumbered => cpc[c] \in Unnumbered
          /\ cpc'[c] \in Numbered => cid[c] # 0
          /\ hpc'[c] # "none" \/ notif'[c] => cid[c] # 0
    BY <1>1 DEF NumbersKnown
  <2> QED
    BY <1>2, <2>1, NumbersFrame
<1> QED
  BY <1>3, <1>4, <1>5

\* The entries of users.
LEMMA UserFacts ==
  ASSUME NEW us \in Seq([id : {Gone} \cup Nat, login : Logins]), NEW i \in DOMAIN us
  PROVE  us[i] \in [id : {Gone} \cup Nat, login : Logins] /\ us[i].login \in Logins
<1>1. us[i] \in [id : {Gone} \cup Nat, login : Logins]
  BY LenProperties, ElementOfSeq
<1> QED
  BY <1>1

\* The list of the logins of users.
LEMMA ListOfType ==
  ASSUME NEW us \in Seq([id : {Gone} \cup Nat, login : Logins])
  PROVE  \A i \in DOMAIN ListOf(us) : i \in DOMAIN us /\ ListOf(us)[i] \in Logins
BY UserFacts DEF ListOf, Active

\* The list goes to every active user, the new one appended.
LEMMA SendListInv == ASSUME Inv, SendList PROVE Inv'
<1> USE DEF Inv, SendList, StartScan
<1> DEFINE n == Len(users)
<1>1. n \in DOMAIN users
  BY LenProperties, EmptySeq DEF NumbersKnown, TypeOK, ServerTypeOK
<1>2. users[n].login \in Logins
  BY <1>1, UserFacts DEF TypeOK, ServerTypeOK
<1>3. \A i \in DOMAIN users_list' : i \in DOMAIN users' /\ users_list'[i] \in Logins
  BY <1>1, <1>2 DEF TypeOK, ServerTypeOK
<1>4. ServerTypeOK'
  <2>1. spc' = "scan" /\ index' = 1 /\ UNCHANGED <<users, active_users, hand>>
    OBVIOUS
  <2> HIDE DEF SendList
  <2> QED
    BY <1>3, <2>1 DEF TypeOK, ServerTypeOK, ServerPcs
<1>5. Broadcast(UsersList, Active(users)) /\ UsersList \in StcMsgs /\ Active(users) \in SUBSET DOMAIN users
  BY StcMsgFacts DEF Active
<1> QED
  BY <1>4, <1>5, BroadcastInv DEF TypeOK, QueuesTypeOK, HistoryTypeOK

\* What TakeCts leaves, and what it took.
LEMMA TakeCtsTypes ==
  ASSUME Inv, NEW p, Hears(p)
  PROVE  /\ [cts EXCEPT ![index] = Remaining(@)] \in Seq(Seq(CtsMsgs))
         /\ Len([cts EXCEPT ![index] = Remaining(@)]) = Len(cts)
         /\ Received(cts[index]) \in CtsMsgs /\ Received(cts[index]).prio = p
         /\ index \in DOMAIN users /\ index \in Nat
         /\ users[index] \in [id : {Gone} \cup Nat, login : Logins]
<1>1. index \in DOMAIN cts /\ cts \in Seq(Seq(CtsMsgs)) /\ cts[index] # <<>>
  BY LenProperties DEF Hears, Inv, TypeOK, ServerTypeOK, QueuesTypeOK
<1>2. users[index] \in [id : {Gone} \cup Nat, login : Logins] /\ index \in Nat
  BY LenProperties, ElementOfSeq DEF Hears, Inv, TypeOK, ServerTypeOK
<1> QED
  BY <1>1, <1>2, TakeUserQueue, CtsMsgFacts DEF Hears

\* A line from a user goes to every user.
LEMMA HandleChatInv == ASSUME Inv, HandleChat PROVE Inv'
<1> USE DEF HandleChat, TakeCts
<1> DEFINE m == Line(users[index].login, Received(cts[index]).text)
<1>1. /\ cts' \in Seq(Seq(CtsMsgs)) /\ Len(cts') = Len(cts)
      /\ index \in Nat /\ m \in StcMsgs
  BY TakeCtsTypes, CtsMsgFacts, StcMsgFacts
<1>2. ServerTypeOK'
  BY <1>1 DEF Inv, TypeOK, ServerTypeOK
<1>3. Broadcast(m, Active(users)) /\ Active(users) \in SUBSET DOMAIN users
  BY DEF Active
<1>4. spc' \notin {"reans", "answer", "list"}
  BY DEF Hears
<1> HIDE DEF m
<1> QED
  BY <1>1, <1>2, <1>3, <1>4, BroadcastInv DEF Inv, TypeOK, QueuesTypeOK, HistoryTypeOK

\* A user's name replaces its login, and the list goes to every user.
LEMMA HandleNameInv == ASSUME Inv, HandleName PROVE Inv'
<1> USE DEF HandleName, Relist, TakeCts
<1>1. /\ cts' \in Seq(Seq(CtsMsgs)) /\ Len(cts') = Len(cts)
      /\ index \in Nat /\ index \in DOMAIN users
      /\ Received(cts[index]).login \in Logins
      /\ users[index] \in [id : {Gone} \cup Nat, login : Logins]
  BY TakeCtsTypes, CtsMsgFacts DEF Logins
<1>2. /\ users' \in Seq([id : {Gone} \cup Nat, login : Logins])
      /\ Len(users') = Len(users)
  <2>1. users \in Seq([id : {Gone} \cup Nat, login : Logins]) /\ index \in 1 .. Len(users)
    BY <1>1, LenProperties DEF Inv, TypeOK, ServerTypeOK
  <2>2. users' = [users EXCEPT ![index] = [users[index] EXCEPT !.login = Received(cts[index]).login]]
    BY <2>1
  <2>3. [users[index] EXCEPT !.login = Received(cts[index]).login]
          \in [id : {Gone} \cup Nat, login : Logins]
    BY <1>1
  <2> QED
    BY <2>1, <2>2, <2>3, ExceptSeq
<1>3. ServerTypeOK'
  <2>1. \A i \in DOMAIN users_list' : i \in DOMAIN users' /\ users_list'[i] \in Logins
    BY <1>2, ListOfType
  <2>2. /\ spc' = spc /\ index' \in Nat \ {0} /\ active_users' = active_users /\ hand' = hand
    BY <1>1
  <2> QED
    BY <1>2, <2>1, <2>2 DEF Inv, TypeOK, ServerTypeOK
<1>4. Broadcast(UsersList, Active(users)) /\ UsersList \in StcMsgs /\ Active(users) \in SUBSET DOMAIN users
  BY StcMsgFacts DEF Active
<1>5. spc' \notin {"reans", "answer", "list"}
  BY DEF Hears
<1> QED
  BY <1>1, <1>2, <1>3, <1>4, <1>5, BroadcastInv DEF Inv, TypeOK, QueuesTypeOK, HistoryTypeOK

\* What ForgetUser leaves.
LEMMA ForgetUserTypes ==
  ASSUME Inv, ForgetUser
  PROVE  /\ cts' \in Seq(Seq(CtsMsgs)) /\ Len(cts') = Len(cts)
         /\ linked' \subseteq linked
         /\ users' \in Seq([id : {Gone} \cup Nat, login : Logins])
         /\ Len(users') = Len(users) /\ DOMAIN users' = DOMAIN users
         /\ active_users' \in Int
         /\ index \in Nat
<1> USE DEF ForgetUser, Unlink
<1>1. /\ index \in 1 .. Len(users) /\ index \in 1 .. Len(cts) /\ index \in Nat
      /\ users[index] \in [id : {Gone} \cup Nat, login : Logins]
  BY TakeCtsTypes, LenProperties DEF Inv, TypeOK, ServerTypeOK, QueuesTypeOK
<1>2. cts' \in Seq(Seq(CtsMsgs)) /\ Len(cts') = Len(cts)
  BY <1>1, EmptySeq, ExceptSeq DEF Inv, TypeOK, QueuesTypeOK
<1>3. users' \in Seq([id : {Gone} \cup Nat, login : Logins]) /\ Len(users') = Len(users)
  <2>1. users' = [users EXCEPT ![index] = [users[index] EXCEPT !.id = Gone]]
    BY <1>1
  <2>2. [users[index] EXCEPT !.id = Gone] \in [id : {Gone} \cup Nat, login : Logins]
    BY <1>1
  <2> QED
    BY <1>1, <2>1, <2>2, ExceptSeq DEF Inv, TypeOK, ServerTypeOK
<1>4. DOMAIN users' = DOMAIN users
  BY <1>3, LenProperties DEF Inv, TypeOK, ServerTypeOK
<1> QED
  BY <1>1, <1>2, <1>3, <1>4 DEF Inv, TypeOK, ServerTypeOK

\* A user leaves and others stay.
LEMMA HandleByeInv == ASSUME Inv, HandleBye PROVE Inv'
<1> USE DEF HandleBye, Relist
<1>1. /\ cts' \in Seq(Seq(CtsMsgs)) /\ Len(cts') = Len(cts)
      /\ linked' \subseteq linked
      /\ users' \in Seq([id : {Gone} \cup Nat, login : Logins])
      /\ Len(users') = Len(users) /\ DOMAIN users' = DOMAIN users
      /\ active_users' \in Int
      /\ index \in Nat
  BY ForgetUserTypes
<1>2. ServerTypeOK'
  <2>1. \A i \in DOMAIN users_list' : i \in DOMAIN users' /\ users_list'[i] \in Logins
    BY <1>1, ListOfType
  <2>2. spc' = spc /\ index' \in Nat \ {0} /\ hand' = hand
    BY <1>1
  <2> HIDE DEF HandleBye, Relist
  <2> QED
    BY <1>1, <2>1, <2>2 DEF Inv, TypeOK, ServerTypeOK
<1>3. Broadcast(UsersList, Active(users')) /\ UsersList \in StcMsgs /\ Active(users') \in SUBSET DOMAIN users
  BY <1>1, StcMsgFacts DEF Active
<1>4. spc' \notin {"reans", "answer", "list"}
  BY DEF ForgetUser, Hears
<1>5. UNCHANGED <<hand, login_q, cpc, cid, typed, rcv_buf, buf, lost>>
  OBVIOUS
<1> HIDE DEF HandleBye, Relist
<1> QED
  BY <1>1, <1>2, <1>3, <1>4, <1>5, BroadcastInv DEF Inv, TypeOK, HistoryTypeOK

\* The last user leaves, and the server with it.
LEMMA HandleLastByeInv == ASSUME Inv, HandleLastBye PROVE Inv'
<1> USE DEF HandleLastBye
<1>1. /\ cts' \in Seq(Seq(CtsMsgs)) /\ Len(cts') = Len(cts)
      /\ linked' \subseteq linked
      /\ users' \in Seq([id : {Gone} \cup Nat, login : Logins])
      /\ Len(users') = Len(users) /\ DOMAIN users' = DOMAIN users
      /\ active_users' \in Int
  BY ForgetUserTypes
<1>2. /\ spc' = "left"
      /\ UNCHANGED <<index, users_list, hand, login_q, stc, notif, clientVars, historyVars>>
  OBVIOUS
<1> HIDE DEF HandleLastBye
<1>3. TypeOK'
  <2>1. ServerTypeOK'
    BY <1>1, <1>2 DEF Inv, TypeOK, ServerTypeOK, ServerPcs
  <2>2. QueuesTypeOK' /\ ClientsTypeOK' /\ HistoryTypeOK'
    BY <1>1, <1>2 DEF Inv, TypeOK, QueuesTypeOK, ClientsTypeOK, HistoryTypeOK
  <2> QED
    BY <2>1, <2>2 DEF TypeOK
<1>4. OneOwner'
  BY <1>2, OwnersFrame DEF Inv
<1>5. NumbersKnown'
  BY <1>1, <1>2, NumbersFrame DEF Inv, NumbersKnown
<1> QED
  BY <1>3, <1>4, <1>5 DEF Inv

\* The server is interrupted and says good-bye to its users.
LEMMA ServerExitInv == ASSUME Inv, ServerExit PROVE Inv'
<1> USE DEF ServerExit
<1>1. /\ spc' = "killed" /\ hand' = 0 /\ lost' \in Nat
      /\ UNCHANGED <<index, users, active_users, users_list, login_q,
                     cpc, cid, typed, rcv_buf, buf>>
  BY DEF Inv, TypeOK, HistoryTypeOK
<1>2. ServerTypeOK'
  BY <1>1 DEF Inv, TypeOK, ServerTypeOK, ServerPcs
<1>3. QueuesTypeOK' /\ ClientsTypeOK' /\ HistoryTypeOK'
      /\ \A c \in Clients : hpc'[c] # "none" \/ notif'[c] => cid[c] # 0
  <2>1. CASE active_users # 0
    <3>1. Broadcast(Bye, Active(users)) /\ Bye \in StcMsgs /\ Active(users) \in SUBSET DOMAIN users
      BY <2>1, StcMsgFacts DEF Active
    <3>2. /\ stc' \in Seq(Seq(StcMsgs)) /\ Len(stc') = Len(stc)
          /\ missed' \subseteq Nat \X StcMsgs
          /\ notif' \in [Clients -> BOOLEAN]
          /\ hpc' \in [Clients -> HandlerPcs]
          /\ raced' \in [Clients -> BOOLEAN]
          /\ \A c \in Clients : /\ notif'[c] => notif[c]
                                /\ hpc'[c] # "none" => hpc[c] # "none" \/ notif[c]
      BY <3>1, BroadcastTypes DEF Inv
    <3>3. cts' \in Seq(Seq(CtsMsgs)) /\ Len(cts') = Len(cts)
      <4>1. cts' = [i \in DOMAIN cts |-> <<>>]
        BY <2>1
      <4>2. DOMAIN cts = 1 .. Len(cts) /\ Len(cts) \in Nat /\ <<>> \in Seq(CtsMsgs)
        BY EmptySeq, LenProperties DEF Inv, TypeOK, QueuesTypeOK
      <4> HIDE DEF ServerExit
      <4> QED
        BY <4>1, <4>2
    <3>4. linked' \subseteq DOMAIN users
      BY <2>1 DEF Inv, TypeOK, QueuesTypeOK
    <3> QED
      BY <1>1, <3>2, <3>3, <3>4
      DEF Inv, TypeOK, QueuesTypeOK, ClientsTypeOK, HistoryTypeOK, NumbersKnown
  <2>2. CASE active_users = 0
    BY <1>1, <2>2 DEF Inv, TypeOK, QueuesTypeOK, ClientsTypeOK, HistoryTypeOK, NumbersKnown
  <2> QED
    BY <2>1, <2>2
<1> HIDE DEF ServerExit
<1>4. DOMAIN users = 1 .. Len(users)
  BY LenProperties DEF Inv, TypeOK, ServerTypeOK
<1>5. OneOwner'
  <2>1. \A k \in Answers(login_q) : login_q[k].id # 0
    BY <1>4 DEF Inv, NumbersKnown
  <2> QED
    BY <1>1, <2>1 DEF Inv, OneOwner, Distinct, Answers
<1>6. NumbersKnown'
  BY <1>1, <1>3 DEF Inv, NumbersKnown, Answers
<1> QED
  BY <1>2, <1>3, <1>5, <1>6 DEF Inv, TypeOK

(***************************************************************************)
(* The clients' steps.                                                     *)
(***************************************************************************)
\* A client's step that leaves /login, the server and the numbers alone: its
\* own queues and variables keep their types, and it does not log in anew.
LEMMA ClientFrame ==
  ASSUME Inv,
         UNCHANGED <<serverVars, login_q, linked, cid, raced, lost>>,
         cts' \in Seq(Seq(CtsMsgs)), Len(cts') = Len(cts),
         stc' \in Seq(Seq(StcMsgs)), Len(stc') = Len(stc),
         notif' \in [Clients -> BOOLEAN],
         missed' \subseteq Nat \X StcMsgs,
         ClientsTypeOK',
         \A c \in Clients :
           /\ cpc'[c] \in Unnumbered => cpc[c] \in Unnumbered
           /\ cpc'[c] \in Numbered => cid[c] # 0
           /\ hpc'[c] # "none" \/ notif'[c] => cid[c] # 0
  PROVE  Inv'
<1>1. ServerTypeOK'
  BY DEF Inv, TypeOK, ServerTypeOK
<1>2. QueuesTypeOK' /\ HistoryTypeOK'
  BY DEF Inv, TypeOK, QueuesTypeOK, HistoryTypeOK
<1>3. OneOwner'
  BY OwnersFrame DEF Inv
<1>4. NumbersKnown'
  BY NumbersFrame DEF Inv
<1> QED
  BY <1>1, <1>2, <1>3, <1>4 DEF Inv, TypeOK

\* A message from a client's own queue is one the server sends.
LEMMA TakeStcTypes ==
  ASSUME Inv, NEW c \in Clients, cid[c] # 0, stc[cid[c]] # <<>>, TakeStc(c)
  PROVE  /\ stc' \in Seq(Seq(StcMsgs)) /\ Len(stc') = Len(stc)
         /\ Received(stc[cid[c]]) \in StcMsgs
BY OwnQueue, TakeUserQueue, StcMsgFacts DEF TakeStc, Inv, TypeOK, QueuesTypeOK

\* A client leaves, from whatever step.
LEMMA LeaveInv ==
  ASSUME Inv, NEW c \in Clients, Leave(c),
         UNCHANGED <<serverVars, login_q, linked, cid, typed, said, missed, raced>>,
         lost' \in Nat,
         stc' \in Seq(Seq(StcMsgs)), Len(stc') = Len(stc)
  PROVE  Inv'
<1>1. /\ cts' \in Seq(Seq(CtsMsgs)) /\ Len(cts') = Len(cts)
      /\ cpc' \in [Clients -> ClientPcs] /\ hpc' \in [Clients -> HandlerPcs]
      /\ notif' \in [Clients -> BOOLEAN]
      /\ rcv_buf' \in [Clients -> StcMsgs \cup {NoMsg}]
      /\ buf' \in [Clients -> StcMsgs \cup {NoMsg}]
      /\ cpc' = [cpc EXCEPT ![c] = "exited"]
      /\ hpc' = [hpc EXCEPT ![c] = "none"] /\ notif' = [notif EXCEPT ![c] = FALSE]
  BY LeaveTypes DEF Inv
<1>2. TypeOK'
  <2>1. ServerTypeOK'
    BY DEF Inv, TypeOK, ServerTypeOK
  <2>2. QueuesTypeOK' /\ ClientsTypeOK' /\ HistoryTypeOK'
    BY <1>1 DEF Inv, TypeOK, QueuesTypeOK, ClientsTypeOK, HistoryTypeOK
  <2> QED
    BY <2>1, <2>2 DEF TypeOK
<1>3. OneOwner'
  BY OwnersFrame DEF Inv
<1>4. NumbersKnown'
  <2>1. \A d \in Clients :
          /\ cpc'[d] \in Unnumbered => cpc[d] \in Unnumbered
          /\ cpc'[d] \in Numbered => cid[d] # 0
          /\ hpc'[d] # "none" \/ notif'[d] => cid[d] # 0
    BY <1>1 DEF Inv, TypeOK, ClientsTypeOK, QueuesTypeOK, NumbersKnown, Unnumbered, Numbered
  <2> QED
    BY <2>1, NumbersFrame DEF Inv
<1> QED
  BY <1>2, <1>3, <1>4 DEF Inv

\* The client moves on without a change to any queue.
LEMMA MainQuietInv ==
  ASSUME Inv, NEW c \in Clients, OpenLogin(c) \/ Notify(c) \/ MainDone(c)
  PROVE  Inv'
<1> USE DEF OpenLogin, Notify, MainDone, Goto
<1>1. /\ UNCHANGED <<serverVars, login_q, cts, stc, linked, historyVars>>
      /\ UNCHANGED <<cid, typed, rcv_buf, hpc, buf, screen>>
      /\ \/ cpc[c] = "form" /\ cpc' = [cpc EXCEPT ![c] = "request"] /\ notif' = notif
         \/ cpc[c] = "notify" /\ cpc' = [cpc EXCEPT ![c] = "name"] /\ notif' = [notif EXCEPT ![c] = TRUE]
         \/ cpc[c] = "drain" /\ cpc' = [cpc EXCEPT ![c] = "chat"] /\ notif' = notif
  OBVIOUS
<1> HIDE DEF OpenLogin, Notify, MainDone, Goto
<1>2. ClientsTypeOK' /\ notif' \in [Clients -> BOOLEAN]
  BY <1>1 DEF Inv, TypeOK, ClientsTypeOK, QueuesTypeOK, ClientPcs
<1>3. \A d \in Clients :
        /\ cpc'[d] \in Unnumbered => cpc[d] \in Unnumbered
        /\ cpc'[d] \in Numbered => cid[d] # 0
        /\ hpc'[d] # "none" \/ notif'[d] => cid[d] # 0
  BY <1>1 DEF Inv, TypeOK, ClientsTypeOK, QueuesTypeOK, NumbersKnown, Unnumbered, Numbered
<1> QED
  BY <1>1, <1>2, <1>3, ClientFrame DEF Inv, TypeOK, QueuesTypeOK, HistoryTypeOK

\* The client sends to the server, its name or a line.
LEMMA MainSendInv ==
  ASSUME Inv, NEW c \in Clients, SendName(c) \/ Speak(c)
  PROVE  Inv'
<1>1. \E m \in CtsMsgs : cts' = SentCts(c, m)
  <2>1. CASE SendName(c)
    BY <2>1, CtsMsgFacts DEF SendName
  <2>2. CASE Speak(c)
    <3>1. [by |-> c, n |-> typed + 1] \in Texts
      BY DEF Inv, TypeOK, ClientsTypeOK, Texts
    <3> QED
      BY <2>2, <3>1, CtsMsgFacts DEF Speak
  <2> QED
    BY <2>1, <2>2
<1>2. cts' \in Seq(Seq(CtsMsgs)) /\ Len(cts') = Len(cts)
  BY <1>1, SentCtsTypes DEF Inv
<1>3. /\ UNCHANGED <<serverVars, login_q, stc, linked, notif, historyVars>>
      /\ UNCHANGED <<cid, rcv_buf, hpc, buf, screen>>
      /\ typed' \in Nat
      /\ \/ cpc[c] = "name" /\ cpc' = [cpc EXCEPT ![c] = "drain"]
         \/ cpc' = cpc
  BY DEF SendName, Speak, Goto, Inv, TypeOK, ClientsTypeOK
<1>4. ClientsTypeOK'
  BY <1>3 DEF Inv, TypeOK, ClientsTypeOK, ClientPcs
<1>5. \A d \in Clients :
        /\ cpc'[d] \in Unnumbered => cpc[d] \in Unnumbered
        /\ cpc'[d] \in Numbered => cid[d] # 0
        /\ hpc'[d] # "none" \/ notif'[d] => cid[d] # 0
  BY <1>3 DEF Inv, TypeOK, ClientsTypeOK, NumbersKnown, Unnumbered, Numbered
<1> QED
  BY <1>2, <1>3, <1>4, <1>5, ClientFrame DEF Inv, TypeOK, QueuesTypeOK, HistoryTypeOK

\* A request goes to /login: no number moves.
LEMMA PostRequestInv ==
  ASSUME Inv, NEW c \in Clients, SendRequest(c) \/ PutBack(c)
  PROVE  Inv'
<1>1. /\ login_q' = Append(login_q, Request)
      /\ cpc[c] \in {"request", "putback"} /\ cpc' = [cpc EXCEPT ![c] = "await"]
      /\ UNCHANGED <<serverVars, cts, stc, linked, notif, historyVars>>
      /\ UNCHANGED <<cid, typed, rcv_buf, hpc, buf, screen>>
  BY DEF SendRequest, PutBack, PostRequest, Goto
<1>2. login_q \in Seq(LoginMsgs) /\ Distinct(login_q)
  BY DEF Inv, TypeOK, QueuesTypeOK, OneOwner
<1>3. /\ login_q' \in Seq(LoginMsgs) /\ Distinct(login_q)'
      /\ \A k \in Answers(login_q') : k \in Answers(login_q) /\ login_q'[k] = login_q[k]
  <2>1. Request \in LoginMsgs /\ Request.prio # SERVER_PRIORYTY
    BY LoginMsgFacts
  <2>2. Distinct(Append(login_q, Request))
    BY <1>2, <2>1, PostLogin
  <2>3. \A k \in Answers(Append(login_q, Request)) :
          k \in Answers(login_q) /\ Append(login_q, Request)[k] = login_q[k]
    BY <1>2, <2>1, PostLogin
  <2>4. Distinct(login_q)'
    BY <1>1, <2>2 DEF Distinct
  <2> QED
    BY <1>1, <1>2, <2>1, <2>3, <2>4, PostLogin
<1>4. TypeOK'
  BY <1>1, <1>3 DEF Inv, TypeOK, ServerTypeOK, QueuesTypeOK, ClientsTypeOK, HistoryTypeOK, ClientPcs
<1>5. OneOwner'
  BY <1>1, <1>3 DEF Inv, OneOwner
<1>6. \A d \in Clients : cpc'[d] \in Unnumbered => cpc[d] \in Unnumbered
  BY <1>1 DEF Inv, TypeOK, ClientsTypeOK, Unnumbered
<1>7. \A d \in Clients : cpc'[d] \in Numbered => cpc[d] \in Numbered
  BY <1>1 DEF Inv, TypeOK, ClientsTypeOK, Numbered
<1>8. NumbersKnown'
  BY <1>1, <1>3, <1>6, <1>7 DEF Inv, NumbersKnown
<1> QED
  BY <1>4, <1>5, <1>8 DEF Inv

\* A client takes a request off /login.
LEMMA TakeRequestInv ==
  ASSUME Inv, NEW c \in Clients, TakeRequest(c)
  PROVE  Inv'
<1>1. /\ login_q # <<>> /\ login_q' = Remaining(login_q)
      /\ cpc[c] = "await" /\ cpc' = [cpc EXCEPT ![c] = "putback"]
      /\ UNCHANGED <<serverVars, cts, stc, linked, notif, historyVars>>
      /\ UNCHANGED <<cid, typed, rcv_buf, hpc, buf, screen>>
  BY DEF TakeRequest, Goto
<1>2. login_q \in Seq(LoginMsgs) /\ Distinct(login_q)
  BY DEF Inv, TypeOK, QueuesTypeOK, OneOwner
<1>3. /\ login_q' \in Seq(LoginMsgs) /\ Distinct(login_q)'
      /\ \A k \in Answers(login_q') : \E j \in Answers(login_q) : login_q[j].id = login_q'[k].id
  BY <1>1, <1>2, TakeLogin DEF Distinct
<1>4. TypeOK'
  BY <1>1, <1>3 DEF Inv, TypeOK, ServerTypeOK, QueuesTypeOK, ClientsTypeOK, HistoryTypeOK, ClientPcs
<1>5. OneOwner'
  BY <1>1, <1>3 DEF Inv, OneOwner
<1>6. \A d \in Clients : /\ cpc'[d] \in Unnumbered => cpc[d] \in Unnumbered
                         /\ cpc'[d] \in Numbered => cpc[d] \in Numbered
  BY <1>1 DEF Inv, TypeOK, ClientsTypeOK, Unnumbered, Numbered
<1>7. NumbersKnown'
  BY <1>1, <1>3, <1>6 DEF Inv, NumbersKnown
<1> QED
  BY <1>4, <1>5, <1>7 DEF Inv

\* A client takes an answer: the number leaves /login as it becomes the
\* client's.
LEMMA TakeAnswerInv ==
  ASSUME Inv, NEW c \in Clients, TakeAnswer(c)
  PROVE  Inv'
<1> DEFINE i == Received(login_q).id
<1>1. /\ login_q # <<>> /\ login_q' = Remaining(login_q)
      /\ Received(login_q).prio = SERVER_PRIORYTY
      /\ cid' = [cid EXCEPT ![c] = i]
      /\ cpc[c] = "await" /\ cpc' = [cpc EXCEPT ![c] = "openrcv"]
      /\ UNCHANGED <<serverVars, cts, stc, linked, notif, historyVars>>
      /\ UNCHANGED <<typed, rcv_buf, hpc, buf, screen>>
  BY DEF TakeAnswer, Goto
<1>2. login_q \in Seq(LoginMsgs) /\ Distinct(login_q)
  BY DEF Inv, TypeOK, QueuesTypeOK, OneOwner
<1>3. /\ login_q' \in Seq(LoginMsgs) /\ Distinct(login_q)'
      /\ \E k \in Answers(login_q) : login_q[k].id = i
      /\ \A k \in Answers(login_q') : \E j \in Answers(login_q) : login_q[j].id = login_q'[k].id
      /\ \A k \in Answers(login_q') : login_q'[k].id # i
  BY <1>1, <1>2, TakeLogin DEF Distinct
<1> HIDE DEF i
<1>4. i \in DOMAIN users /\ i # 0 /\ i \in Nat
  BY <1>3, LenProperties DEF Inv, NumbersKnown, TypeOK, ServerTypeOK
<1>5. i # hand /\ \A d \in Clients : cid[d] # i
  <2>1. ASSUME NEW d \in Clients, cid[d] = i
        PROVE  FALSE
    BY <1>3, <1>4, <2>1 DEF Inv, OneOwner
  <2> QED
    BY <1>3, <2>1 DEF Inv, OneOwner
<1>6. cid' \in [Clients -> Nat] /\ \A d \in Clients : cid'[d] = IF d = c THEN i ELSE cid[d]
  BY <1>1, <1>4 DEF Inv, TypeOK, ClientsTypeOK
<1>7. TypeOK'
  BY <1>1, <1>3, <1>6 DEF Inv, TypeOK, ServerTypeOK, QueuesTypeOK, ClientsTypeOK, HistoryTypeOK, ClientPcs
<1>8. OneOwner'
  BY <1>1, <1>3, <1>5, <1>6 DEF Inv, OneOwner
<1>9. \A d \in Clients : /\ cpc'[d] \in Unnumbered => cpc[d] \in Unnumbered /\ d # c
                         /\ cpc'[d] \in Numbered => cpc[d] \in Numbered \/ d = c
  BY <1>1 DEF Inv, TypeOK, ClientsTypeOK, Unnumbered, Numbered
<1>10. NumbersKnown'
  <2>1. spc = "answer" => i # Len(users)
    BY <1>3 DEF Inv, NumbersKnown
  <2> QED
    BY <1>1, <1>3, <1>4, <1>6, <1>9, <2>1 DEF Inv, NumbersKnown
<1> QED
  BY <1>7, <1>8, <1>10 DEF Inv

\* A client opens a queue of its own, or leaves when it is gone.
LEMMA OpenQueueInv ==
  ASSUME Inv, NEW c \in Clients, OpenRcv(c) \/ OpenSnd(c)
  PROVE  Inv'
<1>1. /\ cpc[c] \in {"openrcv", "opensnd"}
      /\ \/ /\ cpc' \in {[cpc EXCEPT ![c] = "opensnd"], [cpc EXCEPT ![c] = "notify"]}
            /\ UNCHANGED <<cts, notif, rcv_buf, hpc, buf, screen>>
         \/ Leave(c)
      /\ UNCHANGED <<serverVars, login_q, stc, linked, historyVars, cid, typed>>
  BY DEF OpenRcv, OpenSnd, OpenQueue, Goto
<1>2. CASE Leave(c)
  BY <1>1, <1>2, LeaveInv DEF Inv, TypeOK, QueuesTypeOK, HistoryTypeOK
<1>3. CASE /\ cpc' \in {[cpc EXCEPT ![c] = "opensnd"], [cpc EXCEPT ![c] = "notify"]}
           /\ UNCHANGED <<cts, notif, rcv_buf, hpc, buf, screen>>
  <2>1. ClientsTypeOK'
    BY <1>1, <1>3 DEF Inv, TypeOK, ClientsTypeOK, ClientPcs
  <2>2. \A d \in Clients :
          /\ cpc'[d] \in Unnumbered => cpc[d] \in Unnumbered
          /\ cpc'[d] \in Numbered => cid[d] # 0
          /\ hpc'[d] # "none" \/ notif'[d] => cid[d] # 0
    BY <1>1, <1>3 DEF Inv, TypeOK, ClientsTypeOK, NumbersKnown, Unnumbered, Numbered
  <2> QED
    BY <1>1, <1>3, <2>1, <2>2, ClientFrame DEF Inv, TypeOK, QueuesTypeOK, HistoryTypeOK
<1> QED
  BY <1>1, <1>2, <1>3

\* The main thread takes a message off its queue, shows it, or hears good-bye.
LEMMA MainReadInv ==
  ASSUME Inv, NEW c \in Clients, MainReceive(c) \/ MainShow(c) \/ MainReceiveBye(c)
  PROVE  Inv'
<1>1. CASE MainReceive(c)
  <2>1. /\ cpc[c] = "drain" /\ cpc' = [cpc EXCEPT ![c] = "show"]
        /\ stc[cid[c]] # <<>> /\ TakeStc(c)
        /\ rcv_buf' = [rcv_buf EXCEPT ![c] = Received(stc[cid[c]])]
        /\ UNCHANGED <<serverVars, login_q, cts, linked, notif, historyVars>>
        /\ UNCHANGED <<cid, typed, hpc, buf, screen>>
    BY <1>1 DEF MainReceive, Goto
  <2>2. cid[c] # 0
    BY <2>1 DEF Inv, NumbersKnown, Numbered
  <2>3. /\ stc' \in Seq(Seq(StcMsgs)) /\ Len(stc') = Len(stc)
        /\ Received(stc[cid[c]]) \in StcMsgs
    BY <2>1, <2>2, TakeStcTypes
  <2>4. ClientsTypeOK'
    BY <2>1, <2>3 DEF Inv, TypeOK, ClientsTypeOK, ClientPcs
  <2>5. \A d \in Clients :
          /\ cpc'[d] \in Unnumbered => cpc[d] \in Unnumbered
          /\ cpc'[d] \in Numbered => cid[d] # 0
          /\ hpc'[d] # "none" \/ notif'[d] => cid[d] # 0
    BY <2>1 DEF Inv, TypeOK, ClientsTypeOK, NumbersKnown, Unnumbered, Numbered
  <2> QED
    BY <2>1, <2>3, <2>4, <2>5, ClientFrame DEF Inv, TypeOK, QueuesTypeOK, HistoryTypeOK
<1>2. CASE MainShow(c)
  <2>1. /\ cpc[c] = "show" /\ cpc' = [cpc EXCEPT ![c] = "drain"]
        /\ rcv_buf' = [rcv_buf EXCEPT ![c] = NoMsg]
        /\ \/ rcv_buf[c].prio = MSG_PRIORYTY /\ missed' = missed \cup {<<cid[c], rcv_buf[c]>>}
           \/ missed' = missed
        /\ UNCHANGED <<serverVars, queueVars, said, raced, lost, cid, typed, hpc, buf>>
    BY <1>2 DEF MainShow, Goto
  <2>2. missed' \subseteq Nat \X StcMsgs
    BY <2>1, StcMsgFacts DEF Inv, TypeOK, HistoryTypeOK, ClientsTypeOK
  <2>3. ClientsTypeOK'
    BY <2>1 DEF Inv, TypeOK, ClientsTypeOK, ClientPcs
  <2>4. \A d \in Clients :
          /\ cpc'[d] \in Unnumbered => cpc[d] \in Unnumbered
          /\ cpc'[d] \in Numbered => cid[d] # 0
          /\ hpc'[d] # "none" \/ notif'[d] => cid[d] # 0
    BY <2>1 DEF Inv, TypeOK, ClientsTypeOK, NumbersKnown, Unnumbered, Numbered
  <2> QED
    BY <2>1, <2>2, <2>3, <2>4, ClientFrame DEF Inv, TypeOK, QueuesTypeOK
<1>3. CASE MainReceiveBye(c)
  <2>1. /\ cpc[c] = "drain" /\ stc[cid[c]] # <<>> /\ TakeStc(c) /\ Leave(c)
        /\ UNCHANGED <<serverVars, login_q, linked, historyVars, cid, typed>>
    BY <1>3 DEF MainReceiveBye
  <2>2. cid[c] # 0
    BY <2>1 DEF Inv, NumbersKnown, Numbered
  <2> QED
    BY <2>1, <2>2, TakeStcTypes, LeaveInv DEF Inv, TypeOK, HistoryTypeOK
<1> QED
  BY <1>1, <1>2, <1>3

\* A client leaves on its own account.
LEMMA QuitInv ==
  ASSUME Inv, NEW c \in Clients, Quit(c)
  PROVE  Inv'
<1>1. /\ Leave(c)
      /\ UNCHANGED <<serverVars, login_q, stc, linked, cid, typed, said, missed, raced>>
      /\ lost' \in Nat
  BY DEF Quit, Inv, TypeOK, HistoryTypeOK
<1> QED
  BY <1>1, LeaveInv DEF Inv, TypeOK, QueuesTypeOK

\* The thread takes a message, or hears good-bye and ends its process.
LEMMA HandlerReadInv ==
  ASSUME Inv, NEW c \in Clients, HandlerReceive(c) \/ HandlerReceiveBye(c)
  PROVE  Inv'
<1>1. hpc[c] = "recv" /\ stc[cid[c]] # <<>> /\ TakeStc(c)
  BY DEF HandlerReceive, HandlerReceiveBye
<1>2. cid[c] # 0
  BY <1>1 DEF Inv, NumbersKnown
<1>3. /\ stc' \in Seq(Seq(StcMsgs)) /\ Len(stc') = Len(stc)
      /\ Received(stc[cid[c]]) \in StcMsgs
  BY <1>1, <1>2, TakeStcTypes
<1>4. CASE HandlerReceive(c)
  <2>1. /\ buf' = [buf EXCEPT ![c] = Received(stc[cid[c]])]
        /\ hpc' = [hpc EXCEPT ![c] = "show"]
        /\ UNCHANGED <<serverVars, login_q, cts, linked, notif, historyVars>>
        /\ UNCHANGED <<cpc, cid, typed, rcv_buf, screen>>
    BY <1>4 DEF HandlerReceive
  <2>2. ClientsTypeOK'
    BY <1>3, <2>1 DEF Inv, TypeOK, ClientsTypeOK, HandlerPcs
  <2>3. \A d \in Clients : /\ cpc'[d] \in Numbered => cid[d] # 0
                           /\ hpc'[d] # "none" \/ notif'[d] => cid[d] # 0
    BY <1>2, <2>1 DEF Inv, TypeOK, ClientsTypeOK, NumbersKnown
  <2> QED
    BY <1>3, <2>1, <2>2, <2>3, ClientFrame DEF Inv, TypeOK, QueuesTypeOK, HistoryTypeOK
<1>5. CASE HandlerReceiveBye(c)
  <2>1. Leave(c) /\ UNCHANGED <<serverVars, login_q, linked, historyVars, cid, typed>>
    BY <1>5 DEF HandlerReceiveBye
  <2> QED
    BY <1>3, <2>1, LeaveInv DEF Inv, TypeOK, HistoryTypeOK
<1> QED
  BY <1>4, <1>5

\* The thread's steps that read no queue but to find it empty.
LEMMA HandlerQuietInv ==
  ASSUME Inv, NEW c \in Clients, HandlerShow(c) \/ HandlerDone(c) \/ HandlerArm(c)
  PROVE  Inv'
<1>1. /\ hpc[c] # "none"
      /\ hpc' \in {[hpc EXCEPT ![c] = "recv"], [hpc EXCEPT ![c] = "arm"], [hpc EXCEPT ![c] = "none"]}
      /\ notif' \in {notif, [notif EXCEPT ![c] = TRUE]}
      /\ UNCHANGED <<serverVars, login_q, cts, stc, linked, historyVars>>
      /\ UNCHANGED <<cpc, cid, typed, rcv_buf, buf>>
  BY DEF HandlerShow, HandlerDone, HandlerArm
<1>2. ClientsTypeOK' /\ notif' \in [Clients -> BOOLEAN]
  BY <1>1 DEF Inv, TypeOK, ClientsTypeOK, QueuesTypeOK, HandlerPcs
<1>3. \A d \in Clients : /\ cpc'[d] \in Numbered => cid[d] # 0
                         /\ hpc'[d] # "none" \/ notif'[d] => cid[d] # 0
  BY <1>1 DEF Inv, TypeOK, ClientsTypeOK, QueuesTypeOK, NumbersKnown
<1> QED
  BY <1>1, <1>2, <1>3, ClientFrame DEF Inv, TypeOK, QueuesTypeOK, HistoryTypeOK

(***************************************************************************)
(* The theorems.                                                           *)
(***************************************************************************)
\* Every step of every process keeps the invariant.
LEMMA NextInv == Inv /\ [Next]_vars => Inv'
<1> SUFFICES ASSUME Inv, [Next]_vars PROVE Inv'
  OBVIOUS
<1>1. CASE ServerStart \/ ServerStep \/ ServerExit
  BY <1>1, ServerQuietInv, TakeOwnAnswerInv, ReturnAnswerInv, RegisterInv, SendAnswerInv,
     SendListInv, HandleChatInv, HandleNameInv, HandleByeInv, HandleLastByeInv, ServerExitInv
  DEF ServerStep
<1>2. ASSUME NEW c \in Clients, MainStep(c) \/ Speak(c) \/ Quit(c)
      PROVE  Inv'
  BY <1>2, MainQuietInv, PostRequestInv, TakeRequestInv, TakeAnswerInv, OpenQueueInv,
     MainSendInv, MainReadInv, QuitInv
  DEF MainStep
<1>3. ASSUME NEW c \in Clients, HandlerStep(c)
      PROVE  Inv'
  BY <1>3, HandlerReadInv, HandlerQuietInv DEF HandlerStep
<1>4. CASE UNCHANGED vars
  <2>1. TypeOK'
    BY <1>4 DEF vars, Inv, TypeOK, ServerTypeOK, QueuesTypeOK, ClientsTypeOK, HistoryTypeOK
  <2>2. OneOwner'
    BY <1>4, OwnersFrame DEF vars, Inv
  <2>3. NumbersKnown'
    BY <1>4 DEF vars, Inv, NumbersKnown, Answers
  <2> QED
    BY <2>1, <2>2, <2>3 DEF Inv
<1> QED
  BY <1>1, <1>2, <1>3, <1>4 DEF Next

\* In every run, for every number of clients and every size of the queues, the
\* variables have their types: in particular the server and its clients read
\* only messages they know, and each user ever registered has a pair of queues.
THEOREM TypeCorrect == Spec => []TypeOK
<1>1. Inv => TypeOK
  BY DEF Inv
<1> QED
  BY InitInv, NextInv, <1>1, PTL DEF Spec

\* No two clients ever share a user number, although every client and the
\* server itself take answers off one queue: a number is on /login, in the
\* server's hand or a client's, and only once.
THEOREM OneOwnerHolds == Spec => []OneOwner
<1>1. Inv => OneOwner
  BY DEF Inv
<1> QED
  BY InitInv, NextInv, <1>1, PTL DEF Spec

USE DEF USER_PRIORITY, SERVER_PRIORYTY, MSG_PRIORYTY, USRNAME_PRIORITY,
        UPDUSER_PRIORITY, DISCONNECT_PRIORITY, serverVars, queueVars, clientVars, historyVars

(***************************************************************************)
(* What the queues of the users hold.                                      *)
(***************************************************************************)
\* The queues of a user.
LEMMA UserQueues ==
  ASSUME TypeOK
  PROVE  /\ DOMAIN users = 1 .. Len(users) /\ Len(users) \in Nat
         /\ DOMAIN cts = DOMAIN users /\ DOMAIN stc = DOMAIN users
         /\ \A i \in DOMAIN users : cts[i] \in Seq(CtsMsgs) /\ stc[i] \in Seq(StcMsgs)
         /\ linked \subseteq DOMAIN users
<1>1. /\ DOMAIN users = 1 .. Len(users) /\ Len(users) \in Nat
      /\ DOMAIN cts = 1 .. Len(users) /\ DOMAIN stc = 1 .. Len(users)
      /\ Len(cts) = Len(users) /\ Len(stc) = Len(users)
  BY LenProperties DEF TypeOK, ServerTypeOK, QueuesTypeOK
<1> QED
  BY <1>1, ElementOfSeq DEF TypeOK, QueuesTypeOK

\* What a client's send adds to the queues of the users.
LEMMA SentCtsHolds ==
  ASSUME TypeOK, NEW c \in Clients, NEW m \in CtsMsgs
  PROVE  /\ DOMAIN SentCts(c, m) = DOMAIN cts
         /\ \A i \in DOMAIN cts :
              /\ i # cid[c] => SentCts(c, m)[i] = cts[i]
              /\ \A x : Contains(SentCts(c, m)[i], x) =>
                          Contains(cts[i], x) \/ (x = m /\ i = cid[c])
              /\ \A x : Contains(cts[i], x) => Contains(SentCts(c, m)[i], x)
         /\ cid[c] \in linked /\ HasRoom(cts[cid[c]], UserMax) =>
              Contains(SentCts(c, m)[cid[c]], m)
<1> DEFINE i == cid[c]
<1>1. CASE i \in linked
  <2>1. i \in DOMAIN cts /\ cts[i] \in Seq(CtsMsgs)
    BY <1>1, UserQueues
  <2>2. SentCts(c, m) = [cts EXCEPT ![i] = Offer(cts[i], UserMax, m)]
    BY <1>1 DEF SentCts
  <2>3. /\ \A x : Contains(Offer(cts[i], UserMax, m), x) => Contains(cts[i], x) \/ x = m
        /\ \A x : Contains(cts[i], x) => Contains(Offer(cts[i], UserMax, m), x)
        /\ HasRoom(cts[i], UserMax) => Contains(Offer(cts[i], UserMax, m), m)
    BY <2>1, OfferHolds, UserMaxAssumption
  <2> DEFINE q == Offer(cts[i], UserMax, m)
  <2> HIDE DEF q, i
  <2>4. /\ DOMAIN SentCts(c, m) = DOMAIN cts
        /\ \A j \in DOMAIN cts : SentCts(c, m)[j] = IF j = i THEN q ELSE cts[j]
    BY <2>2 DEF q
  <2> QED
    BY <2>1, <2>3, <2>4 DEF q, i
<1>2. CASE i \notin linked
  BY <1>2 DEF SentCts
<1> QED
  BY <1>1, <1>2

\* What a client's exit adds to them.
LEMMA LeaveHolds ==
  ASSUME TypeOK, NEW c \in Clients, Leave(c)
  PROVE  /\ DOMAIN cts' = DOMAIN cts
         /\ \A i \in DOMAIN cts :
              /\ i # cid[c] => cts'[i] = cts[i]
              /\ \A x : Contains(cts'[i], x) => Contains(cts[i], x) \/ (x = Bye /\ i = cid[c])
              /\ \A x : Contains(cts[i], x) => Contains(cts'[i], x)
         /\ cts' # cts => cpc[c] \in {"notify", "name", "drain", "show", "chat"}
         /\ cpc' = [cpc EXCEPT ![c] = "exited"]
<1>1. cts' = cts \/ (cts' = SentCts(c, Bye) /\ cpc[c] \in {"notify", "name", "drain", "show", "chat"})
  BY DEF Leave
<1>2. cpc' = [cpc EXCEPT ![c] = "exited"]
  BY DEF Leave, Goto
<1>3. CASE cts' = cts
  BY <1>2, <1>3
<1>4. CASE cts' = SentCts(c, Bye) /\ cpc[c] \in {"notify", "name", "drain", "show", "chat"}
  BY <1>2, <1>4, SentCtsHolds, CtsMsgFacts
<1> QED
  BY <1>1, <1>3, <1>4

\* What the server takes from the user it looks at, and what it leaves.
LEMMA TakeCtsHolds ==
  ASSUME TypeOK, NEW p, Hears(p)
  PROVE  /\ index \in DOMAIN users /\ users[index].id # Gone
         /\ Received(cts[index]) \in CtsMsgs /\ Received(cts[index]).prio = p
         /\ Contains(cts[index], Received(cts[index]))
         /\ \A x : Contains(cts[index], x) => x.prio <= p
         /\ TakeCts =>
              /\ DOMAIN cts' = DOMAIN cts
              /\ \A i \in DOMAIN cts : i # index => cts'[i] = cts[i]
              /\ \A x : Contains(cts'[index], x) => Contains(cts[index], x)
              /\ \A x : Contains(cts[index], x) =>
                          x = Received(cts[index]) \/ Contains(cts'[index], x)
<1>1. /\ index \in DOMAIN users /\ users[index].id # Gone /\ cts[index] # <<>>
      /\ Received(cts[index]).prio = p
      /\ cts[index] \in Seq(CtsMsgs) /\ index \in DOMAIN cts
  BY UserQueues DEF Hears
<1> DEFINE q == cts[index]
<1>2. /\ Received(q) \in CtsMsgs /\ Contains(q, Received(q))
      /\ \A m : Contains(Remaining(q), m) => Contains(q, m)
      /\ \A m : Contains(q, m) => m = Received(q) \/ Contains(Remaining(q), m)
      /\ \A m : Contains(q, m) => m.prio <= Received(q).prio
  BY <1>1, TakenAndLeft, CtsMsgFacts, ZenonT(60)
<1>3. TakeCts => /\ DOMAIN cts' = DOMAIN cts
                 /\ \A i \in DOMAIN cts : i # index => cts'[i] = cts[i]
                 /\ cts'[index] = Remaining(q)
  BY <1>1 DEF TakeCts
<1> QED
  BY <1>1, <1>2, <1>3

(***************************************************************************)
(* The invariant: the users the server counts, lists and has queues for    *)
(* are the same, and every number that is on its way to a client or with a *)
(* client that runs is one of them.                                        *)
(***************************************************************************)
\* The number i is on its way to a client, or with one that runs.
InUse(i) ==
  \/ \E k \in Answers(login_q) : login_q[k].id = i
  \/ hand = i
  \/ spc = "answer" /\ i = Len(users)
  \/ \E c \in Clients : cid[c] = i /\ cpc[c] # "exited"

\* Whoever owns the number i has ended.
Ended(i) == \E c \in Clients : cid[c] = i /\ cpc[c] = "exited"

UsersCounted ==
  /\ IsFiniteSet(Active(users))
  /\ active_users = Cardinality(Active(users))
  /\ spc # "killed" => linked = Active(users)
  /\ spc = "left" => Active(users) = {}

ByeMeant == \A i \in DOMAIN users : Contains(cts[i], Bye) => Ended(i)

InUseActive == \A i \in DOMAIN users : InUse(i) => i \in Active(users)

\* While a new user is announced it alone is missing from the list.
ListWithout(i) == [j \in Active(users) \ {i} |-> users[j].login]

ListInStep ==
  /\ spc \in {"off", "login", "reans", "scan"} => users_list = ListOf(users)
  /\ spc \in {"answer", "list"} =>
       Len(users) \in Active(users) /\ users_list = ListWithout(Len(users))

UsersInv == UsersCounted /\ ByeMeant /\ InUseActive /\ ListInStep

\* A step that leaves the users and their queues' names alone, lets only ended
\* clients' good-byes appear, and brings no number into use.
LEMMA UsersFrame ==
  ASSUME UsersInv, UNCHANGED <<active_users, linked>>,
         DOMAIN users' = DOMAIN users, Active(users') = Active(users),
         spc = "killed" => spc' = "killed", spc' = "left" => spc = "left",
         ListInStep',
         \A i \in DOMAIN users : Contains(cts'[i], Bye) => Contains(cts[i], Bye) \/ Ended(i)',
         \A i \in DOMAIN users : Ended(i) => Ended(i)',
         \A i \in DOMAIN users : InUse(i)' => InUse(i)
  PROVE  UsersInv'
<1>1. UsersCounted'
  BY DEF UsersInv, UsersCounted
<1>2. ByeMeant'
  BY DEF UsersInv, ByeMeant
<1>3. InUseActive'
  BY DEF UsersInv, InUseActive
<1> QED
  BY <1>1, <1>2, <1>3 DEF UsersInv

\* The list and the server's place are not the clients' concern.
LEMMA ListFrame ==
  ASSUME ListInStep, UNCHANGED <<users, users_list, spc>>
  PROVE  ListInStep'
BY DEF ListInStep, ListWithout, ListOf, Active

\* A step of the clients.
LEMMA ClientUsersFrame ==
  ASSUME UsersInv, UNCHANGED <<serverVars, linked>>,
         \A i \in DOMAIN users : Contains(cts'[i], Bye) => Contains(cts[i], Bye) \/ Ended(i)',
         \A k \in Answers(login_q') : \E j \in Answers(login_q) : login_q[j].id = login_q'[k].id,
         \A c \in Clients :
           /\ cpc[c] = "exited" => cpc'[c] = "exited" /\ cid'[c] = cid[c]
           /\ cpc'[c] # "exited" => \/ cid'[c] = cid[c]
                                    \/ \E j \in Answers(login_q) : login_q[j].id = cid'[c]
  PROVE  UsersInv'
<1>1. \A i \in DOMAIN users : Ended(i) => Ended(i)'
  BY DEF Ended
<1>2. \A i \in DOMAIN users : InUse(i)' => InUse(i)
  BY DEF InUse
<1>3. ListInStep'
  BY ListFrame DEF UsersInv
<1> QED
  BY <1>1, <1>2, <1>3, UsersFrame

\* The clients' steps that send nothing to the server but on /login.
LEMMA ClientSilentUsers ==
  ASSUME Inv, UsersInv, NEW c \in Clients,
         \/ OpenLogin(c) \/ SendRequest(c) \/ PutBack(c) \/ TakeRequest(c) \/ TakeAnswer(c)
         \/ Notify(c) \/ MainDone(c) \/ MainReceive(c) \/ MainShow(c)
         \/ HandlerReceive(c) \/ HandlerShow(c) \/ HandlerDone(c) \/ HandlerArm(c)
  PROVE  UsersInv'
<1>1. UNCHANGED <<serverVars, linked, cts>>
  BY DEF OpenLogin, SendRequest, PutBack, PostRequest, TakeRequest, TakeAnswer, Notify,
         MainDone, MainReceive, MainShow, HandlerReceive, HandlerShow, HandlerDone, HandlerArm
<1>2. login_q \in Seq(LoginMsgs) /\ cpc \in [Clients -> ClientPcs] /\ cid \in [Clients -> Nat]
  BY DEF Inv, TypeOK, QueuesTypeOK, ClientsTypeOK
<1>3. CASE SendRequest(c) \/ PutBack(c)
  <2>1. /\ login_q' = Append(login_q, Request) /\ cid' = cid
        /\ cpc[c] \in {"request", "putback"} /\ cpc' = [cpc EXCEPT ![c] = "await"]
    BY <1>3 DEF SendRequest, PutBack, PostRequest, Goto
  <2>2. \A k \in Answers(login_q') : k \in Answers(login_q) /\ login_q'[k] = login_q[k]
    <3>1. Request \in LoginMsgs /\ Request.prio # SERVER_PRIORYTY
      BY LoginMsgFacts
    <3>2. \A k \in Answers(Append(login_q, Request)) :
            k \in Answers(login_q) /\ Append(login_q, Request)[k] = login_q[k]
      BY <1>2, <3>1, PostLogin
    <3> QED
      BY <2>1, <3>2
  <2> QED
    BY <1>1, <1>2, <2>1, <2>2, ClientUsersFrame
<1>4. CASE TakeRequest(c) \/ TakeAnswer(c)
  <2>1. /\ login_q # <<>> /\ login_q' = Remaining(login_q)
        /\ cpc[c] = "await" /\ cpc' \in {[cpc EXCEPT ![c] = "putback"], [cpc EXCEPT ![c] = "openrcv"]}
        /\ \/ cid' = cid
           \/ /\ Received(login_q).prio = SERVER_PRIORYTY
              /\ cid' = [cid EXCEPT ![c] = Received(login_q).id]
    BY <1>4 DEF TakeRequest, TakeAnswer, Goto
  <2>2. /\ Received(login_q).prio = SERVER_PRIORYTY =>
             \E k \in Answers(login_q) : login_q[k].id = Received(login_q).id
        /\ \A k \in Answers(login_q') : \E j \in Answers(login_q) : login_q[j].id = login_q'[k].id
    BY <1>2, <2>1, TakeLogin
  <2> QED
    BY <1>1, <1>2, <2>1, <2>2, ClientUsersFrame
<1>5. CASE \/ OpenLogin(c) \/ Notify(c) \/ MainDone(c) \/ MainReceive(c) \/ MainShow(c)
           \/ HandlerReceive(c) \/ HandlerShow(c) \/ HandlerDone(c) \/ HandlerArm(c)
  <2>1. /\ cid' = cid /\ login_q' = login_q
        /\ \/ cpc' = cpc
           \/ cpc[c] # "exited" /\ cpc' \in {[cpc EXCEPT ![c] = "request"], [cpc EXCEPT ![c] = "name"],
                [cpc EXCEPT ![c] = "chat"], [cpc EXCEPT ![c] = "show"], [cpc EXCEPT ![c] = "drain"]}
    BY <1>5 DEF OpenLogin, Notify, MainDone, MainReceive, MainShow, HandlerReceive, HandlerShow,
                HandlerDone, HandlerArm, Goto
  <2> QED
    BY <1>1, <1>2, <2>1, ClientUsersFrame
<1> QED
  BY <1>3, <1>4, <1>5

\* A client sends its name or a line.
LEMMA ClientSpeaksUsers ==
  ASSUME Inv, UsersInv, NEW c \in Clients, SendName(c) \/ Speak(c)
  PROVE  UsersInv'
<1>1. /\ UNCHANGED <<serverVars, linked, login_q, cid>>
      /\ cpc' = cpc \/ (cpc[c] = "name" /\ cpc' = [cpc EXCEPT ![c] = "drain"])
  BY DEF SendName, Speak, Goto
<1>2. \E m \in CtsMsgs : cts' = SentCts(c, m) /\ m # Bye
  <2>1. CASE SendName(c)
    <3>1. Name(c) # Bye
      BY DEF Name, Bye
    <3> QED
      BY <2>1, <3>1, CtsMsgFacts DEF SendName
  <2>2. CASE Speak(c)
    <3>1. [by |-> c, n |-> typed + 1] \in Texts
      BY DEF Inv, TypeOK, ClientsTypeOK, Texts
    <3>2. \A t : Typed(t) # Bye
      BY DEF Typed, Bye
    <3> QED
      BY <2>2, <3>1, <3>2, CtsMsgFacts DEF Speak
  <2> QED
    BY <2>1, <2>2
<1>3. \A i \in DOMAIN users : Contains(cts'[i], Bye) => Contains(cts[i], Bye)
  BY <1>2, SentCtsHolds, UserQueues DEF Inv
<1> QED
  BY <1>1, <1>3, ClientUsersFrame DEF Inv, TypeOK, ClientsTypeOK

\* A client's exit.
LEMMA LeaveUsers ==
  ASSUME Inv, UsersInv, NEW c \in Clients, Leave(c),
         UNCHANGED <<serverVars, linked, login_q, cid>>
  PROVE  UsersInv'
<1>1. /\ \A i \in DOMAIN cts : \A x : Contains(cts'[i], x) => Contains(cts[i], x) \/ (x = Bye /\ i = cid[c])
      /\ cpc' = [cpc EXCEPT ![c] = "exited"]
  BY LeaveHolds DEF Inv
<1>2. DOMAIN cts = DOMAIN users /\ cpc \in [Clients -> ClientPcs]
  BY UserQueues DEF Inv, TypeOK, ClientsTypeOK
<1>3. \A i \in DOMAIN users : Contains(cts'[i], Bye) => Contains(cts[i], Bye) \/ Ended(i)'
  BY <1>1, <1>2 DEF Ended
<1> QED
  BY <1>1, <1>2, <1>3, ClientUsersFrame

\* The server's steps that leave its users and /login alone.
LEMMA ServerQuietUsers ==
  ASSUME Inv, UsersInv, ServerStart \/ PollLogin \/ EndScan \/ SkipUser
  PROVE  UsersInv'
<1>1. /\ UNCHANGED <<users, active_users, users_list, hand, linked, login_q, cts, cpc, cid>>
      /\ spc \in {"off", "login", "scan"} /\ spc' \in {"login", "scan"}
  BY DEF ServerStart, PollLogin, StartScan, EndScan, SkipUser
<1>2. ListInStep'
  BY <1>1 DEF UsersInv, ListInStep, ListOf, Active
<1>3. \A i \in DOMAIN users : /\ InUse(i)' => InUse(i)
                              /\ Ended(i) => Ended(i)'
  BY <1>1 DEF InUse, Ended, Answers
<1> QED
  BY <1>1, <1>2, <1>3, UsersFrame

\* The server's own traffic on /login: an answer it takes, puts back or sends
\* first was in use before.
LEMMA ServerLoginUsers ==
  ASSUME Inv, UsersInv, TakeOwnAnswer \/ ReturnAnswer \/ SendAnswer
  PROVE  UsersInv'
<1>1. UNCHANGED <<users, active_users, users_list, linked, cts, cpc, cid>>
  BY DEF TakeOwnAnswer, ReturnAnswer, SendAnswer
<1>2. login_q \in Seq(LoginMsgs) /\ DOMAIN users = 1 .. Len(users) /\ Len(users) \in Nat
  BY UserQueues DEF Inv, TypeOK, QueuesTypeOK
<1>3. CASE TakeOwnAnswer
  <2>1. /\ login_q # <<>> /\ Received(login_q).prio = SERVER_PRIORYTY
        /\ hand' = Received(login_q).id /\ login_q' = Remaining(login_q)
        /\ spc = "login" /\ spc' = "reans"
    BY <1>3 DEF TakeOwnAnswer
  <2>2. /\ \E k \in Answers(login_q) : login_q[k].id = hand'
        /\ \A k \in Answers(login_q') : \E j \in Answers(login_q) : login_q[j].id = login_q'[k].id
    BY <1>2, <2>1, TakeLogin
  <2>3. ListInStep'
    BY <1>1, <2>1 DEF UsersInv, ListInStep, ListOf, Active
  <2>4. \A i \in DOMAIN users : /\ InUse(i)' => InUse(i)
                                /\ Ended(i) => Ended(i)'
    BY <1>1, <2>1, <2>2 DEF InUse, Ended
  <2> QED
    BY <1>1, <2>1, <2>3, <2>4, UsersFrame
<1>4. CASE ReturnAnswer
  <2>1. /\ PostAnswer(hand) /\ hand' = 0 /\ spc = "reans" /\ spc' = "scan"
    BY <1>4 DEF ReturnAnswer, StartScan
  <2>2. /\ hand \in DOMAIN users
        /\ \A c \in Clients : cid[c] # hand
        /\ \A k \in Answers(login_q) : login_q[k].id # hand
    BY <1>2, <2>1 DEF Inv, OneOwner, NumbersKnown
  <2>3. \A k \in Answers(login_q') :
          login_q'[k].id = hand \/ \E j \in Answers(login_q) : login_q[j].id = login_q'[k].id
    BY <2>1, <2>2, PostAnswerOwners
  <2>4. ListInStep'
    BY <1>1, <2>1 DEF UsersInv, ListInStep, ListOf, Active
  <2>5. \A i \in DOMAIN users : /\ InUse(i)' => InUse(i)
                                /\ Ended(i) => Ended(i)'
    BY <1>1, <1>2, <2>1, <2>3 DEF InUse, Ended
  <2> QED
    BY <1>1, <2>1, <2>4, <2>5, UsersFrame
<1>5. CASE SendAnswer
  <2>1. /\ PostAnswer(users[Len(users)].id) /\ hand' = hand /\ spc = "answer" /\ spc' = "list"
    BY <1>5 DEF SendAnswer
  <2>2. /\ users[Len(users)].id = Len(users) /\ Len(users) \in DOMAIN users
        /\ \A c \in Clients : cid[c] # Len(users)
        /\ \A k \in Answers(login_q) : login_q[k].id # Len(users)
    <3>1. users # <<>> /\ NumbersKnown
      BY <2>1 DEF Inv, NumbersKnown
    <3>2. Len(users) \in DOMAIN users
      BY <3>1, LenProperties, EmptySeq DEF Inv, TypeOK, ServerTypeOK
    <3> QED
      BY <2>1, <3>1, <3>2 DEF NumbersKnown
  <2> DEFINE n == Len(users)
  <2>3. PostAnswer(n)
    BY <2>1, <2>2
  <2>4. n \in DOMAIN users /\ (\A c \in Clients : cid[c] # n) /\ (\A k \in Answers(login_q) : login_q[k].id # n)
    BY <2>2
  <2> HIDE DEF n
  <2>5. \A k \in Answers(login_q') :
          login_q'[k].id = n \/ \E j \in Answers(login_q) : login_q[j].id = login_q'[k].id
    BY <2>3, <2>4, PostAnswerOwners
  <2>6. ListInStep'
    BY <1>1, <2>1 DEF UsersInv, ListInStep, ListWithout, Active
  <2>7. \A i \in DOMAIN users : /\ InUse(i)' => InUse(i)
                                /\ Ended(i) => Ended(i)'
    BY <1>1, <2>1, <2>5 DEF InUse, Ended, n
  <2> QED
    BY <1>1, <2>1, <2>6, <2>7, UsersFrame
<1> QED
  BY <1>3, <1>4, <1>5

\* A new user is in use, active and counted; the list does not have it yet.
LEMMA RegisterUsers ==
  ASSUME Inv, UsersInv, Register
  PROVE  UsersInv'
<1> DEFINE n == Len(users) + 1
           u == [id |-> n, login |-> n]
<1>1. /\ spc = "login" /\ spc' = "answer" /\ login_q # <<>> /\ login_q' = Remaining(login_q)
      /\ users' = Append(users, u) /\ active_users' = active_users + 1
      /\ cts' = Append(cts, <<>>) /\ linked' = linked \cup {n}
      /\ UNCHANGED <<users_list, hand, cpc, cid>>
  BY DEF Register, NewId
<1>2. /\ DOMAIN users = 1 .. Len(users) /\ Len(users) \in Nat
      /\ DOMAIN cts = DOMAIN users /\ login_q \in Seq(LoginMsgs)
      /\ users \in Seq([id : {Gone} \cup Nat, login : Logins]) /\ cts \in Seq(Seq(CtsMsgs))
      /\ Len(cts) = Len(users)
  BY UserQueues DEF Inv, TypeOK, ServerTypeOK, QueuesTypeOK
<1>3. u \in [id : {Gone} \cup Nat, login : Logins] /\ u.id = n /\ n # Gone
  BY <1>2 DEF Logins, Gone
<1>4. /\ Len(users') = n /\ DOMAIN users' = DOMAIN users \cup {n} /\ n \notin DOMAIN users
      /\ users'[n] = u /\ \A i \in DOMAIN users : users'[i] = users[i]
  <2>1. /\ users' \in Seq([id : {Gone} \cup Nat, login : Logins])
        /\ Len(users') = n /\ users'[n] = u /\ \A i \in 1 .. Len(users) : users'[i] = users[i]
    BY <1>1, <1>2, <1>3, AppendProperties
  <2>2. DOMAIN users' = 1 .. n
    BY <2>1, LenProperties
  <2> QED
    BY <1>2, <2>1, <2>2
<1>5. /\ \A i \in DOMAIN cts : cts'[i] = cts[i]
      /\ cts'[n] = <<>>
  BY <1>1, <1>2, EmptySeq, AppendProperties
<1>6. \A k \in Answers(login_q') : \E j \in Answers(login_q) : login_q[j].id = login_q'[k].id
  BY <1>1, <1>2, TakeLogin
<1> HIDE DEF u
<1>7. Active(users') = Active(users) \cup {n} /\ n \notin Active(users)
  BY <1>3, <1>4 DEF Active
<1> HIDE DEF n
<1>8. UsersCounted'
  <2>1. /\ IsFiniteSet(Active(users)) /\ active_users = Cardinality(Active(users))
        /\ linked = Active(users)
    BY <1>1 DEF UsersInv, UsersCounted
  <2>2. IsFiniteSet(Active(users')) /\ Cardinality(Active(users')) = Cardinality(Active(users)) + 1
    BY <1>7, <2>1, FS_AddElement
  <2> QED
    BY <1>1, <1>7, <2>1, <2>2 DEF UsersCounted
<1>9. ByeMeant'
  <2>1. ~Contains(<<>>, Bye)
    BY EmptySeq DEF Contains
  <2>2. \A i \in DOMAIN users : Ended(i) => Ended(i)'
    BY <1>1 DEF Ended
  <2> QED
    BY <1>2, <1>4, <1>5, <2>1, <2>2 DEF UsersInv, ByeMeant
<1>10. InUseActive'
  <2>1. \A i \in DOMAIN users : InUse(i)' => InUse(i) \/ i = n
    BY <1>1, <1>4, <1>6 DEF InUse
  <2> QED
    BY <1>4, <1>7, <2>1 DEF UsersInv, InUseActive
<1>11. ListInStep'
  <2>1. users_list = [j \in Active(users) |-> users[j].login]
    BY <1>1 DEF UsersInv, ListInStep, ListOf
  <2>2. Active(users') \ {n} = Active(users) /\ Active(users) \subseteq DOMAIN users
    BY <1>7 DEF Active
  <2>3. users_list = [j \in Active(users') \ {n} |-> users'[j].login]
    BY <1>4, <2>1, <2>2
  <2> QED
    BY <1>1, <1>4, <1>7, <2>3 DEF ListInStep, ListWithout
<1> QED
  BY <1>8, <1>9, <1>10, <1>11 DEF UsersInv

\* The list goes out: it has the new user now.
LEMMA SendListUsers ==
  ASSUME Inv, UsersInv, SendList
  PROVE  UsersInv'
<1> DEFINE n == Len(users)
<1>1. /\ spc = "list" /\ spc' = "scan"
      /\ users_list' = [i \in DOMAIN users_list \cup {n} |->
                          IF i = n THEN users[i].login ELSE users_list[i]]
      /\ UNCHANGED <<users, active_users, hand, login_q, cts, linked, cpc, cid>>
  BY DEF SendList, StartScan
<1>2. n \in Active(users) /\ users_list = [j \in Active(users) \ {n} |-> users[j].login]
  BY <1>1 DEF UsersInv, ListInStep, ListWithout
<1> HIDE DEF n
<1>3. users_list' = [j \in Active(users) |-> users[j].login]
  <2>1. DOMAIN users_list \cup {n} = Active(users)
    BY <1>2
  <2>2. \A i \in Active(users) :
          (IF i = n THEN users[i].login ELSE users_list[i]) = users[i].login
    BY <1>2
  <2> QED
    BY <1>1, <2>1, <2>2
<1>4. ListInStep'
  BY <1>1, <1>3 DEF ListInStep, ListOf, Active
<1>5. \A i \in DOMAIN users : /\ InUse(i)' => InUse(i)
                              /\ Ended(i) => Ended(i)'
  BY <1>1 DEF InUse, Ended, Answers
<1> QED
  BY <1>1, <1>4, <1>5, UsersFrame

\* A line or a name from a user: who is active does not change, and the list is
\* written anew with the name.
LEMMA HeardUsers ==
  ASSUME Inv, UsersInv, HandleChat \/ HandleName
  PROVE  UsersInv'
<1>1. /\ \E p : Hears(p)
      /\ TakeCts /\ spc = "scan"
      /\ \/ users' = users /\ users_list' = users_list
         \/ /\ users' = [users EXCEPT ![index].login = Received(cts[index]).login]
            /\ users_list' = ListOf(users')
      /\ UNCHANGED <<spc, active_users, hand, login_q, linked, cpc, cid>>
  BY DEF HandleChat, HandleName, Hears, Relist
<1>2. PICK p : Hears(p)
  BY <1>1
<1>3. /\ index \in DOMAIN users
      /\ DOMAIN cts = DOMAIN users
      /\ \A i \in DOMAIN users : \A x : Contains(cts'[i], x) => Contains(cts[i], x)
  BY <1>1, <1>2, TakeCtsHolds, UserQueues DEF Inv
<1>4. /\ DOMAIN users' = DOMAIN users /\ Len(users') = Len(users)
      /\ \A i \in DOMAIN users : users'[i].id = users[i].id
  <2>1. DOMAIN users = 1 .. Len(users) /\ Len(users) \in Nat
    BY UserQueues DEF Inv
  <2>2. CASE users' = users
    BY <2>2
  <2>3. CASE users' = [users EXCEPT ![index].login = Received(cts[index]).login]
    <3>1. DOMAIN users' = DOMAIN users /\ \A i \in DOMAIN users : users'[i].id = users[i].id
      <4>1. \A i \in DOMAIN users : users'[i] =
              IF i = index THEN [users[i] EXCEPT !.login = Received(cts[index]).login] ELSE users[i]
        BY <2>3
      <4>2. DOMAIN users' = DOMAIN users
        BY <2>3
      <4>3. users \in Seq([id : {Gone} \cup Nat, login : Logins])
        BY DEF Inv, TypeOK, ServerTypeOK
      <4>4. \A i \in DOMAIN users : users[i] \in [id : {Gone} \cup Nat, login : Logins]
        BY <4>3, UserFacts
      <4>5. \A r \in [id : {Gone} \cup Nat, login : Logins] : \A l : [r EXCEPT !.login = l].id = r.id
        OBVIOUS
      <4> QED
        BY <4>1, <4>2, <4>4, <4>5
    <3>2. users \in Seq([id : {Gone} \cup Nat, login : Logins])
      BY DEF Inv, TypeOK, ServerTypeOK
    <3>3. Len(users') = Len(users)
      BY <2>1, <2>3, <3>2, LenProperties
    <3> QED
      BY <3>1, <3>3
  <2> QED
    BY <1>1, <2>2, <2>3
<1>5. Active(users') = Active(users)
  BY <1>4 DEF Active
<1>6. ListInStep'
  BY <1>1 DEF UsersInv, ListInStep
<1>7. \A i \in DOMAIN users : /\ InUse(i)' => InUse(i)
                              /\ Ended(i) => Ended(i)'
  BY <1>1, <1>4 DEF InUse, Ended, Answers
<1> QED
  BY <1>1, <1>3, <1>4, <1>5, <1>6, <1>7, UsersFrame

\* A user is forgotten: the good-bye came from its owner, which has ended, so
\* nobody uses the number any more.
LEMMA ForgottenUser ==
  ASSUME Inv, UsersInv, ForgetUser, UNCHANGED <<hand, login_q, cpc, cid>>,
         spc' \in {"scan", "left"}, spc' = "left" <=> active_users' <= 0
  PROVE  /\ Active(users') = Active(users) \ {index}
         /\ UsersCounted' /\ ByeMeant' /\ InUseActive'
<1>1. /\ Hears(DISCONNECT_PRIORITY) /\ spc = "scan"
      /\ cts' = [cts EXCEPT ![index] = <<>>]
      /\ linked' = linked \ {index}
      /\ users' = [users EXCEPT ![index].id = Gone]
      /\ active_users' = active_users - 1
  BY DEF ForgetUser, Hears, Unlink
<1>2. /\ index \in Active(users) /\ index \in DOMAIN users
      /\ \E m \in CtsMsgs : m.prio = DISCONNECT_PRIORITY /\ Contains(cts[index], m)
  BY <1>1, TakeCtsHolds DEF Inv, Active
<1>3. Ended(index)
  <2>1. Contains(cts[index], Bye)
    BY <1>2 DEF CtsMsgs, Bye
  <2> QED
    BY <1>2, <2>1 DEF UsersInv, ByeMeant
<1>4. ~InUse(index)
  <2>1. PICK c \in Clients : cid[c] = index /\ cpc[c] = "exited"
    BY <1>3 DEF Ended
  <2>2. index # 0 /\ cid[c] # 0
    BY <1>2, <2>1, UserQueues DEF Inv
  <2> QED
    BY <1>1, <2>1, <2>2 DEF InUse, Inv, OneOwner
<1>5. /\ DOMAIN users' = DOMAIN users /\ Len(users') = Len(users)
      /\ \A i \in DOMAIN users : users'[i].id = IF i = index THEN Gone ELSE users[i].id
  <2>1. users \in Seq([id : {Gone} \cup Nat, login : Logins])
        /\ Len(users') = Len(users) /\ DOMAIN users' = DOMAIN users
    BY ForgetUserTypes DEF Inv, TypeOK, ServerTypeOK
  <2>2. \A i \in DOMAIN users : users[i] \in [id : {Gone} \cup Nat, login : Logins]
    BY <2>1, UserFacts
  <2>3. \A r \in [id : {Gone} \cup Nat, login : Logins] : \A l : [r EXCEPT !.id = l].id = l
    OBVIOUS
  <2>4. \A i \in DOMAIN users : users'[i] =
          IF i = index THEN [users[i] EXCEPT !.id = Gone] ELSE users[i]
    BY <1>1
  <2> QED
    BY <2>1, <2>2, <2>3, <2>4
<1>6. Active(users') = Active(users) \ {index}
  BY <1>5 DEF Active
<1>7. UsersCounted'
  <2>1. /\ IsFiniteSet(Active(users)) /\ active_users = Cardinality(Active(users))
        /\ linked = Active(users)
    BY <1>1 DEF UsersInv, UsersCounted
  <2>2. /\ IsFiniteSet(Active(users')) /\ Cardinality(Active(users')) = Cardinality(Active(users)) - 1
    BY <1>2, <1>6, <2>1, FS_RemoveElement
  <2>3. Cardinality(Active(users')) \in Nat /\ (Cardinality(Active(users')) = 0 => Active(users') = {})
    BY <2>2, FS_CardinalityType, FS_EmptySet
  <2>4. /\ active_users' = Cardinality(Active(users'))
        /\ linked' = Active(users')
    BY <1>1, <1>6, <2>1, <2>2
  <2>5. spc' = "left" => Active(users') = {}
    BY <2>3, <2>4
  <2> QED
    BY <2>2, <2>4, <2>5 DEF UsersCounted
<1>8. ByeMeant'
  <2>1. ~Contains(<<>>, Bye)
    BY EmptySeq DEF Contains
  <2>2. \A i \in DOMAIN users : Ended(i) => Ended(i)'
    BY DEF Ended
  <2>3. \A i \in DOMAIN users : cts'[i] = IF i = index THEN <<>> ELSE cts[i]
    BY <1>1, UserQueues DEF Inv
  <2> QED
    BY <1>5, <2>1, <2>2, <2>3 DEF UsersInv, ByeMeant
<1>9. InUseActive'
  <2>1. \A i \in DOMAIN users : InUse(i)' => InUse(i)
    BY <1>5 DEF InUse, Answers
  <2> QED
    BY <1>4, <1>5, <1>6, <2>1 DEF UsersInv, InUseActive
<1> QED
  BY <1>6, <1>7, <1>8, <1>9

\* A user leaves, whether others stay or not.
LEMMA ByeUsers ==
  ASSUME Inv, UsersInv, HandleBye \/ HandleLastBye
  PROVE  UsersInv'
<1>1. /\ ForgetUser /\ UNCHANGED <<hand, login_q, cpc, cid>>
      /\ \/ spc' = "scan" /\ users_list' = ListOf(users') /\ ~(active_users' <= 0)
         \/ spc' = "left" /\ active_users' <= 0
  BY DEF HandleBye, HandleLastBye, ForgetUser, Hears, NoUserLeft, Relist
<1>2. UsersCounted' /\ ByeMeant' /\ InUseActive'
  BY <1>1, ForgottenUser
<1>3. ListInStep'
  BY <1>1 DEF ListInStep
<1> QED
  BY <1>2, <1>3 DEF UsersInv

\* The server is interrupted: its users are still the active ones, though their
\* queues have no names any more.
LEMMA ExitUsers ==
  ASSUME Inv, UsersInv, ServerExit
  PROVE  UsersInv'
<1>1. /\ spc' = "killed" /\ hand' = 0
      /\ cts' = cts \/ cts' = [i \in DOMAIN cts |-> <<>>]
      /\ UNCHANGED <<users, active_users, users_list, login_q, cpc, cid>>
  BY DEF ServerExit
<1>2. DOMAIN users = 1 .. Len(users) /\ Len(users) \in Nat /\ DOMAIN cts = DOMAIN users
  BY UserQueues DEF Inv
<1>3. UsersCounted'
  BY <1>1 DEF UsersInv, UsersCounted
<1>4. ByeMeant'
  <2>1. ~Contains(<<>>, Bye)
    BY EmptySeq DEF Contains
  <2>2. \A i \in DOMAIN users : Ended(i) => Ended(i)'
    BY <1>1 DEF Ended
  <2> QED
    BY <1>1, <1>2, <2>1, <2>2 DEF UsersInv, ByeMeant
<1>5. InUseActive'
  BY <1>1, <1>2 DEF UsersInv, InUseActive, InUse, Answers, Active
<1>6. ListInStep'
  BY <1>1 DEF ListInStep
<1> QED
  BY <1>3, <1>4, <1>5, <1>6 DEF UsersInv

\* The steps with which a client may leave.
LEMMA LeaverUsers ==
  ASSUME Inv, UsersInv, NEW c \in Clients,
         OpenRcv(c) \/ OpenSnd(c) \/ MainReceiveBye(c) \/ HandlerReceiveBye(c) \/ Quit(c)
  PROVE  UsersInv'
<1>1. /\ UNCHANGED <<serverVars, linked, login_q, cid>>
      /\ \/ Leave(c)
         \/ /\ cpc[c] \in {"openrcv", "opensnd"} /\ cts' = cts
            /\ cpc' \in {[cpc EXCEPT ![c] = "opensnd"], [cpc EXCEPT ![c] = "notify"]}
  BY DEF OpenRcv, OpenSnd, OpenQueue, MainReceiveBye, HandlerReceiveBye, Quit, Goto
<1>2. CASE Leave(c)
  BY <1>1, <1>2, LeaveUsers
<1>3. CASE /\ cpc[c] \in {"openrcv", "opensnd"} /\ cts' = cts
           /\ cpc' \in {[cpc EXCEPT ![c] = "opensnd"], [cpc EXCEPT ![c] = "notify"]}
  BY <1>1, <1>3, ClientUsersFrame DEF Inv, TypeOK, ClientsTypeOK
<1> QED
  BY <1>1, <1>2, <1>3

\* Every step keeps the users in order.
LEMMA NextUsers == Inv /\ UsersInv /\ [Next]_vars => UsersInv'
<1> SUFFICES ASSUME Inv, UsersInv, [Next]_vars PROVE UsersInv'
  OBVIOUS
<1>1. CASE ServerStart \/ ServerStep \/ ServerExit
  BY <1>1, ServerQuietUsers, ServerLoginUsers, RegisterUsers, SendListUsers, HeardUsers,
     ByeUsers, ExitUsers
  DEF ServerStep
<1>2. ASSUME NEW c \in Clients, MainStep(c) \/ HandlerStep(c) \/ Speak(c) \/ Quit(c)
      PROVE  UsersInv'
  BY <1>2, ClientSilentUsers, ClientSpeaksUsers, LeaverUsers DEF MainStep, HandlerStep
<1>3. CASE UNCHANGED vars
  BY <1>3 DEF vars, UsersInv, UsersCounted, ByeMeant, Ended, InUseActive, InUse, Active, Answers,
              ListInStep, ListOf, ListWithout
<1> QED
  BY <1>1, <1>2, <1>3 DEF Next

LEMMA InitUsers == Init => UsersInv
<1> SUFFICES ASSUME Init PROVE UsersInv
  OBVIOUS
<1>1. /\ users = <<>> /\ DOMAIN users = {} /\ spc = "off" /\ linked = {} /\ active_users = 0
      /\ users_list = <<>>
  BY EmptySeq DEF Init
<1>2. Active(users) = {} /\ ListOf(users) = <<>>
  BY <1>1 DEF Active, ListOf
<1>3. UsersCounted
  BY <1>1, <1>2, FS_EmptySet DEF UsersCounted
<1> QED
  BY <1>1, <1>2, <1>3 DEF UsersInv, ByeMeant, InUseActive, ListInStep

\* In every run: a client that was given a number finds its queues as long as
\* the server runs, however the server, its users' good-byes and the answers it
\* takes back itself interleave.
THEOREM QueuesReadyHolds == Spec => []QueuesReady
<1>1. Inv /\ UsersInv => QueuesReady
  <2> SUFFICES ASSUME Inv, UsersInv, LoginExists, NEW c \in Clients, cpc[c] \in {"openrcv", "opensnd"}
               PROVE  cid[c] \in linked
    BY DEF QueuesReady
  <2>1. cid[c] \in DOMAIN users
    BY DEF Inv, NumbersKnown, Numbered
  <2> QED
    BY <2>1 DEF UsersInv, UsersCounted, InUseActive, InUse, LoginExists
<1> QED
  BY InitInv, NextInv, InitUsers, NextUsers, <1>1, PTL DEF Spec

\* In every run: whenever no user is being announced, the list the server sends
\* out is the list of the users still connected.
THEOREM ListAgreesHolds == Spec => []ListAgrees
<1>1. UsersInv => ListAgrees
  BY DEF UsersInv, ListInStep, ListAgrees
<1> QED
  BY InitInv, NextInv, InitUsers, NextUsers, <1>1, PTL DEF Spec

\* In every run: when the server leaves after its last user, no client that was
\* given a number is still running.
THEOREM LastOneOutHolds == Spec => []LastOneOut
<1>1. Inv /\ UsersInv => LastOneOut
  <2> SUFFICES ASSUME Inv, UsersInv, spc = "left", NEW c \in Clients, cid[c] # 0, cpc[c] # "exited"
               PROVE  FALSE
    BY DEF LastOneOut
  <2>1. cid[c] \in DOMAIN users
    BY DEF Inv, NumbersKnown
  <2> QED
    BY <2>1 DEF UsersInv, UsersCounted, InUseActive, InUse
<1> QED
  BY InitInv, NextInv, InitUsers, NextUsers, <1>1, PTL DEF Spec

\* In every run: whoever got a number is served until it leaves.
THEOREM ServedToTheEndHolds == Spec => []ServedToTheEnd
<1>1. QueuesReady /\ LastOneOut => ServedToTheEnd
  BY DEF ServedToTheEnd
<1> QED
  BY QueuesReadyHolds, LastOneOutHolds, <1>1, PTL

(***************************************************************************)
(* Who is heard under which name.  A client's queue is empty until it has  *)
(* sent its name, the queue holds only what its owner sent, and a line in  *)
(* it has the name ahead of it, in the queue or already read: the name has *)
(* the higher priority.                                                    *)
(***************************************************************************)
Sayings == [line : [prio : {MSG_PRIORYTY}, login : Logins, text : Texts], to : SUBSET Nat]

Entered == {"drain", "show", "chat"}

\* The owner of the number i has sent its name or has ended.
Spoke(i) == \E c \in Clients : cid[c] = i /\ cpc[c] \in Entered \cup {"exited"}

NameAhead(i, c) == users[i].login = c \/ Contains(cts[i], Name(c))

\* The message m fits in the queue of the user i.
FromOwner(i, m) == /\ m.prio = USRNAME_PRIORITY => cid[m.login] = i
                   /\ m.prio = USER_PRIORITY => cid[m.text.by] = i
AfterName(i, m) == m.prio = USER_PRIORITY => NameAhead(i, m.text.by)

SilentFirst == \A i \in DOMAIN users : cts[i] # <<>> => Spoke(i)
OwnWords    == \A i \in DOMAIN users, m \in CtsMsgs : Contains(cts[i], m) => FromOwner(i, m)
NameFirst   == \A i \in DOMAIN users, m \in CtsMsgs : Contains(cts[i], m) => AfterName(i, m)
EnteredNamed ==
  \A c \in Clients : cpc[c] \in Entered /\ cid[c] \in linked => NameAhead(cid[c], c)
SaidNamed   == said \in Seq(Sayings) /\ NamedBeforeHeard

NameInv == SilentFirst /\ OwnWords /\ NameFirst /\ EnteredNamed /\ SaidNamed

\* The steps of the clients: what they add to a queue is its owner's.
LEMMA ClientNames ==
  ASSUME TypeOK, NameInv, UNCHANGED <<users, linked, said, cid>>,
         \A i \in DOMAIN users : cts'[i] # <<>> => cts[i] # <<>> \/ Spoke(i)',
         \A i \in DOMAIN users : Spoke(i) => Spoke(i)',
         \A i \in DOMAIN users, x \in CtsMsgs : Contains(cts[i], x) => Contains(cts'[i], x),
         \A i \in DOMAIN users, x \in CtsMsgs : Contains(cts'[i], x) =>
              Contains(cts[i], x) \/ (FromOwner(i, x) /\ AfterName(i, x)),
         \A c \in Clients : cpc'[c] \in Entered /\ cid[c] \in linked =>
              cpc[c] \in Entered \/ NameAhead(cid[c], c)'
  PROVE  NameInv'
<1>1. SilentFirst'
  BY DEF NameInv, SilentFirst
<1>2. OwnWords'
  BY DEF NameInv, OwnWords, FromOwner
<1>3. \A i \in DOMAIN users, c \in Clients : NameAhead(i, c) => NameAhead(i, c)'
  BY CtsMsgFacts DEF NameAhead, Name
<1>4. NameFirst'
  <2> SUFFICES ASSUME NEW i \in DOMAIN users, NEW m \in CtsMsgs, Contains(cts'[i], m), m.prio = USER_PRIORITY
               PROVE  NameAhead(i, m.text.by)'
    BY DEF NameFirst, AfterName
  <2>1. AfterName(i, m)
    BY DEF NameInv, NameFirst
  <2>2. m.text.by \in Clients
    BY CtsMsgFacts DEF Texts
  <2> QED
    BY <1>3, <2>1, <2>2 DEF AfterName
<1>5. EnteredNamed'
  <2> SUFFICES ASSUME NEW c \in Clients, cpc'[c] \in Entered, cid[c] \in linked
               PROVE  NameAhead(cid[c], c)'
    BY DEF EnteredNamed
  <2>1. cid[c] \in DOMAIN users
    BY UserQueues
  <2> QED
    BY <1>3, <2>1 DEF NameInv, EnteredNamed
<1>6. SaidNamed'
  BY DEF NameInv, SaidNamed, NamedBeforeHeard
<1> QED
  BY <1>1, <1>2, <1>4, <1>5, <1>6 DEF NameInv

\* The clients' steps that send nothing to the server but on /login.
LEMMA ClientSilentNames ==
  ASSUME Inv, NameInv, NEW c \in Clients,
         \/ OpenLogin(c) \/ SendRequest(c) \/ PutBack(c) \/ TakeRequest(c)
         \/ Notify(c) \/ MainDone(c) \/ MainReceive(c) \/ MainShow(c)
         \/ HandlerReceive(c) \/ HandlerShow(c) \/ HandlerDone(c) \/ HandlerArm(c)
  PROVE  NameInv'
<1>1. UNCHANGED <<users, linked, said, cid, cts>>
  BY DEF OpenLogin, SendRequest, PutBack, PostRequest, TakeRequest, Notify,
         MainDone, MainReceive, MainShow, HandlerReceive, HandlerShow, HandlerDone, HandlerArm
<1>2. \/ cpc' = cpc
      \/ cpc[c] \in Entered /\ \E pc \in Entered : cpc' = [cpc EXCEPT ![c] = pc]
      \/ /\ cpc[c] \notin Entered \cup {"exited"}
         /\ \E pc \in {"request", "await", "putback", "name"} : cpc' = [cpc EXCEPT ![c] = pc]
  BY DEF OpenLogin, SendRequest, PutBack, PostRequest, TakeRequest, Notify, Goto, Entered,
         MainDone, MainReceive, MainShow, HandlerReceive, HandlerShow, HandlerDone, HandlerArm
<1>3. cpc \in [Clients -> ClientPcs]
  BY DEF Inv, TypeOK, ClientsTypeOK
<1>4. \A d \in Clients : /\ cpc'[d] \in Entered => cpc[d] \in Entered
                         /\ cpc[d] \in Entered \cup {"exited"} => cpc'[d] \in Entered \cup {"exited"}
  BY <1>2, <1>3 DEF Entered
<1>5. \A i \in DOMAIN users : Spoke(i) => Spoke(i)'
  BY <1>1, <1>4 DEF Spoke
<1> QED
  BY <1>1, <1>4, <1>5, ClientNames DEF Inv

\* A client is given a number: its owner so far was nobody.
LEMMA TakeAnswerNames ==
  ASSUME Inv, NameInv, NEW c \in Clients, TakeAnswer(c)
  PROVE  NameInv'
<1>1. /\ cpc[c] = "await" /\ cpc' = [cpc EXCEPT ![c] = "openrcv"]
      /\ cid' = [cid EXCEPT ![c] = Received(login_q).id]
      /\ UNCHANGED <<users, linked, said, cts>>
  BY DEF TakeAnswer, Goto
<1>2. /\ cid[c] = 0 /\ 0 \notin DOMAIN users /\ cpc \in [Clients -> ClientPcs]
      /\ cid \in [Clients -> Nat]
  BY <1>1, UserQueues DEF Inv, NumbersKnown, Unnumbered, TypeOK, ClientsTypeOK
<1>3. \A d \in Clients : d # c => cpc'[d] = cpc[d] /\ cid'[d] = cid[d]
  BY <1>1, <1>2
<1>4. cpc'[c] = "openrcv" /\ "openrcv" \notin Entered /\ cpc[c] \notin Entered \cup {"exited"}
  BY <1>1, <1>2 DEF Entered
<1>5. SilentFirst'
  <2>1. \A i \in DOMAIN users : Spoke(i) => Spoke(i)'
    BY <1>3, <1>4 DEF Spoke
  <2> QED
    BY <1>1, <2>1 DEF NameInv, SilentFirst
<1>6. OwnWords'
  <2> SUFFICES ASSUME NEW i \in DOMAIN users, NEW m \in CtsMsgs, Contains(cts[i], m)
               PROVE  FromOwner(i, m)'
    BY <1>1 DEF OwnWords
  <2>1. FromOwner(i, m)
    BY DEF NameInv, OwnWords
  <2>2. /\ m.prio = USRNAME_PRIORITY => m.login \in Clients
        /\ m.prio = USER_PRIORITY => m.text.by \in Clients
    BY CtsMsgFacts DEF Texts
  <2> QED
    BY <1>2, <1>3, <2>1, <2>2 DEF FromOwner
<1>7. NameFirst'
  BY <1>1 DEF NameInv, NameFirst, AfterName, NameAhead
<1>8. EnteredNamed'
  BY <1>1, <1>3, <1>4 DEF NameInv, EnteredNamed, NameAhead
<1>9. SaidNamed'
  BY <1>1 DEF NameInv, SaidNamed, NamedBeforeHeard
<1> QED
  BY <1>5, <1>6, <1>7, <1>8, <1>9 DEF NameInv

\* A client sends its name first: its queue is empty, so the name gets in.
LEMMA SendNameNames ==
  ASSUME Inv, NameInv, NEW c \in Clients, SendName(c)
  PROVE  NameInv'
<1>1. /\ cpc[c] = "name" /\ cpc' = [cpc EXCEPT ![c] = "drain"]
      /\ cts' = SentCts(c, Name(c))
      /\ UNCHANGED <<users, linked, said, cid>>
  BY DEF SendName, Goto
<1>2. /\ cid[c] \in DOMAIN users /\ cid[c] # 0 /\ cpc \in [Clients -> ClientPcs]
      /\ DOMAIN cts = DOMAIN users
  BY <1>1, UserQueues DEF Inv, NumbersKnown, Numbered, TypeOK, ClientsTypeOK
<1>3. ~Spoke(cid[c])
  BY <1>1, <1>2 DEF Spoke, Entered, Inv, OneOwner
<1>4. cts[cid[c]] = <<>>
  BY <1>2, <1>3 DEF NameInv, SilentFirst
<1>5. HasRoom(cts[cid[c]], UserMax)
  BY <1>4, EmptySeq, UserMaxAssumption DEF HasRoom
<1>6. /\ \A i \in DOMAIN users :
           /\ i # cid[c] => cts'[i] = cts[i]
           /\ \A x : Contains(cts'[i], x) => Contains(cts[i], x) \/ (x = Name(c) /\ i = cid[c])
           /\ \A x : Contains(cts[i], x) => Contains(cts'[i], x)
      /\ cid[c] \in linked => Contains(cts'[cid[c]], Name(c))
  BY <1>1, <1>2, <1>5, SentCtsHolds, CtsMsgFacts DEF Inv
<1>7. /\ \A d \in Clients : /\ d # c => cpc'[d] = cpc[d]
                            /\ cpc[d] \in Entered \cup {"exited"} => cpc'[d] \in Entered \cup {"exited"}
      /\ cpc'[c] \in Entered
  BY <1>1, <1>2 DEF Entered
<1>8. \A i \in DOMAIN users : Spoke(i) => Spoke(i)'
  BY <1>1, <1>7 DEF Spoke
<1>9. \A i \in DOMAIN users : cts'[i] # <<>> => cts[i] # <<>> \/ Spoke(i)'
  BY <1>1, <1>6, <1>7 DEF Spoke
<1>10. \A i \in DOMAIN users, x \in CtsMsgs : Contains(cts'[i], x) =>
         Contains(cts[i], x) \/ (FromOwner(i, x) /\ AfterName(i, x))
  BY <1>6 DEF FromOwner, AfterName, Name
<1>11. \A d \in Clients : cpc'[d] \in Entered /\ cid[d] \in linked =>
         cpc[d] \in Entered \/ NameAhead(cid[d], d)'
  <2>1. cid[c] \in linked => NameAhead(cid[c], c)'
    BY <1>1, <1>6 DEF NameAhead, Name
  <2> QED
    BY <1>7, <2>1
<1> QED
  BY <1>1, <1>6, <1>8, <1>9, <1>10, <1>11, ClientNames DEF Inv

\* A line follows the name into the queue.
LEMMA SpeakNames ==
  ASSUME Inv, NameInv, NEW c \in Clients, Speak(c)
  PROVE  NameInv'
<1> DEFINE t == [by |-> c, n |-> typed + 1]
<1>1. /\ cpc[c] = "chat" /\ cts' = SentCts(c, Typed(t))
      /\ UNCHANGED <<users, linked, said, cid, cpc>>
  BY DEF Speak
<1>2. /\ cid[c] \in DOMAIN users /\ DOMAIN cts = DOMAIN users
      /\ t \in Texts /\ t.by = c
  BY <1>1, UserQueues DEF Inv, NumbersKnown, Numbered, TypeOK, ClientsTypeOK, Texts
<1> HIDE DEF t
<1>3. /\ cid[c] \in linked \/ cts' = cts
      /\ \A i \in DOMAIN users :
           /\ i # cid[c] => cts'[i] = cts[i]
           /\ \A x : Contains(cts'[i], x) => Contains(cts[i], x) \/ (x = Typed(t) /\ i = cid[c])
           /\ \A x : Contains(cts[i], x) => Contains(cts'[i], x)
  BY <1>1, <1>2, SentCtsHolds, CtsMsgFacts DEF Inv, SentCts
<1>4. cid[c] \in linked => FromOwner(cid[c], Typed(t)) /\ AfterName(cid[c], Typed(t))
  BY <1>1, <1>2 DEF FromOwner, AfterName, Typed, NameInv, EnteredNamed, Entered
<1>5. \A i \in DOMAIN users : /\ Spoke(i) => Spoke(i)'
                              /\ cts'[i] # <<>> => cts[i] # <<>> \/ Spoke(i)'
  BY <1>1, <1>3 DEF Spoke, Entered
<1>6. \A i \in DOMAIN users, x \in CtsMsgs : Contains(cts'[i], x) =>
         Contains(cts[i], x) \/ (FromOwner(i, x) /\ AfterName(i, x))
  BY <1>3, <1>4
<1> QED
  BY <1>1, <1>3, <1>5, <1>6, ClientNames DEF Inv

\* The steps with which a client may leave: a good-bye is no line.
LEMMA LeaverNames ==
  ASSUME Inv, NameInv, NEW c \in Clients,
         OpenRcv(c) \/ OpenSnd(c) \/ MainReceiveBye(c) \/ HandlerReceiveBye(c) \/ Quit(c)
  PROVE  NameInv'
<1>1. /\ UNCHANGED <<users, linked, said, cid>>
      /\ \/ Leave(c)
         \/ /\ cpc[c] \in {"openrcv", "opensnd"} /\ cts' = cts
            /\ cpc' \in {[cpc EXCEPT ![c] = "opensnd"], [cpc EXCEPT ![c] = "notify"]}
  BY DEF OpenRcv, OpenSnd, OpenQueue, MainReceiveBye, HandlerReceiveBye, Quit, Goto
<1>2. cpc \in [Clients -> ClientPcs] /\ DOMAIN cts = DOMAIN users
  BY UserQueues DEF Inv, TypeOK, ClientsTypeOK
<1>3. CASE Leave(c)
  <2>1. /\ \A i \in DOMAIN users :
             /\ i # cid[c] => cts'[i] = cts[i]
             /\ \A x : Contains(cts'[i], x) => Contains(cts[i], x) \/ (x = Bye /\ i = cid[c])
             /\ \A x : Contains(cts[i], x) => Contains(cts'[i], x)
        /\ cpc' = [cpc EXCEPT ![c] = "exited"]
    BY <1>2, <1>3, LeaveHolds DEF Inv
  <2>2. /\ \A d \in Clients : d # c => cpc'[d] = cpc[d]
        /\ cpc'[c] = "exited" /\ "exited" \notin Entered
    BY <1>2, <2>1 DEF Entered
  <2>3. \A i \in DOMAIN users : /\ Spoke(i) => Spoke(i)'
                                /\ cts'[i] # <<>> => cts[i] # <<>> \/ Spoke(i)'
    BY <1>1, <2>1, <2>2 DEF Spoke
  <2>4. \A i \in DOMAIN users : FromOwner(i, Bye) /\ AfterName(i, Bye)
    BY DEF FromOwner, AfterName, Bye
  <2>5. \A i \in DOMAIN users, x \in CtsMsgs : Contains(cts'[i], x) =>
           Contains(cts[i], x) \/ (FromOwner(i, x) /\ AfterName(i, x))
    BY <2>1, <2>4
  <2> QED
    BY <1>1, <2>1, <2>2, <2>3, <2>5, ClientNames DEF Inv
<1>4. CASE /\ cpc[c] \in {"openrcv", "opensnd"} /\ cts' = cts
           /\ cpc' \in {[cpc EXCEPT ![c] = "opensnd"], [cpc EXCEPT ![c] = "notify"]}
  <2>1. \A d \in Clients : /\ cpc'[d] \in Entered => cpc[d] \in Entered
                           /\ cpc[d] \in Entered \cup {"exited"} => cpc'[d] \in Entered \cup {"exited"}
    BY <1>2, <1>4 DEF Entered
  <2>2. \A i \in DOMAIN users : Spoke(i) => Spoke(i)'
    BY <1>1, <2>1 DEF Spoke
  <2> QED
    BY <1>1, <1>4, <2>1, <2>2, ClientNames DEF Inv
<1> QED
  BY <1>1, <1>3, <1>4

\* The server's steps that leave the logins and what was said alone: a queue
\* is as it was, or empty and without a name.
LEMMA ServerNames ==
  ASSUME Inv, NameInv, UNCHANGED <<cpc, cid, said>>,
         DOMAIN users' = DOMAIN users, linked' \subseteq linked,
         \A i \in DOMAIN users : users'[i].login = users[i].login,
         \A i \in DOMAIN users : cts'[i] = cts[i] \/ (cts'[i] = <<>> /\ i \notin linked')
  PROVE  NameInv'
<1>1. \A x : ~Contains(<<>>, x)
  BY EmptySeq DEF Contains
<1>2. SilentFirst'
  BY DEF NameInv, SilentFirst, Spoke
<1>3. OwnWords'
  BY <1>1 DEF NameInv, OwnWords, FromOwner
<1>4. NameFirst'
  BY <1>1 DEF NameInv, NameFirst, AfterName, NameAhead
<1>5. EnteredNamed'
  BY UserQueues DEF Inv, NameInv, EnteredNamed, NameAhead
<1>6. SaidNamed'
  BY DEF NameInv, SaidNamed, NamedBeforeHeard
<1> QED
  BY <1>2, <1>3, <1>4, <1>5, <1>6 DEF NameInv

LEMMA ServerQuietNames ==
  ASSUME Inv, NameInv,
         \/ ServerStart \/ PollLogin \/ EndScan \/ SkipUser
         \/ TakeOwnAnswer \/ ReturnAnswer \/ SendAnswer \/ SendList
  PROVE  NameInv'
<1>1. UNCHANGED <<users, linked, cts, cpc, cid, said>>
  BY DEF ServerStart, PollLogin, StartScan, EndScan, SkipUser, TakeOwnAnswer, ReturnAnswer,
         SendAnswer, SendList
<1> QED
  BY <1>1, ServerNames

\* A new user: nobody has its number yet, and its queues are empty.
LEMMA RegisterNames ==
  ASSUME Inv, NameInv, Register
  PROVE  NameInv'
<1> DEFINE n == Len(users) + 1
           u == [id |-> n, login |-> n]
<1>1. /\ users' = Append(users, u) /\ cts' = Append(cts, <<>>) /\ linked' = linked \cup {n}
      /\ UNCHANGED <<cpc, cid, said>>
  BY DEF Register, NewId
<1>2. /\ DOMAIN users = 1 .. Len(users) /\ Len(users) \in Nat /\ DOMAIN cts = DOMAIN users
      /\ users \in Seq([id : {Gone} \cup Nat, login : Logins]) /\ cts \in Seq(Seq(CtsMsgs))
      /\ Len(cts) = Len(users) /\ linked \subseteq DOMAIN users
  BY UserQueues DEF Inv, TypeOK, ServerTypeOK, QueuesTypeOK
<1>3. u \in [id : {Gone} \cup Nat, login : Logins]
  BY <1>2 DEF Logins
<1>4. /\ DOMAIN users' = DOMAIN users \cup {n} /\ n \notin DOMAIN users
      /\ \A i \in DOMAIN users : users'[i] = users[i]
  <2>1. /\ users' \in Seq([id : {Gone} \cup Nat, login : Logins])
        /\ Len(users') = n /\ \A i \in 1 .. Len(users) : users'[i] = users[i]
    BY <1>1, <1>2, <1>3, AppendProperties
  <2>2. DOMAIN users' = 1 .. n
    BY <2>1, LenProperties
  <2> QED
    BY <1>2, <2>1, <2>2
<1>5. /\ \A i \in DOMAIN users : cts'[i] = cts[i]
      /\ cts'[n] = <<>>
  BY <1>1, <1>2, EmptySeq, AppendProperties
<1> HIDE DEF u, n
<1>6. \A x : ~Contains(<<>>, x)
  BY EmptySeq DEF Contains
<1>7. \A c \in Clients : cid[c] # n \/ cpc[c] \notin Entered
  <2>1. ASSUME NEW c \in Clients, cpc[c] \in Entered
        PROVE  cid[c] \in DOMAIN users
    BY <2>1 DEF Inv, NumbersKnown, Entered, Numbered
  <2> QED
    BY <1>4, <2>1
<1>8. SilentFirst'
  BY <1>1, <1>4, <1>5 DEF NameInv, SilentFirst, Spoke
<1>9. OwnWords'
  <2> SUFFICES ASSUME NEW i \in DOMAIN users', NEW m \in CtsMsgs, Contains(cts'[i], m)
               PROVE  FromOwner(i, m)'
    BY DEF OwnWords
  <2>1. i \in DOMAIN users /\ Contains(cts[i], m)
    BY <1>4, <1>5, <1>6
  <2> QED
    BY <1>1, <2>1 DEF NameInv, OwnWords, FromOwner
<1>10. NameFirst'
  BY <1>1, <1>4, <1>5, <1>6, ZenonT(60) DEF NameInv, NameFirst, AfterName, NameAhead
<1>11. EnteredNamed'
  BY <1>1, <1>2, <1>4, <1>5, <1>7 DEF NameInv, EnteredNamed, NameAhead
<1>12. SaidNamed'
  BY <1>1 DEF NameInv, SaidNamed, NamedBeforeHeard
<1> QED
  BY <1>8, <1>9, <1>10, <1>11, <1>12 DEF NameInv

\* What stays in the queue the server takes from.
LEMMA TakenQueue ==
  ASSUME Inv, NameInv, NEW p, Hears(p), TakeCts, UNCHANGED <<cpc, cid>>
  PROVE  \A i \in DOMAIN users :
           /\ cts'[i] # <<>> => Spoke(i)'
           /\ \A m \in CtsMsgs : Contains(cts'[i], m) => Contains(cts[i], m) /\ FromOwner(i, m)'
<1>1. /\ index \in DOMAIN users /\ DOMAIN cts = DOMAIN users
      /\ \A i \in DOMAIN users : i # index => cts'[i] = cts[i]
      /\ \A x : Contains(cts'[index], x) => Contains(cts[index], x)
      /\ cts[index] # <<>>
  BY TakeCtsHolds, UserQueues DEF Inv, Hears
<1>2. \A i \in DOMAIN users : Spoke(i) => Spoke(i)'
  BY DEF Spoke
<1>3. \A i \in DOMAIN users, m \in CtsMsgs : FromOwner(i, m) => FromOwner(i, m)'
  BY DEF FromOwner
<1> QED
  BY <1>1, <1>2, <1>3 DEF NameInv, SilentFirst, OwnWords

\* A line is taken when no name is left in the queue: the user has its name.
LEMMA HandleChatNames ==
  ASSUME Inv, NameInv, HandleChat
  PROVE  NameInv'
<1> DEFINE m == Received(cts[index])
           e == [line |-> Line(users[index].login, m.text), to |-> Active(users)]
<1>1. /\ Hears(USER_PRIORITY) /\ TakeCts /\ said' = Append(said, e)
      /\ UNCHANGED <<users, linked, cpc, cid>>
  BY DEF HandleChat
<1>2. /\ index \in DOMAIN users /\ DOMAIN cts = DOMAIN users
      /\ m \in CtsMsgs /\ m.prio = USER_PRIORITY /\ Contains(cts[index], m)
      /\ \A x : Contains(cts[index], x) => x.prio <= USER_PRIORITY
      /\ \A i \in DOMAIN users : i # index => cts'[i] = cts[i]
      /\ \A x : Contains(cts[index], x) => x = m \/ Contains(cts'[index], x)
  BY <1>1, TakeCtsHolds, UserQueues DEF Inv
<1>3. \A i \in DOMAIN users :
        /\ cts'[i] # <<>> => Spoke(i)'
        /\ \A x \in CtsMsgs : Contains(cts'[i], x) => Contains(cts[i], x) /\ FromOwner(i, x)'
  BY <1>1, TakenQueue
<1>4. m.text \in Texts /\ m.text.by \in Clients
  BY <1>2, CtsMsgFacts DEF Texts
<1>5. users[index].login = m.text.by
  <2>1. NameAhead(index, m.text.by)
    BY <1>2 DEF NameInv, NameFirst, AfterName
  <2>2. ~Contains(cts[index], Name(m.text.by))
    BY <1>2 DEF Name
  <2> QED
    BY <2>1, <2>2 DEF NameAhead
<1> HIDE DEF m
<1>6. \A i \in DOMAIN users, c \in Clients : NameAhead(i, c) => NameAhead(i, c)'
  <2>1. \A c : Name(c) # m
    BY <1>2 DEF Name
  <2>2. \A i \in DOMAIN users, c \in Clients : Contains(cts[i], Name(c)) => Contains(cts'[i], Name(c))
    BY <1>2, <2>1
  <2> QED
    BY <1>1, <2>2 DEF NameAhead
<1>7. SilentFirst' /\ OwnWords'
  BY <1>1, <1>3 DEF SilentFirst, OwnWords
<1>8. NameFirst'
  <2> SUFFICES ASSUME NEW i \in DOMAIN users, NEW x \in CtsMsgs, Contains(cts'[i], x), x.prio = USER_PRIORITY
               PROVE  NameAhead(i, x.text.by)'
    BY <1>1 DEF NameFirst, AfterName
  <2>1. AfterName(i, x)
    BY <1>3 DEF NameInv, NameFirst
  <2>2. x.text.by \in Clients
    BY CtsMsgFacts DEF Texts
  <2> QED
    BY <1>6, <2>1, <2>2 DEF AfterName
<1>9. EnteredNamed'
  <2> SUFFICES ASSUME NEW c \in Clients, cpc[c] \in Entered, cid[c] \in linked
               PROVE  NameAhead(cid[c], c)'
    BY <1>1 DEF EnteredNamed
  <2>1. cid[c] \in DOMAIN users
    BY UserQueues DEF Inv
  <2> QED
    BY <1>1, <1>6, <2>1 DEF NameInv, EnteredNamed
<1>10. SaidNamed'
  <2>1. e \in Sayings /\ e.line.login = e.line.text.by
    <3>1. Line(users[index].login, m.text) \in [prio : {MSG_PRIORYTY}, login : Logins, text : Texts]
      BY <1>4, <1>5 DEF Line, Logins
    <3>2. Active(users) \subseteq Nat
      BY UserQueues DEF Inv, Active
    <3> QED
      BY <1>5, <3>1, <3>2 DEF Sayings, Line
  <2> HIDE DEF e
  <2>2. said \in Seq(Sayings) /\ NamedBeforeHeard
    BY DEF NameInv, SaidNamed
  <2>3. /\ said' \in Seq(Sayings) /\ Len(said') = Len(said) + 1
        /\ said'[Len(said) + 1] = e
        /\ \A k \in 1 .. Len(said) : said'[k] = said[k]
    BY <1>1, <2>1, <2>2, AppendProperties
  <2>4. DOMAIN said' = 1 .. Len(said) + 1 /\ DOMAIN said = 1 .. Len(said) /\ Len(said) \in Nat
    BY <2>2, <2>3, LenProperties
  <2> QED
    BY <2>1, <2>2, <2>3, <2>4 DEF SaidNamed, NamedBeforeHeard
<1> QED
  BY <1>7, <1>8, <1>9, <1>10 DEF NameInv

\* The server reads the name: it is the owner's, and all lines behind it are.
LEMMA HandleNameNames ==
  ASSUME Inv, NameInv, HandleName
  PROVE  NameInv'
<1> DEFINE m == Received(cts[index])
<1>1. /\ Hears(USRNAME_PRIORITY) /\ TakeCts
      /\ users' = [users EXCEPT ![index].login = m.login]
      /\ UNCHANGED <<linked, cpc, cid, said>>
  BY DEF HandleName
<1>2. /\ index \in DOMAIN users /\ DOMAIN cts = DOMAIN users
      /\ m \in CtsMsgs /\ m.prio = USRNAME_PRIORITY /\ Contains(cts[index], m)
      /\ \A i \in DOMAIN users : i # index => cts'[i] = cts[i]
  BY <1>1, TakeCtsHolds, UserQueues DEF Inv
<1>3. \A i \in DOMAIN users :
        /\ cts'[i] # <<>> => Spoke(i)'
        /\ \A x \in CtsMsgs : Contains(cts'[i], x) => Contains(cts[i], x) /\ FromOwner(i, x)'
  BY <1>1, TakenQueue
<1>4. m.login \in Clients /\ cid[m.login] = index /\ index # 0
  BY <1>2, CtsMsgFacts, UserQueues DEF Inv, NameInv, OwnWords, FromOwner
<1> HIDE DEF m
<1>5. /\ DOMAIN users' = DOMAIN users
      /\ \A i \in DOMAIN users : users'[i].login = IF i = index THEN m.login ELSE users[i].login
  <2>1. \A i \in DOMAIN users : users'[i] =
          IF i = index THEN [users[i] EXCEPT !.login = m.login] ELSE users[i]
    BY <1>1
  <2>2. DOMAIN users' = DOMAIN users
    BY <1>1
  <2>3. users \in Seq([id : {Gone} \cup Nat, login : Logins])
    BY DEF Inv, TypeOK, ServerTypeOK
  <2>4. \A i \in DOMAIN users : users[i] \in [id : {Gone} \cup Nat, login : Logins]
    BY <2>3, UserFacts
  <2>5. \A r \in [id : {Gone} \cup Nat, login : Logins] : \A l : [r EXCEPT !.login = l].login = l
    OBVIOUS
  <2> QED
    BY <2>1, <2>2, <2>4, <2>5
<1>6. \A c \in Clients : cid[c] = index => c = m.login
  BY <1>4 DEF Inv, OneOwner
<1>7. \A i \in DOMAIN users, c \in Clients : cid[c] = i /\ NameAhead(i, c) => NameAhead(i, c)'
  BY <1>2, <1>5, <1>6 DEF NameAhead
<1>8. SilentFirst' /\ OwnWords'
  BY <1>3, <1>5 DEF SilentFirst, OwnWords
<1>9. NameFirst'
  <2> SUFFICES ASSUME NEW i \in DOMAIN users, NEW x \in CtsMsgs, Contains(cts'[i], x), x.prio = USER_PRIORITY
               PROVE  NameAhead(i, x.text.by)'
    BY <1>5 DEF NameFirst, AfterName
  <2>1. AfterName(i, x) /\ FromOwner(i, x)
    BY <1>3 DEF NameInv, NameFirst, OwnWords
  <2>2. x.text.by \in Clients
    BY CtsMsgFacts DEF Texts
  <2> QED
    BY <1>7, <2>1, <2>2 DEF AfterName, FromOwner
<1>10. EnteredNamed'
  <2> SUFFICES ASSUME NEW c \in Clients, cpc[c] \in Entered, cid[c] \in linked
               PROVE  NameAhead(cid[c], c)'
    BY <1>1 DEF EnteredNamed
  <2>1. cid[c] \in DOMAIN users
    BY UserQueues DEF Inv
  <2> QED
    BY <1>1, <1>7, <2>1 DEF NameInv, EnteredNamed
<1>11. SaidNamed'
  BY <1>1 DEF NameInv, SaidNamed, NamedBeforeHeard
<1> QED
  BY <1>8, <1>9, <1>10, <1>11 DEF NameInv

\* The server forgets a user, or ends.
LEMMA ForgottenNames ==
  ASSUME Inv, UsersInv, NameInv, HandleBye \/ HandleLastBye \/ ServerExit
  PROVE  NameInv'
<1>1. CASE HandleBye \/ HandleLastBye
  <2>1. /\ ForgetUser /\ UNCHANGED <<cpc, cid, said>>
    BY <1>1 DEF HandleBye, HandleLastBye
  <2>2. /\ cts' = [cts EXCEPT ![index] = <<>>] /\ linked' = linked \ {index}
        /\ users' = [users EXCEPT ![index].id = Gone]
    BY <2>1 DEF ForgetUser, Unlink
  <2>3. /\ DOMAIN users' = DOMAIN users
        /\ \A i \in DOMAIN users : users'[i].login = users[i].login
    <3>1. users \in Seq([id : {Gone} \cup Nat, login : Logins])
      BY DEF Inv, TypeOK, ServerTypeOK
    <3>2. \A i \in DOMAIN users : users[i] \in [id : {Gone} \cup Nat, login : Logins]
      BY <3>1, UserFacts
    <3>3. \A r \in [id : {Gone} \cup Nat, login : Logins] : \A l : [r EXCEPT !.id = l].login = r.login
      OBVIOUS
    <3>4. /\ DOMAIN users' = DOMAIN users
          /\ \A i \in DOMAIN users : users'[i] =
               IF i = index THEN [users[i] EXCEPT !.id = Gone] ELSE users[i]
      BY <2>2
    <3> QED
      BY <3>2, <3>3, <3>4
  <2>4. \A i \in DOMAIN users : cts'[i] = cts[i] \/ (cts'[i] = <<>> /\ i \notin linked')
    BY <2>2, UserQueues DEF Inv
  <2> QED
    BY <2>1, <2>2, <2>3, <2>4, ServerNames
<1>2. CASE ServerExit
  <2>1. /\ UNCHANGED <<users, cpc, cid, said>>
        /\ \/ UNCHANGED <<cts, linked>>
           \/ cts' = [i \in DOMAIN cts |-> <<>>] /\ linked' = linked \ Active(users)
    BY <1>2 DEF ServerExit
  <2>2. linked = Active(users)
    BY <1>2 DEF ServerExit, LoginExists, UsersInv, UsersCounted
  <2>3. \A i \in DOMAIN users : cts'[i] = cts[i] \/ (cts'[i] = <<>> /\ i \notin linked')
    BY <2>1, <2>2, UserQueues DEF Inv
  <2> QED
    BY <2>1, <2>3, ServerNames
<1> QED
  BY <1>1, <1>2

LEMMA NextNames == Inv /\ UsersInv /\ NameInv /\ [Next]_vars => NameInv'
<1> SUFFICES ASSUME Inv, UsersInv, NameInv, [Next]_vars PROVE NameInv'
  OBVIOUS
<1>1. CASE ServerStart \/ ServerStep \/ ServerExit
  BY <1>1, ServerQuietNames, RegisterNames, HandleChatNames, HandleNameNames, ForgottenNames
  DEF ServerStep
<1>2. ASSUME NEW c \in Clients, MainStep(c) \/ HandlerStep(c) \/ Speak(c) \/ Quit(c)
      PROVE  NameInv'
  BY <1>2, ClientSilentNames, TakeAnswerNames, SendNameNames, SpeakNames, LeaverNames
  DEF MainStep, HandlerStep
<1>3. CASE UNCHANGED vars
  BY <1>3, ServerNames DEF vars
<1> QED
  BY <1>1, <1>2, <1>3 DEF Next

LEMMA InitNames == Init => NameInv
BY EmptySeq DEF Init, NameInv, SilentFirst, OwnWords, NameFirst, EnteredNamed, Entered, SaidNamed,
                NamedBeforeHeard

\* In every run: nobody is heard under the default login, however full the
\* queues are and whatever the server does between the name and the line.
THEOREM NamedBeforeHeardHolds == Spec => []NamedBeforeHeard
<1>1. NameInv => NamedBeforeHeard
  BY DEF NameInv, SaidNamed
<1> QED
  BY InitInv, NextInv, InitUsers, NextUsers, InitNames, NextNames, <1>1, PTL DEF Spec

(***************************************************************************)
(* No login is lost: for every client that waits there is a message on     *)
(* /login or in a hand, or one that was lost.                              *)
(***************************************************************************)
\* How many clients are at one of some places, after one of them moved.
AtSome(pc, P) == {c \in Clients : pc[c] \in P}

LEMMA ClientMoves ==
  ASSUME NEW c \in Clients, NEW pc, NEW qc, \A d \in Clients \ {c} : qc[d] = pc[d], NEW P
  PROVE  /\ Cardinality(AtSome(pc, P)) \in Nat
         /\ Cardinality(AtSome(qc, P)) = Cardinality(AtSome(pc, P))
              - (IF pc[c] \in P THEN 1 ELSE 0) + (IF qc[c] \in P THEN 1 ELSE 0)
<1> DEFINE old  == AtSome(pc, P)
           new  == AtSome(qc, P)
           rest == AtSome(pc, P) \ {c}
<1>1. IsFiniteSet(old) /\ Cardinality(old) \in Nat
  BY ClientsAssumption, FS_Subset, FS_CardinalityType DEF AtSome
<1>2. IsFiniteSet(rest) /\ Cardinality(rest) = Cardinality(old) - (IF pc[c] \in P THEN 1 ELSE 0)
  <2>1. IsFiniteSet(rest) /\ Cardinality(rest) = IF c \in old THEN Cardinality(old) - 1 ELSE Cardinality(old)
    BY <1>1, FS_RemoveElement
  <2>2. c \in old <=> pc[c] \in P
    BY DEF AtSome
  <2> HIDE DEF old, rest
  <2> QED
    BY <1>1, <2>1, <2>2
<1>3. new = IF qc[c] \in P THEN rest \cup {c} ELSE rest
  BY DEF AtSome
<1>4. c \notin rest
  OBVIOUS
<1> HIDE DEF old, new, rest
<1>5. Cardinality(rest \cup {c}) = Cardinality(rest) + 1
  BY <1>2, <1>4, FS_AddElement
<1> QED
  BY <1>1, <1>2, <1>3, <1>5 DEF old, new

\* The sum the property compares, part by part.
WaitingPcs == {"await", "putback"}
HoldingPcs == {"putback"}
InHand(s)  == IF s \in {"reans", "answer"} THEN 1 ELSE 0

LEMMA NoLoginLostParts ==
  /\ NoLoginLost <=>
       Cardinality(AtSome(cpc, WaitingPcs)) <=
         Len(login_q) + Cardinality(AtSome(cpc, HoldingPcs)) + InHand(spc) + lost
  /\ NoLoginLost' <=>
       Cardinality(AtSome(cpc', WaitingPcs)) <=
         Len(login_q') + Cardinality(AtSome(cpc', HoldingPcs)) + InHand(spc') + lost'
<1>1. Waiting = AtSome(cpc, WaitingPcs)
  BY DEF Waiting, AtSome, WaitingPcs
<1>2. {c \in Clients : cpc[c] = "putback"} = AtSome(cpc, HoldingPcs)
  BY DEF AtSome, HoldingPcs
<1>3. NoLoginLost <=>
       Cardinality(AtSome(cpc, WaitingPcs)) <=
         Len(login_q) + Cardinality(AtSome(cpc, HoldingPcs)) + InHand(spc) + lost
  BY <1>1, <1>2 DEF NoLoginLost, Logging, InHand
<1>4. Waiting' = AtSome(cpc', WaitingPcs)
  BY DEF Waiting, AtSome, WaitingPcs
<1>5. {c \in Clients : cpc'[c] = "putback"} = AtSome(cpc', HoldingPcs)
  BY DEF AtSome, HoldingPcs
<1>6. NoLoginLost' <=>
       Cardinality(AtSome(cpc', WaitingPcs)) <=
         Len(login_q') + Cardinality(AtSome(cpc', HoldingPcs)) + InHand(spc') + lost'
  BY <1>4, <1>5 DEF NoLoginLost, Logging, InHand
<1> QED
  BY <1>3, <1>6

\* The number of messages on /login after a receive and a send.
LEMMA LoginLengths ==
  ASSUME TypeOK
  PROVE  /\ Len(login_q) \in Nat /\ lost \in Nat
         /\ Cardinality(AtSome(cpc, WaitingPcs)) \in Nat
         /\ Cardinality(AtSome(cpc, HoldingPcs)) \in Nat
         /\ login_q # <<>> => Len(Remaining(login_q)) = Len(login_q) - 1
         /\ Len(Append(login_q, Request)) = Len(login_q) + 1
         /\ \A i \in Nat : PostAnswer(i) =>
              Len(login_q') \in Nat /\ lost' \in Nat /\ Len(login_q') + lost' = Len(login_q) + lost + 1
<1>1. login_q \in Seq(LoginMsgs) /\ Len(login_q) \in Nat /\ lost \in Nat
  BY LenProperties DEF TypeOK, QueuesTypeOK, HistoryTypeOK
<1>2. login_q # <<>> => Len(Remaining(login_q)) = Len(login_q) - 1
  BY <1>1, ReceiveProperties, LoginMsgFacts
<1>3. Len(Append(login_q, Request)) = Len(login_q) + 1
  BY <1>1, LoginMsgFacts, AppendProperties
<1>4. ASSUME NEW i \in Nat, PostAnswer(i)
      PROVE  Len(login_q') \in Nat /\ lost' \in Nat /\ Len(login_q') + lost' = Len(login_q) + lost + 1
  <2>1. Answer(i) \in LoginMsgs
    BY LoginMsgFacts
  <2>2. Len(Append(login_q, Answer(i))) = Len(login_q) + 1
    BY <1>1, <2>1, AppendProperties
  <2> QED
    BY <1>1, <1>4, <2>2 DEF PostAnswer, Offer
<1>5. /\ IsFiniteSet(AtSome(cpc, WaitingPcs)) /\ Cardinality(AtSome(cpc, WaitingPcs)) \in Nat
      /\ IsFiniteSet(AtSome(cpc, HoldingPcs)) /\ Cardinality(AtSome(cpc, HoldingPcs)) \in Nat
  BY ClientsAssumption, FS_Subset, FS_CardinalityType DEF AtSome
<1> QED
  BY <1>1, <1>2, <1>3, <1>4, <1>5

\* A step of the server.
LEMMA ServerLogins ==
  ASSUME Inv, NoLoginLost, ServerStart \/ ServerStep \/ ServerExit
  PROVE  NoLoginLost'
<1>1. /\ cpc' = cpc
      /\ \/ UNCHANGED <<login_q, lost>> /\ InHand(spc') = InHand(spc)
         \/ login_q # <<>> /\ login_q' = Remaining(login_q) /\ lost' = lost
            /\ InHand(spc) = 0 /\ InHand(spc') = 1
         \/ \E i \in Nat : PostAnswer(i) /\ InHand(spc) = 1 /\ InHand(spc') = 0
         \/ login_q' = login_q /\ lost' = lost + InHand(spc) /\ InHand(spc') = 0
  <2>1. CASE \/ ServerStart \/ PollLogin \/ EndScan \/ SkipUser
             \/ SendList \/ HandleChat \/ HandleName \/ HandleBye \/ HandleLastBye
    <3>1. /\ UNCHANGED <<cpc, login_q, lost>>
          /\ spc \notin {"reans", "answer"} /\ spc' \notin {"reans", "answer"}
      BY <2>1 DEF ServerStart, PollLogin, StartScan, EndScan, SkipUser, SendList, HandleChat,
                  HandleName, HandleBye, HandleLastBye, ForgetUser, Hears
    <3> QED
      BY <3>1 DEF InHand
  <2>2. CASE TakeOwnAnswer \/ Register
    BY <2>2 DEF TakeOwnAnswer, Register, InHand
  <2>3. CASE ReturnAnswer
    BY <2>3 DEF ReturnAnswer, StartScan, InHand, Inv, TypeOK, ServerTypeOK
  <2>4. CASE SendAnswer
    <3>1. users[Len(users)].id \in Nat
      <4>1. users[Len(users)].id = Len(users)
        BY <2>4 DEF SendAnswer, Inv, NumbersKnown
      <4> QED
        BY <4>1, UserQueues DEF Inv
    <3> QED
      BY <2>4, <3>1 DEF SendAnswer, InHand
  <2>5. CASE ServerExit
    <3>1. lost \in Nat
      BY DEF Inv, TypeOK, HistoryTypeOK
    <3> QED
      BY <2>5, <3>1 DEF ServerExit, InHand
  <2> QED
    BY <2>1, <2>2, <2>3, <2>4, <2>5 DEF ServerStep
<1>2. InHand(spc) \in {0, 1}
  BY DEF InHand
<1> QED
  BY <1>1, <1>2, NoLoginLostParts, LoginLengths, SMTT(30) DEF Inv

\* A step of a client.
LEMMA ClientLogins ==
  ASSUME Inv, NoLoginLost, NEW c \in Clients, MainStep(c) \/ HandlerStep(c) \/ Speak(c) \/ Quit(c)
  PROVE  NoLoginLost'
<1>1. cpc \in [Clients -> ClientPcs] /\ spc' = spc
  BY DEF Inv, TypeOK, ClientsTypeOK, MainStep, HandlerStep, Speak, Quit, OpenLogin, SendRequest, PutBack,
         PostRequest, TakeRequest, TakeAnswer, OpenRcv, OpenSnd, OpenQueue, Notify, SendName,
         MainReceive, MainReceiveBye, MainShow, MainDone, HandlerReceive, HandlerReceiveBye,
         HandlerShow, HandlerDone, HandlerArm
<1>2. \/ /\ login_q' = Append(login_q, Request) /\ lost' = lost
         /\ cpc[c] \in {"request", "putback"} /\ cpc' = [cpc EXCEPT ![c] = "await"]
      \/ /\ login_q # <<>> /\ login_q' = Remaining(login_q) /\ lost' = lost
         /\ cpc[c] = "await" /\ \E v \in {"putback", "openrcv"} : cpc' = [cpc EXCEPT ![c] = v]
      \/ UNCHANGED <<login_q, lost, cpc>>
      \/ /\ login_q' = login_q /\ lost' = lost /\ cpc[c] # "putback"
         /\ \E v \in ClientPcs \ WaitingPcs : cpc' = [cpc EXCEPT ![c] = v]
      \/ /\ login_q' = login_q /\ lost' = lost + 1 /\ cpc[c] = "putback"
         /\ cpc' = [cpc EXCEPT ![c] = "exited"]
  <2>1. CASE SendRequest(c) \/ PutBack(c)
    BY <2>1 DEF SendRequest, PutBack, PostRequest, Goto
  <2>2. CASE TakeRequest(c) \/ TakeAnswer(c)
    BY <2>2 DEF TakeRequest, TakeAnswer, Goto
  <2>3. CASE HandlerReceive(c) \/ HandlerShow(c) \/ HandlerDone(c) \/ HandlerArm(c) \/ Speak(c)
    BY <2>3 DEF HandlerReceive, HandlerShow, HandlerDone, HandlerArm, Speak
  <2>4. CASE \/ OpenLogin(c) \/ OpenRcv(c) \/ OpenSnd(c) \/ Notify(c) \/ SendName(c)
             \/ MainReceive(c) \/ MainReceiveBye(c) \/ MainShow(c) \/ MainDone(c)
    BY <2>4 DEF OpenLogin, OpenRcv, OpenSnd, OpenQueue, Notify, SendName, MainReceive,
                MainReceiveBye, MainShow, MainDone, Leave, Goto, ClientPcs, WaitingPcs
  <2>5. CASE HandlerReceiveBye(c)
    <3>1. cpc[c] # "putback"
      BY <2>5 DEF HandlerReceiveBye, Inv, NumbersKnown, Unnumbered
    <3> QED
      BY <2>5, <3>1 DEF HandlerReceiveBye, Leave, Goto, ClientPcs, WaitingPcs
  <2>6. CASE Quit(c)
    BY <2>6 DEF Quit, Leave, Goto, ClientPcs, WaitingPcs
  <2> QED
    BY <2>1, <2>2, <2>3, <2>4, <2>5, <2>6 DEF MainStep, HandlerStep
<1>3. InHand(spc) \in {0, 1}
  BY DEF InHand
<1>4. ASSUME NEW v \in ClientPcs, cpc' = [cpc EXCEPT ![c] = v]
      PROVE  /\ Cardinality(AtSome(cpc', WaitingPcs)) = Cardinality(AtSome(cpc, WaitingPcs))
                  - (IF cpc[c] \in WaitingPcs THEN 1 ELSE 0) + (IF v \in WaitingPcs THEN 1 ELSE 0)
             /\ Cardinality(AtSome(cpc', HoldingPcs)) = Cardinality(AtSome(cpc, HoldingPcs))
                  - (IF cpc[c] \in HoldingPcs THEN 1 ELSE 0) + (IF v \in HoldingPcs THEN 1 ELSE 0)
  <2>1. cpc'[c] = v /\ \A d \in Clients \ {c} : cpc'[d] = cpc[d]
    BY <1>1, <1>4
  <2>2. \A P : Cardinality(AtSome(cpc', P)) = Cardinality(AtSome(cpc, P))
                 - (IF cpc[c] \in P THEN 1 ELSE 0) + (IF cpc'[c] \in P THEN 1 ELSE 0)
    BY <2>1, ClientMoves
  <2> QED
    BY <2>1, <2>2
<1>5. CASE UNCHANGED <<login_q, lost, cpc>>
  BY <1>1, <1>5, NoLoginLostParts
<1>6. ASSUME NEW v \in ClientPcs, cpc' = [cpc EXCEPT ![c] = v],
             \/ /\ login_q' = Append(login_q, Request) /\ lost' = lost
                /\ cpc[c] \in {"request", "putback"} /\ v = "await"
             \/ /\ login_q # <<>> /\ login_q' = Remaining(login_q) /\ lost' = lost
                /\ cpc[c] = "await" /\ v \in {"putback", "openrcv"}
             \/ /\ login_q' = login_q /\ lost' = lost /\ cpc[c] # "putback" /\ v \notin WaitingPcs
             \/ /\ login_q' = login_q /\ lost' = lost + 1 /\ cpc[c] = "putback" /\ v = "exited"
      PROVE  NoLoginLost'
  <2> DEFINE w == Cardinality(AtSome(cpc, WaitingPcs))
             h == Cardinality(AtSome(cpc, HoldingPcs))
             x == Cardinality(AtSome(cpc', WaitingPcs))
             y == Cardinality(AtSome(cpc', HoldingPcs))
  <2>1. w \in Nat /\ h \in Nat /\ Len(login_q) \in Nat /\ lost \in Nat
    BY LoginLengths DEF Inv
  <2>2. w <= Len(login_q) + h + InHand(spc) + lost
    BY NoLoginLostParts
  <2>3. /\ x = w - (IF cpc[c] \in WaitingPcs THEN 1 ELSE 0) + (IF v \in WaitingPcs THEN 1 ELSE 0)
        /\ y = h - (IF cpc[c] \in HoldingPcs THEN 1 ELSE 0) + (IF v \in HoldingPcs THEN 1 ELSE 0)
    BY <1>4, <1>6
  <2>4. /\ login_q # <<>> => Len(Remaining(login_q)) = Len(login_q) - 1
        /\ Len(Append(login_q, Request)) = Len(login_q) + 1
    BY LoginLengths DEF Inv
  <2> HIDE DEF w, h, x, y
  <2>5. x <= Len(login_q') + y + InHand(spc) + lost'
    <3>1. CASE /\ login_q' = Append(login_q, Request) /\ lost' = lost
               /\ cpc[c] \in {"request", "putback"} /\ v = "await"
      <4>1. x <= w + 1 /\ y >= h - 1 /\ (cpc[c] = "request" => y = h) /\ (cpc[c] = "putback" => x = w)
            /\ x \in Int /\ y \in Int
        BY <2>1, <2>3, <3>1 DEF WaitingPcs, HoldingPcs
      <4> QED
        BY <1>3, <2>1, <2>2, <2>4, <3>1, <4>1
    <3>2. CASE /\ login_q # <<>> /\ login_q' = Remaining(login_q) /\ lost' = lost
               /\ cpc[c] = "await" /\ v \in {"putback", "openrcv"}
      <4>1. \/ x = w /\ y = h + 1
            \/ x = w - 1 /\ y = h
        BY <2>1, <2>3, <3>2 DEF WaitingPcs, HoldingPcs
      <4> QED
        BY <1>3, <2>1, <2>2, <2>4, <3>2, <4>1
    <3>3. CASE login_q' = login_q /\ lost' = lost /\ cpc[c] # "putback" /\ v \notin WaitingPcs
      <4>1. x <= w /\ y = h /\ x \in Int
        BY <2>1, <2>3, <3>3 DEF WaitingPcs, HoldingPcs
      <4> QED
        BY <1>3, <2>1, <2>2, <3>3, <4>1
    <3>4. CASE login_q' = login_q /\ lost' = lost + 1 /\ cpc[c] = "putback" /\ v = "exited"
      <4>1. x = w - 1 /\ y = h - 1
        BY <2>1, <2>3, <3>4 DEF WaitingPcs, HoldingPcs
      <4> QED
        BY <1>3, <2>1, <2>2, <3>4, <4>1
    <3> QED
      BY <1>6, <3>1, <3>2, <3>3, <3>4
  <2> QED
    BY <1>1, <2>5, NoLoginLostParts DEF x, y
<1> QED
  BY <1>2, <1>5, <1>6 DEF ClientPcs

\* In every run: for every client that waits for its number there is a message
\* on /login or in some hand, but for the answers that met a full /login and
\* the messages that ended with the process that had taken them.
THEOREM NoLoginLostHolds == Spec => []NoLoginLost
<1>1. Init => NoLoginLost
  <2> SUFFICES ASSUME Init PROVE NoLoginLost
    OBVIOUS
  <2>1. AtSome(cpc, WaitingPcs) = {} /\ AtSome(cpc, HoldingPcs) = {}
    BY DEF Init, AtSome, WaitingPcs, HoldingPcs
  <2>2. Cardinality({}) = 0 /\ Len(login_q) = 0 /\ lost = 0 /\ InHand(spc) = 0
    BY FS_EmptySet, EmptySeq DEF Init, InHand
  <2> QED
    BY <2>1, <2>2, NoLoginLostParts
<1>2. Inv /\ NoLoginLost /\ [Next]_vars => NoLoginLost'
  <2> SUFFICES ASSUME Inv, NoLoginLost, [Next]_vars PROVE NoLoginLost'
    OBVIOUS
  <2>1. CASE UNCHANGED vars
    BY <2>1, NoLoginLostParts DEF vars
  <2> QED
    BY <2>1, ServerLogins, ClientLogins DEF Next
<1> QED
  BY InitInv, NextInv, <1>1, <1>2, PTL DEF Spec

(***************************************************************************)
(* Who is woken.  A client that listens has a registration or a thread,    *)
(* never both and never neither, so a message in an empty queue wakes it,  *)
(* but between the thread's last receive and its mq_notify.                *)
(***************************************************************************)
Listening == {"name"} \cup Entered

Armed(c) ==
  /\ cpc[c] \in Listening => (notif[c] <=> hpc[c] = "none")
  /\ cpc[c] \notin Listening => ~notif[c] /\ hpc[c] = "none"
  /\ hpc[c] = "arm" /\ stc[cid[c]] # <<>> => raced[c]
  /\ cpc[c] = "chat" /\ notif[c] /\ stc[cid[c]] # <<>> => raced[c]

ArmInv == \A c \in Clients : Armed(c)

\* A client no step is about.
LEMMA ArmedFrame ==
  ASSUME NEW d \in Clients, Armed(d), cpc'[d] = cpc[d], hpc'[d] = hpc[d], notif'[d] = notif[d],
         raced'[d] = raced[d], cid'[d] = cid[d], cid[d] # 0 => stc'[cid[d]] = stc[cid[d]],
         hpc[d] # "none" \/ notif[d] => cid[d] # 0
  PROVE  Armed(d)'
BY DEF Armed

\* What a client takes from its queue concerns nobody else.
LEMMA OthersQueues ==
  ASSUME Inv, NEW c \in Clients, cid[c] # 0, TakeStc(c)
  PROVE  /\ DOMAIN stc' = DOMAIN stc
         /\ \A i \in DOMAIN stc : i # cid[c] => stc'[i] = stc[i]
         /\ stc'[cid[c]] = Remaining(stc[cid[c]])
         /\ \A d \in Clients : d # c /\ cid[d] # 0 => stc'[cid[d]] = stc[cid[d]]
<1>1. cid[c] \in DOMAIN stc
  BY OwnQueue
<1>2. \A d \in Clients : d # c /\ cid[d] # 0 => cid[d] # cid[c] /\ cid[d] \in DOMAIN stc
  BY OwnQueue DEF Inv, OneOwner
<1> QED
  BY <1>1, <1>2 DEF TakeStc

\* A step of the server that sends nothing on the users' queues.
LEMMA ServerQuietArmed ==
  ASSUME Inv, ArmInv,
         \/ ServerStart \/ PollLogin \/ EndScan \/ SkipUser \/ TakeOwnAnswer \/ ReturnAnswer
         \/ Register \/ SendAnswer \/ HandleLastBye
  PROVE  ArmInv'
<1>1. /\ UNCHANGED <<cpc, hpc, notif, raced, cid>>
      /\ stc' = stc \/ stc' = Append(stc, <<>>)
  BY DEF ServerStart, PollLogin, StartScan, EndScan, SkipUser, TakeOwnAnswer, ReturnAnswer, Register,
         SendAnswer, HandleLastBye
<1>2. stc \in Seq(Seq(StcMsgs)) /\ <<>> \in Seq(StcMsgs) /\ DOMAIN stc = 1 .. Len(stc)
  BY EmptySeq, LenProperties DEF Inv, TypeOK, QueuesTypeOK
<1>3. \A i \in DOMAIN stc : stc'[i] = stc[i]
  BY <1>1, <1>2, AppendProperties
<1>4. \A d \in Clients : cid[d] # 0 => stc'[cid[d]] = stc[cid[d]]
  BY <1>3, OwnQueue
<1>5. \A d \in Clients : hpc[d] # "none" \/ notif[d] => cid[d] # 0
  BY DEF Inv, NumbersKnown
<1> QED
  BY <1>1, <1>4, <1>5, ArmedFrame DEF ArmInv

\* The server sends to users.
LEMMA BroadcastArmed ==
  ASSUME Inv, ArmInv, NEW m, NEW to \in SUBSET DOMAIN users, Broadcast(m, to),
         UNCHANGED <<cpc, cid>>
  PROVE  ArmInv'
<1> SUFFICES ASSUME NEW c \in Clients PROVE Armed(c)'
  BY DEF ArmInv
<1>1. /\ notif' = [d \in Clients |-> notif[d] /\ ~(notif[d] /\ cid[d] \in to /\ stc[cid[d]] = <<>>)]
      /\ hpc' = [d \in Clients |->
                   IF notif[d] /\ cid[d] \in to /\ stc[cid[d]] = <<>> THEN "recv" ELSE hpc[d]]
      /\ raced' = [d \in Clients |-> raced[d] \/ (hpc[d] = "arm" /\ cid[d] \in to /\ stc[cid[d]] = <<>>)]
      /\ stc' = [i \in DOMAIN stc |-> IF i \in to THEN Offer(stc[i], UserMax, m) ELSE stc[i]]
  BY DEF Broadcast
<1>2. /\ Armed(c) /\ notif \in [Clients -> BOOLEAN] /\ raced \in [Clients -> BOOLEAN]
      /\ hpc[c] # "none" \/ notif[c] => cid[c] # 0
  BY DEF ArmInv, Inv, TypeOK, QueuesTypeOK, HistoryTypeOK, NumbersKnown
<1>3. cid[c] # 0 => cid[c] \in DOMAIN stc
  BY OwnQueue
<1> DEFINE woken == notif[c] /\ cid[c] \in to /\ stc[cid[c]] = <<>>
<1>4. /\ notif'[c] <=> notif[c] /\ ~woken
      /\ hpc'[c] = IF woken THEN "recv" ELSE hpc[c]
      /\ raced'[c] <=> raced[c] \/ (hpc[c] = "arm" /\ cid[c] \in to /\ stc[cid[c]] = <<>>)
  BY <1>1, <1>2
<1>5. cid[c] # 0 /\ cid[c] \notin to => stc'[cid[c]] = stc[cid[c]]
  BY <1>1, <1>3
<1> QED
  BY <1>2, <1>4, <1>5 DEF Armed, Listening, Entered

\* The server tells its users something, or good-bye.
LEMMA ServerSendsArmed ==
  ASSUME Inv, ArmInv, SendList \/ HandleChat \/ HandleName \/ HandleBye \/ ServerExit
  PROVE  ArmInv'
<1>1. \A us : DOMAIN us = DOMAIN users => Active(us) \in SUBSET DOMAIN users
  BY DEF Active
<1>2. CASE SendList \/ HandleChat \/ HandleName
  BY <1>1, <1>2, BroadcastArmed DEF SendList, HandleChat, HandleName
<1>3. CASE HandleBye
  <2>1. DOMAIN users' = DOMAIN users
    BY <1>3, ForgetUserTypes DEF HandleBye
  <2> QED
    BY <1>1, <1>3, <2>1, BroadcastArmed DEF HandleBye
<1>4. CASE ServerExit
  <2>1. \/ Broadcast(Bye, Active(users))
        \/ UNCHANGED <<stc, hpc, raced, notif>>
    BY <1>4 DEF ServerExit
  <2>2. UNCHANGED <<cpc, cid>>
    BY <1>4 DEF ServerExit
  <2>3. CASE UNCHANGED <<stc, hpc, raced, notif>>
    BY <2>2, <2>3 DEF ArmInv, Armed
  <2> QED
    BY <1>1, <2>1, <2>2, <2>3, BroadcastArmed
<1> QED
  BY <1>2, <1>3, <1>4

\* A step of the client c: the others stay as they are.
LEMMA ClientArmed ==
  ASSUME Inv, ArmInv, NEW c \in Clients, Armed(c)', raced' = raced,
         \A d \in Clients : d # c => /\ cpc'[d] = cpc[d] /\ hpc'[d] = hpc[d]
                                     /\ notif'[d] = notif[d] /\ cid'[d] = cid[d],
         stc' = stc \/ (TakeStc(c) /\ cid[c] # 0)
  PROVE  ArmInv'
<1>1. \A d \in Clients : d # c /\ cid[d] # 0 => stc'[cid[d]] = stc[cid[d]]
  BY OthersQueues
<1>2. \A d \in Clients : hpc[d] # "none" \/ notif[d] => cid[d] # 0
  BY DEF Inv, NumbersKnown
<1>3. ASSUME NEW d \in Clients, d # c
      PROVE  Armed(d)'
  BY <1>1, <1>2, <1>3, ArmedFrame DEF ArmInv
<1> QED
  BY <1>3 DEF ArmInv

\* The client's own steps on the way to its queue.
LEMMA EnterArmed ==
  ASSUME Inv, ArmInv, NEW c \in Clients,
         \/ OpenLogin(c) \/ SendRequest(c) \/ PutBack(c) \/ TakeRequest(c) \/ TakeAnswer(c)
         \/ Notify(c) \/ SendName(c)
  PROVE  ArmInv'
<1>1. /\ cpc \in [Clients -> ClientPcs] /\ notif \in [Clients -> BOOLEAN] /\ cid \in [Clients -> Nat]
      /\ Armed(c)
  BY DEF Inv, TypeOK, ClientsTypeOK, QueuesTypeOK, ArmInv
<1>2. /\ UNCHANGED <<stc, hpc, raced>>
      /\ \/ /\ cpc[c] \notin Listening /\ notif' = notif
            /\ \E pc \in {"request", "await", "putback", "openrcv"} : cpc' = [cpc EXCEPT ![c] = pc]
            /\ cid' = cid \/ cid' = [cid EXCEPT ![c] = Received(login_q).id]
         \/ /\ cpc[c] = "notify" /\ cpc' = [cpc EXCEPT ![c] = "name"] /\ cid' = cid
            /\ notif' = [notif EXCEPT ![c] = TRUE]
         \/ /\ cpc[c] = "name" /\ cpc' = [cpc EXCEPT ![c] = "drain"] /\ UNCHANGED <<cid, notif>>
  BY DEF OpenLogin, SendRequest, PutBack, PostRequest, TakeRequest, TakeAnswer, Notify, SendName, Goto,
         Listening, Entered
<1>3. /\ \A d \in Clients : d # c => /\ cpc'[d] = cpc[d] /\ hpc'[d] = hpc[d]
                                     /\ notif'[d] = notif[d] /\ cid'[d] = cid[d]
      /\ hpc'[c] = hpc[c]
      /\ \/ cpc[c] \notin Listening /\ cpc'[c] \notin Listening /\ cpc'[c] # "chat" /\ notif'[c] = notif[c]
         \/ cpc[c] = "notify" /\ cpc'[c] = "name" /\ notif'[c]
         \/ cpc[c] = "name" /\ cpc'[c] = "drain" /\ notif'[c] = notif[c] /\ cid'[c] = cid[c]
  BY <1>1, <1>2 DEF Listening, Entered
<1>4. Armed(c)'
  BY <1>1, <1>2, <1>3 DEF Armed, Listening, Entered
<1> QED
  BY <1>2, <1>3, <1>4, ClientArmed

\* A client that has left is neither registered nor has it a thread.
LEMMA LeaverArmed ==
  ASSUME Inv, ArmInv, NEW c \in Clients,
         OpenRcv(c) \/ OpenSnd(c) \/ MainReceiveBye(c) \/ HandlerReceiveBye(c) \/ Quit(c)
  PROVE  ArmInv'
<1>1. /\ cpc \in [Clients -> ClientPcs] /\ notif \in [Clients -> BOOLEAN] /\ hpc \in [Clients -> HandlerPcs]
      /\ Armed(c)
      /\ hpc[c] # "none" => cid[c] # 0
      /\ cpc[c] = "drain" => cid[c] # 0
  BY DEF Inv, TypeOK, ClientsTypeOK, QueuesTypeOK, ArmInv, NumbersKnown, Numbered
<1>2. /\ UNCHANGED <<raced, cid>>
      /\ stc' = stc \/ (TakeStc(c) /\ cid[c] # 0)
      /\ \/ Leave(c)
         \/ /\ cpc[c] \in {"openrcv", "opensnd"} /\ UNCHANGED <<stc, hpc, notif>>
            /\ cpc' \in {[cpc EXCEPT ![c] = "opensnd"], [cpc EXCEPT ![c] = "notify"]}
  BY <1>1 DEF OpenRcv, OpenSnd, OpenQueue, MainReceiveBye, HandlerReceiveBye, Quit, Goto
<1>3. CASE Leave(c)
  <2>1. /\ cpc' = [cpc EXCEPT ![c] = "exited"] /\ hpc' = [hpc EXCEPT ![c] = "none"]
        /\ notif' = [notif EXCEPT ![c] = FALSE]
    BY <1>3 DEF Leave, Goto
  <2>2. /\ \A d \in Clients : d # c => /\ cpc'[d] = cpc[d] /\ hpc'[d] = hpc[d]
                                       /\ notif'[d] = notif[d] /\ cid'[d] = cid[d]
        /\ cpc'[c] = "exited" /\ hpc'[c] = "none" /\ ~notif'[c]
    BY <1>1, <1>2, <2>1
  <2>3. Armed(c)'
    BY <2>2 DEF Armed, Listening, Entered
  <2> QED
    BY <1>2, <2>2, <2>3, ClientArmed
<1>4. CASE /\ cpc[c] \in {"openrcv", "opensnd"} /\ UNCHANGED <<stc, hpc, notif>>
           /\ cpc' \in {[cpc EXCEPT ![c] = "opensnd"], [cpc EXCEPT ![c] = "notify"]}
  <2>1. /\ \A d \in Clients : d # c => /\ cpc'[d] = cpc[d] /\ hpc'[d] = hpc[d]
                                       /\ notif'[d] = notif[d] /\ cid'[d] = cid[d]
        /\ cpc'[c] \in {"opensnd", "notify"}
    BY <1>1, <1>2, <1>4
  <2>2. Armed(c)'
    BY <1>1, <1>4, <2>1 DEF Armed, Listening, Entered
  <2> QED
    BY <1>2, <1>4, <2>1, <2>2, ClientArmed
<1> QED
  BY <1>2, <1>3, <1>4

\* The main thread drains its queue, and the thread handle_msg reads it.
LEMMA ReaderArmed ==
  ASSUME Inv, ArmInv, NEW c \in Clients,
         \/ MainReceive(c) \/ MainShow(c) \/ MainDone(c) \/ Speak(c)
         \/ HandlerReceive(c) \/ HandlerShow(c) \/ HandlerDone(c) \/ HandlerArm(c)
  PROVE  ArmInv'
<1>1. /\ cpc \in [Clients -> ClientPcs] /\ notif \in [Clients -> BOOLEAN] /\ hpc \in [Clients -> HandlerPcs]
      /\ Armed(c)
      /\ hpc[c] # "none" => cid[c] # 0
      /\ cpc[c] = "drain" => cid[c] # 0
  BY DEF Inv, TypeOK, ClientsTypeOK, QueuesTypeOK, ArmInv, NumbersKnown, Numbered
<1>2. UNCHANGED <<raced, cid>> /\ (stc' = stc \/ (TakeStc(c) /\ cid[c] # 0))
  BY <1>1 DEF MainReceive, MainShow, MainDone, Speak, HandlerReceive, HandlerShow, HandlerDone, HandlerArm
<1>3. \A d \in Clients : d # c => /\ cpc'[d] = cpc[d] /\ hpc'[d] = hpc[d]
                                  /\ notif'[d] = notif[d] /\ cid'[d] = cid[d]
  BY <1>1 DEF MainReceive, MainShow, MainDone, Speak, HandlerReceive, HandlerShow, HandlerDone,
              HandlerArm, Goto
<1>4. \/ /\ cpc[c] \in {"drain", "show"} /\ cpc'[c] \in {"drain", "show"}
         /\ hpc'[c] = hpc[c] /\ notif'[c] = notif[c]
      \/ /\ cpc[c] = "drain" /\ cpc'[c] = "chat" /\ stc' = stc /\ stc[cid[c]] = <<>>
         /\ hpc'[c] = hpc[c] /\ notif'[c] = notif[c]
      \/ cpc'[c] = cpc[c] /\ hpc'[c] = hpc[c] /\ notif'[c] = notif[c] /\ stc' = stc
      \/ /\ hpc[c] \in {"recv", "show"} /\ hpc'[c] \in {"recv", "show"}
         /\ cpc'[c] = cpc[c] /\ notif'[c] = notif[c]
      \/ /\ hpc[c] = "recv" /\ hpc'[c] = "arm" /\ stc' = stc /\ stc[cid[c]] = <<>>
         /\ cpc'[c] = cpc[c] /\ notif'[c] = notif[c]
      \/ /\ hpc[c] = "arm" /\ hpc'[c] = "none" /\ notif'[c] /\ stc' = stc /\ cpc'[c] = cpc[c]
  BY <1>1 DEF MainReceive, MainShow, MainDone, Speak, HandlerReceive, HandlerShow, HandlerDone,
              HandlerArm, Goto
<1>5. stc' = stc \/ stc[cid[c]] # <<>>
  BY DEF MainReceive, MainShow, MainDone, Speak, HandlerReceive, HandlerShow, HandlerDone, HandlerArm
<1>6. raced'[c] = raced[c] /\ cid'[c] = cid[c]
  BY <1>2
<1>7. stc'[cid[c]] # <<>> => stc[cid[c]] # <<>>
  BY <1>5
<1>8. Armed(c)'
  BY <1>1, <1>4, <1>6, <1>7 DEF Armed, Listening, Entered
<1> QED
  BY <1>2, <1>3, <1>8, ClientArmed

\* Every step keeps a listening client armed.
LEMMA NextArmed ==
  ASSUME Inv, ArmInv, [Next]_vars
  PROVE  ArmInv'
<1>1. CASE \/ ServerStart \/ PollLogin \/ EndScan \/ SkipUser \/ TakeOwnAnswer \/ ReturnAnswer
           \/ Register \/ SendAnswer \/ HandleLastBye
  BY <1>1, ServerQuietArmed
<1>2. CASE SendList \/ HandleChat \/ HandleName \/ HandleBye \/ ServerExit
  BY <1>2, ServerSendsArmed
<1>3. ASSUME NEW c \in Clients,
             \/ MainStep(c) \/ HandlerStep(c) \/ Speak(c) \/ Quit(c)
      PROVE  ArmInv'
  BY <1>3, EnterArmed, LeaverArmed, ReaderArmed DEF MainStep, HandlerStep
<1>4. CASE UNCHANGED vars
  BY <1>4 DEF vars, clientVars, queueVars, historyVars, ArmInv, Armed
<1> QED
  BY <1>1, <1>2, <1>3, <1>4 DEF Next, ServerStep


LEMMA InitArmed == Init => ArmInv
BY DEF Init, ArmInv, Armed, Listening, Entered

\* In every run: a client in the chat with a message in its queue has a thread
\* that reads it, unless a message came between the thread's last receive and
\* its mq_notify (client.c registers again only after the queue was empty).
THEOREM DeafOnlyByRaceHolds == Spec => []DeafOnlyByRace
<1>1. Init => Inv /\ ArmInv
  BY InitInv, InitArmed
<1>2. Inv /\ ArmInv /\ [Next]_vars => Inv' /\ ArmInv'
  BY NextInv, NextArmed
<1>3. ArmInv => DeafOnlyByRace
  BY DEF ArmInv, Armed, Listening, Entered, DeafOnlyByRace
<1> QED
  BY <1>1, <1>2, <1>3, PTL DEF Spec


(***************************************************************************)
(* Where a line is.  What was sent to a user is in its queue, was dropped, *)
(* or is with its owner: in one of the two buffers or on the screen.  What *)
(* a buffer holds is not overwritten before it is shown, since main has    *)
(* nothing in rcv_buf when it receives and the thread receives only after  *)
(* it has shown buf; a notification starts no second thread (ArmInv).      *)
(***************************************************************************)
Lines   == [prio : {MSG_PRIORYTY}, login : Logins, text : Texts]
Entries == [by : {"main", "handler"}, msg : StcMsgs \cup {NoMsg}]

\* The client c has the line m, or has ended.
Held(c, m) ==
  \/ cpc[c] = "exited"
  \/ hpc[c] = "show" /\ buf[c] = m
  \/ rcv_buf[c] = m
  \/ Contains(screen[c], [by |-> "handler", msg |-> m])

Traced(i, m) ==
  \/ Contains(stc[i], m)
  \/ <<i, m>> \in missed
  \/ \E c \in Clients : cid[c] = i /\ Held(c, m)

BuffersFree == \A c \in Clients : cpc[c] # "show" => rcv_buf[c] = NoMsg
LinesTraced ==
  \A k \in DOMAIN said : /\ said[k].to \in SUBSET DOMAIN users
                         /\ \A i \in said[k].to : Traced(i, said[k].line)

LossInv == screen \in [Clients -> Seq(Entries)] /\ BuffersFree /\ LinesTraced

\* What was said is a line.
LEMMA SaidLines == ASSUME NameInv, NEW k \in DOMAIN said PROVE said[k].line \in Lines
<1>1. said \in Seq(Sayings) /\ DOMAIN said = 1 .. Len(said)
  BY LenProperties DEF NameInv, SaidNamed
<1>2. said[k] \in Sayings
  BY <1>1, ElementOfSeq
<1> QED
  BY <1>2 DEF Sayings, Lines

\* A step that says nothing and loses no line out of sight.
LEMMA LossFrame ==
  ASSUME NameInv, LossInv, said' = said, screen' \in [Clients -> Seq(Entries)], BuffersFree',
         DOMAIN users \subseteq DOMAIN users',
         \A i \in DOMAIN users, m \in Lines : Traced(i, m) => Traced(i, m)'
  PROVE  LossInv'
<1> SUFFICES LinesTraced'
  BY DEF LossInv
<1> SUFFICES ASSUME NEW k \in DOMAIN said
             PROVE  /\ said[k].to \in SUBSET DOMAIN users'
                    /\ \A i \in said[k].to : Traced(i, said[k].line)'
  BY DEF LinesTraced
<1>1. /\ said[k].to \in SUBSET DOMAIN users
      /\ \A i \in said[k].to : Traced(i, said[k].line)
  BY DEF LossInv, LinesTraced
<1> QED
  BY <1>1, SaidLines

\* What a client takes from its queue, and what it leaves there.
LEMMA TakenStc ==
  ASSUME NEW q \in Seq(StcMsgs), q # <<>>
  PROVE  /\ Received(q) \in StcMsgs
         /\ \A m : Contains(q, m) => m = Received(q) \/ Contains(Remaining(q), m)
<1>1. 7 \in Nat /\ \A m \in StcMsgs : m.prio \in 0 .. 7
  BY StcMsgFacts
<1> QED BY <1>1, TakenAndLeft

\* A step of the client c: what it had it keeps or drops in sight, and what it
\* takes from its queue it has.
LEMMA ClientLoss ==
  ASSUME Inv, NameInv, LossInv, NEW c \in Clients, UNCHANGED <<users, said>>,
         \A d \in Clients : d # c =>
           /\ cpc'[d] = cpc[d] /\ hpc'[d] = hpc[d] /\ cid'[d] = cid[d]
           /\ buf'[d] = buf[d] /\ rcv_buf'[d] = rcv_buf[d] /\ screen'[d] = screen[d],
         screen' \in [Clients -> Seq(Entries)],
         cpc'[c] # "show" => rcv_buf'[c] = NoMsg,
         cid'[c] = cid[c] \/ cid[c] = 0,
         missed \subseteq missed',
         \A m \in Lines : Held(c, m) => Held(c, m)' \/ <<cid[c], m>> \in missed',
         \/ stc' = stc
         \/ /\ TakeStc(c) /\ cid[c] # 0 /\ stc[cid[c]] # <<>>
            /\ \A m \in Lines : m = Received(stc[cid[c]]) => Held(c, m)'
  PROVE  LossInv'
<1>1. BuffersFree'
  BY DEF LossInv, BuffersFree
<1>2. ASSUME NEW i \in DOMAIN users, NEW m \in Lines, Traced(i, m)
      PROVE  Traced(i, m)'
  <2>1. i # 0 /\ i \in DOMAIN stc /\ stc[i] \in Seq(StcMsgs)
    BY UserQueues DEF Inv
  <2>2. CASE <<i, m>> \in missed
    BY <2>2 DEF Traced
  <2>3. ASSUME NEW d \in Clients, cid[d] = i, Held(d, m)
        PROVE  Traced(i, m)'
    <3>1. CASE d = c
      BY <2>1, <2>3, <3>1 DEF Traced
    <3>2. CASE d # c
      BY <2>3, <3>2 DEF Traced, Held
    <3> QED
      BY <3>1, <3>2
  <2>4. CASE Contains(stc[i], m)
    <3>1. CASE stc' = stc
      BY <2>4, <3>1 DEF Traced
    <3>2. CASE /\ TakeStc(c) /\ cid[c] # 0 /\ stc[cid[c]] # <<>>
               /\ \A x \in Lines : x = Received(stc[cid[c]]) => Held(c, x)'
      <4>1. /\ \A j \in DOMAIN stc : j # cid[c] => stc'[j] = stc[j]
            /\ stc'[cid[c]] = Remaining(stc[cid[c]])
        BY <3>2, OthersQueues
      <4>2. CASE i # cid[c]
        BY <2>1, <2>4, <4>1, <4>2 DEF Traced
      <4>3. CASE i = cid[c]
        <5>1. m = Received(stc[i]) \/ Contains(Remaining(stc[i]), m)
          BY <2>1, <2>4, <3>2, <4>3, TakenStc
        <5>2. cid'[c] = i
          BY <2>1, <4>3
        <5> QED
          BY <3>2, <4>1, <4>3, <5>1, <5>2 DEF Traced
      <4> QED
        BY <4>2, <4>3
    <3> QED
      BY <3>1, <3>2
  <2> QED
    BY <1>2, <2>2, <2>3, <2>4 DEF Traced
<1> QED
  BY <1>1, <1>2, LossFrame

\* The steps of a client that read nothing and show nothing.
LEMMA ClientQuietLoss ==
  ASSUME Inv, NameInv, LossInv, NEW c \in Clients,
         \/ OpenLogin(c) \/ SendRequest(c) \/ PutBack(c) \/ TakeRequest(c) \/ TakeAnswer(c)
         \/ Notify(c) \/ SendName(c) \/ MainDone(c) \/ Speak(c) \/ HandlerDone(c) \/ HandlerArm(c)
         \/ (OpenRcv(c) \/ OpenSnd(c)) /\ ~Leave(c)
  PROVE  LossInv'
<1>1. /\ cpc \in [Clients -> ClientPcs] /\ hpc \in [Clients -> HandlerPcs] /\ cid \in [Clients -> Nat]
      /\ cpc[c] \in Unnumbered => cid[c] = 0
  BY DEF Inv, TypeOK, ClientsTypeOK, NumbersKnown
<1>2. /\ UNCHANGED <<users, said, stc, missed, buf, rcv_buf, screen>>
      /\ cpc' = cpc \/ \E pc \in ClientPcs : cpc[c] \notin {"show", "exited"} /\ cpc' = [cpc EXCEPT ![c] = pc]
      /\ hpc' = hpc \/ \E h \in HandlerPcs : hpc[c] # "show" /\ hpc' = [hpc EXCEPT ![c] = h]
      /\ cid' = cid \/ (cpc[c] = "await" /\ cid' = [cid EXCEPT ![c] = Received(login_q).id])
  BY DEF OpenLogin, SendRequest, PutBack, PostRequest, TakeRequest, TakeAnswer, Notify, SendName,
         MainDone, Speak, HandlerDone, HandlerArm, OpenRcv, OpenSnd, OpenQueue, Goto, ClientPcs, HandlerPcs
<1>3. /\ \A d \in Clients : d # c => cpc'[d] = cpc[d] /\ hpc'[d] = hpc[d] /\ cid'[d] = cid[d]
      /\ cid'[c] = cid[c] \/ cid[c] = 0
      /\ cpc'[c] = cpc[c] \/ cpc[c] \notin {"show", "exited"}
      /\ hpc'[c] = hpc[c] \/ hpc[c] # "show"
  BY <1>1, <1>2 DEF Unnumbered
<1>4. \A m \in Lines : Held(c, m) => Held(c, m)'
  BY <1>2, <1>3 DEF Held
<1>5. screen \in [Clients -> Seq(Entries)] /\ (cpc'[c] # "show" => rcv_buf[c] = NoMsg)
  BY <1>3 DEF LossInv, BuffersFree
<1> QED
  BY <1>2, <1>3, <1>4, <1>5, ClientLoss

\* A client that leaves takes its lines with it.
LEMMA LeaverLoss ==
  ASSUME Inv, NameInv, LossInv, NEW c \in Clients, Leave(c),
         \/ OpenRcv(c) \/ OpenSnd(c) \/ MainReceiveBye(c) \/ HandlerReceiveBye(c) \/ Quit(c)
  PROVE  LossInv'
<1>1. /\ cpc \in [Clients -> ClientPcs] /\ hpc \in [Clients -> HandlerPcs]
      /\ buf \in [Clients -> StcMsgs \cup {NoMsg}] /\ rcv_buf \in [Clients -> StcMsgs \cup {NoMsg}]
      /\ screen \in [Clients -> Seq(Entries)] /\ <<>> \in Seq(Entries)
      /\ hpc[c] # "none" => cid[c] # 0
      /\ cpc[c] = "drain" => cid[c] # 0
  BY EmptySeq DEF Inv, TypeOK, ClientsTypeOK, NumbersKnown, Numbered, LossInv
<1>2. /\ cpc' = [cpc EXCEPT ![c] = "exited"] /\ hpc' = [hpc EXCEPT ![c] = "none"]
      /\ rcv_buf' = [rcv_buf EXCEPT ![c] = NoMsg] /\ buf' = [buf EXCEPT ![c] = NoMsg]
      /\ screen' = [screen EXCEPT ![c] = <<>>]
  BY DEF Leave, Goto
<1>3. /\ UNCHANGED <<users, said, cid, missed>>
      /\ stc' = stc \/ (TakeStc(c) /\ cid[c] # 0 /\ stc[cid[c]] # <<>>)
  BY <1>1 DEF OpenRcv, OpenSnd, OpenQueue, MainReceiveBye, HandlerReceiveBye, Quit
<1>4. /\ \A d \in Clients : d # c =>
           /\ cpc'[d] = cpc[d] /\ hpc'[d] = hpc[d] /\ cid'[d] = cid[d]
           /\ buf'[d] = buf[d] /\ rcv_buf'[d] = rcv_buf[d] /\ screen'[d] = screen[d]
      /\ cpc'[c] = "exited" /\ rcv_buf'[c] = NoMsg
      /\ screen' \in [Clients -> Seq(Entries)]
  BY <1>1, <1>2, <1>3
<1>5. \A m \in Lines : Held(c, m)'
  BY <1>4 DEF Held
<1> QED
  BY <1>3, <1>4, <1>5, ClientLoss

\* What a client receives goes to a buffer that held nothing any more, and from
\* there to its screen, or main drops it and shows the thread's buffer instead.
LEMMA ReaderLoss ==
  ASSUME Inv, NameInv, LossInv, NEW c \in Clients,
         MainReceive(c) \/ MainShow(c) \/ HandlerReceive(c) \/ HandlerShow(c)
  PROVE  LossInv'
<1>1. /\ cpc \in [Clients -> ClientPcs] /\ hpc \in [Clients -> HandlerPcs]
      /\ buf \in [Clients -> StcMsgs \cup {NoMsg}] /\ rcv_buf \in [Clients -> StcMsgs \cup {NoMsg}]
      /\ screen \in [Clients -> Seq(Entries)] /\ screen[c] \in Seq(Entries)
      /\ buf[c] \in StcMsgs \cup {NoMsg}
      /\ hpc[c] # "none" => cid[c] # 0
      /\ cpc[c] = "drain" => cid[c] # 0
      /\ cpc[c] # "show" => rcv_buf[c] = NoMsg
  BY DEF Inv, TypeOK, ClientsTypeOK, NumbersKnown, Numbered, LossInv, BuffersFree
<1>2. \A m \in Lines : m.prio = MSG_PRIORYTY /\ m # NoMsg
  BY DEF Lines, NoMsg
<1>3. CASE MainReceive(c)
  <2>1. /\ cpc[c] = "drain" /\ cpc' = [cpc EXCEPT ![c] = "show"]
        /\ rcv_buf' = [rcv_buf EXCEPT ![c] = Received(stc[cid[c]])]
        /\ TakeStc(c) /\ stc[cid[c]] # <<>>
        /\ UNCHANGED <<users, said, missed, cid, hpc, buf, screen>>
    BY <1>3 DEF MainReceive, Goto
  <2>2. /\ \A d \in Clients : d # c => cpc'[d] = cpc[d] /\ rcv_buf'[d] = rcv_buf[d]
        /\ cpc'[c] = "show" /\ rcv_buf'[c] = Received(stc[cid[c]])
    BY <1>1, <2>1
  <2>3. \A m \in Lines : Held(c, m) => Held(c, m)'
    BY <1>1, <1>2, <2>1 DEF Held
  <2>4. \A m \in Lines : m = Received(stc[cid[c]]) => Held(c, m)'
    BY <2>2 DEF Held
  <2> QED
    BY <1>1, <2>1, <2>2, <2>3, <2>4, ClientLoss
<1>4. CASE MainShow(c)
  <2>1. /\ cpc[c] = "show" /\ cpc' = [cpc EXCEPT ![c] = "drain"]
        /\ rcv_buf' = [rcv_buf EXCEPT ![c] = NoMsg]
        /\ UNCHANGED <<users, said, cid, stc, hpc, buf>>
        /\ \/ /\ rcv_buf[c].prio = MSG_PRIORYTY
              /\ screen' = [screen EXCEPT ![c] = Append(@, [by |-> "main", msg |-> buf[c]])]
              /\ missed' = missed \cup {<<cid[c], rcv_buf[c]>>}
           \/ rcv_buf[c].prio # MSG_PRIORYTY /\ UNCHANGED <<screen, missed>>
    BY <1>4 DEF MainShow, Goto
  <2>2. [by |-> "main", msg |-> buf[c]] \in Entries
    BY <1>1 DEF Entries
  <2>3. /\ screen' \in [Clients -> Seq(Entries)]
        /\ \A d \in Clients : d # c => screen'[d] = screen[d]
        /\ \A e : Contains(screen[c], e) => Contains(screen'[c], e)
    <3>1. CASE UNCHANGED screen
      BY <1>1, <3>1
    <3>2. CASE screen' = [screen EXCEPT ![c] = Append(@, [by |-> "main", msg |-> buf[c]])]
      BY <1>1, <2>2, <3>2, JoinProperties
    <3> QED
      BY <2>1, <3>1, <3>2
  <2>4. /\ \A d \in Clients : d # c => cpc'[d] = cpc[d] /\ rcv_buf'[d] = rcv_buf[d]
        /\ cpc'[c] = "drain" /\ rcv_buf'[c] = NoMsg /\ missed \subseteq missed'
    BY <1>1, <2>1
  <2>5. \A m \in Lines : Held(c, m) => Held(c, m)' \/ <<cid[c], m>> \in missed'
    BY <1>2, <2>1, <2>3 DEF Held
  <2> QED
    BY <2>1, <2>3, <2>4, <2>5, ClientLoss
<1>5. CASE HandlerReceive(c)
  <2>1. /\ hpc[c] = "recv" /\ hpc' = [hpc EXCEPT ![c] = "show"]
        /\ buf' = [buf EXCEPT ![c] = Received(stc[cid[c]])]
        /\ TakeStc(c) /\ stc[cid[c]] # <<>>
        /\ UNCHANGED <<users, said, missed, cid, cpc, rcv_buf, screen>>
    BY <1>5 DEF HandlerReceive
  <2>2. /\ \A d \in Clients : d # c => hpc'[d] = hpc[d] /\ buf'[d] = buf[d]
        /\ hpc'[c] = "show" /\ buf'[c] = Received(stc[cid[c]])
    BY <1>1, <2>1
  <2>3. \A m \in Lines : Held(c, m) => Held(c, m)'
    BY <2>1 DEF Held
  <2>4. \A m \in Lines : m = Received(stc[cid[c]]) => Held(c, m)'
    BY <2>2 DEF Held
  <2> QED
    BY <1>1, <2>1, <2>2, <2>3, <2>4, ClientLoss
<1>6. CASE HandlerShow(c)
  <2> DEFINE e == [by |-> "handler", msg |-> buf[c]]
  <2>1. /\ hpc[c] = "show" /\ hpc' = [hpc EXCEPT ![c] = "recv"]
        /\ UNCHANGED <<users, said, missed, cid, cpc, rcv_buf, buf, stc>>
        /\ \/ buf[c].prio = MSG_PRIORYTY /\ screen' = [screen EXCEPT ![c] = Append(@, e)]
           \/ buf[c].prio # MSG_PRIORYTY /\ UNCHANGED screen
    BY <1>6 DEF HandlerShow
  <2>2. e \in Entries
    BY <1>1 DEF Entries
  <2> HIDE DEF e
  <2>3. /\ screen' \in [Clients -> Seq(Entries)]
        /\ \A d \in Clients : d # c => screen'[d] = screen[d]
        /\ \A x : Contains(screen[c], x) => Contains(screen'[c], x)
        /\ buf[c].prio = MSG_PRIORYTY => Contains(screen'[c], e)
    <3>1. CASE buf[c].prio # MSG_PRIORYTY /\ UNCHANGED screen
      BY <1>1, <3>1
    <3>2. CASE screen' = [screen EXCEPT ![c] = Append(@, e)]
      BY <1>1, <2>2, <3>2, JoinProperties
    <3> QED
      BY <2>1, <3>1, <3>2
  <2>4. \A d \in Clients : d # c => hpc'[d] = hpc[d]
    BY <1>1, <2>1
  <2>5. \A m \in Lines : Held(c, m) => Held(c, m)'
    BY <1>2, <2>1, <2>3 DEF Held, e
  <2> QED
    BY <1>1, <2>1, <2>3, <2>4, <2>5, ClientLoss
<1> QED
  BY <1>3, <1>4, <1>5, <1>6

\* What the server sends reaches a queue or is dropped, and moves nothing that
\* was sent before: a client that shows a line has no registration to use up.
LEMMA BroadcastTraced ==
  ASSUME Inv, ArmInv, NEW m \in StcMsgs, NEW to \in SUBSET DOMAIN users, Broadcast(m, to),
         UNCHANGED <<cpc, cid, buf, rcv_buf, screen>>
  PROVE  /\ \A i \in DOMAIN users, x \in Lines : Traced(i, x) => Traced(i, x)'
         /\ \A i \in to : Traced(i, m)'
<1>1. /\ hpc' = [d \in Clients |->
                   IF notif[d] /\ cid[d] \in to /\ stc[cid[d]] = <<>> THEN "recv" ELSE hpc[d]]
      /\ stc' = [i \in DOMAIN stc |-> IF i \in to THEN Offer(stc[i], UserMax, m) ELSE stc[i]]
      /\ missed' = missed \cup {<<i, m>> : i \in {j \in to : ~HasRoom(stc[j], UserMax)}}
  BY DEF Broadcast
<1>2. /\ DOMAIN stc = DOMAIN users
      /\ \A i \in DOMAIN users : stc[i] \in Seq(StcMsgs)
  BY UserQueues DEF Inv
<1>3. \A i \in DOMAIN users :
        /\ \A x : Contains(stc[i], x) => Contains(stc'[i], x)
        /\ i \in to /\ HasRoom(stc[i], UserMax) => Contains(stc'[i], m)
  <2> SUFFICES ASSUME NEW i \in DOMAIN users
               PROVE  /\ \A x : Contains(stc[i], x) => Contains(stc'[i], x)
                      /\ i \in to /\ HasRoom(stc[i], UserMax) => Contains(stc'[i], m)
    OBVIOUS
  <2>1. UserMax \in Nat /\ stc[i] \in Seq(StcMsgs)
    BY <1>2, UserMaxAssumption
  <2>2. /\ \A x : Contains(stc[i], x) => Contains(Offer(stc[i], UserMax, m), x)
        /\ HasRoom(stc[i], UserMax) => Contains(Offer(stc[i], UserMax, m), m)
    BY <2>1, OfferHolds
  <2>3. stc'[i] = IF i \in to THEN Offer(stc[i], UserMax, m) ELSE stc[i]
    BY <1>1, <1>2
  <2> QED
    BY <2>2, <2>3
<1>4. missed \subseteq missed' /\ \A i \in to : ~HasRoom(stc[i], UserMax) => <<i, m>> \in missed'
  BY <1>1
<1>5. \A c \in Clients : hpc[c] = "show" => hpc'[c] = "show"
  BY <1>1 DEF ArmInv, Armed
<1>6. \A c \in Clients, x \in Lines : Held(c, x) => Held(c, x)'
  BY <1>5 DEF Held
<1>7. \A i \in DOMAIN users, x \in Lines : Traced(i, x) => Traced(i, x)'
  BY <1>3, <1>4, <1>6 DEF Traced
<1>8. \A i \in to : Traced(i, m)'
  BY <1>3, <1>4 DEF Traced
<1> QED
  BY <1>7, <1>8

\* A step of the server that sends nothing on the users' queues.
LEMMA ServerQuietLoss ==
  ASSUME Inv, NameInv, LossInv,
         \/ ServerStart \/ PollLogin \/ EndScan \/ SkipUser \/ TakeOwnAnswer \/ ReturnAnswer
         \/ Register \/ SendAnswer \/ HandleLastBye
  PROVE  LossInv'
<1>1. /\ UNCHANGED <<cpc, cid, hpc, buf, rcv_buf, screen, said, missed>>
      /\ stc' = stc \/ stc' = Append(stc, <<>>)
  BY DEF ServerStart, PollLogin, StartScan, EndScan, SkipUser, TakeOwnAnswer, ReturnAnswer, PostAnswer,
         Register, SendAnswer, HandleLastBye
<1>2. DOMAIN users \subseteq DOMAIN users'
  <2>1. CASE Register
    <3>1. users' = Append(users, [id |-> NewId, login |-> NewId])
      BY <2>1 DEF Register
    <3>2. users \in Seq([id : {Gone} \cup Nat, login : Logins])
      BY DEF Inv, TypeOK, ServerTypeOK
    <3> QED
      BY <3>1, <3>2
  <2>2. CASE HandleLastBye
    BY <2>2, ForgetUserTypes DEF HandleLastBye, Inv
  <2>3. CASE \/ ServerStart \/ PollLogin \/ EndScan \/ SkipUser \/ TakeOwnAnswer \/ ReturnAnswer
             \/ SendAnswer
    BY <2>3 DEF ServerStart, PollLogin, EndScan, SkipUser, TakeOwnAnswer, ReturnAnswer, SendAnswer
  <2> QED
    BY <2>1, <2>2, <2>3
<1>3. /\ stc \in Seq(Seq(StcMsgs)) /\ <<>> \in Seq(StcMsgs) /\ DOMAIN stc = 1 .. Len(stc)
      /\ DOMAIN stc = DOMAIN users
  BY EmptySeq, LenProperties, UserQueues DEF Inv, TypeOK, QueuesTypeOK
<1>4. \A i \in DOMAIN users : stc'[i] = stc[i]
  BY <1>1, <1>3, AppendProperties
<1>5. \A i \in DOMAIN users, m \in Lines : Traced(i, m) => Traced(i, m)'
  BY <1>1, <1>4 DEF Traced, Held
<1>6. screen' \in [Clients -> Seq(Entries)] /\ BuffersFree'
  BY <1>1 DEF LossInv, BuffersFree
<1> QED
  BY <1>1, <1>2, <1>5, <1>6, LossFrame

\* The server tells its users something other than a line, or good-bye.
LEMMA ServerTellsLoss ==
  ASSUME Inv, ArmInv, NameInv, LossInv, SendList \/ HandleName \/ HandleBye \/ ServerExit
  PROVE  LossInv'
<1>1. \A us : DOMAIN us = DOMAIN users => Active(us) \in SUBSET DOMAIN users
  BY DEF Active
<1>2. /\ UNCHANGED <<cpc, cid, buf, rcv_buf, screen, said>> /\ DOMAIN users' = DOMAIN users
      /\ \/ \E m \in StcMsgs : \E to \in SUBSET DOMAIN users : Broadcast(m, to)
         \/ UNCHANGED <<stc, missed, hpc>>
  <2>1. CASE SendList
    BY <1>1, <2>1, StcMsgFacts DEF SendList
  <2>2. CASE HandleName
    BY <1>1, <2>2, StcMsgFacts DEF HandleName
  <2>3. CASE HandleBye
    BY <1>1, <2>3, StcMsgFacts, ForgetUserTypes DEF HandleBye, Inv
  <2>4. CASE ServerExit
    BY <1>1, <2>4, StcMsgFacts DEF ServerExit
  <2> QED
    BY <2>1, <2>2, <2>3, <2>4
<1>3. \A i \in DOMAIN users, m \in Lines : Traced(i, m) => Traced(i, m)'
  <2>1. CASE UNCHANGED <<stc, missed, hpc>>
    BY <1>2, <2>1 DEF Traced, Held
  <2>2. CASE \E m \in StcMsgs : \E to \in SUBSET DOMAIN users : Broadcast(m, to)
    BY <1>2, <2>2, BroadcastTraced
  <2> QED
    BY <1>2, <2>1, <2>2
<1>4. screen' \in [Clients -> Seq(Entries)] /\ BuffersFree'
  BY <1>2 DEF LossInv, BuffersFree
<1> QED
  BY <1>2, <1>3, <1>4, LossFrame

\* The server sends a line out: the new one is traced as well.
LEMMA HandleChatLoss ==
  ASSUME Inv, ArmInv, NameInv, LossInv, HandleChat
  PROVE  LossInv'
<1>1. PICK m, to :
        /\ said' = Append(said, [line |-> m, to |-> to]) /\ Broadcast(m, to) /\ to = Active(users)
        /\ UNCHANGED <<users, cpc, cid, buf, rcv_buf, screen>>
  BY DEF HandleChat
<1>2. NameInv' /\ to \in SUBSET DOMAIN users
  BY <1>1, HandleChatNames DEF Active
<1>3. said \in Seq(Sayings) /\ said' \in Seq(Sayings)
  BY <1>2 DEF NameInv, SaidNamed
<1>4. /\ DOMAIN said = 1 .. Len(said) /\ DOMAIN said' = 1 .. Len(said) + 1 /\ Len(said) \in Nat
      /\ said'[Len(said) + 1] = [line |-> m, to |-> to]
      /\ \A k \in 1 .. Len(said) : said'[k] = said[k]
  BY <1>1, <1>3
<1>5. m \in Lines /\ m \in StcMsgs
  <2>1. said'[Len(said) + 1] \in Sayings
    BY <1>3, <1>4
  <2>2. [line |-> m, to |-> to] \in Sayings
    BY <1>4, <2>1
  <2>3. m \in Lines
    BY <2>2 DEF Sayings, Lines
  <2> QED
    BY <2>3 DEF Lines, StcMsgs
<1>6. /\ \A i \in DOMAIN users, x \in Lines : Traced(i, x) => Traced(i, x)'
      /\ \A i \in to : Traced(i, m)'
  BY <1>1, <1>2, <1>5, BroadcastTraced
<1>7. LinesTraced'
  <2> SUFFICES ASSUME NEW k \in DOMAIN said'
               PROVE  /\ said'[k].to \in SUBSET DOMAIN users
                      /\ \A i \in said'[k].to : Traced(i, said[k].line)'
    BY <1>1 DEF LinesTraced
  <2>1. CASE k = Len(said) + 1
    BY <1>2, <1>4, <1>6, <2>1 DEF Traced
  <2>2. CASE k \in DOMAIN said
    <3>1. PICK x \in Lines : x = said[k].line
      BY <2>2, SaidLines
    <3>2. said'[k].to = said[k].to /\ said'[k].line = x
      BY <1>4, <2>2, <3>1
    <3>3. /\ said[k].to \in SUBSET DOMAIN users
          /\ \A i \in said[k].to : Traced(i, x)
      BY <2>2, <3>1 DEF LossInv, LinesTraced
    <3>4. \A i \in said[k].to : Traced(i, x)'
      BY <1>6, <3>3
    <3> QED
      BY <3>2, <3>3, <3>4 DEF Traced
  <2> QED
    BY <1>4, <2>1, <2>2
<1>8. screen' \in [Clients -> Seq(Entries)] /\ BuffersFree'
  BY <1>1 DEF LossInv, BuffersFree
<1> QED
  BY <1>7, <1>8 DEF LossInv

LEMMA NextLoss ==
  ASSUME Inv, ArmInv, NameInv, LossInv, [Next]_vars
  PROVE  LossInv'
<1>1. CASE \/ ServerStart \/ PollLogin \/ EndScan \/ SkipUser \/ TakeOwnAnswer \/ ReturnAnswer
           \/ Register \/ SendAnswer \/ HandleLastBye
  BY <1>1, ServerQuietLoss
<1>2. CASE SendList \/ HandleName \/ HandleBye \/ ServerExit
  BY <1>2, ServerTellsLoss
<1>3. CASE HandleChat
  BY <1>3, HandleChatLoss
<1>4. ASSUME NEW c \in Clients, MainStep(c) \/ HandlerStep(c) \/ Speak(c) \/ Quit(c)
      PROVE  LossInv'
  <2>1. CASE MainReceive(c) \/ MainShow(c) \/ HandlerReceive(c) \/ HandlerShow(c)
    BY <2>1, ReaderLoss
  <2>2. CASE \/ OpenLogin(c) \/ SendRequest(c) \/ PutBack(c) \/ TakeRequest(c) \/ TakeAnswer(c)
             \/ Notify(c) \/ SendName(c) \/ MainDone(c) \/ Speak(c) \/ HandlerDone(c) \/ HandlerArm(c)
    BY <2>2, ClientQuietLoss
  <2>3. CASE MainReceiveBye(c) \/ HandlerReceiveBye(c) \/ Quit(c)
    BY <2>3, LeaverLoss DEF MainReceiveBye, HandlerReceiveBye, Quit
  <2>4. CASE OpenRcv(c) \/ OpenSnd(c)
    BY <2>4, ClientQuietLoss, LeaverLoss
  <2> QED
    BY <1>4, <2>1, <2>2, <2>3, <2>4 DEF MainStep, HandlerStep
<1>5. CASE UNCHANGED vars
  BY <1>5 DEF vars, LossInv, BuffersFree, LinesTraced, Traced, Held
<1> QED
  BY <1>1, <1>2, <1>3, <1>4, <1>5 DEF Next, ServerStep

LEMMA InitLoss == Init => LossInv
BY EmptySeq DEF Init, LossInv, BuffersFree, LinesTraced

\* In every run: a line the server sent out to a user that still runs is in its
\* queue, in one of its two buffers or printed by its thread, unless the queue
\* was full or main took it while it drained the queue.
THEOREM NoSilentLossHolds == Spec => []NoSilentLoss
<1>1. Init => Inv /\ UsersInv /\ ArmInv /\ NameInv /\ LossInv
  BY InitInv, InitUsers, InitArmed, InitNames, InitLoss
<1>2. Inv /\ UsersInv /\ ArmInv /\ NameInv /\ LossInv /\ [Next]_vars
        => Inv' /\ UsersInv' /\ ArmInv' /\ NameInv' /\ LossInv'
  BY NextInv, NextUsers, NextArmed, NextNames, NextLoss
<1>3. Inv /\ LossInv => NoSilentLoss
  <2> SUFFICES ASSUME Inv, LossInv, NEW c \in Clients, NEW k \in DOMAIN said,
                      cpc[c] # "exited", cid[c] \in said[k].to,
                      NEW m, m = said[k].line
               PROVE  \/ \E j \in DOMAIN stc[cid[c]] : stc[cid[c]][j] = m
                      \/ hpc[c] = "show" /\ buf[c] = m
                      \/ rcv_buf[c] = m
                      \/ \E j \in DOMAIN screen[c] : screen[c][j] = [by |-> "handler", msg |-> m]
                      \/ <<cid[c], m>> \in missed
    BY DEF NoSilentLoss
  <2>1. said[k].to \in SUBSET DOMAIN users /\ Traced(cid[c], m)
    BY DEF LossInv, LinesTraced
  <2>2. stc[cid[c]] \in Seq(StcMsgs) /\ cid[c] # 0
    BY <2>1, UserQueues DEF Inv
  <2>3. screen[c] \in Seq(Entries)
    BY DEF LossInv
  <2>4. Contains(stc[cid[c]], m) => \E j \in DOMAIN stc[cid[c]] : stc[cid[c]][j] = m
    BY <2>2, LenProperties DEF Contains
  <2>5. Contains(screen[c], [by |-> "handler", msg |-> m])
          => \E j \in DOMAIN screen[c] : screen[c][j] = [by |-> "handler", msg |-> m]
    BY <2>3, LenProperties DEF Contains
  <2>6. \A d \in Clients : cid[d] = cid[c] => d = c
    BY <2>2 DEF Inv, OneOwner
  <2> QED
    BY <2>1, <2>4, <2>5, <2>6 DEF Traced, Held
<1> QED
  BY <1>1, <1>2, <1>3, PTL DEF Spec


(***************************************************************************)
(* No text is sent out twice: a line is typed once, is once in a queue of  *)
(* its author, and leaves it when it is said.                              *)
(***************************************************************************)
TypedMsgs == [prio : {USER_PRIORITY}, text : Texts]

TypedOnce  == \A i \in DOMAIN users : OnceIn(cts[i], TypedMsgs)
NotYetSaid ==
  \A i \in DOMAIN users, m \in TypedMsgs : Contains(cts[i], m) =>
    m.text.n <= typed /\ \A k \in DOMAIN said : said[k].line.text # m.text
SaidOnce ==
  \A k \in DOMAIN said :
    /\ said[k].line.text.n <= typed
    /\ \A j \in DOMAIN said : said[j].line.text = said[k].line.text => j = k

TextsInv == TypedOnce /\ NotYetSaid /\ SaidOnce

\* Texts are numbered, and what was said is a text.
LEMMA TextFacts ==
  ASSUME Inv, NameInv
  PROVE  /\ typed \in Nat
         /\ \A m \in TypedMsgs : m.prio = USER_PRIORITY /\ m.text \in Texts /\ m.text.n \in Nat
         /\ \A k \in DOMAIN said : said[k].line.text \in Texts /\ said[k].line.text.n \in Nat
         /\ \A m \in CtsMsgs : m.prio = USER_PRIORITY => m \in TypedMsgs
         /\ OnceIn(<<>>, TypedMsgs) /\ \A x : ~Contains(<<>>, x)
<1>1. typed \in Nat
  BY DEF Inv, TypeOK, ClientsTypeOK
<1>2. \A m \in TypedMsgs : m.prio = USER_PRIORITY /\ m.text \in Texts /\ m.text.n \in Nat
  BY DEF TypedMsgs, Texts
<1>3. \A k \in DOMAIN said : said[k].line.text \in Texts /\ said[k].line.text.n \in Nat
  BY SaidLines DEF Lines, Texts
<1>4. \A m \in CtsMsgs : m.prio = USER_PRIORITY => m \in TypedMsgs
  BY DEF CtsMsgs, TypedMsgs, Bye
<1>5. OnceIn(<<>>, TypedMsgs) /\ \A x : ~Contains(<<>>, x)
  BY EmptySeq DEF OnceIn, Contains
<1> QED
  BY <1>1, <1>2, <1>3, <1>4, <1>5

\* A step that says nothing.
LEMMA TextsFrame ==
  ASSUME Inv, NameInv, TextsInv, said' = said, typed' = typed \/ typed' = typed + 1,
         \A i \in DOMAIN users' :
           /\ OnceIn(cts'[i], TypedMsgs)
           /\ \A m \in TypedMsgs : Contains(cts'[i], m) =>
                \/ i \in DOMAIN users /\ Contains(cts[i], m)
                \/ m.text.n = typed + 1 /\ typed' = typed + 1
  PROVE  TextsInv'
<1>1. TypedOnce'
  BY DEF TypedOnce
<1>2. NotYetSaid'
  <2> SUFFICES ASSUME NEW i \in DOMAIN users', NEW m \in TypedMsgs, Contains(cts'[i], m)
               PROVE  m.text.n <= typed' /\ \A k \in DOMAIN said : said[k].line.text # m.text
    BY DEF NotYetSaid
  <2>1. CASE i \in DOMAIN users /\ Contains(cts[i], m)
    BY <2>1, TextFacts DEF TextsInv, NotYetSaid
  <2>2. CASE m.text.n = typed + 1 /\ typed' = typed + 1
    <3>1. \A k \in DOMAIN said : said[k].line.text.n <= typed
      BY DEF TextsInv, SaidOnce
    <3>2. typed \in Nat
      BY TextFacts
    <3> QED
      BY <2>2, <3>1, <3>2
  <2> QED
    BY <2>1, <2>2
<1>3. SaidOnce'
  <2>1. \A k \in DOMAIN said : said[k].line.text.n <= typed'
    BY TextFacts DEF TextsInv, SaidOnce
  <2> QED
    BY <2>1 DEF TextsInv, SaidOnce
<1> QED
  BY <1>1, <1>2, <1>3 DEF TextsInv

\* A client sends at most its line, and that is new.
LEMMA ClientTexts ==
  ASSUME Inv, NameInv, TextsInv, NEW c \in Clients,
         MainStep(c) \/ HandlerStep(c) \/ Speak(c) \/ Quit(c)
  PROVE  TextsInv'
<1>1. UNCHANGED <<users, said>>
  BY DEF MainStep, HandlerStep, OpenLogin, SendRequest, PutBack, PostRequest, TakeRequest, TakeAnswer,
         OpenRcv, OpenSnd, OpenQueue, Notify, SendName, MainReceive, MainReceiveBye, MainShow, MainDone,
         HandlerReceive, HandlerReceiveBye, HandlerShow, HandlerDone, HandlerArm, Speak, Quit
<1>2. \/ cts' = cts /\ typed' = typed
      \/ cts' = SentCts(c, Bye) /\ typed' = typed
      \/ cts' = SentCts(c, Name(c)) /\ typed' = typed
      \/ cts' = SentCts(c, Typed([by |-> c, n |-> typed + 1])) /\ typed' = typed + 1
  BY DEF MainStep, HandlerStep, OpenLogin, SendRequest, PutBack, PostRequest, TakeRequest, TakeAnswer,
         OpenRcv, OpenSnd, OpenQueue, Notify, SendName, MainReceive, MainReceiveBye, MainShow, MainDone,
         HandlerReceive, HandlerReceiveBye, HandlerShow, HandlerDone, HandlerArm, Speak, Quit, Leave
<1>3. CASE cts' = cts /\ typed' = typed
  BY <1>1, <1>3, TextsFrame DEF TextsInv, TypedOnce
<1>4. ASSUME NEW m \in CtsMsgs, cts' = SentCts(c, m), typed' = typed \/ typed' = typed + 1,
             m \in TypedMsgs => m.text.n = typed + 1 /\ typed' = typed + 1
      PROVE  TextsInv'
  <2>1. /\ DOMAIN cts = DOMAIN users
        /\ \A i \in DOMAIN users : \A x : Contains(cts'[i], x) => Contains(cts[i], x) \/ x = m
    BY <1>4, SentCtsHolds, UserQueues DEF Inv
  <2>2. ASSUME NEW i \in DOMAIN users
        PROVE  OnceIn(cts'[i], TypedMsgs)
    <3>1. OnceIn(cts[i], TypedMsgs) /\ cts[i] \in Seq(CtsMsgs) /\ UserMax \in Nat
      BY UserQueues, UserMaxAssumption DEF TextsInv, TypedOnce, Inv
    <3>2. m \in TypedMsgs => ~Contains(cts[i], m)
      BY <1>4, TextFacts DEF TextsInv, NotYetSaid
    <3>3. OnceIn(Offer(cts[i], UserMax, m), TypedMsgs)
      BY <3>1, <3>2, OfferOnce
    <3>4. cts'[i] = cts[i] \/ cts'[i] = Offer(cts[i], UserMax, m)
      BY <1>4, <2>1 DEF SentCts
    <3> QED
      BY <3>1, <3>3, <3>4
  <2>3. \A i \in DOMAIN users : \A x \in TypedMsgs : Contains(cts'[i], x) =>
          \/ Contains(cts[i], x)
          \/ x.text.n = typed + 1 /\ typed' = typed + 1
    BY <1>4, <2>1
  <2> QED
    BY <1>1, <1>4, <2>2, <2>3, TextsFrame
<1>5. /\ Bye \in CtsMsgs /\ Bye \notin TypedMsgs
      /\ Name(c) \in CtsMsgs /\ Name(c) \notin TypedMsgs
  BY CtsMsgFacts, TextFacts DEF Bye, Name
<1>6. /\ Typed([by |-> c, n |-> typed + 1]) \in CtsMsgs
      /\ Typed([by |-> c, n |-> typed + 1]).text.n = typed + 1
  <2>1. [by |-> c, n |-> typed + 1] \in Texts
    BY TextFacts DEF Texts
  <2> QED
    BY <2>1, CtsMsgFacts DEF Typed
<1> QED
  BY <1>2, <1>3, <1>4, <1>5, <1>6

\* The server says nothing: a queue is as it was, lost a message, or is empty.
LEMMA ServerSilentTexts ==
  ASSUME Inv, NameInv, TextsInv,
         \/ ServerStart \/ PollLogin \/ EndScan \/ SkipUser \/ TakeOwnAnswer \/ ReturnAnswer
         \/ Register \/ SendAnswer \/ SendList
         \/ HandleName \/ HandleBye \/ HandleLastBye \/ ServerExit
  PROVE  TextsInv'
<1>1. DOMAIN cts = DOMAIN users /\ \A i \in DOMAIN users : OnceIn(cts[i], TypedMsgs)
  BY UserQueues DEF Inv, TextsInv, TypedOnce
<1>2. CASE \/ ServerStart \/ PollLogin \/ EndScan \/ SkipUser \/ TakeOwnAnswer \/ ReturnAnswer
           \/ SendAnswer \/ SendList
  <2>1. UNCHANGED <<said, typed, cts, users>>
    BY <1>2 DEF ServerStart, PollLogin, StartScan, EndScan, SkipUser, TakeOwnAnswer, ReturnAnswer,
                SendAnswer, SendList
  <2> QED
    BY <1>1, <2>1, TextsFrame
<1>3. CASE Register
  <2>1. /\ users' = Append(users, [id |-> NewId, login |-> NewId]) /\ cts' = Append(cts, <<>>)
        /\ UNCHANGED <<said, typed>>
    BY <1>3 DEF Register
  <2>2. /\ users \in Seq([id : {Gone} \cup Nat, login : Logins]) /\ cts \in Seq(Seq(CtsMsgs))
        /\ Len(cts) = Len(users) /\ <<>> \in Seq(CtsMsgs)
    BY EmptySeq DEF Inv, TypeOK, ServerTypeOK, QueuesTypeOK
  <2>3. /\ DOMAIN users' = DOMAIN users \cup {Len(users) + 1}
        /\ cts'[Len(users) + 1] = <<>>
        /\ \A i \in DOMAIN users : cts'[i] = cts[i]
    <3>1. NewId \in Nat
      BY UserQueues DEF NewId, Inv
    <3>2. [id |-> NewId, login |-> NewId] \in [id : {Gone} \cup Nat, login : Logins]
      BY <3>1 DEF Logins
    <3>3. DOMAIN users' = DOMAIN users \cup {Len(users) + 1}
      BY <2>1, <2>2, <3>2, JoinedTo
    <3>4. cts'[Len(cts) + 1] = <<>> /\ \A i \in DOMAIN cts : cts'[i] = cts[i]
      BY <2>1, <2>2, JoinedTo
    <3> QED
      BY <1>1, <2>2, <3>3, <3>4
  <2> QED
    BY <1>1, <2>1, <2>3, TextFacts, TextsFrame
<1>4. CASE HandleName
  <2>1. /\ Hears(USRNAME_PRIORITY) /\ TakeCts /\ DOMAIN users' = DOMAIN users
        /\ UNCHANGED <<said, typed>>
    BY <1>4 DEF HandleName
  <2>2. /\ index \in DOMAIN users /\ cts[index] \in Seq(CtsMsgs) /\ cts[index] # <<>>
        /\ \A i \in DOMAIN users : i # index => cts'[i] = cts[i]
        /\ \A x : Contains(cts'[index], x) => Contains(cts[index], x)
        /\ cts'[index] = Remaining(cts[index])
    BY <1>1, <2>1, TakeCtsHolds, UserQueues DEF Inv, Hears, TakeCts
  <2>3. OnceIn(Remaining(cts[index]), TypedMsgs)
    BY <1>1, <2>2, ReceiveOnce, CtsMsgFacts
  <2> QED
    BY <1>1, <2>1, <2>2, <2>3, TextsFrame
<1>5. CASE HandleBye \/ HandleLastBye
  <2>1. /\ ForgetUser /\ UNCHANGED <<said, typed>>
    BY <1>5 DEF HandleBye, HandleLastBye
  <2>2. /\ cts' = [cts EXCEPT ![index] = <<>>] /\ DOMAIN users' = DOMAIN users
    BY <2>1, ForgetUserTypes DEF ForgetUser
  <2>3. \A i \in DOMAIN users : cts'[i] = cts[i] \/ cts'[i] = <<>>
    BY <1>1, <2>2
  <2> QED
    BY <1>1, <2>1, <2>2, <2>3, TextFacts, TextsFrame
<1>6. CASE ServerExit
  <2>1. /\ UNCHANGED <<said, typed, users>>
        /\ cts' = cts \/ cts' = [i \in DOMAIN cts |-> <<>>]
    BY <1>6 DEF ServerExit
  <2>2. \A i \in DOMAIN users : cts'[i] = cts[i] \/ cts'[i] = <<>>
    BY <1>1, <2>1
  <2> QED
    BY <1>1, <2>1, <2>2, TextFacts, TextsFrame
<1> QED
  BY <1>2, <1>3, <1>4, <1>5, <1>6

\* Typed messages with the same text are the same.
LEMMA SameText ==
  ASSUME NEW x \in TypedMsgs, NEW y \in TypedMsgs, x.text = y.text
  PROVE  x = y
<1>1. x = [prio |-> USER_PRIORITY, text |-> x.text] /\ y = [prio |-> USER_PRIORITY, text |-> y.text]
  BY DEF TypedMsgs
<1> QED
  BY <1>1

\* The server says a text: it was not said before, and is in no queue any more.
LEMMA HandleChatTexts ==
  ASSUME Inv, NameInv, TextsInv, HandleChat
  PROVE  TextsInv'
<1>1. PICK m, e : /\ m = Received(cts[index]) /\ said' = Append(said, e) /\ e.line.text = m.text
                  /\ UNCHANGED <<users, typed, cid>>
  <2>1. /\ said' = Append(said, [line |-> Line(users[index].login, Received(cts[index]).text),
                                 to |-> Active(users)])
        /\ UNCHANGED <<users, typed, cid>>
    BY DEF HandleChat
  <2> QED
    BY <2>1 DEF Line
<1>2. /\ Hears(USER_PRIORITY) /\ TakeCts
  BY DEF HandleChat
<1>3. /\ index \in DOMAIN users /\ DOMAIN cts = DOMAIN users
      /\ cts[index] \in Seq(CtsMsgs) /\ cts[index] # <<>>
      /\ m \in CtsMsgs /\ m.prio = USER_PRIORITY /\ Contains(cts[index], m)
      /\ \A i \in DOMAIN users : i # index => cts'[i] = cts[i]
      /\ \A x : Contains(cts'[index], x) => Contains(cts[index], x)
      /\ cts'[index] = Remaining(cts[index])
  BY <1>1, <1>2, TakeCtsHolds, UserQueues DEF Inv, Hears, TakeCts
<1>4. m \in TypedMsgs /\ typed \in Nat
  BY <1>3, TextFacts
<1>5. OnceIn(Remaining(cts[index]), TypedMsgs) /\ ~Contains(Remaining(cts[index]), m)
  <2>1. OnceIn(cts[index], TypedMsgs)
    BY <1>3 DEF TextsInv, TypedOnce
  <2> QED
    BY <1>1, <1>3, <1>4, <2>1, ReceiveOnce, CtsMsgFacts
<1>6. said \in Seq(Sayings) /\ said' \in Seq(Sayings)
  BY HandleChatNames DEF NameInv, SaidNamed
<1>7. /\ DOMAIN said = 1 .. Len(said) /\ Len(said) \in Nat
      /\ DOMAIN said' = 1 .. Len(said) + 1 /\ said'[Len(said) + 1] = e
      /\ \A k \in 1 .. Len(said) : said'[k] = said[k]
  BY <1>1, <1>6
<1>8. m.text.n <= typed /\ \A k \in DOMAIN said : said[k].line.text # m.text
  BY <1>3, <1>4 DEF TextsInv, NotYetSaid
<1>9. TypedOnce'
  BY <1>1, <1>3, <1>5 DEF TextsInv, TypedOnce
<1>10. NotYetSaid'
  <2> SUFFICES ASSUME NEW i \in DOMAIN users, NEW x \in TypedMsgs, Contains(cts'[i], x)
               PROVE  x.text.n <= typed /\ \A k \in DOMAIN said' : said'[k].line.text # x.text
    BY <1>1 DEF NotYetSaid
  <2>1. Contains(cts[i], x)
    BY <1>3
  <2>2. x.text.n <= typed /\ \A k \in DOMAIN said : said[k].line.text # x.text
    BY <2>1 DEF TextsInv, NotYetSaid
  <2>3. x # m
    <3>1. CASE i = index
      BY <1>3, <1>5, <3>1
    <3>2. CASE i # index
      <4>1. x \in CtsMsgs /\ x.prio = USER_PRIORITY
        BY DEF TypedMsgs, CtsMsgs
      <4>2. FromOwner(i, x) /\ FromOwner(index, m)
        BY <1>3, <2>1, <4>1 DEF NameInv, OwnWords
      <4> QED
        BY <1>3, <3>2, <4>1, <4>2 DEF FromOwner
    <3> QED
      BY <3>1, <3>2
  <2>4. x.text # m.text
    BY <1>4, <2>3, SameText
  <2> QED
    BY <1>1, <1>7, <2>2, <2>4
<1>11. SaidOnce'
  BY <1>1, <1>7, <1>8 DEF TextsInv, SaidOnce
<1> QED
  BY <1>9, <1>10, <1>11 DEF TextsInv

LEMMA NextTexts ==
  ASSUME Inv, NameInv, TextsInv, [Next]_vars
  PROVE  TextsInv'
<1>1. CASE UNCHANGED vars
  BY <1>1 DEF vars, TextsInv, TypedOnce, NotYetSaid, SaidOnce
<1> QED
  BY <1>1, ClientTexts, ServerSilentTexts, HandleChatTexts DEF Next, ServerStep

LEMMA InitTexts == Init => TextsInv
BY EmptySeq DEF Init, TextsInv, TypedOnce, NotYetSaid, SaidOnce


(***************************************************************************)
(* The order of the lines.  Which line the server said first can be read   *)
(* off every queue, off what a thread is about to print, and off its       *)
(* screen.                                                                 *)
(***************************************************************************)
\* The line m is in s, and m comes before n there, wherever they are.
SaidIn(s, m) == \E k \in DOMAIN s : s[k].line = m
BeforeIn(s, m, n) ==
  /\ SaidIn(s, m) /\ SaidIn(s, n)
  /\ \A j, k \in DOMAIN s : s[j].line = m /\ s[k].line = n => j < k

\* The lines of q are in the order of s, and m comes before all of them.
InTurn(s, q) ==
  \A k \in DOMAIN q : q[k] \in Lines =>
    /\ SaidIn(s, q[k])
    /\ \A j \in DOMAIN q : q[j] \in Lines /\ j < k => BeforeIn(s, q[j], q[k])
Ahead(s, m, q) == SaidIn(s, m) /\ \A n \in Lines : Contains(q, n) => BeforeIn(s, m, n)

\* The line a thread at h with the buffer b is about to print, if there is one.
Pending(h, b, n) == h = "show" /\ b \in Lines /\ n = b

\* The screen scr and the buffer b of a thread at h, and the queue q it reads.
ByHandler(scr) == {k \in DOMAIN scr : scr[k].by = "handler"}
InStep(s, h, b, scr, q) ==
  /\ \A n : Pending(h, b, n) => Ahead(s, n, q)
  /\ \A k \in ByHandler(scr) :
       /\ Ahead(s, scr[k].msg, q)
       /\ \A n : Pending(h, b, n) => BeforeIn(s, scr[k].msg, n)
       /\ \A j \in ByHandler(scr) : j < k => BeforeIn(s, scr[j].msg, scr[k].msg)

OrderInv ==
  /\ \A i \in DOMAIN users : InTurn(said, stc[i])
  /\ \A c \in Clients :
       /\ cpc[c] \notin Listening => screen[c] = <<>>
       /\ cid[c] # 0 => InStep(said, hpc[c], buf[c], screen[c], stc[cid[c]])

\* What is in the order of s is in the order of t as well.
Extends(s, t) == /\ \A m : SaidIn(s, m) => SaidIn(t, m)
                 /\ \A m, n : BeforeIn(s, m, n) => BeforeIn(t, m, n)

\* A line that was not said before comes after all others.
LEMMA SaidLast ==
  ASSUME NEW s \in Seq(Sayings), NEW e \in Sayings, ~SaidIn(s, e.line)
  PROVE  /\ Extends(s, Append(s, e)) /\ SaidIn(Append(s, e), e.line)
         /\ \A m : SaidIn(s, m) => BeforeIn(Append(s, e), m, e.line)
<1> DEFINE t == Append(s, e)
<1>1. /\ DOMAIN s = 1 .. Len(s) /\ Len(s) \in Nat
      /\ DOMAIN t = 1 .. Len(s) + 1 /\ t[Len(s) + 1] = e
      /\ \A k \in 1 .. Len(s) : t[k] = s[k]
  OBVIOUS
<1> HIDE DEF t
<1>2. \A m : SaidIn(s, m) => SaidIn(t, m)
  BY <1>1 DEF SaidIn
<1>3. SaidIn(t, e.line)
  BY <1>1 DEF SaidIn
<1>4. ASSUME NEW m, NEW n, BeforeIn(s, m, n)
      PROVE  BeforeIn(t, m, n)
  <2>1. m # e.line /\ n # e.line
    BY <1>4 DEF BeforeIn
  <2>2. \A j, k \in DOMAIN t : t[j].line = m /\ t[k].line = n => j < k
    BY <1>1, <1>4, <2>1 DEF BeforeIn
  <2> QED
    BY <1>2, <1>4, <2>2 DEF BeforeIn
<1>5. ASSUME NEW m, SaidIn(s, m)
      PROVE  BeforeIn(t, m, e.line)
  <2>1. m # e.line
    BY <1>5
  <2>2. \A k \in DOMAIN t : t[k].line = e.line => k = Len(s) + 1
    BY <1>1 DEF SaidIn
  <2>3. \A j, k \in DOMAIN t : t[j].line = m /\ t[k].line = e.line => j < k
    BY <1>1, <2>1, <2>2
  <2> QED
    BY <1>2, <1>3, <1>5, <2>3 DEF BeforeIn
<1> QED
  BY <1>2, <1>3, <1>4, <1>5 DEF t, Extends

\* A queue and a thread no step is about.
LEMMA StillInOrder ==
  ASSUME NEW s, NEW t, Extends(s, t), NEW q
  PROVE  /\ InTurn(s, q) => InTurn(t, q)
         /\ \A h, b, scr : InStep(s, h, b, scr, q) => InStep(t, h, b, scr, q)
<1>1. InTurn(s, q) => InTurn(t, q)
  BY DEF Extends, InTurn
<1>2. \A m : Ahead(s, m, q) => Ahead(t, m, q)
  BY DEF Extends, Ahead
<1>3. \A h, b, scr : InStep(s, h, b, scr, q) => InStep(t, h, b, scr, q)
  BY <1>2 DEF Extends, InStep
<1> QED
  BY <1>1, <1>3

\* The server sends m: it is no line, or it is the last it said.
Newest(s, t, m) == m \in Lines => SaidIn(t, m) /\ \A n : SaidIn(s, n) => BeforeIn(t, n, m)

LEMMA OfferInOrder ==
  ASSUME NEW s, NEW t, Extends(s, t), NEW m \in StcMsgs, Newest(s, t, m),
         NEW q \in Seq(StcMsgs)
  PROVE  /\ InTurn(s, q) => InTurn(t, Offer(q, UserMax, m))
         /\ \A h, b, scr : InStep(s, h, b, scr, q) => InStep(t, h, b, scr, Offer(q, UserMax, m))
<1> DEFINE r == Append(q, m)
<1>1. /\ DOMAIN q = 1 .. Len(q) /\ DOMAIN r = 1 .. Len(q) + 1 /\ Len(q) \in Nat
      /\ r[Len(q) + 1] = m /\ \A k \in 1 .. Len(q) : r[k] = q[k]
      /\ \A x : Contains(r, x) => Contains(q, x) \/ x = m
  BY JoinProperties
<1> HIDE DEF r
<1>2. ASSUME InTurn(s, q)
      PROVE  InTurn(t, r)
  <2> SUFFICES ASSUME NEW k \in DOMAIN r, r[k] \in Lines
               PROVE  /\ SaidIn(t, r[k])
                      /\ \A j \in DOMAIN r : r[j] \in Lines /\ j < k => BeforeIn(t, r[j], r[k])
    BY DEF InTurn
  <2>1. CASE k \in DOMAIN q
    <3>1. /\ SaidIn(s, q[k])
          /\ \A j \in DOMAIN q : q[j] \in Lines /\ j < k => BeforeIn(s, q[j], q[k])
      BY <1>1, <1>2, <2>1 DEF InTurn
    <3> QED
      BY <1>1, <2>1, <3>1 DEF Extends
  <2>2. CASE k = Len(q) + 1
    <3>1. \A j \in DOMAIN q : q[j] \in Lines => SaidIn(s, q[j])
      BY <1>2 DEF InTurn
    <3> QED
      BY <1>1, <2>2, <3>1 DEF Newest
  <2> QED
    BY <1>1, <2>1, <2>2
<1>3. \A x : Ahead(s, x, q) => Ahead(t, x, r)
  BY <1>1 DEF Ahead, Extends, Newest
<1>4. \A h, b, scr : InStep(s, h, b, scr, q) => InStep(t, h, b, scr, r)
  BY <1>3 DEF InStep, Extends
<1> QED
  BY <1>2, <1>4, StillInOrder DEF r, Offer

\* A receive leaves the rest of the queue in order, and a line it returns
\* comes before all that is left.
LEMMA ReceiveInOrder ==
  ASSUME NEW s, NEW q \in Seq(StcMsgs), q # <<>>
  PROVE  /\ InTurn(s, q) => InTurn(s, Remaining(q))
         /\ InTurn(s, q) /\ Received(q) \in Lines => Ahead(s, Received(q), Remaining(q))
         /\ \A h, b, scr : InStep(s, h, b, scr, q) => InStep(s, h, b, scr, Remaining(q))
<1> DEFINE t == Top(q)
           r == Remaining(q)
<1>1. /\ t \in 1 .. Len(q) /\ Received(q) = q[t] /\ r \in Seq(StcMsgs)
      /\ Len(r) = Len(q) - 1
      /\ \A i \in 1 .. Len(q) - 1 : r[i] = IF i < t THEN q[i] ELSE q[i + 1]
  <2>1. Received(q) = q[t]
    BY DEF Received
  <2>2. 7 \in Nat /\ \A m \in StcMsgs : m.prio \in 0 .. 7
    BY StcMsgFacts
  <2>3. /\ t \in 1 .. Len(q) /\ r \in Seq(StcMsgs) /\ Len(r) = Len(q) - 1
        /\ \A i \in 1 .. Len(q) - 1 : r[i] = IF i < t THEN q[i] ELSE q[i + 1]
    BY <2>2, ReceiveProperties
  <2> QED
    BY <2>1, <2>3
<1>2. DOMAIN q = 1 .. Len(q) /\ Len(q) \in Nat /\ DOMAIN r = 1 .. Len(q) - 1
  BY <1>1, LenProperties
<1>3. /\ \A j \in DOMAIN q : q[j].prio <= q[t].prio
      /\ \A j \in DOMAIN q : q[j].prio = q[t].prio => t <= j
  BY TopIsHighest, TopIsFirst, StcMsgFacts
<1>4. \A x : Contains(r, x) => Contains(q, x)
  BY TakenAndLeft, StcMsgFacts
<1> HIDE DEF t, r
<1>5. \A k \in DOMAIN r : \E a \in DOMAIN q : /\ r[k] = q[a] /\ a # t
                                              /\ a = IF k < t THEN k ELSE k + 1
  BY <1>1, <1>2
<1>6. ASSUME InTurn(s, q)
      PROVE  InTurn(s, r)
  <2> SUFFICES ASSUME NEW k \in DOMAIN r, r[k] \in Lines
               PROVE  /\ SaidIn(s, r[k])
                      /\ \A j \in DOMAIN r : r[j] \in Lines /\ j < k => BeforeIn(s, r[j], r[k])
    BY DEF InTurn
  <2>1. PICK a \in DOMAIN q : r[k] = q[a] /\ a = IF k < t THEN k ELSE k + 1
    BY <1>5
  <2>2. /\ SaidIn(s, q[a])
        /\ \A j \in DOMAIN q : q[j] \in Lines /\ j < a => BeforeIn(s, q[j], q[a])
    BY <1>6, <2>1 DEF InTurn
  <2>3. ASSUME NEW j \in DOMAIN r, r[j] \in Lines, j < k
        PROVE  BeforeIn(s, r[j], r[k])
    <3>1. PICK b \in DOMAIN q : r[j] = q[b] /\ b = IF j < t THEN j ELSE j + 1
      BY <1>5
    <3>2. b < a
      BY <1>1, <1>2, <2>1, <2>3, <3>1
    <3> QED
      BY <2>1, <2>2, <2>3, <3>1, <3>2
  <2> QED
    BY <2>1, <2>2, <2>3
<1>7. ASSUME InTurn(s, q), q[t] \in Lines
      PROVE  Ahead(s, q[t], r)
  <2>1. SaidIn(s, q[t])
    BY <1>1, <1>2, <1>7 DEF InTurn
  <2>2. ASSUME NEW n \in Lines, Contains(r, n)
        PROVE  BeforeIn(s, q[t], n)
    <3>1. PICK k \in DOMAIN r : r[k] = n
      BY <1>1, <1>2, <2>2 DEF Contains
    <3>2. PICK a \in DOMAIN q : q[a] = n /\ a # t
      BY <1>5, <3>1
    <3>3. q[a].prio = q[t].prio
      BY <1>7, <3>2 DEF Lines
    <3>4. t < a
      BY <1>1, <1>2, <1>3, <3>2, <3>3
    <3> QED
      BY <1>1, <1>2, <1>7, <3>2, <3>4 DEF InTurn
  <2> QED
    BY <2>1, <2>2 DEF Ahead
<1>8. \A x : Ahead(s, x, q) => Ahead(s, x, r)
  BY <1>4 DEF Ahead
<1>9. \A h, b, scr : InStep(s, h, b, scr, q) => InStep(s, h, b, scr, r)
  BY <1>8 DEF InStep
<1> QED
  BY <1>1, <1>6, <1>7, <1>9 DEF r

\* What a thread does: it starts on a blank screen, does anything but show,
\* receives and shows; and main prints between its lines.
LEMMA ThreadInOrder ==
  ASSUME NEW s, NEW q \in Seq(StcMsgs), NEW scr \in Seq(Entries), NEW b
  PROVE  /\ \A h : h # "show" => InStep(s, h, b, <<>>, q)
         /\ \A h, g : InStep(s, g, b, scr, q) /\ h # "show" => InStep(s, h, b, scr, q)
         /\ \A h : \A e \in Entries :
              InStep(s, h, b, scr, q) /\ e.by = "main" => InStep(s, h, b, Append(scr, e), q)
<1>1. \A h : h # "show" => InStep(s, h, b, <<>>, q)
  BY EmptySeq DEF InStep, Pending, ByHandler
<1>2. \A h, g : InStep(s, g, b, scr, q) /\ h # "show" => InStep(s, h, b, scr, q)
  BY DEF InStep, Pending
<1>3. ASSUME NEW h, NEW e \in Entries, e.by = "main", InStep(s, h, b, scr, q)
      PROVE  InStep(s, h, b, Append(scr, e), q)
  <2> DEFINE new == Append(scr, e)
  <2>1. /\ DOMAIN new = DOMAIN scr \cup {Len(scr) + 1}
        /\ new[Len(scr) + 1] = e /\ \A k \in DOMAIN scr : new[k] = scr[k]
    BY JoinedTo
  <2> HIDE DEF new
  <2>2. \A k \in ByHandler(new) : k \in ByHandler(scr) /\ new[k] = scr[k]
    BY <1>3, <2>1 DEF ByHandler
  <2>3. InStep(s, h, b, new, q)
    BY <1>3, <2>2 DEF InStep
  <2> QED
    BY <2>3 DEF new
<1> QED
  BY <1>1, <1>2, <1>3

LEMMA ReceiverInOrder ==
  ASSUME NEW s, NEW q \in Seq(StcMsgs), q # <<>>, NEW h, NEW b, NEW scr,
         InTurn(s, q), InStep(s, h, b, scr, q)
  PROVE  InStep(s, "show", Received(q), scr, Remaining(q))
<1>1. /\ Received(q) \in Lines => Ahead(s, Received(q), Remaining(q))
      /\ InStep(s, h, b, scr, Remaining(q))
  BY ReceiveInOrder
<1>2. Contains(q, Received(q))
  BY TakenAndLeft, StcMsgFacts
<1>3. \A k \in ByHandler(scr) : Received(q) \in Lines => BeforeIn(s, scr[k].msg, Received(q))
  BY <1>2 DEF InStep, Ahead
<1> QED
  BY <1>1, <1>3 DEF InStep, Pending

LEMMA PrinterInOrder ==
  ASSUME NEW s, NEW q, NEW b \in Lines, NEW scr \in Seq(Entries), NEW h,
         InStep(s, "show", b, scr, q), h # "show"
  PROVE  InStep(s, h, b, Append(scr, [by |-> "handler", msg |-> b]), q)
<1> DEFINE e == [by |-> "handler", msg |-> b]
           new == Append(scr, e)
<1>1. e \in Entries
  BY DEF Entries, StcMsgs, Lines
<1>2. /\ DOMAIN new = 1 .. Len(scr) + 1 /\ DOMAIN scr = 1 .. Len(scr) /\ Len(scr) \in Nat
      /\ new[Len(scr) + 1].msg = b /\ \A k \in 1 .. Len(scr) : new[k] = scr[k]
  BY <1>1
<1> HIDE DEF new
<1>3. Pending("show", b, b) /\ \A n : ~Pending(h, b, n)
  BY DEF Pending
<1>4. \A k \in ByHandler(new) : k = Len(scr) + 1 \/ (k \in ByHandler(scr) /\ new[k] = scr[k])
  BY <1>2 DEF ByHandler
<1>5. /\ Ahead(s, b, q)
      /\ \A k \in ByHandler(scr) : Ahead(s, scr[k].msg, q) /\ BeforeIn(s, scr[k].msg, b)
  BY <1>3 DEF InStep
<1>6. ASSUME NEW k \in ByHandler(new)
      PROVE  /\ Ahead(s, new[k].msg, q)
             /\ \A j \in ByHandler(new) : j < k => BeforeIn(s, new[j].msg, new[k].msg)
  <2>1. CASE k = Len(scr) + 1
    <3>1. \A j \in ByHandler(new) : j < k => j \in ByHandler(scr) /\ new[j] = scr[j]
      BY <1>2, <1>4, <2>1
    <3> QED
      BY <1>2, <1>5, <2>1, <3>1
  <2>2. CASE k \in ByHandler(scr) /\ new[k] = scr[k]
    <3>1. \A j \in ByHandler(new) : j < k => j \in ByHandler(scr) /\ new[j] = scr[j]
      <4>1. k \in 1 .. Len(scr)
        BY <1>2, <2>2 DEF ByHandler
      <4> QED
        BY <1>2, <1>4, <4>1
    <3> QED
      BY <1>5, <2>2, <3>1 DEF InStep
  <2> QED
    BY <1>4, <1>6, <2>1, <2>2
<1> QED
  BY <1>3, <1>6 DEF InStep, new

\* A step of the client c.
LEMMA ClientOrder ==
  ASSUME Inv, OrderInv, NEW c \in Clients, UNCHANGED <<users, said>>,
         \A d \in Clients : d # c =>
           /\ cpc'[d] = cpc[d] /\ hpc'[d] = hpc[d] /\ cid'[d] = cid[d]
           /\ buf'[d] = buf[d] /\ screen'[d] = screen[d],
         stc' = stc \/ (TakeStc(c) /\ cid[c] # 0 /\ stc[cid[c]] # <<>>),
         cpc'[c] \notin Listening => screen'[c] = <<>>,
         cid'[c] # 0 => InStep(said, hpc'[c], buf'[c], screen'[c], stc'[cid'[c]])
  PROVE  OrderInv'
<1>1. ASSUME NEW i \in DOMAIN users
      PROVE  InTurn(said, stc'[i])
  <2>1. InTurn(said, stc[i]) /\ stc[i] \in Seq(StcMsgs) /\ i \in DOMAIN stc
    BY UserQueues DEF OrderInv, Inv
  <2>2. stc'[i] = stc[i] \/ (stc'[i] = Remaining(stc[i]) /\ stc[i] # <<>>)
    BY <2>1, OthersQueues
  <2> QED
    BY <2>1, <2>2, ReceiveInOrder
<1>2. ASSUME NEW d \in Clients, d # c
      PROVE  /\ cpc'[d] \notin Listening => screen'[d] = <<>>
             /\ cid'[d] # 0 => InStep(said, hpc'[d], buf'[d], screen'[d], stc'[cid'[d]])
  <2>1. cid[d] # 0 => stc'[cid[d]] = stc[cid[d]]
    BY <1>2, OthersQueues
  <2> QED
    BY <1>2, <2>1 DEF OrderInv
<1> QED
  BY <1>1, <1>2 DEF OrderInv

\* The steps of a client that read nothing and print nothing.
LEMMA ClientQuietOrder ==
  ASSUME Inv, ArmInv, LossInv, OrderInv, NEW c \in Clients,
         \/ OpenLogin(c) \/ SendRequest(c) \/ PutBack(c) \/ TakeRequest(c) \/ TakeAnswer(c)
         \/ Notify(c) \/ SendName(c) \/ MainDone(c) \/ Speak(c) \/ HandlerDone(c) \/ HandlerArm(c)
         \/ (OpenRcv(c) \/ OpenSnd(c)) /\ ~Leave(c)
  PROVE  OrderInv'
<1>1. /\ cpc \in [Clients -> ClientPcs] /\ hpc \in [Clients -> HandlerPcs] /\ cid \in [Clients -> Nat]
      /\ screen[c] \in Seq(Entries) /\ login_q \in Seq(LoginMsgs)
      /\ cid[c] # 0 => stc[cid[c]] \in Seq(StcMsgs)
      /\ cpc[c] \notin Listening => hpc[c] = "none" /\ screen[c] = <<>>
  BY OwnQueue, ElementOfSeq, UserQueues
     DEF Inv, TypeOK, ClientsTypeOK, QueuesTypeOK, ArmInv, Armed, LossInv, OrderInv
<1>2. CASE TakeAnswer(c)
  <2>1. /\ UNCHANGED <<users, said, stc, buf, screen, hpc>>
        /\ cpc[c] = "await" /\ cpc' = [cpc EXCEPT ![c] = "openrcv"]
        /\ cid' = [cid EXCEPT ![c] = Received(login_q).id]
    BY <1>2 DEF TakeAnswer, Goto
  <2>2. cid'[c] \in DOMAIN users \cup {0}
    <3>1. [Next]_vars
      BY <1>2 DEF Next, MainStep
    <3>2. NumbersKnown'
      BY <3>1, NextInv DEF Inv
    <3> QED
      BY <2>1, <3>2 DEF NumbersKnown
  <2>3. /\ \A d \in Clients : d # c => cpc'[d] = cpc[d] /\ cid'[d] = cid[d]
        /\ hpc[c] = "none" /\ screen[c] = <<>>
    BY <1>1, <2>1 DEF Listening, Entered
  <2>4. cid'[c] # 0 => InStep(said, hpc[c], buf[c], screen[c], stc[cid'[c]])
    <3>1. hpc[c] # "show" /\ <<>> \in Seq(Entries)
      BY <2>3, EmptySeq
    <3>2. \A i \in DOMAIN users : InStep(said, hpc[c], buf[c], <<>>, stc[i])
      BY <3>1, ThreadInOrder, UserQueues DEF Inv
    <3> QED
      BY <2>2, <2>3, <3>2
  <2> QED
    BY <2>1, <2>3, <2>4, ClientOrder
<1>3. CASE ~TakeAnswer(c)
  <2>1. /\ UNCHANGED <<users, said, stc, buf, screen, cid>>
        /\ cpc' = cpc \/ \E pc \in ClientPcs :
             (cpc[c] \in Listening => pc \in Listening) /\ cpc' = [cpc EXCEPT ![c] = pc]
        /\ hpc' = hpc \/ \E h \in HandlerPcs : h # "show" /\ hpc' = [hpc EXCEPT ![c] = h]
    BY <1>3 DEF OpenLogin, SendRequest, PutBack, PostRequest, TakeRequest, Notify, SendName,
         MainDone, Speak, HandlerDone, HandlerArm, OpenRcv, OpenSnd, OpenQueue, Goto, ClientPcs,
         HandlerPcs, Listening, Entered
  <2>2. /\ \A d \in Clients : d # c => cpc'[d] = cpc[d] /\ hpc'[d] = hpc[d]
        /\ cpc'[c] \notin Listening => cpc[c] \notin Listening
        /\ hpc'[c] = hpc[c] \/ hpc'[c] # "show"
    BY <1>1, <2>1
  <2>3. cid[c] # 0 => InStep(said, hpc'[c], buf[c], screen[c], stc[cid[c]])
    BY <1>1, <2>2, ThreadInOrder DEF OrderInv
  <2> QED
    BY <1>1, <2>1, <2>2, <2>3, ClientOrder
<1> QED
  BY <1>2, <1>3

\* A client that leaves.
LEMMA LeaverOrder ==
  ASSUME Inv, LossInv, OrderInv, NEW c \in Clients, Leave(c),
         \/ OpenRcv(c) \/ OpenSnd(c) \/ MainReceiveBye(c) \/ HandlerReceiveBye(c) \/ Quit(c)
  PROVE  OrderInv'
<1>1. /\ cpc \in [Clients -> ClientPcs] /\ hpc \in [Clients -> HandlerPcs]
      /\ buf \in [Clients -> StcMsgs \cup {NoMsg}] /\ screen \in [Clients -> Seq(Entries)]
      /\ <<>> \in Seq(Entries)
      /\ hpc[c] # "none" => cid[c] # 0
      /\ cpc[c] = "drain" => cid[c] # 0
  BY EmptySeq DEF Inv, TypeOK, ClientsTypeOK, NumbersKnown, Numbered, LossInv
<1>2. /\ cpc' = [cpc EXCEPT ![c] = "exited"] /\ hpc' = [hpc EXCEPT ![c] = "none"]
      /\ buf' = [buf EXCEPT ![c] = NoMsg] /\ screen' = [screen EXCEPT ![c] = <<>>]
  BY DEF Leave, Goto
<1>3. /\ UNCHANGED <<users, said, cid>>
      /\ stc' = stc \/ (TakeStc(c) /\ cid[c] # 0 /\ stc[cid[c]] # <<>>)
  BY <1>1 DEF OpenRcv, OpenSnd, OpenQueue, MainReceiveBye, HandlerReceiveBye, Quit
<1>4. /\ \A d \in Clients : d # c =>
           /\ cpc'[d] = cpc[d] /\ hpc'[d] = hpc[d] /\ cid'[d] = cid[d]
           /\ buf'[d] = buf[d] /\ screen'[d] = screen[d]
      /\ hpc'[c] = "none" /\ screen'[c] = <<>>
  BY <1>1, <1>2, <1>3
<1>5. cid[c] # 0 => InStep(said, hpc'[c], buf'[c], screen'[c], stc'[cid[c]])
  BY <1>4, EmptySeq DEF InStep, Pending, ByHandler
<1> QED
  BY <1>3, <1>4, <1>5, ClientOrder

\* A client that receives or prints.
LEMMA ReaderOrder ==
  ASSUME Inv, LossInv, OrderInv, ArmInv, NEW c \in Clients,
         MainReceive(c) \/ MainShow(c) \/ HandlerReceive(c) \/ HandlerShow(c)
  PROVE  OrderInv'
<1>1. /\ cpc \in [Clients -> ClientPcs] /\ hpc \in [Clients -> HandlerPcs]
      /\ buf \in [Clients -> StcMsgs \cup {NoMsg}] /\ screen \in [Clients -> Seq(Entries)]
      /\ cpc[c] \in {"drain", "show"} \/ hpc[c] # "none" => cid[c] # 0 /\ cpc[c] \in Listening
  BY DEF Inv, TypeOK, ClientsTypeOK, NumbersKnown, Numbered, LossInv, ArmInv, Armed, Listening, Entered
<1>2. cid[c] # 0 /\ cpc[c] \in Listening
  BY <1>1 DEF MainReceive, MainShow, HandlerReceive, HandlerShow
<1> DEFINE q == stc[cid[c]]
<1>3. /\ q \in Seq(StcMsgs) /\ cid[c] \in DOMAIN users
      /\ InTurn(said, q) /\ InStep(said, hpc[c], buf[c], screen[c], q)
      /\ screen[c] \in Seq(Entries) /\ buf[c] \in StcMsgs \cup {NoMsg}
  BY <1>1, <1>2, OwnQueue, UserQueues DEF OrderInv, Inv
<1>4. TakeStc(c) => stc'[cid[c]] = Remaining(q)
  BY <1>2, OthersQueues
<1>5. CASE MainReceive(c)
  <2>1. /\ cpc' = [cpc EXCEPT ![c] = "show"] /\ TakeStc(c) /\ q # <<>>
        /\ UNCHANGED <<users, said, cid, hpc, buf, screen>>
    BY <1>5 DEF MainReceive, Goto
  <2>2. cpc'[c] = "show" /\ \A d \in Clients : d # c => cpc'[d] = cpc[d]
    BY <1>1, <2>1
  <2>3. InStep(said, hpc[c], buf[c], screen[c], Remaining(q))
    BY <1>3, <2>1, ReceiveInOrder
  <2>4. cpc'[c] \in Listening
    BY <2>2 DEF Listening, Entered
  <2> QED
    BY <1>2, <1>4, <2>1, <2>2, <2>3, <2>4, ClientOrder
<1>6. CASE MainShow(c)
  <2> DEFINE e == [by |-> "main", msg |-> buf[c]]
  <2>1. /\ cpc' = [cpc EXCEPT ![c] = "drain"]
        /\ UNCHANGED <<users, said, cid, stc, hpc, buf>>
        /\ screen' = screen \/ screen' = [screen EXCEPT ![c] = Append(screen[c], e)]
    BY <1>6 DEF MainShow, Goto
  <2>2. cpc'[c] = "drain" /\ \A d \in Clients : d # c => cpc'[d] = cpc[d]
    BY <1>1, <2>1
  <2>3. e \in Entries /\ e.by = "main"
    BY <1>3 DEF Entries
  <2>4. InStep(said, hpc[c], buf[c], Append(screen[c], e), q)
    BY <1>3, <2>3, ThreadInOrder
  <2>5. /\ \A d \in Clients : d # c => screen'[d] = screen[d]
        /\ screen'[c] = screen[c] \/ screen'[c] = Append(screen[c], e)
    BY <1>1, <2>1
  <2>6. InStep(said, hpc[c], buf[c], screen'[c], q)
    BY <1>3, <2>4, <2>5
  <2>7. cpc'[c] \in Listening
    BY <2>2 DEF Listening, Entered
  <2> QED
    BY <1>2, <2>1, <2>2, <2>5, <2>6, <2>7, ClientOrder
<1>7. CASE HandlerReceive(c)
  <2>1. /\ hpc' = [hpc EXCEPT ![c] = "show"] /\ buf' = [buf EXCEPT ![c] = Received(q)]
        /\ TakeStc(c) /\ q # <<>>
        /\ UNCHANGED <<users, said, cid, cpc, screen>>
    BY <1>7 DEF HandlerReceive
  <2>2. /\ \A d \in Clients : d # c => hpc'[d] = hpc[d] /\ buf'[d] = buf[d]
        /\ hpc'[c] = "show" /\ buf'[c] = Received(q)
    BY <1>1, <2>1
  <2>3. InStep(said, "show", Received(q), screen[c], Remaining(q))
    BY <1>3, <2>1, ReceiverInOrder
  <2> QED
    BY <1>2, <1>4, <2>1, <2>2, <2>3, ClientOrder
<1>8. CASE HandlerShow(c)
  <2> DEFINE e == [by |-> "handler", msg |-> buf[c]]
  <2>1. /\ hpc[c] = "show" /\ hpc' = [hpc EXCEPT ![c] = "recv"]
        /\ UNCHANGED <<users, said, cid, cpc, stc, buf>>
        /\ \/ buf[c].prio = MSG_PRIORYTY /\ screen' = [screen EXCEPT ![c] = Append(screen[c], e)]
           \/ screen' = screen
    BY <1>8 DEF HandlerShow
  <2>2. /\ \A d \in Clients : d # c => hpc'[d] = hpc[d] /\ screen'[d] = screen[d]
        /\ hpc'[c] = "recv"
        /\ \/ buf[c].prio = MSG_PRIORYTY /\ screen'[c] = Append(screen[c], e)
           \/ screen'[c] = screen[c]
    BY <1>1, <2>1
  <2>3. buf[c].prio = MSG_PRIORYTY => buf[c] \in Lines
    BY <1>3 DEF StcMsgs, Lines, NoMsg, Bye, UsersList
  <2>4. InStep(said, "recv", buf[c], screen[c], q)
    BY <1>3, ThreadInOrder
  <2>5. buf[c] \in Lines => InStep(said, "recv", buf[c], Append(screen[c], e), q)
    BY <1>3, <2>1, PrinterInOrder
  <2>6. InStep(said, hpc'[c], buf[c], screen'[c], q)
    BY <2>2, <2>3, <2>4, <2>5
  <2> QED
    BY <1>2, <2>1, <2>2, <2>6, ClientOrder
<1> QED
  BY <1>5, <1>6, <1>7, <1>8

\* A step of the server that sends nothing on the users' queues.
LEMMA ServerQuietOrder ==
  ASSUME Inv, OrderInv,
         \/ ServerStart \/ PollLogin \/ EndScan \/ SkipUser \/ TakeOwnAnswer \/ ReturnAnswer
         \/ Register \/ SendAnswer \/ HandleLastBye
  PROVE  OrderInv'
<1>1. /\ UNCHANGED <<cpc, cid, hpc, buf, screen, said>>
      /\ stc' = stc \/ stc' = Append(stc, <<>>)
  BY DEF ServerStart, PollLogin, StartScan, EndScan, SkipUser, TakeOwnAnswer, ReturnAnswer, PostAnswer,
         Register, SendAnswer, HandleLastBye
<1>2. /\ stc \in Seq(Seq(StcMsgs)) /\ <<>> \in Seq(StcMsgs) /\ DOMAIN stc = DOMAIN users
  BY EmptySeq, UserQueues DEF Inv, TypeOK, QueuesTypeOK
<1>3. DOMAIN stc' = DOMAIN users'
  <2>1. [Next]_vars
    BY DEF Next, ServerStep
  <2>2. TypeOK'
    BY <2>1, NextInv DEF Inv
  <2>3. DOMAIN users' = 1 .. Len(users') /\ DOMAIN stc' = 1 .. Len(users')
    BY <2>2, LenProperties DEF TypeOK, ServerTypeOK, QueuesTypeOK
  <2> QED
    BY <2>3
<1>4. /\ \A i \in DOMAIN stc : stc'[i] = stc[i]
      /\ \A i \in DOMAIN stc' : i \in DOMAIN stc \/ stc'[i] = <<>>
  <2> DEFINE r == Append(stc, <<>>)
  <2>1. /\ DOMAIN r = DOMAIN stc \cup {Len(stc) + 1}
        /\ r[Len(stc) + 1] = <<>> /\ \A i \in DOMAIN stc : r[i] = stc[i]
    BY <1>2, JoinedTo
  <2>2. stc' = stc \/ stc' = r
    BY <1>1
  <2> HIDE DEF r
  <2>3. CASE stc' = stc
    BY <2>3
  <2>4. CASE stc' = r
    BY <2>1, <2>4
  <2> QED
    BY <2>2, <2>3, <2>4
<1>5. \A i \in DOMAIN users' : InTurn(said, stc'[i])
  <2>1. InTurn(said, <<>>)
    BY EmptySeq DEF InTurn
  <2> QED
    BY <1>2, <1>3, <1>4, <2>1 DEF OrderInv
<1>6. \A d \in Clients : cid[d] # 0 => stc'[cid[d]] = stc[cid[d]]
  BY <1>4, OwnQueue
<1> QED
  BY <1>1, <1>5, <1>6 DEF OrderInv

\* The server sends m to users, as the last it said if it is a line.
LEMMA BroadcastOrder ==
  ASSUME Inv, OrderInv, NEW m \in StcMsgs, NEW to \in SUBSET DOMAIN users,
         Broadcast(m, to) \/ UNCHANGED <<stc, hpc>>,
         UNCHANGED <<cpc, cid, buf, screen>>, DOMAIN users' = DOMAIN users,
         NEW s, s = said', Extends(said, s), Newest(said, s, m)
  PROVE  OrderInv'
<1>1. /\ DOMAIN stc = DOMAIN users
      /\ \A i \in DOMAIN users : stc[i] \in Seq(StcMsgs)
  BY UserQueues DEF Inv
<1>2. \A i \in DOMAIN users : stc'[i] = stc[i] \/ stc'[i] = Offer(stc[i], UserMax, m)
  BY <1>1 DEF Broadcast
<1>3. \A i \in DOMAIN users :
        /\ InTurn(said, stc[i]) => InTurn(s, stc'[i])
        /\ \A h, b, scr : InStep(said, h, b, scr, stc[i]) => InStep(s, h, b, scr, stc'[i])
  <2> SUFFICES ASSUME NEW i \in DOMAIN users
               PROVE  /\ InTurn(said, stc[i]) => InTurn(s, stc'[i])
                      /\ \A h, b, scr : InStep(said, h, b, scr, stc[i])
                                          => InStep(s, h, b, scr, stc'[i])
    OBVIOUS
  <2>1. PICK t : t = said
    OBVIOUS
  <2>2. Extends(t, s) /\ Newest(t, s, m)
    BY <2>1
  <2>3. CASE stc'[i] = stc[i]
    <3>1. PICK q : q = stc[i]
      OBVIOUS
    <3>2. /\ InTurn(t, q) => InTurn(s, q)
          /\ \A h, b, scr : InStep(t, h, b, scr, q) => InStep(s, h, b, scr, q)
      BY <2>2, StillInOrder
    <3> QED
      BY <2>1, <2>3, <3>1, <3>2
  <2>4. CASE stc'[i] = Offer(stc[i], UserMax, m)
    <3>1. PICK q \in Seq(StcMsgs) : q = stc[i]
      BY <1>1
    <3>2. /\ InTurn(t, q) => InTurn(s, Offer(q, UserMax, m))
          /\ \A h, b, scr : InStep(t, h, b, scr, q) => InStep(s, h, b, scr, Offer(q, UserMax, m))
      BY <2>2, OfferInOrder
    <3> QED
      BY <2>1, <2>4, <3>1, <3>2
  <2> QED
    BY <1>2, <2>3, <2>4
<1>4. \A c \in Clients : hpc'[c] = hpc[c] \/ (notif[c] /\ cid[c] # 0 /\ hpc'[c] = "recv")
  BY DEF Broadcast, Inv, NumbersKnown
<1>5. ASSUME NEW c \in Clients, cid[c] # 0
      PROVE  InStep(s, hpc'[c], buf[c], screen[c], stc'[cid[c]])
  <2>1. cid[c] \in DOMAIN users
    BY <1>1, <1>5, OwnQueue
  <2>2. InStep(s, hpc[c], buf[c], screen[c], stc'[cid[c]])
    BY <1>3, <1>5, <2>1 DEF OrderInv
  <2>3. hpc'[c] # "show" \/ hpc'[c] = hpc[c]
    BY <1>4
  <2> QED
    BY <2>2, <2>3 DEF InStep, Pending
<1> QED
  BY <1>3, <1>5 DEF OrderInv

\* The server tells its users something other than a line, or good-bye.
LEMMA ServerTellsOrder ==
  ASSUME Inv, OrderInv, SendList \/ HandleName \/ HandleBye \/ ServerExit
  PROVE  OrderInv'
<1>1. \A us : DOMAIN us = DOMAIN users => Active(us) \in SUBSET DOMAIN users
  BY DEF Active
<1>2. UNCHANGED <<cpc, cid, buf, screen, said>> /\ DOMAIN users' = DOMAIN users
  BY ForgetUserTypes DEF SendList, HandleName, HandleBye, ServerExit, Inv
<1>3. \E m \in {UsersList, Bye} : \E to \in SUBSET DOMAIN users :
        Broadcast(m, to) \/ UNCHANGED <<stc, hpc>>
  BY <1>1, <1>2 DEF SendList, HandleName, HandleBye, ServerExit
<1>4. PICK m \in {UsersList, Bye}, to \in SUBSET DOMAIN users :
        Broadcast(m, to) \/ UNCHANGED <<stc, hpc>>
  BY <1>3
<1>5. m \in StcMsgs /\ m \notin Lines
  BY StcMsgFacts DEF Lines, UsersList, Bye
<1>6. PICK s : s = said
  OBVIOUS
<1>7. s = said' /\ Extends(said, s) /\ Newest(said, s, m)
  BY <1>2, <1>5, <1>6 DEF Extends, Newest
<1> QED
  BY <1>2, <1>4, <1>5, <1>7, BroadcastOrder

\* The server says a line: nobody said it before.
LEMMA HandleChatOrder ==
  ASSUME Inv, NameInv, TextsInv, OrderInv, HandleChat
  PROVE  OrderInv'
<1>1. PICK m, e, to : /\ m = Received(cts[index]) /\ said' = Append(said, e)
                      /\ e.line.text = m.text /\ Broadcast(e.line, to) /\ to = Active(users)
                      /\ UNCHANGED <<users, cpc, cid, buf, screen>>
  <2>1. /\ said' = Append(said, [line |-> Line(users[index].login, Received(cts[index]).text),
                                 to |-> Active(users)])
        /\ Broadcast(Line(users[index].login, Received(cts[index]).text), Active(users))
        /\ UNCHANGED <<users, cpc, cid, buf, screen>>
    BY DEF HandleChat
  <2> QED
    BY <2>1 DEF Line
<1>2. said \in Seq(Sayings) /\ said' \in Seq(Sayings) /\ to \in SUBSET DOMAIN users
  BY <1>1, HandleChatNames DEF NameInv, SaidNamed, Active
<1>3. e \in Sayings /\ e.line \in StcMsgs
  <2>1. Len(said) \in Nat /\ DOMAIN said' = 1 .. Len(said) + 1 /\ said'[Len(said) + 1] = e
    BY <1>1, <1>2
  <2>2. e \in Sayings
    BY <1>2, <2>1
  <2> QED
    BY <2>2 DEF Sayings, StcMsgs
<1>4. \A k \in DOMAIN said : said[k].line # e.line
  <2>1. Hears(USER_PRIORITY)
    BY DEF HandleChat
  <2>2. index \in DOMAIN users /\ m \in TypedMsgs /\ Contains(cts[index], m)
    BY <1>1, <2>1, TakeCtsHolds, TextFacts DEF Inv
  <2>3. \A k \in DOMAIN said : said[k].line.text # m.text
    BY <2>2 DEF TextsInv, NotYetSaid
  <2> QED
    BY <1>1, <2>3
<1>5. PICK s : s = said'
  OBVIOUS
<1>6. Extends(said, s) /\ Newest(said, s, e.line)
  <2>1. ~SaidIn(said, e.line)
    BY <1>4 DEF SaidIn
  <2>2. /\ Extends(said, Append(said, e)) /\ SaidIn(Append(said, e), e.line)
        /\ \A n : SaidIn(said, n) => BeforeIn(Append(said, e), n, e.line)
    BY <1>2, <1>3, <2>1, SaidLast
  <2> QED
    BY <1>1, <1>5, <2>2 DEF Newest
<1>7. DOMAIN users' = DOMAIN users
  BY <1>1
<1> QED
  BY <1>1, <1>2, <1>3, <1>5, <1>6, <1>7, BroadcastOrder

LEMMA NextOrder ==
  ASSUME Inv, ArmInv, NameInv, LossInv, TextsInv, OrderInv, [Next]_vars
  PROVE  OrderInv'
<1>1. CASE \/ ServerStart \/ PollLogin \/ EndScan \/ SkipUser \/ TakeOwnAnswer \/ ReturnAnswer
           \/ Register \/ SendAnswer \/ HandleLastBye
  BY <1>1, ServerQuietOrder
<1>2. CASE SendList \/ HandleName \/ HandleBye \/ ServerExit
  BY <1>2, ServerTellsOrder
<1>3. CASE HandleChat
  BY <1>3, HandleChatOrder
<1>4. ASSUME NEW c \in Clients, MainStep(c) \/ HandlerStep(c) \/ Speak(c) \/ Quit(c)
      PROVE  OrderInv'
  <2>1. CASE MainReceive(c) \/ MainShow(c) \/ HandlerReceive(c) \/ HandlerShow(c)
    BY <2>1, ReaderOrder
  <2>2. CASE \/ OpenLogin(c) \/ SendRequest(c) \/ PutBack(c) \/ TakeRequest(c) \/ TakeAnswer(c)
             \/ Notify(c) \/ SendName(c) \/ MainDone(c) \/ Speak(c) \/ HandlerDone(c) \/ HandlerArm(c)
    BY <2>2, ClientQuietOrder
  <2>3. CASE MainReceiveBye(c) \/ HandlerReceiveBye(c) \/ Quit(c)
    BY <2>3, LeaverOrder DEF MainReceiveBye, HandlerReceiveBye, Quit
  <2>4. CASE OpenRcv(c) \/ OpenSnd(c)
    BY <2>4, ClientQuietOrder, LeaverOrder
  <2> QED
    BY <1>4, <2>1, <2>2, <2>3, <2>4 DEF MainStep, HandlerStep
<1>5. CASE UNCHANGED vars
  BY <1>5 DEF vars, OrderInv
<1> QED
  BY <1>1, <1>2, <1>3, <1>4, <1>5 DEF Next, ServerStep

LEMMA InitOrder == Init => OrderInv
BY EmptySeq DEF Init, OrderInv

\* In every run: what a client's thread prints are lines the server sent out,
\* and it prints them in the order in which the server sent them, though main
\* takes messages from the same queue, messages of other priorities overtake
\* and full queues drop lines.
THEOREM InOrderHolds == Spec => []InOrder
<1> DEFINE All == Inv /\ UsersInv /\ ArmInv /\ NameInv /\ LossInv /\ TextsInv /\ OrderInv
<1>1. Init => All
  BY InitInv, InitUsers, InitArmed, InitNames, InitLoss, InitTexts, InitOrder
<1>2. All /\ [Next]_vars => All'
  BY NextInv, NextUsers, NextArmed, NextNames, NextLoss, NextTexts, NextOrder
<1>3. All => InOrder
  <2> SUFFICES ASSUME All, NEW c \in Clients
               PROVE  /\ \A k \in Printed(c) : \E j \in DOMAIN said : said[j].line = screen[c][k].msg
                      /\ \A j, k \in Printed(c) :
                           j < k => PlaceOf(screen[c][j].msg) < PlaceOf(screen[c][k].msg)
    BY DEF InOrder
  <2>1. CASE screen[c] = <<>>
    BY <2>1, EmptySeq DEF Printed
  <2>2. CASE screen[c] # <<>>
    <3>1. cid[c] # 0
      BY <2>2 DEF OrderInv, Listening, Entered, Inv, NumbersKnown, Numbered
    <3>2. \A k \in Printed(c) :
            /\ SaidIn(said, screen[c][k].msg)
            /\ \A j \in Printed(c) : j < k => BeforeIn(said, screen[c][j].msg, screen[c][k].msg)
      BY <3>1 DEF OrderInv, InStep, Ahead, Printed, ByHandler
    <3>3. \A m, n : BeforeIn(said, m, n) => PlaceOf(m) < PlaceOf(n)
      BY DEF BeforeIn, SaidIn, PlaceOf
    <3> QED
      BY <3>2, <3>3 DEF SaidIn
  <2> QED
    BY <2>1, <2>2
<1> QED
  BY <1>1, <1>2, <1>3, PTL DEF Spec
===============================================================================
