------------------------------ MODULE PosixQueue ------------------------------
(***************************************************************************)
(* POSIX message queues (mq_overview(7)) as the programs of                *)
(* "13-message queues" use them.  The kernel keeps the messages of a queue *)
(* by priority, and by arrival inside a priority.  Here a queue is the     *)
(* sequence of its messages in arrival order; a message is a record with   *)
(* a field prio, and receiving takes the oldest message of the highest     *)
(* priority.                                                               *)
(***************************************************************************)
EXTENDS Naturals, Sequences, SequencesExt

\* A queue created with mq_maxmsg = max accepts one more message.
HasRoom(q, max) == Len(q) < max

\* mq_send on an O_NONBLOCK descriptor by a caller that ignores the result:
\* a full queue drops the message.
Offer(q, max, m) == IF HasRoom(q, max) THEN Append(q, m) ELSE q

\* The position mq_receive takes from.
Top(q) == CHOOSE k \in DOMAIN q :
             \A j \in DOMAIN q : \/ q[j].prio < q[k].prio
                                 \/ q[j].prio = q[k].prio /\ k <= j

\* The message mq_receive returns, and the queue it leaves.
Received(q) == q[Top(q)]
Remaining(q) == RemoveAt(q, Top(q))
===============================================================================
