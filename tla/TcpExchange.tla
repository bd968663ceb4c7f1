------------------------------- MODULE TcpExchange -------------------------------
(***************************************************************************)
(* "16-sockets/1/TCPinet" and "TCPlocal": a server that accepts one client,*)
(* hears "Hi", says "Hello" and ends, and clients that come at any time.   *)
(* Those it does not accept wait in the backlog of its listening socket.   *)
(***************************************************************************)
EXTENDS Integers, FiniteSets, Sequences

CONSTANTS Runs,        \* bound: runs of the server, one after the other
          Visitors,    \* the clients
          BACKLOG      \* of listen; 2 in the code, which leaves room for one more

ConstantsOK == Runs \in Nat \ {0} /\ IsFiniteSet(Visitors) /\ BACKLOG \in Nat

Servers == 1 .. Runs
NoRun   == 0

VARIABLES
  local,     \* the program is TCPlocal; never changes
  run,       \* where each run of the server is
  active,    \* the clients it has accepted: none or one
  waiting,   \* the backlog of the listening socket
  caller,    \* where each client is, and the run it is connected to
  up, down,  \* the clients whose "Hi", and those whose "Hello", is on its way
  shown,     \* the clients whose "Hi" a run has printed
  linger     \* the port of TCPinet is held by a connection closed a while ago
tcpVars == <<local, run, active, waiting, caller, up, down, shown, linger>>

Init ==
  /\ local \in BOOLEAN
  /\ run = [s \in Servers |-> "new"] /\ active = [s \in Servers |-> {}] /\ waiting = <<>>
  /\ caller = [v \in Visitors |-> [at |-> "new", to |-> NoRun]]
  /\ up = {} /\ down = {} /\ shown = [s \in Servers |-> {}] /\ linger = FALSE

Listening(s) == run[s] \in {"accept", "recv", "send", "close"}
Live(v)      == caller[v].at \in {"send", "recv"}
Moves(s, from, to) == run[s] = from /\ run' = [run EXCEPT ![s] = to]
-------------------------------------------------------------------------------
(***************************************************************************)
(* The server.                                                             *)
(***************************************************************************)
Start(s) ==
  /\ Moves(s, "new", "bind")
  /\ \A r \in 1 .. s - 1 : run[r] \in {"over", "failed", "killed"}
  /\ UNCHANGED <<local, active, waiting, caller, up, down, shown, linger>>

\* bind and listen.  A path left behind is unlinked first; a port is not free until
\* the connection that the last run closed has timed out.
Bind(s) ==
  /\ Moves(s, "bind", IF linger THEN "failed" ELSE "accept")
  /\ UNCHANGED <<local, active, waiting, caller, up, down, shown, linger>>

Accept(s) ==
  /\ Moves(s, "accept", "recv") /\ waiting # <<>>
  /\ active' = [active EXCEPT ![s] = {Head(waiting)}] /\ waiting' = Tail(waiting)
  /\ UNCHANGED <<local, caller, up, down, shown, linger>>

\* recv returns what the client has said, or nothing when the client has gone.
Recv(s) ==
  /\ Moves(s, "recv", "send")
  /\ active[s] \subseteq up \/ \A v \in active[s] : ~Live(v)
  /\ shown' = [shown EXCEPT ![s] = active[s] \cap up] /\ up' = up \ active[s]
  /\ UNCHANGED <<local, active, waiting, caller, down, linger>>

KeepBacklog(s, held) ==    \* mutant: the listening socket stays open
  /\ linger' = (linger \/ held)
  /\ UNCHANGED <<local, active, waiting, caller, up, shown>>

\* What becomes of the sockets of a run that ends: whoever waits in the backlog is
\* left without a server, and the port is held if the client has not closed first.
Shut(s, held) ==
  /\ waiting' = <<>>
  /\ linger' = (linger \/ held)
  /\ UNCHANGED <<local, active, caller, up, shown>>

\* On a local socket SIGPIPE ends a server whose client has gone.
Send(s) ==
  LET there == {v \in active[s] : Live(v)} IN
  IF local /\ there = {}
  THEN Moves(s, "send", "killed") /\ Shut(s, FALSE) /\ UNCHANGED down
  ELSE /\ Moves(s, "send", "close") /\ down' = down \cup there
       /\ UNCHANGED <<local, active, waiting, caller, up, shown, linger>>

Close(s) ==
  /\ Moves(s, "close", "over") /\ Shut(s, ~local /\ \E v \in active[s] : Live(v))
  /\ UNCHANGED down

Kill(s) ==
  /\ run[s] \notin {"new", "over", "failed", "killed"} /\ run' = [run EXCEPT ![s] = "killed"]
  /\ Shut(s, ~local /\ \E v \in active[s] : Live(v))
  /\ UNCHANGED down

\* The port is free again.
Timeout == linger /\ linger' = FALSE /\ UNCHANGED <<local, run, active, waiting, caller, up, down, shown>>

ServerStep(s) == Bind(s) \/ Accept(s) \/ Recv(s) \/ Send(s) \/ Close(s)
-------------------------------------------------------------------------------
(***************************************************************************)
(* A client.                                                               *)
(***************************************************************************)
Goes(v, from, to) == caller[v].at = from /\ caller' = [caller EXCEPT ![v].at = to]

\* connect waits while the backlog is full, over TCP not for ever; without a listening
\* server it fails.
Connect(v) ==
  /\ caller[v].at = "new"
  /\ \/ \E s \in Servers : /\ Listening(s) /\ Len(waiting) <= BACKLOG
                           /\ caller' = [caller EXCEPT ![v] = [at |-> "send", to |-> s]]
                           /\ waiting' = Append(waiting, v)
     \/ /\ (\A s \in Servers : ~Listening(s)) \/ (~local /\ Len(waiting) > BACKLOG)
        /\ Goes(v, "new", "failed") /\ UNCHANGED waiting
  /\ UNCHANGED <<local, run, active, up, down, shown, linger>>

Say(v) ==
  /\ caller[v].at = "send"
  /\ IF Listening(caller[v].to)
     THEN Goes(v, "send", "recv") /\ up' = up \cup {v}
     ELSE (Goes(v, "send", "recv") \/ Goes(v, "send", "failed")) /\ UNCHANGED up
  /\ UNCHANGED <<local, run, active, waiting, down, shown, linger>>

\* recv: the answer; nothing, or an error, when the server has closed or gone.
Hear(v) ==
  /\ caller[v].at = "recv"
  /\ IF v \in down
     THEN Goes(v, "recv", "heard")
     ELSE ~Listening(caller[v].to) /\ (Goes(v, "recv", "empty") \/ Goes(v, "recv", "failed"))
  /\ UNCHANGED <<local, run, active, waiting, up, down, shown, linger>>

Leave(v) ==
  /\ Live(v) /\ caller' = [caller EXCEPT ![v].at = "killed"] /\ down' = down \ {v}
  /\ UNCHANGED <<local, run, active, waiting, up, shown, linger>>

ClientStep(v) == Say(v) \/ Hear(v)

Next ==
  \/ \E s \in Servers : Start(s) \/ ServerStep(s) \/ Kill(s)
  \/ Timeout
  \/ \E v \in Visitors : Connect(v) \/ ClientStep(v) \/ Leave(v)

\* Whoever does not wait goes on; as none runs for ever, all do.
Fairness == WF_tcpVars((\E s \in Servers : ServerStep(s)) \/ (\E v \in Visitors : ClientStep(v)))
FairSpec == Init /\ [][Next]_tcpVars /\ Fairness
-------------------------------------------------------------------------------
\* The type invariant; the backlog is that of the one run that listens.
TypeOK ==
  /\ local \in BOOLEAN /\ linger \in BOOLEAN /\ (linger => ~local)
  /\ \A s \in Servers :
       /\ run[s] \in {"new", "bind", "accept", "recv", "send", "close", "over", "failed", "killed"}
       /\ active[s] \cup shown[s] \subseteq Visitors /\ Cardinality(active[s]) <= 1
  /\ \A k \in DOMAIN waiting : waiting[k] \in Visitors /\ Listening(caller[waiting[k]].to)
  /\ \A v \in Visitors :
       /\ caller[v].at \in {"new", "send", "recv", "heard", "empty", "failed", "killed"}
       /\ caller[v].to \in Servers \cup {NoRun}
  /\ up \cup down \subseteq Visitors

\* A client hears "Hello" only from the run that has shown its "Hi", and a run shows
\* one at most; the answer is left out when the client has gone, and then the
\* server shows an empty line (server.c 51-70).
HelloForHi ==
  /\ \A v \in Visitors : caller[v].at = "heard" => shown[caller[v].to] = {v}
  /\ \A s \in Servers : run[s] = "over" /\ shown[s] = {} => \A v \in active[s] : caller[v].at = "killed"

\* Every client ends, also those in the backlog of a server that has ended, and a run
\* that has accepted one ends too.
AllBack ==
  /\ \A v \in Visitors : ~Live(v)
  /\ \A s \in Servers : run[s] \notin {"recv", "send", "close"}
AllComeBack == []<>AllBack
===============================================================================
