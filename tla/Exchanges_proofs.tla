----------------------------- MODULE Exchanges_proofs ----------------------------
(***************************************************************************)
(* Proofs about the programs that come in pairs, for every number of runs  *)
(* of the server and every finite set of clients: over TCP, in datagrams,  *)
(* over message queues and shared memory, and through pipes.  Each pair    *)
(* has an inductive invariant of its own.                                  *)
(***************************************************************************)
EXTENDS MCExchanges, SequenceFacts, FiniteSetTheorems

(***************************************************************************)
(* The TCP servers of "16-sockets/1" and their clients.                    *)
(***************************************************************************)
\* The places of a server and of a client, and those from which a server does not go on.
RunPlaces == {"new", "bind", "accept", "recv", "send", "close", "over", "failed", "killed"}
CallerPlaces == {"new", "send", "recv", "heard", "empty", "failed", "killed"}
RunEnded == {"over", "failed", "killed"}

\* The type invariant of the TCP exchange, as function sets.
TcpTypes ==
  /\ local \in BOOLEAN /\ linger \in BOOLEAN /\ (linger => ~local)
  /\ run \in [Tcp!Servers -> RunPlaces]
  /\ active \in [Tcp!Servers -> SUBSET Visitors] /\ shown \in [Tcp!Servers -> SUBSET Visitors]
  /\ caller \in [Visitors -> [at : CallerPlaces, to : Tcp!Servers \cup {Tcp!NoRun}]]
  /\ waiting \in Seq(Visitors) /\ up \subseteq Visitors /\ down \subseteq Visitors

\* The servers run one after the other.
OneRun == \A r, s \in Tcp!Servers : r < s /\ run[r] \notin RunEnded => run[s] = "new"

\* A server that has accepted serves the one client it has accepted, which has connected
\* to it, and shows only what that client sent.
OneGuest ==
  \A s \in Tcp!Servers :
    /\ run[s] \in {"new", "bind", "accept"} => active[s] = {}
    /\ active[s] = {} \/ \E v \in Visitors : active[s] = {v}
    /\ run[s] \in {"recv", "send", "close", "over"} => active[s] # {}
    /\ run[s] = "recv" => shown[s] = {}
    /\ shown[s] \subseteq active[s]
    /\ \A v \in active[s] : caller[v].to = s

\* The clients in the accept queue wait for a server that listens.
InQueue == \A k \in DOMAIN waiting : Tcp!Listening(caller[waiting[k]].to) /\ caller[waiting[k]].to \in Tcp!Servers

\* A client that has its answer, or that the server has closed its socket on, was shown by
\* its server before; a client has only connected to a server that listened.
Heard ==
  \A v \in Visitors :
    /\ v \in down \/ caller[v].at = "heard" => \E s \in Tcp!Servers : v \in shown[s]
    /\ caller[v].at = "new" => caller[v].to = Tcp!NoRun
    /\ caller[v].to \in Tcp!Servers => run[caller[v].to] \notin {"new", "bind"}
    /\ caller[v].to \in Tcp!Servers /\ Tcp!Listening(caller[v].to) => caller[v].at \in {"send", "recv", "heard", "killed"}

\* A server that shows nothing has lost its client: recv returns 0 for no other reason.
Missed ==
  \A s \in Tcp!Servers :
    /\ run[s] \in {"send", "close", "over"} /\ shown[s] = {} => \A v \in active[s] : caller[v].at = "killed"

\* The inductive invariant of the TCP exchange.
TcpInv == TcpTypes /\ OneRun /\ OneGuest /\ InQueue /\ Heard /\ Missed

\* What the assumption on the constants says of the servers.
LEMMA TcpConstants ==
  /\ Runs \in Nat \ {0} /\ Tcp!Servers = 1 .. Runs /\ Tcp!NoRun = 0
  /\ \A s \in Tcp!Servers : s \in Int /\ Tcp!NoRun # s
  /\ Tcp!NoRun \notin Tcp!Servers
<1>1. Runs \in Nat \ {0} /\ Tcp!Servers = 1 .. Runs /\ Tcp!NoRun = 0
  BY ExchangesAssumption DEF Tcp!ConstantsOK, Tcp!Servers, Tcp!NoRun
<1> QED BY <1>1

\* The invariant holds when nobody has started.
LEMMA TcpStarts == Tcp!Init => TcpInv
<1> SUFFICES ASSUME Tcp!Init PROVE TcpInv
  OBVIOUS
<1>1. /\ local \in BOOLEAN /\ linger = FALSE /\ waiting = <<>> /\ up = {} /\ down = {}
      /\ run = [s \in Tcp!Servers |-> "new"] /\ active = [s \in Tcp!Servers |-> {}]
      /\ shown = [s \in Tcp!Servers |-> {}]
      /\ caller = [v \in Visitors |-> [at |-> "new", to |-> Tcp!NoRun]]
  BY DEF Tcp!Init
<1>2. TcpTypes
  <2>1. run \in [Tcp!Servers -> RunPlaces] /\ waiting \in Seq(Visitors)
    BY <1>1 DEF RunPlaces
  <2>2. active \in [Tcp!Servers -> SUBSET Visitors] /\ shown \in [Tcp!Servers -> SUBSET Visitors]
    BY <1>1
  <2>3. caller \in [Visitors -> [at : CallerPlaces, to : Tcp!Servers \cup {Tcp!NoRun}]]
    BY <1>1 DEF CallerPlaces
  <2> QED BY <1>1, <2>1, <2>2, <2>3 DEF TcpTypes
<1>3. OneRun /\ OneGuest
  BY <1>1 DEF OneRun, OneGuest
<1>4. InQueue
  BY <1>1 DEF InQueue
<1>5. Heard
  BY <1>1, TcpConstants DEF Heard
<1>6. Missed
  BY <1>1 DEF Missed
<1> QED BY <1>2, <1>3, <1>4, <1>5, <1>6 DEF TcpInv

\* While one server runs no other one listens.
LEMMA Alone ==
  ASSUME TcpTypes, OneRun, NEW s \in Tcp!Servers, run[s] \notin RunEnded, run[s] # "new"
  PROVE  \A r \in Tcp!Servers \ {s} : run[r] \in RunEnded \cup {"new"} /\ ~Tcp!Listening(r)
<1> SUFFICES ASSUME NEW r \in Tcp!Servers \ {s} PROVE run[r] \in RunEnded \cup {"new"} /\ ~Tcp!Listening(r)
  OBVIOUS
<1>1. r < s \/ s < r
  BY TcpConstants
<1>2. run[r] \in RunEnded \cup {"new"}
  BY <1>1 DEF OneRun
<1> QED BY <1>2 DEF RunEnded, Tcp!Listening

\* One server moves to another place.
LEMMA RunMoves ==
  ASSUME TcpTypes, OneRun, NEW s \in Tcp!Servers, run[s] \notin RunEnded, NEW to \in RunPlaces \ {"new"},
         run[s] = "new" => \A r \in 1 .. s - 1 : run[r] \in RunEnded,
         run' = [run EXCEPT ![s] = to]
  PROVE  /\ run' \in [Tcp!Servers -> RunPlaces] /\ run'[s] = to /\ OneRun'
         /\ \A r \in Tcp!Servers \ {s} : run'[r] = run[r] /\ Tcp!Listening(r)' = Tcp!Listening(r)
<1>1. run' \in [Tcp!Servers -> RunPlaces] /\ run'[s] = to /\ \A r \in Tcp!Servers \ {s} : run'[r] = run[r]
  BY DEF TcpTypes
<1>2. \A r \in Tcp!Servers : r < s => run[r] \in RunEnded
  <2>1. CASE run[s] = "new"
    BY <2>1, TcpConstants
  <2>2. CASE run[s] # "new"
    BY <2>2 DEF OneRun
  <2> QED BY <2>1, <2>2
<1>3. OneRun'
  <2> SUFFICES ASSUME NEW q \in Tcp!Servers, NEW r \in Tcp!Servers, q < r, run'[q] \notin RunEnded
               PROVE  run'[r] = "new"
    BY DEF OneRun
  <2>1. r # s
    BY <1>1, <1>2, TcpConstants
  <2>2. run[q] \notin RunEnded
    BY <1>1
  <2> QED BY <1>1, <2>1, <2>2 DEF OneRun
<1>4. \A r \in Tcp!Servers \ {s} : Tcp!Listening(r)' = Tcp!Listening(r)
  BY <1>1 DEF Tcp!Listening
<1> QED BY <1>1, <1>3, <1>4

\* Every step keeps it: a server starts,
LEMMA ServerBegins == ASSUME TcpInv, NEW s \in Tcp!Servers, Tcp!Start(s) PROVE TcpInv'
<1>0. TcpTypes /\ OneRun /\ OneGuest /\ InQueue /\ Heard /\ Missed
  BY DEF TcpInv
<1>1. /\ run[s] = "new" /\ run' = [run EXCEPT ![s] = "bind"]
      /\ \A r \in 1 .. s - 1 : run[r] \in RunEnded
      /\ UNCHANGED <<local, active, waiting, caller, up, down, shown, linger>>
  BY DEF Tcp!Start, Tcp!Moves, RunEnded
<1>2. /\ run' \in [Tcp!Servers -> RunPlaces] /\ run'[s] = "bind" /\ OneRun'
      /\ \A r \in Tcp!Servers \ {s} : run'[r] = run[r] /\ Tcp!Listening(r)' = Tcp!Listening(r)
  <2>1. run[s] \notin RunEnded /\ "bind" \in RunPlaces \ {"new"}
    BY <1>1 DEF RunEnded, RunPlaces
  <2> QED BY <1>0, <1>1, <2>1, RunMoves
<1>3. TcpTypes'
  BY <1>0, <1>1, <1>2 DEF TcpTypes
<1>5. OneGuest'
  BY <1>0, <1>1, <1>2 DEF OneGuest
<1>6. \A r \in Tcp!Servers : Tcp!Listening(r)' <=> Tcp!Listening(r)
  BY <1>1, <1>2 DEF Tcp!Listening
<1>7. InQueue'
  BY <1>0, <1>1, <1>6 DEF InQueue
<1>8. Heard'
  BY <1>0, <1>1, <1>2, <1>6 DEF Heard
<1>9. Missed'
  BY <1>0, <1>1, <1>2 DEF Missed
<1> QED BY <1>2, <1>3, <1>5, <1>7, <1>8, <1>9 DEF TcpInv

\* binds and listens,
LEMMA ServerBinds == ASSUME TcpInv, NEW s \in Tcp!Servers, Tcp!Bind(s) PROVE TcpInv'
<1>0. TcpTypes /\ OneRun /\ OneGuest /\ InQueue /\ Heard /\ Missed
  BY DEF TcpInv
<1> DEFINE to == IF linger THEN "failed" ELSE "accept"
<1>1. /\ run[s] = "bind" /\ UNCHANGED <<local, active, waiting, caller, up, down, shown, linger>>
      /\ run' = [run EXCEPT ![s] = to]
  BY DEF Tcp!Bind, Tcp!Moves
<1>2. /\ run' \in [Tcp!Servers -> RunPlaces] /\ run'[s] = to /\ OneRun' /\ to \in {"accept", "failed"}
      /\ \A r \in Tcp!Servers \ {s} : run'[r] = run[r] /\ Tcp!Listening(r)' = Tcp!Listening(r)
  <2>1. run[s] \notin RunEnded /\ run[s] # "new" /\ to \in RunPlaces \ {"new"} /\ to \in {"accept", "failed"}
    BY <1>1 DEF RunEnded, RunPlaces
  <2> HIDE DEF to
  <2> QED BY <1>0, <1>1, <2>1, RunMoves
<1> HIDE DEF to
<1>3. TcpTypes'
  BY <1>0, <1>1, <1>2 DEF TcpTypes
<1>5. OneGuest'
  BY <1>0, <1>1, <1>2 DEF OneGuest
<1>6. ~Tcp!Listening(s) /\ \A v \in Visitors : caller[v].to # s
  BY <1>0, <1>1 DEF Heard, Tcp!Listening
<1>7. InQueue'
  BY <1>0, <1>1, <1>2, <1>6 DEF InQueue
<1>8. Heard'
  BY <1>0, <1>1, <1>2, <1>6 DEF Heard
<1>9. Missed'
  BY <1>0, <1>1, <1>2 DEF Missed
<1> QED BY <1>2, <1>3, <1>5, <1>7, <1>8, <1>9 DEF TcpInv

\* accepts the first client of the queue,
LEMMA ServerAccepts == ASSUME TcpInv, NEW s \in Tcp!Servers, Tcp!Accept(s) PROVE TcpInv'
<1>0. TcpTypes /\ OneRun /\ OneGuest /\ InQueue /\ Heard /\ Missed
  BY DEF TcpInv
<1> DEFINE guest == Head(waiting)
<1>1. /\ run[s] = "accept" /\ UNCHANGED <<local, caller, up, down, shown, linger>> /\ waiting # <<>>
      /\ run' = [run EXCEPT ![s] = "recv"] /\ waiting' = Tail(waiting)
      /\ active' = [active EXCEPT ![s] = {guest}]
  BY DEF Tcp!Accept, Tcp!Moves
<1>2. /\ run' \in [Tcp!Servers -> RunPlaces] /\ run'[s] = "recv" /\ OneRun'
      /\ \A r \in Tcp!Servers \ {s} : run'[r] = run[r] /\ Tcp!Listening(r)' = Tcp!Listening(r)
  <2>1. run[s] \notin RunEnded /\ run[s] # "new" /\ "recv" \in RunPlaces \ {"new"}
    BY <1>1 DEF RunEnded, RunPlaces
  <2> QED BY <1>0, <1>1, <2>1, RunMoves
<1>3. guest \in Visitors /\ waiting' \in Seq(Visitors) /\ \A k \in DOMAIN waiting' : waiting'[k] = waiting[k + 1] /\ k + 1 \in DOMAIN waiting
  <2>1. waiting \in Seq(Visitors) /\ Len(waiting) \in Nat /\ Len(waiting) # 0 /\ guest = waiting[1]
    BY <1>0, <1>1 DEF TcpTypes
  <2> HIDE DEF guest
  <2> QED BY <1>1, <2>1
<1>4. caller[guest].to = s
  <2>1. 1 \in DOMAIN waiting /\ guest = waiting[1]
    BY <1>0, <1>1 DEF TcpTypes
  <2>2. Tcp!Listening(caller[guest].to) /\ caller[guest].to \in Tcp!Servers
    BY <1>0, <2>1 DEF InQueue
  <2>3. run[s] \notin RunEnded /\ run[s] # "new"
    BY <1>1 DEF RunEnded
  <2> QED BY <1>0, <2>2, <2>3, Alone
<1> HIDE DEF guest
<1>5. /\ active' \in [Tcp!Servers -> SUBSET Visitors] /\ active'[s] = {guest}
      /\ \A r \in Tcp!Servers \ {s} : active'[r] = active[r]
  BY <1>0, <1>1, <1>3 DEF TcpTypes
<1>6. TcpTypes'
  BY <1>0, <1>1, <1>2, <1>3, <1>5 DEF TcpTypes
<1>7. OneGuest'
  <2>1. shown[s] = {} /\ shown' = shown /\ caller' = caller
    BY <1>0, <1>1 DEF OneGuest
  <2>2. ASSUME NEW r \in Tcp!Servers \ {s}
        PROVE /\ run'[r] \in {"new", "bind", "accept"} => active'[r] = {}
              /\ active'[r] = {} \/ \E v \in Visitors : active'[r] = {v}
              /\ run'[r] \in {"recv", "send", "close", "over"} => active'[r] # {}
              /\ run'[r] = "recv" => shown'[r] = {}
              /\ shown'[r] \subseteq active'[r]
              /\ \A v \in active'[r] : caller'[v].to = r
    BY <1>0, <1>2, <1>5, <2>1 DEF OneGuest
  <2>3. /\ run'[s] = "recv" /\ \E v \in Visitors : active'[s] = {v}
        /\ active'[s] # {} /\ shown'[s] = {} /\ \A v \in active'[s] : caller'[v].to = s
    BY <1>2, <1>3, <1>4, <1>5, <2>1
  <2> QED BY <2>2, <2>3 DEF OneGuest
<1>8. \A r \in Tcp!Servers : Tcp!Listening(r)' <=> Tcp!Listening(r)
  BY <1>1, <1>2 DEF Tcp!Listening
<1>9. InQueue'
  BY <1>0, <1>1, <1>3, <1>8 DEF InQueue
<1>10. Heard'
  BY <1>0, <1>1, <1>2, <1>8 DEF Heard
<1>11. Missed'
  BY <1>0, <1>1, <1>2, <1>5 DEF Missed
<1> QED BY <1>2, <1>6, <1>7, <1>9, <1>10, <1>11 DEF TcpInv

\* receives the greeting,
LEMMA ServerReceives == ASSUME TcpInv, NEW s \in Tcp!Servers, Tcp!Recv(s) PROVE TcpInv'
<1>0. TcpTypes /\ OneRun /\ OneGuest /\ InQueue /\ Heard /\ Missed
  BY DEF TcpInv
<1>1. /\ run[s] = "recv" /\ UNCHANGED <<local, active, waiting, caller, down, linger>>
      /\ run' = [run EXCEPT ![s] = "send"] /\ up' = up \ active[s]
      /\ active[s] \subseteq up \/ \A v \in active[s] : ~Tcp!Live(v)
      /\ shown' = [shown EXCEPT ![s] = active[s] \cap up]
  BY DEF Tcp!Recv, Tcp!Moves
<1>2. /\ run' \in [Tcp!Servers -> RunPlaces] /\ run'[s] = "send" /\ OneRun'
      /\ \A r \in Tcp!Servers \ {s} : run'[r] = run[r] /\ Tcp!Listening(r)' = Tcp!Listening(r)
  <2>1. run[s] \notin RunEnded /\ run[s] # "new" /\ "send" \in RunPlaces \ {"new"}
    BY <1>1 DEF RunEnded, RunPlaces
  <2> QED BY <1>0, <1>1, <2>1, RunMoves
<1>3. /\ shown' \in [Tcp!Servers -> SUBSET Visitors] /\ shown'[s] = active[s] \cap up
      /\ \A r \in Tcp!Servers \ {s} : shown'[r] = shown[r]
  <2>1. active[s] \cap up \in SUBSET Visitors
    BY <1>0 DEF TcpTypes
  <2> QED BY <1>0, <1>1, <2>1 DEF TcpTypes
<1>4. TcpTypes'
  BY <1>0, <1>1, <1>2, <1>3 DEF TcpTypes
<1>5. OneGuest'
  <2>1. ASSUME NEW r \in Tcp!Servers \ {s}
        PROVE /\ run'[r] \in {"new", "bind", "accept"} => active'[r] = {}
              /\ active'[r] = {} \/ \E v \in Visitors : active'[r] = {v}
              /\ run'[r] \in {"recv", "send", "close", "over"} => active'[r] # {}
              /\ run'[r] = "recv" => shown'[r] = {}
              /\ shown'[r] \subseteq active'[r]
              /\ \A v \in active'[r] : caller'[v].to = r
    BY <1>0, <1>1, <1>2, <1>3 DEF OneGuest
  <2>2. /\ run'[s] = "send" /\ \E v \in Visitors : active'[s] = {v}
        /\ active'[s] # {} /\ shown'[s] \subseteq active'[s] /\ \A v \in active'[s] : caller'[v].to = s
    BY <1>0, <1>1, <1>2, <1>3 DEF OneGuest
  <2> QED BY <2>1, <2>2 DEF OneGuest
<1>6. \A r \in Tcp!Servers : Tcp!Listening(r)' <=> Tcp!Listening(r)
  BY <1>1, <1>2 DEF Tcp!Listening
<1>7. InQueue'
  BY <1>0, <1>1, <1>6 DEF InQueue
<1>8. Heard'
  <2>1. \A v \in Visitors : (\E r \in Tcp!Servers : v \in shown[r]) => \E r \in Tcp!Servers : v \in shown'[r]
    <3>1. shown[s] = {}
      BY <1>0, <1>1 DEF OneGuest
    <3> QED BY <1>3, <3>1
  <2> QED BY <1>0, <1>1, <1>2, <1>6, <2>1 DEF Heard
<1>9. Missed'
  <2>1. ASSUME shown'[s] = {}, NEW v \in active[s] PROVE caller[v].at = "killed"
    <3>1. active[s] = {v} /\ v \in Visitors /\ shown[s] = {} /\ caller[v].to = s
      BY <1>0, <1>1, <2>1 DEF OneGuest, TcpTypes
    <3>2. ~Tcp!Live(v)
      BY <1>1, <1>3, <2>1, <3>1
    <3>3. caller[v].at \in {"heard", "killed"}
      BY <1>0, <1>1, <3>1, <3>2 DEF Heard, Tcp!Listening, Tcp!Live
    <3>4. caller[v].at # "heard"
      BY <1>0, <3>1 DEF Heard, OneGuest
    <3> QED BY <3>3, <3>4
  <2> QED BY <1>0, <1>1, <1>2, <1>3, <2>1 DEF Missed
<1> QED BY <1>2, <1>4, <1>5, <1>7, <1>8, <1>9 DEF TcpInv

\* ends,
LEMMA ServerStops ==
  ASSUME TcpInv, NEW s \in Tcp!Servers, run[s] \notin RunEnded, run[s] # "new", NEW to \in RunEnded,
         run' = [run EXCEPT ![s] = to], to = "over" => run[s] = "close",
         waiting' = <<>>, UNCHANGED <<local, active, caller, up, down, shown>>,
         linger' \in BOOLEAN, linger' => ~local
  PROVE  TcpInv'
<1>0. TcpTypes /\ OneRun /\ OneGuest /\ InQueue /\ Heard /\ Missed
  BY DEF TcpInv
<1>2. /\ run' \in [Tcp!Servers -> RunPlaces] /\ run'[s] = to /\ OneRun'
      /\ \A r \in Tcp!Servers \ {s} : run'[r] = run[r] /\ Tcp!Listening(r)' = Tcp!Listening(r)
  <2>1. to \in RunPlaces \ {"new"}
    BY DEF RunEnded, RunPlaces
  <2> QED BY <1>0, <2>1, RunMoves
<1>3. to \in {"over", "failed", "killed"} /\ (to = "over" => run[s] = "close")
  BY DEF RunEnded
<1>4. TcpTypes'
  BY <1>0, <1>2 DEF TcpTypes
<1>5. OneGuest'
  BY <1>0, <1>2, <1>3 DEF OneGuest
<1>6. InQueue'
  BY DEF InQueue
<1>7. \A r \in Tcp!Servers : Tcp!Listening(r)' => Tcp!Listening(r)
  BY <1>2, <1>3 DEF Tcp!Listening
<1>8. Heard'
  <2>1. \A r \in Tcp!Servers : run'[r] \in {"new", "bind"} => run[r] \in {"new", "bind"}
    BY <1>2, <1>3
  <2> QED BY <1>0, <1>7, <2>1 DEF Heard
<1>9. Missed'
  BY <1>0, <1>2, <1>3 DEF Missed
<1> QED BY <1>2, <1>4, <1>5, <1>6, <1>8, <1>9 DEF TcpInv

\* answers,
LEMMA ServerSends == ASSUME TcpInv, NEW s \in Tcp!Servers, Tcp!Send(s) PROVE TcpInv'
<1>0. TcpTypes /\ OneRun /\ OneGuest /\ InQueue /\ Heard /\ Missed
  BY DEF TcpInv
<1> DEFINE there == {v \in active[s] : Tcp!Live(v)}
<1>1. CASE local /\ there = {}
  <2>1. /\ run[s] = "send" /\ run' = [run EXCEPT ![s] = "killed"] /\ waiting' = <<>>
        /\ linger' = (linger \/ FALSE) /\ UNCHANGED <<local, active, caller, up, down, shown>>
    BY <1>1 DEF Tcp!Send, Tcp!Moves, Tcp!Shut
  <2>2. linger' \in BOOLEAN /\ (linger' => ~local)
    BY <1>0, <2>1 DEF TcpTypes
  <2>3. run[s] \notin RunEnded /\ run[s] # "new" /\ "killed" \in RunEnded
    BY <2>1 DEF RunEnded
  <2> HIDE DEF there
  <2> QED BY <2>1, <2>2, <2>3, ServerStops
<1>2. CASE ~(local /\ there = {})
  <2>1. /\ run[s] = "send" /\ run' = [run EXCEPT ![s] = "close"] /\ down' = down \cup there
        /\ UNCHANGED <<local, active, waiting, caller, up, shown, linger>>
    BY <1>2 DEF Tcp!Send, Tcp!Moves
  <2>2. /\ run' \in [Tcp!Servers -> RunPlaces] /\ run'[s] = "close" /\ OneRun'
        /\ \A r \in Tcp!Servers \ {s} : run'[r] = run[r] /\ Tcp!Listening(r)' = Tcp!Listening(r)
    <3>1. run[s] \notin RunEnded /\ run[s] # "new" /\ "close" \in RunPlaces \ {"new"}
      BY <2>1 DEF RunEnded, RunPlaces
    <3> QED BY <1>0, <2>1, <3>1, RunMoves
  <2>3. there \subseteq Visitors /\ \A v \in there : v \in shown[s]
    <3> SUFFICES ASSUME NEW v \in there PROVE v \in Visitors /\ v \in shown[s]
      OBVIOUS
    <3>1. v \in active[s] /\ v \in Visitors /\ caller[v].at # "killed"
      BY <1>0 DEF TcpTypes, Tcp!Live
    <3>2. shown[s] # {}
      BY <1>0, <2>1, <3>1 DEF Missed
    <3> QED BY <1>0, <3>1, <3>2 DEF OneGuest
  <2> HIDE DEF there
  <2>4. TcpTypes'
    BY <1>0, <2>1, <2>2, <2>3 DEF TcpTypes
  <2>5. OneGuest'
    BY <1>0, <2>1, <2>2 DEF OneGuest
  <2>6. \A r \in Tcp!Servers : Tcp!Listening(r)' <=> Tcp!Listening(r)
    BY <2>1, <2>2 DEF Tcp!Listening
  <2>7. InQueue'
    BY <1>0, <2>1, <2>6 DEF InQueue
  <2>8. Heard'
    <3>1. \A v \in Visitors : v \in down' => v \in down \/ v \in shown[s]
      BY <2>1, <2>3
    <3> QED BY <1>0, <2>1, <2>2, <2>6, <3>1 DEF Heard
  <2>9. Missed'
    BY <1>0, <2>1, <2>2 DEF Missed
  <2> QED BY <2>2, <2>4, <2>5, <2>7, <2>8, <2>9 DEF TcpInv
<1> QED BY <1>1, <1>2

\* closes its sockets, or is killed;
LEMMA ServerCloses == ASSUME TcpInv, NEW s \in Tcp!Servers, Tcp!Close(s) \/ Tcp!Kill(s) PROVE TcpInv'
<1> DEFINE holds == ~local /\ \E v \in active[s] : Tcp!Live(v)
<1>1. PICK to \in RunEnded : /\ run[s] \notin RunEnded /\ run[s] # "new"
                             /\ run' = [run EXCEPT ![s] = to] /\ (to = "over" => run[s] = "close")
  BY DEF Tcp!Close, Tcp!Kill, Tcp!Moves, RunEnded
<1>2. waiting' = <<>> /\ linger' = (linger \/ holds) /\ UNCHANGED <<local, active, caller, up, down, shown>>
  BY DEF Tcp!Close, Tcp!Kill, Tcp!Shut
<1>3. holds => ~local
  OBVIOUS
<1>4. holds \in BOOLEAN
  OBVIOUS
<1> HIDE DEF holds
<1>5. linger' \in BOOLEAN /\ (linger' => ~local)
  BY <1>2, <1>3, <1>4 DEF TcpInv, TcpTypes
<1> QED BY <1>1, <1>2, <1>5, ServerStops

\* the port leaves TIME_WAIT;
LEMMA PortFree == ASSUME TcpInv, Tcp!Timeout PROVE TcpInv'
<1>1. TcpTypes /\ OneRun /\ OneGuest /\ InQueue /\ Heard /\ Missed
  BY DEF TcpInv
<1>2. linger' = FALSE /\ UNCHANGED <<local, run, active, waiting, caller, up, down, shown>>
  BY DEF Tcp!Timeout
<1> QED BY <1>1, <1>2 DEF TcpInv, TcpTypes, OneRun, OneGuest, InQueue, Heard, Missed, Tcp!Listening

\* a client goes on without a change of what it is connected to;
LEMMA CallerMoves ==
  ASSUME TcpInv, NEW v \in Visitors, NEW to \in CallerPlaces \ {"new"},
         caller' = [caller EXCEPT ![v].at = to], caller[v].at \in {"new", "send", "recv"},
         UNCHANGED <<local, run, active, waiting, shown, linger>>,
         up' \subseteq Visitors, down' \subseteq down,
         to = "heard" => v \in down,
         caller[v].to \in Tcp!Servers /\ Tcp!Listening(caller[v].to) => to \in {"send", "recv", "heard", "killed"}
  PROVE  TcpInv'
<1>0. TcpTypes /\ OneRun /\ OneGuest /\ InQueue /\ Heard /\ Missed
  BY DEF TcpInv
<1>1. /\ caller' \in [Visitors -> [at : CallerPlaces, to : Tcp!Servers \cup {Tcp!NoRun}]]
      /\ caller'[v].at = to /\ \A w \in Visitors : caller'[w].to = caller[w].to
      /\ \A w \in Visitors \ {v} : caller'[w] = caller[w]
  BY <1>0 DEF TcpTypes
<1>2. \A s \in Tcp!Servers : Tcp!Listening(s)' <=> Tcp!Listening(s)
  BY DEF Tcp!Listening
<1>3. TcpTypes'
  BY <1>0, <1>1 DEF TcpTypes
<1>4. OneGuest'
  BY <1>0, <1>1 DEF OneGuest, TcpTypes
<1>5. InQueue'
  <2> SUFFICES ASSUME NEW k \in DOMAIN waiting
               PROVE  Tcp!Listening(caller[waiting[k]].to)' /\ caller'[waiting[k]].to \in Tcp!Servers
    BY DEF InQueue
  <2>1. waiting[k] \in Visitors /\ Tcp!Listening(caller[waiting[k]].to) /\ caller[waiting[k]].to \in Tcp!Servers
    BY <1>0 DEF InQueue, TcpTypes
  <2> QED BY <1>1, <1>2, <2>1
<1>6. Heard'
  <2> SUFFICES ASSUME NEW w \in Visitors
               PROVE /\ w \in down' \/ caller'[w].at = "heard" => \E r \in Tcp!Servers : w \in shown[r]
                     /\ caller'[w].at = "new" => caller'[w].to = Tcp!NoRun
                     /\ caller'[w].to \in Tcp!Servers => run[caller'[w].to] \notin {"new", "bind"}
                     /\ caller'[w].to \in Tcp!Servers /\ Tcp!Listening(caller[w].to)'
                        => caller'[w].at \in {"send", "recv", "heard", "killed"}
    BY DEF Heard
  <2>1. CASE w = v
    <3>1. caller'[w].at = to /\ caller'[w].to = caller[w].to
      BY <1>1, <2>1
    <3> QED BY <1>0, <1>2, <2>1, <3>1 DEF Heard
  <2>2. CASE w # v
    BY <1>0, <1>1, <1>2, <2>2 DEF Heard
  <2> QED BY <2>1, <2>2
<1>7. Missed'
  <2>1. \A w \in Visitors : caller[w].at = "killed" => caller'[w].at = "killed"
    BY <1>1
  <2> QED BY <1>0, <2>1 DEF Missed, TcpTypes
<1>8. OneRun'
  BY <1>0 DEF OneRun
<1> QED BY <1>3, <1>4, <1>5, <1>6, <1>7, <1>8 DEF TcpInv

\* a client connects, or is refused,
LEMMA CallerConnects == ASSUME TcpInv, NEW v \in Visitors, Tcp!Connect(v) PROVE TcpInv'
<1>0. TcpTypes /\ OneRun /\ OneGuest /\ InQueue /\ Heard /\ Missed
  BY DEF TcpInv
<1>1. caller[v].at = "new" /\ UNCHANGED <<local, run, active, up, down, shown, linger>>
  BY DEF Tcp!Connect
<1>2. /\ \A r \in Tcp!Servers : v \notin active[r] /\ v \notin shown[r]
      /\ v \notin down /\ \A k \in DOMAIN waiting : waiting[k] # v
      /\ caller[v].to = Tcp!NoRun
  <2>1. caller[v].to = Tcp!NoRun
    BY <1>0, <1>1 DEF Heard
  <2>2. \A r \in Tcp!Servers : v \notin active[r]
    BY <1>0, <2>1, TcpConstants DEF OneGuest
  <2>3. \A r \in Tcp!Servers : v \notin shown[r]
    BY <1>0, <2>2 DEF OneGuest
  <2>4. v \notin down
    BY <1>0, <2>3 DEF Heard
  <2>5. \A k \in DOMAIN waiting : waiting[k] # v
    BY <1>0, <2>1, TcpConstants DEF InQueue
  <2> QED BY <2>1, <2>2, <2>3, <2>4, <2>5
<1>3. \A s \in Tcp!Servers : Tcp!Listening(s)' <=> Tcp!Listening(s)
  BY <1>1 DEF Tcp!Listening
<1>4. CASE \E s \in Tcp!Servers : /\ Tcp!Listening(s) /\ waiting' = Append(waiting, v)
                                  /\ caller' = [caller EXCEPT ![v] = [at |-> "send", to |-> s]]
  <2>1. PICK s \in Tcp!Servers : /\ Tcp!Listening(s) /\ waiting' = Append(waiting, v)
                                 /\ caller' = [caller EXCEPT ![v] = [at |-> "send", to |-> s]]
    BY <1>4
  <2>2. /\ caller' \in [Visitors -> [at : CallerPlaces, to : Tcp!Servers \cup {Tcp!NoRun}]]
        /\ caller'[v].at = "send" /\ caller'[v].to = s /\ \A w \in Visitors \ {v} : caller'[w] = caller[w]
    <3> DEFINE r == [at |-> "send", to |-> s]
    <3>1. r \in [at : CallerPlaces, to : Tcp!Servers \cup {Tcp!NoRun}] /\ r.at = "send" /\ r.to = s
      BY DEF CallerPlaces
    <3>2. caller' = [caller EXCEPT ![v] = r]
      BY <2>1
    <3> HIDE DEF r
    <3> QED BY <1>0, <3>1, <3>2 DEF TcpTypes
  <2>3. /\ waiting' \in Seq(Visitors)
        /\ \A k \in DOMAIN waiting' : waiting'[k] = v \/ (k \in DOMAIN waiting /\ waiting'[k] = waiting[k])
    <3>1. waiting \in Seq(Visitors)
      BY <1>0 DEF TcpTypes
    <3> QED BY <2>1, <3>1
  <2>4. TcpTypes'
    BY <1>0, <1>1, <2>2, <2>3 DEF TcpTypes
  <2>5. OneGuest'
    BY <1>0, <1>1, <1>2, <2>2 DEF OneGuest, TcpTypes
  <2>6. InQueue'
    <3> SUFFICES ASSUME NEW k \in DOMAIN waiting'
                 PROVE Tcp!Listening(caller[waiting[k]].to)' /\ caller'[waiting'[k]].to \in Tcp!Servers
      BY DEF InQueue
    <3>1. CASE waiting'[k] = v
      BY <1>3, <2>1, <2>2, <3>1
    <3>2. CASE waiting'[k] # v
      <4>1. k \in DOMAIN waiting /\ waiting'[k] = waiting[k] /\ waiting[k] \in Visitors \ {v}
        BY <1>0, <2>3, <3>2 DEF TcpTypes
      <4>2. Tcp!Listening(caller[waiting[k]].to) /\ caller[waiting[k]].to \in Tcp!Servers
        BY <1>0, <4>1 DEF InQueue
      <4>3. caller'[waiting'[k]].to = caller[waiting[k]].to
        BY <2>2, <4>1
      <4> QED BY <1>3, <4>2, <4>3
    <3> QED BY <3>1, <3>2
  <2>7. Heard'
    <3> SUFFICES ASSUME NEW w \in Visitors
                 PROVE /\ w \in down' \/ caller'[w].at = "heard" => \E r \in Tcp!Servers : w \in shown'[r]
                       /\ caller'[w].at = "new" => caller'[w].to = Tcp!NoRun
                       /\ caller'[w].to \in Tcp!Servers => run'[caller'[w].to] \notin {"new", "bind"}
                       /\ caller'[w].to \in Tcp!Servers /\ Tcp!Listening(caller[w].to)' => caller'[w].at \in {"send", "recv", "heard", "killed"}
      BY DEF Heard
    <3>1. CASE w = v
      <4>1. run'[s] \notin {"new", "bind"} /\ s # Tcp!NoRun
        BY <1>1, <2>1, TcpConstants DEF Tcp!Listening
      <4> QED BY <1>1, <1>2, <2>2, <3>1, <4>1
    <3>2. CASE w # v
      BY <1>0, <1>1, <1>3, <2>2, <3>2 DEF Heard
    <3> QED BY <3>1, <3>2
  <2>8. Missed'
    BY <1>0, <1>1, <1>2, <2>2 DEF Missed, TcpTypes
  <2>9. OneRun'
    BY <1>0, <1>1 DEF OneRun
  <2> QED BY <2>4, <2>5, <2>6, <2>7, <2>8, <2>9 DEF TcpInv
<1>5. CASE caller' = [caller EXCEPT ![v].at = "failed"] /\ UNCHANGED waiting
  <2>1. "failed" \in CallerPlaces \ {"new"}
    BY DEF CallerPlaces
  <2> QED BY <1>1, <1>2, <1>0, <1>5, <2>1, CallerMoves, TcpConstants DEF TcpTypes
<1> QED BY <1>4, <1>5 DEF Tcp!Connect, Tcp!Goes

\* sends, hears the answer, and leaves.
LEMMA CallerTalks == ASSUME TcpInv, NEW v \in Visitors, Tcp!Say(v) \/ Tcp!Hear(v) \/ Tcp!Leave(v) PROVE TcpInv'
<1>0. up \subseteq Visitors /\ down \subseteq Visitors
  BY DEF TcpInv, TcpTypes
<1>1. UNCHANGED <<local, run, active, waiting, shown, linger>> /\ up' \subseteq Visitors /\ down' \subseteq down
  BY <1>0 DEF Tcp!Say, Tcp!Hear, Tcp!Leave
<1>2. PICK to \in CallerPlaces \ {"new"} :
        /\ caller' = [caller EXCEPT ![v].at = to] /\ caller[v].at \in {"new", "send", "recv"}
        /\ to = "heard" => v \in down
        /\ Tcp!Listening(caller[v].to) => to \in {"send", "recv", "heard", "killed"}
  <2>1. CASE Tcp!Say(v)
    BY <2>1 DEF Tcp!Say, Tcp!Goes, CallerPlaces
  <2>2. CASE Tcp!Hear(v)
    BY <2>2 DEF Tcp!Hear, Tcp!Goes, CallerPlaces
  <2>3. CASE Tcp!Leave(v)
    BY <2>3 DEF Tcp!Leave, Tcp!Live, CallerPlaces
  <2> QED BY <2>1, <2>2, <2>3
<1> QED BY <1>1, <1>2, CallerMoves

\* Every step of the TCP exchange keeps the invariant.
LEMMA TcpKept == TcpInv /\ [Tcp!Next]_tcpVars => TcpInv'
<1>1. ASSUME TcpInv, Tcp!Next PROVE TcpInv'
  <2>1. CASE \E s \in Tcp!Servers : Tcp!Start(s) \/ Tcp!ServerStep(s) \/ Tcp!Kill(s)
    BY <1>1, <2>1, ServerBegins, ServerBinds, ServerAccepts, ServerReceives, ServerSends, ServerCloses
       DEF Tcp!ServerStep
  <2>2. CASE \E v \in Visitors : Tcp!Connect(v) \/ Tcp!ClientStep(v) \/ Tcp!Leave(v)
    BY <1>1, <2>2, CallerConnects, CallerTalks DEF Tcp!ClientStep
  <2> QED BY <1>1, <2>1, <2>2, PortFree DEF Tcp!Next
<1>2. ASSUME TcpInv, UNCHANGED tcpVars PROVE TcpInv'
  BY <1>2 DEF tcpVars, TcpInv, TcpTypes, OneRun, OneGuest, InQueue, Heard, Missed, Tcp!Listening
<1> QED BY <1>1, <1>2

\* What the runs check of the TCP exchange follows from it.
LEMMA TcpSafe == TcpInv => Tcp!TypeOK /\ Tcp!HelloForHi
<1> SUFFICES ASSUME TcpInv PROVE Tcp!TypeOK /\ Tcp!HelloForHi
  OBVIOUS
<1>0. TcpTypes /\ OneRun /\ OneGuest /\ InQueue /\ Heard /\ Missed
  BY DEF TcpInv
<1>1. \A s \in Tcp!Servers : Tcp!Cardinality(active[s]) <= 1
  <2> SUFFICES ASSUME NEW s \in Tcp!Servers PROVE Tcp!Cardinality(active[s]) <= 1
    OBVIOUS
  <2>1. Tcp!Cardinality(active[s]) = Cardinality(active[s])
    BY DEF Cardinality, Tcp!Cardinality
  <2>2. Cardinality(active[s]) \in {0, 1}
    BY <1>0, FS_EmptySet, FS_Singleton DEF OneGuest
  <2> QED BY <2>1, <2>2
<1>2. Tcp!TypeOK
  <2>1. \A v \in Visitors : caller[v].at \in CallerPlaces /\ caller[v].to \in Tcp!Servers \cup {Tcp!NoRun}
    BY <1>0 DEF TcpTypes
  <2>2. \A k \in DOMAIN waiting : waiting[k] \in Visitors /\ Tcp!Listening(caller[waiting[k]].to)
    BY <1>0 DEF InQueue, TcpTypes
  <2> QED BY <1>0, <1>1, <2>1, <2>2 DEF TcpTypes, CallerPlaces, RunPlaces, Tcp!TypeOK
<1>3. Tcp!HelloForHi
  <2>1. ASSUME NEW v \in Visitors, caller[v].at = "heard" PROVE shown[caller[v].to] = {v}
    <3>1. PICK s \in Tcp!Servers : v \in shown[s]
      BY <1>0, <2>1 DEF Heard
    <3>2. active[s] = {v} /\ shown[s] = {v} /\ caller[v].to = s
      BY <1>0, <3>1 DEF OneGuest
    <3> QED BY <3>2
  <2>2. ASSUME NEW s \in Tcp!Servers, run[s] = "over", shown[s] = {} PROVE \A v \in active[s] : caller[v].at = "killed"
    BY <1>0, <2>2 DEF Missed
  <2> QED BY <2>1, <2>2 DEF Tcp!HelloForHi
<1> QED BY <1>2, <1>3

(***************************************************************************)
(* The datagram exchanges of "16-sockets".                                 *)
(***************************************************************************)
\* The places of a process, the records that say where it is, and the datagrams.
AgentPlaces  == {"new", "run", "done", "failed", "killed"}
AgentRecords == [at : AgentPlaces, k : 1 .. 6]
GramPlaces   == {"server", "client", "none"} \cup Visitors
GramRecords  == [by : Gram!Programs \cup {0}, from : GramPlaces, for : GramPlaces, to : Gram!Programs \cup {0}]

\* Where in its script a process binds, sends, answers and closes its socket, and how long
\* the script is.
Binds       == IF pair = "local" THEN 2 ELSE 1
Sends       == IF pair = "local" THEN 3 ELSE IF pair = "inet" THEN 2 ELSE 1
Answers     == IF pair = "local" THEN 4 ELSE 3
GramShuts(p) == IF p \in Gram!Servers THEN IF pair = "multi" THEN 3 ELSE Answers + 1 ELSE Sends + 2
GramLong(p)  == IF pair = "local" THEN 6 ELSE GramShuts(p)

\* The pairs whose client has an address that another client can take.
AtPaths     == pair \in {"inet", "local"}

\* What is in a queue, and that nobody has more than one message in it.
Mail(q)     == {q[j] : j \in DOMAIN q}
OneEach(q)  == \A j, l \in DOMAIN q : q[j].by = q[l].by => j = l

\* The type invariant of the datagrams, as function sets.
GramTypes ==
  /\ pair \in Gram!Kinds /\ socks \subseteq Gram!Programs /\ robbed \subseteq Gram!Programs
  /\ agent \in [Gram!Programs -> AgentRecords]
  /\ bound \in [{"server", "client"} -> Gram!Programs \cup {0}]
  /\ inbox \in [Gram!Programs -> Seq(GramRecords)]
  /\ got \in [Gram!Programs -> GramRecords]

\* The place and the socket of process p belong together, and only a socket has an inbox.
InPlace(p) ==
  /\ agent[p].k <= GramLong(p) /\ (agent[p].at = "new" => agent[p].k = 1)
  /\ p \in socks <=> agent[p].at = "run" /\ agent[p].k <= GramShuts(p)
  /\ p \notin socks => inbox[p] = <<>>

\* Who has bound an address has bound its own.
OwnAddress == \A a \in {"server", "client"} : bound[a] # 0 => Gram!Address(bound[a]) = a

\* A client that has bound has its address still, or was robbed of it.
Placed     == AtPaths => \A v \in Visitors : v \in socks /\ agent[v].k >= Sends => bound["client"] = v \/ v \in robbed

\* A request names its sender, a reply the client it is for; servers get requests only, and
\* clients only replies, or copies of requests on a raw socket.
Request(m) == m.by \in Visitors /\ m.for = "server" /\ m.from = Gram!Address(m.by)
Reply(m)   == m.by \in Gram!Servers /\ m.to \in Visitors /\ m.for = Gram!Address(m.to)
Formed ==
  /\ \A s \in Gram!Servers : /\ \A m \in Mail(inbox[s]) : Request(m)
                             /\ got[s] = Gram!None \/ Request(got[s])
                             /\ agent[s].k >= Answers => got[s] # Gram!None
  /\ \A v \in Visitors : /\ \A m \in Mail(inbox[v]) : Reply(m) \/ (pair = "raw" /\ Request(m))
                         /\ got[v] = Gram!None \/ Reply(got[v])

\* A client sends one request, to one server, after which it waits.
Asked(s, u) == got[s].by = u \/ \E m \in Mail(inbox[s]) : m.by = u
Sole ==
  /\ \A u \in Visitors, s \in Gram!Servers : Asked(s, u) => agent[u].k > Sends
  /\ \A u \in Visitors, s, t \in Gram!Servers : Asked(s, u) /\ Asked(t, u) => s = t
  /\ \A s \in Gram!Servers : OneEach(inbox[s]) /\ \A m \in Mail(inbox[s]) : m.by # got[s].by

\* A reply reaches its client, if any, after the request; a client that has heard is done.
Told(w, m)   == got[w] = m \/ m \in Mail(inbox[w])
InTime ==
  /\ \A w, u \in Visitors, m \in GramRecords : Told(w, m) /\ Reply(m) /\ m.to = u => agent[u].k > Sends
  /\ pair # "raw" => \A v \in Visitors : got[v] # Gram!None <=> agent[v].k > Sends + 1

\* As long as the request of client u is not answered no reply for it exists, and u still
\* has its address, was robbed of it, or has taken the answer of another one.
Awaits(s, u) == (\E m \in Mail(inbox[s]) : m.by = u) \/ (got[s].by = u /\ agent[s].at = "run" /\ agent[s].k = Answers)
Pending ==
  AtPaths => \A s \in Gram!Servers, u \in Visitors : Awaits(s, u) =>
    /\ \A w \in Visitors, m \in GramRecords : Told(w, m) => m.to # u
    /\ u \in robbed \/ got[u] # Gram!None \/ (bound["client"] = u /\ u \in socks)

\* A reply that somebody else got was for a client that was robbed, or misled by a robbery.
Delivered ==
  pair # "raw" => \A w \in Visitors, m \in GramRecords : Told(w, m) /\ Reply(m) =>
    m.to = w \/ (robbed # {} /\ (m.to \in robbed \/ Gram!Misled(m.to)))

\* The inductive invariant of the datagrams.
GramInv == /\ GramTypes /\ OwnAddress /\ Placed /\ Formed /\ Sole /\ InTime /\ Pending /\ Delivered
           /\ \A p \in Gram!Programs : InPlace(p)

\* What the assumption on the constants says of the processes.
LEMMA GramConstants ==
  /\ Runs \in Nat \ {0} /\ Gram!Servers = 1 .. Runs /\ Gram!Programs = Gram!Servers \cup Visitors
  /\ \A v \in Visitors : v \notin Gram!Servers /\ v # 0 /\ v # "server" /\ v # "client"
  /\ Gram!Nobody = 0 /\ 0 \notin Gram!Servers /\ \A s \in Gram!Servers : s \in Int /\ s \notin Visitors
  /\ Gram!None \in GramRecords /\ Gram!None.by = 0 /\ Gram!None.to = 0
  /\ Gram!Kinds = {"inet", "local", "multi", "raw"}
<1>1. /\ Runs \in Nat \ {0} /\ Gram!Servers = 1 .. Runs /\ Gram!Programs = Gram!Servers \cup Visitors
      /\ Visitors \cap (0 .. Runs) = {} /\ Visitors \cap {"server", "client"} = {}
  BY ExchangesAssumption DEF Gram!ConstantsOK, Gram!Servers, Gram!Programs
<1>2. Gram!None \in GramRecords /\ Gram!None.by = 0 /\ Gram!None.to = 0
  BY DEF GramRecords, GramPlaces, Gram!None, Gram!Nobody
<1> QED BY <1>1, <1>2 DEF Gram!Nobody, Gram!Kinds

\* What a queue holds after a message is appended,
LEMMA MailAppended ==
  ASSUME NEW M, NEW q \in Seq(M), NEW e \in M
  PROVE  /\ Append(q, e) \in Seq(M) /\ Mail(Append(q, e)) = Mail(q) \cup {e}
         /\ OneEach(q) /\ (\A m \in Mail(q) : m.by # e.by) => OneEach(Append(q, e))
<1>1. /\ Append(q, e) \in Seq(M)
      /\ DOMAIN Append(q, e) = DOMAIN q \cup {Len(q) + 1} /\ Len(q) + 1 \notin DOMAIN q
      /\ \A j \in DOMAIN q : Append(q, e)[j] = q[j]
      /\ Append(q, e)[Len(q) + 1] = e
  BY JoinedTo
<1> DEFINE a == Append(q, e)
<1> HIDE DEF a
<1>2. Mail(a) = Mail(q) \cup {e}
  BY <1>1 DEF Mail, a
<1>3. OneEach(q) /\ (\A m \in Mail(q) : m.by # e.by) => OneEach(a)
  BY <1>1 DEF Mail, OneEach, a
<1> QED BY <1>1, <1>2, <1>3 DEF a

\* and after its head is taken.
LEMMA MailTaken ==
  ASSUME NEW M, NEW q \in Seq(M), q # <<>>
  PROVE  /\ Head(q) \in M /\ Head(q) \in Mail(q) /\ Tail(q) \in Seq(M) /\ Mail(Tail(q)) \subseteq Mail(q)
         /\ OneEach(q) => OneEach(Tail(q)) /\ \A m \in Mail(Tail(q)) : m.by # Head(q).by
<1>1. /\ Head(q) = q[1] /\ 1 \in DOMAIN q /\ Head(q) \in M /\ Tail(q) \in Seq(M) /\ DOMAIN q = 1 .. Len(q)
      /\ DOMAIN Tail(q) = 1 .. Len(q) - 1 /\ \A j \in 1 .. Len(q) - 1 : Tail(q)[j] = q[j + 1]
  BY HeadTailProperties, LenProperties
<1> DEFINE t == Tail(q)  n == Len(q)
<1>2. n \in Nat
  BY LenProperties
<1> HIDE DEF t, n
<1>3. \A j \in DOMAIN t : j + 1 \in DOMAIN q /\ j + 1 # 1 /\ j \in Int /\ t[j] = q[j + 1]
  BY <1>1, <1>2 DEF t, n
<1>4. Mail(t) \subseteq Mail(q)
  BY <1>3 DEF Mail
<1>5. Head(q) \in Mail(q)
  BY <1>1 DEF Mail
<1>6. ASSUME OneEach(q) PROVE OneEach(t)
  <2>1. ASSUME NEW j \in DOMAIN t, NEW l \in DOMAIN t, t[j].by = t[l].by PROVE j = l
    <3>1. j + 1 = l + 1
      BY <1>3, <1>6, <2>1 DEF OneEach
    <3> QED BY <1>3, <3>1
  <2> QED BY <2>1 DEF OneEach
<1>7. ASSUME OneEach(q), NEW m \in Mail(t) PROVE m.by # Head(q).by
  <2>1. PICK j \in DOMAIN t : m = t[j]
    BY <1>7 DEF Mail
  <2>2. j + 1 \in DOMAIN q /\ j + 1 # 1 /\ m = q[j + 1]
    BY <1>3, <2>1
  <2> QED BY <1>1, <1>7, <2>2 DEF OneEach
<1> QED BY <1>1, <1>4, <1>5, <1>6, <1>7 DEF t

\* The empty queue.
LEMMA NoMail == Mail(<<>>) = {} /\ OneEach(<<>>) /\ \A M : <<>> \in Seq(M)
BY DEF Mail, OneEach

\* Which call a process is at, by its place in the script.
LEMMA GramCalls ==
  ASSUME NEW p \in Gram!Programs, GramTypes, InPlace(p)
  PROVE  LET k == agent[p].k  server == p \in Gram!Servers  runs == agent[p].at = "run" IN
         /\ Len(Gram!MyScript(p)) = GramLong(p)
         /\ Gram!Doing(p, "unlink") <=> runs /\ pair = "local" /\ k \in {1, 6}
         /\ Gram!Doing(p, "bind") <=> runs /\ (server \/ AtPaths) /\ k = Binds
         /\ Gram!Doing(p, "send") <=> runs /\ ~server /\ k = Sends
         /\ Gram!Doing(p, "recv") <=> runs /\ IF server THEN k = Answers - 1 ELSE pair # "raw" /\ k = Sends + 1
         /\ Gram!Doing(p, "sniff") <=> runs /\ ~server /\ pair = "raw" /\ k = Sends + 1
         /\ Gram!Doing(p, "answer") <=> runs /\ server /\ k = Answers
         /\ Gram!Doing(p, "close") <=> runs /\ k = GramShuts(p) /\ ~(server /\ pair = "multi")
<1> DEFINE k == agent[p].k  script == Gram!MyScript(p)
<1>1. k \in 1 .. 6 /\ k <= GramLong(p) /\ pair \in {"inet", "local", "multi", "raw"}
  BY GramConstants DEF InPlace, GramTypes, AgentRecords
<1>2. \A c : Gram!Doing(p, c) <=> agent[p].at = "run" /\ script[k] = c
  BY DEF Gram!Doing
<1> HIDE DEF k
<1>3. CASE pair = "local"
  <2>1. k \in {1, 2, 3, 4, 5, 6}
    BY <1>1
  <2>2. CASE p \in Gram!Servers
    <3>1. script = <<"unlink", "bind", "recv", "answer", "close", "unlink">>
      BY <1>3, <2>2 DEF Gram!MyScript, Gram!Script, Gram!LocalServer
    <3> HIDE DEF script
    <3>2. /\ script[1] = "unlink" /\ script[2] = "bind" /\ script[3] = "recv" /\ script[4] = "answer"
          /\ script[5] = "close" /\ script[6] = "unlink" /\ Len(script) = 6
      BY <3>1
    <3>3. Binds = 2 /\ Answers = 4 /\ Sends = 3 /\ GramShuts(p) = 5 /\ GramLong(p) = 6 /\ AtPaths
      BY <1>3, <2>2 DEF Binds, Answers, Sends, GramShuts, GramLong, AtPaths
    <3> QED BY <1>2, <1>3, <2>1, <2>2, <3>2, <3>3 DEF k, script
  <2>3. CASE p \notin Gram!Servers
    <3>1. script = <<"unlink", "bind", "send", "recv", "close", "unlink">>
      BY <1>3, <2>3 DEF Gram!MyScript, Gram!Script, Gram!LocalClient
    <3> HIDE DEF script
    <3>2. /\ script[1] = "unlink" /\ script[2] = "bind" /\ script[3] = "send" /\ script[4] = "recv"
          /\ script[5] = "close" /\ script[6] = "unlink" /\ Len(script) = 6
      BY <3>1
    <3>3. Binds = 2 /\ Answers = 4 /\ Sends = 3 /\ GramShuts(p) = 5 /\ GramLong(p) = 6 /\ AtPaths
      BY <1>3, <2>3 DEF Binds, Answers, Sends, GramShuts, GramLong, AtPaths
    <3> QED BY <1>2, <1>3, <2>1, <2>3, <3>2, <3>3 DEF k, script
  <2> QED BY <2>2, <2>3
<1>4. CASE pair # "local" /\ p \in Gram!Servers
  <2>1. CASE pair # "multi"
    <3>1. script = <<"bind", "recv", "answer", "close">>
      BY <1>1, <1>4, <2>1 DEF Gram!MyScript, Gram!Script, Gram!InetServer, Gram!RawServer
    <3> HIDE DEF script
    <3>2. /\ script[1] = "bind" /\ script[2] = "recv" /\ script[3] = "answer" /\ script[4] = "close" /\ Len(script) = 4
      BY <3>1
    <3>3. Binds = 1 /\ Answers = 3 /\ GramShuts(p) = 4 /\ GramLong(p) = 4
      BY <1>4, <2>1 DEF Binds, Answers, GramShuts, GramLong
    <3>4. k \in {1, 2, 3, 4}
      BY <1>1, <3>3
    <3> QED BY <1>2, <1>4, <2>1, <3>2, <3>3, <3>4 DEF k, script
  <2>2. CASE pair = "multi"
    <3>1. script = <<"bind", "recv", "answer">>
      BY <1>1, <1>4, <2>2 DEF Gram!MyScript, Gram!Script, Gram!MultiServer
    <3> HIDE DEF script
    <3>2. /\ script[1] = "bind" /\ script[2] = "recv" /\ script[3] = "answer" /\ Len(script) = 3
      BY <3>1
    <3>3. Binds = 1 /\ Answers = 3 /\ GramShuts(p) = 3 /\ GramLong(p) = 3
      BY <1>4, <2>2 DEF Binds, Answers, GramShuts, GramLong
    <3>4. k \in {1, 2, 3}
      BY <1>1, <3>3
    <3> QED BY <1>2, <1>4, <2>2, <3>2, <3>3, <3>4 DEF k, script
  <2> QED BY <2>1, <2>2
<1>5. CASE pair = "inet" /\ p \notin Gram!Servers
  <2>1. script = <<"bind", "send", "recv", "close">>
    BY <1>1, <1>5 DEF Gram!MyScript, Gram!Script, Gram!InetClient
  <2> HIDE DEF script
  <2>2. /\ script[1] = "bind" /\ script[2] = "send" /\ script[3] = "recv" /\ script[4] = "close" /\ Len(script) = 4
    BY <2>1
  <2>3. Binds = 1 /\ Sends = 2 /\ GramShuts(p) = 4 /\ GramLong(p) = 4 /\ AtPaths
    BY <1>5 DEF Binds, Sends, GramShuts, GramLong, AtPaths
  <2>4. k \in {1, 2, 3, 4}
    BY <1>1, <2>3
  <2> QED BY <1>2, <1>5, <2>2, <2>3, <2>4 DEF k, script
<1>6. CASE pair = "multi" /\ p \notin Gram!Servers
  <2>1. script = <<"send", "recv", "close">>
    BY <1>1, <1>6 DEF Gram!MyScript, Gram!Script, Gram!MultiClient
  <2> HIDE DEF script
  <2>2. /\ script[1] = "send" /\ script[2] = "recv" /\ script[3] = "close" /\ Len(script) = 3
    BY <2>1
  <2>3. Sends = 1 /\ GramShuts(p) = 3 /\ GramLong(p) = 3 /\ ~AtPaths
    BY <1>6 DEF Sends, GramShuts, GramLong, AtPaths
  <2>4. k \in {1, 2, 3}
    BY <1>1, <2>3
  <2> QED BY <1>2, <1>6, <2>2, <2>3, <2>4 DEF k, script
<1>7. CASE pair = "raw" /\ p \notin Gram!Servers
  <2>1. script = <<"send", "sniff", "close">>
    BY <1>1, <1>7 DEF Gram!MyScript, Gram!Script, Gram!RawClient
  <2> HIDE DEF script
  <2>2. /\ script[1] = "send" /\ script[2] = "sniff" /\ script[3] = "close" /\ Len(script) = 3
    BY <2>1
  <2>3. Sends = 1 /\ GramShuts(p) = 3 /\ GramLong(p) = 3 /\ ~AtPaths
    BY <1>7 DEF Sends, GramShuts, GramLong, AtPaths
  <2>4. k \in {1, 2, 3}
    BY <1>1, <2>3
  <2> QED BY <1>2, <1>7, <2>2, <2>3, <2>4 DEF k, script
<1> QED BY <1>1, <1>3, <1>4, <1>5, <1>6, <1>7

\* The places in their order.
LEMMA GramNumbers ==
  ASSUME pair \in Gram!Kinds, NEW p
  PROVE  /\ Binds \in {1, 2} /\ Sends \in {1, 2, 3} /\ Answers \in {3, 4} /\ Answers = Binds + 2
         /\ (AtPaths => Sends = Binds + 1) /\ (pair = "local" <=> Binds = 2)
         /\ GramShuts(p) \in {3, 4, 5} /\ GramLong(p) \in {3, 4, 6} /\ GramShuts(p) <= GramLong(p)
         /\ (pair = "local" => Sends = 3 /\ GramShuts(p) = 5 /\ GramLong(p) = 6)
         /\ (p \in Gram!Servers => GramShuts(p) >= Answers) /\ (p \notin Gram!Servers => GramShuts(p) = Sends + 2)
         /\ (pair # "local" => GramLong(p) = GramShuts(p)) /\ (pair # "multi" /\ p \in Gram!Servers => GramShuts(p) = Answers + 1)
         /\ (pair = "multi" /\ p \in Gram!Servers => GramShuts(p) = Answers)
BY GramConstants DEF Binds, Sends, Answers, GramShuts, GramLong, AtPaths

\* One process moves.
LEMMA GramMoves ==
  ASSUME GramTypes, NEW p \in Gram!Programs, NEW r \in AgentRecords, agent' = [agent EXCEPT ![p] = r]
  PROVE  agent' \in [Gram!Programs -> AgentRecords] /\ agent'[p] = r /\ \A q \in Gram!Programs \ {p} : agent'[q] = agent[q]
BY DEF GramTypes

\* What the invariant says of one process.
LEMMA GramFacts ==
  ASSUME GramInv, NEW p \in Gram!Programs
  PROVE  /\ agent[p] \in AgentRecords /\ agent[p].at \in AgentPlaces /\ agent[p].k \in 1 .. 6 /\ InPlace(p) /\ GramTypes
         /\ pair \in Gram!Kinds /\ p \in Gram!Servers \cup Visitors /\ (p \in Gram!Servers <=> p \notin Visitors)
         /\ inbox[p] \in Seq(GramRecords) /\ got[p] \in GramRecords
BY GramConstants DEF GramInv, GramTypes, AgentRecords

\* Where a process is after a call.
LEMMA GramGoesOn ==
  ASSUME GramTypes, NEW p \in Gram!Programs, InPlace(p), agent[p].at = "run", Gram!GoesOn(p)
  PROVE  LET last == agent[p].k = GramLong(p)  again == pair = "multi" /\ p \in Gram!Servers IN
         \E r \in AgentRecords :
           /\ agent' = [agent EXCEPT ![p] = r]
           /\ r.at = (IF last /\ ~again THEN "done" ELSE "run")
           /\ r.k = IF ~last THEN agent[p].k + 1 ELSE IF again THEN 2 ELSE agent[p].k
<1> DEFINE k == agent[p].k
<1>1. agent[p] \in AgentRecords /\ k \in 1 .. 6 /\ k <= GramLong(p) /\ GramLong(p) \in {3, 4, 6} /\ Len(Gram!MyScript(p)) = GramLong(p)
  BY GramNumbers, GramCalls DEF InPlace, GramTypes, AgentRecords
<1>2. CASE k # GramLong(p)
  <2> DEFINE r == [agent[p] EXCEPT !.k = k + 1]
  <2>1. k + 1 \in 1 .. 6 /\ k < GramLong(p)
    BY <1>1, <1>2
  <2>2. agent' = [agent EXCEPT ![p] = r]
    <3> DEFINE x == IF agent[p].k < Len(Gram!MyScript(p)) THEN [agent[p] EXCEPT !.k = @ + 1]
                    ELSE IF pair = "multi" /\ p \in Gram!Servers THEN [agent[p] EXCEPT !.k = 2]
                    ELSE [agent[p] EXCEPT !.at = "done"]
    <3>1. agent' = [agent EXCEPT ![p] = x]
      BY DEF Gram!GoesOn
    <3>2. x = r
      BY <1>1, <2>1
    <3> QED BY <3>1, <3>2
  <2>3. r \in AgentRecords /\ r.at = "run" /\ r.k = k + 1
    BY <1>1, <2>1 DEF AgentRecords
  <2> HIDE DEF r
  <2> QED BY <1>2, <2>2, <2>3
<1>3. CASE k = GramLong(p) /\ pair = "multi" /\ p \in Gram!Servers
  <2> DEFINE r == [agent[p] EXCEPT !.k = 2]
  <2>1. ~(k < GramLong(p))
    BY <1>1, <1>3
  <2>2. agent' = [agent EXCEPT ![p] = r]
    BY <1>1, <1>3, <2>1 DEF Gram!GoesOn
  <2>3. r \in AgentRecords /\ r.at = "run" /\ r.k = 2
    BY <1>1 DEF AgentRecords
  <2> HIDE DEF r
  <2> QED BY <1>3, <2>2, <2>3
<1>4. CASE k = GramLong(p) /\ ~(pair = "multi" /\ p \in Gram!Servers)
  <2> DEFINE r == [agent[p] EXCEPT !.at = "done"]
  <2>1. ~(k < GramLong(p))
    BY <1>1, <1>4
  <2>2. agent' = [agent EXCEPT ![p] = r]
    BY <1>1, <1>4, <2>1 DEF Gram!GoesOn
  <2>3. r \in AgentRecords /\ r.at = "done" /\ r.k = k
    BY <1>1 DEF AgentRecords, AgentPlaces
  <2> HIDE DEF r
  <2> QED BY <1>4, <2>2, <2>3
<1> QED BY <1>2, <1>3, <1>4

\* The places do not change in a run.
LEMMA GramSame ==
  ASSUME pair' = pair
  PROVE  /\ Sends' = Sends /\ Answers' = Answers /\ AtPaths' = AtPaths
         /\ \A q : GramShuts(q)' = GramShuts(q) /\ GramLong(q)' = GramLong(q) /\ Gram!Address(q)' = Gram!Address(q)
         /\ \A m : (Request(m)' <=> Request(m)) /\ (Reply(m)' <=> Reply(m))
BY DEF Sends, Answers, AtPaths, GramShuts, GramLong, Gram!Address, Request, Reply

\* A step that neither sends nor receives keeps the invariant,
LEMMA GramQuiet ==
  ASSUME GramInv, NEW p \in Gram!Programs, NEW r \in AgentRecords, agent' = [agent EXCEPT ![p] = r],
         pair' = pair, got' = got, robbed' \subseteq Gram!Programs, robbed \subseteq robbed',
         socks' \subseteq Gram!Programs, \A q \in Gram!Programs \ {p} : q \in socks' <=> q \in socks,
         bound' \in [{"server", "client"} -> Gram!Programs \cup {0}],
         inbox' = inbox \/ inbox' = [inbox EXCEPT ![p] = <<>>],
         OwnAddress', Placed', InPlace(p)',
         p \in Visitors => r.k >= agent[p].k /\ (pair # "raw" => (r.k > Sends + 1 <=> agent[p].k > Sends + 1)),
         p \in Gram!Servers => /\ r.at = "run" /\ r.k = Answers => agent[p].at = "run" /\ agent[p].k = Answers
                               /\ r.k >= Answers => agent[p].k >= Answers,
         AtPaths => \A u \in Visitors : bound["client"] = u /\ u \in socks /\ agent[u].k > Sends =>
           (bound'["client"] = u /\ u \in socks') \/ u \in robbed' \/ got[u] # Gram!None
  PROVE  GramInv'
<1>0. /\ GramTypes /\ Formed /\ Sole /\ InTime /\ Pending /\ Delivered /\ pair \in Gram!Kinds
      /\ \A q \in Gram!Programs : InPlace(q)
  BY DEF GramInv, GramTypes
<1>1. agent' \in [Gram!Programs -> AgentRecords] /\ agent'[p] = r /\ \A q \in Gram!Programs \ {p} : agent'[q] = agent[q]
  BY <1>0, GramMoves
<1>2. /\ Sends' = Sends /\ Answers' = Answers /\ AtPaths' = AtPaths
      /\ \A q : GramShuts(q)' = GramShuts(q) /\ GramLong(q)' = GramLong(q) /\ Gram!Address(q)' = Gram!Address(q)
      /\ \A m : (Request(m)' <=> Request(m)) /\ (Reply(m)' <=> Reply(m))
  BY GramSame
<1>3. /\ inbox' \in [Gram!Programs -> Seq(GramRecords)]
      /\ \A q \in Gram!Programs : inbox'[q] = inbox[q] \/ (q = p /\ inbox'[q] = <<>>)
  BY <1>0, NoMail, ZenonT(60) DEF GramTypes
<1>4. GramTypes'
  BY <1>0, <1>1, <1>3 DEF GramTypes
<1>5. \A q \in Gram!Programs : InPlace(q)'
  BY <1>0, <1>1, <1>2, <1>3 DEF InPlace
<1>6. /\ \A q \in Gram!Programs : Mail(inbox'[q]) \subseteq Mail(inbox[q]) /\ (OneEach(inbox[q]) => OneEach(inbox'[q]))
      /\ \A v \in Visitors : v \in Gram!Programs /\ v \notin Gram!Servers
      /\ \A s \in Gram!Servers : s \in Gram!Programs /\ s \notin Visitors
  BY <1>3, NoMail, GramConstants
<1>7. /\ \A v \in Visitors : /\ agent[v].k \in Int /\ agent'[v].k \in Int /\ agent'[v].k >= agent[v].k
                             /\ pair # "raw" => (agent'[v].k > Sends + 1 <=> agent[v].k > Sends + 1)
      /\ \A s \in Gram!Servers : /\ agent'[s].at = "run" /\ agent'[s].k = Answers => agent[s].at = "run" /\ agent[s].k = Answers
                                 /\ agent'[s].k >= Answers => agent[s].k >= Answers
      /\ Sends \in Int
  <2>1. \A q \in Gram!Programs : agent[q].k \in Int /\ agent'[q].k \in Int
    <3>1. \A a \in AgentRecords : a.k \in Int
      BY DEF AgentRecords
    <3> QED BY <1>0, <1>1, <3>1 DEF GramTypes
  <2>2. Sends \in Int
    BY <1>0, GramNumbers
  <2> QED BY <1>1, <1>6, <2>1, <2>2
<1>8. Formed'
  BY <1>0, <1>2, <1>6, <1>7 DEF Formed
<1>9. \A u : \A s \in Gram!Servers : Asked(s, u)' => Asked(s, u)
  BY <1>6 DEF Asked
<1>10. Sole'
  <2>1. \A u \in Visitors, s \in Gram!Servers : Asked(s, u)' => agent'[u].k > Sends
    BY <1>0, <1>7, <1>9 DEF Sole
  <2>2. \A u \in Visitors, s, t \in Gram!Servers : Asked(s, u)' /\ Asked(t, u)' => s = t
    BY <1>0, <1>9 DEF Sole
  <2>3. \A s \in Gram!Servers : OneEach(inbox'[s]) /\ \A m \in Mail(inbox'[s]) : m.by # got'[s].by
    BY <1>0, <1>6 DEF Sole
  <2> QED BY <1>2, <2>1, <2>2, <2>3 DEF Sole
<1>11. \A m : \A w \in Visitors : Told(w, m)' => Told(w, m)
  BY <1>6 DEF Told
<1>12. InTime'
  <2>1. \A w, u \in Visitors, m \in GramRecords : Told(w, m)' /\ Reply(m) /\ m.to = u => agent'[u].k > Sends
    BY <1>0, <1>7, <1>11 DEF InTime
  <2>2. pair # "raw" => \A v \in Visitors : got[v] # Gram!None <=> agent'[v].k > Sends + 1
    BY <1>0, <1>7 DEF InTime
  <2> QED BY <1>2, <2>1, <2>2 DEF InTime
<1>13. \A u : \A s \in Gram!Servers : Awaits(s, u)' => Awaits(s, u)
  BY <1>2, <1>6, <1>7 DEF Awaits
<1>14. Pending'
  <2> SUFFICES ASSUME AtPaths, NEW s \in Gram!Servers, NEW u \in Visitors, Awaits(s, u)'
               PROVE  /\ \A w \in Visitors, m \in GramRecords : Told(w, m)' => m.to # u
                      /\ u \in robbed' \/ got[u] # Gram!None \/ (bound'["client"] = u /\ u \in socks')
    BY <1>2 DEF Pending
  <2>1. /\ \A w \in Visitors, m \in GramRecords : Told(w, m) => m.to # u
        /\ u \in robbed \/ got[u] # Gram!None \/ (bound["client"] = u /\ u \in socks)
    BY <1>0, <1>13 DEF Pending
  <2>2. agent[u].k > Sends
    <3>1. Asked(s, u)
      BY <1>13 DEF Awaits, Asked
    <3> QED BY <1>0, <3>1 DEF Sole
  <2> QED BY <1>11, <2>1, <2>2
<1>15. Delivered'
  <2> SUFFICES ASSUME pair # "raw", NEW w \in Visitors, NEW m \in GramRecords, Told(w, m)', Reply(m)
               PROVE  m.to = w \/ (robbed' # {} /\ (m.to \in robbed' \/ Gram!Misled(m.to)'))
    BY <1>2 DEF Delivered
  <2>1. m.to = w \/ (robbed # {} /\ (m.to \in robbed \/ Gram!Misled(m.to)))
    BY <1>0, <1>11 DEF Delivered
  <2>2. Gram!Misled(m.to) => Gram!Misled(m.to)'
    BY DEF Gram!Misled, Gram!None
  <2> QED BY <2>1, <2>2
<1> QED BY <1>4, <1>5, <1>8, <1>10, <1>12, <1>14, <1>15 DEF GramInv

\* also one that closes a socket,
LEMMA SocketShut ==
  ASSUME GramInv, NEW p \in Gram!Programs, NEW r \in AgentRecords, agent' = [agent EXCEPT ![p] = r], pair' = pair,
         Gram!CloseSocket(p), r.at # "new", r.k <= GramLong(p), r.at = "run" => r.k > GramShuts(p),
         robbed \subseteq robbed'
  PROVE  /\ socks' = socks \ {p} /\ inbox' = [inbox EXCEPT ![p] = <<>>]
         /\ bound' \in [{"server", "client"} -> Gram!Programs \cup {0}]
         /\ \A u \in Gram!Programs \ {p} : bound["client"] = u => bound'["client"] = u
         /\ OwnAddress' /\ Placed' /\ InPlace(p)'
<1>1. /\ GramTypes /\ OwnAddress /\ Placed /\ bound \in [{"server", "client"} -> Gram!Programs \cup {0}] /\ pair \in Gram!Kinds
      /\ inbox \in [Gram!Programs -> Seq(GramRecords)]
  BY DEF GramInv, GramTypes
<1>2. /\ socks' = socks \ {p} /\ inbox' = [inbox EXCEPT ![p] = <<>>]
      /\ bound' = [a \in {"server", "client"} |-> IF bound[a] = p /\ ~Gram!Paths THEN 0 ELSE bound[a]]
  <2>1. DOMAIN bound = {"server", "client"}
    BY <1>1
  <2> QED BY <2>1, GramConstants DEF Gram!CloseSocket
<1>3. /\ bound' \in [{"server", "client"} -> Gram!Programs \cup {0}]
      /\ \A a \in {"server", "client"} : bound'[a] = 0 \/ bound'[a] = bound[a]
      /\ \A a \in {"server", "client"} : bound[a] # p => bound'[a] = bound[a]
  <2>1. \A a \in {"server", "client"} : bound'[a] = (IF bound[a] = p /\ ~Gram!Paths THEN 0 ELSE bound[a]) /\ bound[a] \in Gram!Programs \cup {0}
    BY <1>1, <1>2
  <2> QED BY <1>2, <2>1
<1>4. /\ Sends' = Sends /\ AtPaths' = AtPaths
      /\ \A q : GramShuts(q)' = GramShuts(q) /\ GramLong(q)' = GramLong(q) /\ Gram!Address(q)' = Gram!Address(q)
  BY GramSame
<1>5. agent' \in [Gram!Programs -> AgentRecords] /\ agent'[p] = r /\ \A q \in Gram!Programs \ {p} : agent'[q] = agent[q]
  BY <1>1, GramMoves
<1>6. OwnAddress'
  BY <1>1, <1>3, <1>4 DEF OwnAddress
<1>7. \A v \in Visitors : v \in Gram!Programs
  BY GramConstants
<1>8. Placed'
  <2> SUFFICES ASSUME AtPaths, NEW v \in Visitors, v \in socks', agent'[v].k >= Sends PROVE bound'["client"] = v \/ v \in robbed'
    BY <1>4 DEF Placed
  <2>1. v # p /\ v \in socks /\ agent[v].k >= Sends
    BY <1>2, <1>5, <1>7
  <2>2. bound["client"] = v \/ v \in robbed
    BY <1>1, <2>1 DEF Placed
  <2> QED BY <1>3, <2>1, <2>2
<1>9. InPlace(p)'
  <2>1. GramShuts(p) \in Int /\ r.k \in Int /\ inbox'[p] = <<>>
    <3>1. r.k \in Int
      BY DEF AgentRecords
    <3>2. GramShuts(p) \in {3, 4, 5}
      BY <1>1, GramNumbers
    <3> QED BY <1>1, <1>2, <3>1, <3>2
  <2> QED BY <1>2, <1>4, <1>5, <2>1 DEF InPlace
<1>10. \A u \in Gram!Programs \ {p} : bound["client"] = u => bound'["client"] = u
  BY <1>3
<1> QED BY <1>2, <1>3, <1>6, <1>8, <1>9, <1>10

\* or ends the process.
LEMMA GramExits ==
  ASSUME GramInv, NEW p \in Gram!Programs, NEW how \in {"failed", "killed"}, Gram!Exits(p, how), agent[p].at = "run",
         pair' = pair, got' = got, robbed \subseteq robbed', robbed' \subseteq Gram!Programs,
         p \in Visitors => agent[p].k <= Sends \/ p \in robbed'
  PROVE  GramInv'
<1> DEFINE r == [agent[p] EXCEPT !.at = how]
<1>1. agent' = [agent EXCEPT ![p] = r] /\ Gram!CloseSocket(p)
  BY DEF Gram!Exits
<1>2. r \in AgentRecords /\ r.at = how /\ r.k = agent[p].k
  BY GramFacts DEF AgentRecords, AgentPlaces
<1> HIDE DEF r
<1>3. r.k <= GramLong(p) /\ agent[p].k \in Int
  BY <1>2, GramFacts DEF InPlace
<1>4. /\ socks' = socks \ {p} /\ inbox' = [inbox EXCEPT ![p] = <<>>]
      /\ bound' \in [{"server", "client"} -> Gram!Programs \cup {0}]
      /\ \A u \in Gram!Programs \ {p} : bound["client"] = u => bound'["client"] = u
      /\ OwnAddress' /\ Placed' /\ InPlace(p)'
  <2>1. r.at # "new" /\ (r.at = "run" => r.k > GramShuts(p))
    BY <1>2
  <2> QED BY <1>1, <1>2, <1>3, <2>1, SocketShut
<1>5. socks' \subseteq Gram!Programs /\ \A q \in Gram!Programs \ {p} : q \in socks' <=> q \in socks
  BY <1>4, GramFacts DEF GramTypes
<1>6. /\ p \in Visitors => r.k >= agent[p].k /\ (pair # "raw" => (r.k > Sends + 1 <=> agent[p].k > Sends + 1))
      /\ p \in Gram!Servers => /\ r.at = "run" /\ r.k = Answers => agent[p].at = "run" /\ agent[p].k = Answers
                               /\ r.k >= Answers => agent[p].k >= Answers
  BY <1>2, <1>3
<1>7. AtPaths => \A u \in Visitors : bound["client"] = u /\ u \in socks /\ agent[u].k > Sends =>
           (bound'["client"] = u /\ u \in socks') \/ u \in robbed' \/ got[u] # Gram!None
  <2> SUFFICES ASSUME NEW u \in Visitors, bound["client"] = u, u \in socks, agent[u].k > Sends
               PROVE  (bound'["client"] = u /\ u \in socks') \/ u \in robbed'
    OBVIOUS
  <2>1. CASE u = p
    <3>1. Sends \in Int
      BY GramFacts, GramNumbers
    <3> QED BY <1>3, <2>1, <3>1
  <2>2. CASE u # p
    BY <1>4, <2>2, GramConstants
  <2> QED BY <2>1, <2>2
<1> QED BY <1>1, <1>2, <1>4, <1>5, <1>6, <1>7, GramQuiet

\* Every step keeps it: a process is killed,
LEMMA GramKilled == ASSUME GramInv, NEW p \in Gram!Programs, Gram!Kill(p) PROVE GramInv'
<1>1. /\ agent[p].at = "run" /\ Gram!Exits(p, "killed") /\ pair' = pair /\ got' = got
      /\ robbed' = robbed \cup {p} /\ robbed \subseteq Gram!Programs
  BY GramFacts DEF Gram!Kill, GramTypes
<1> QED BY <1>1, GramExits

\* starts,
LEMMA GramStarts == ASSUME GramInv, NEW p \in Gram!Programs, Gram!Start(p) PROVE GramInv'
<1> DEFINE r == [agent[p] EXCEPT !.at = "run"]
<1>1. agent' = [agent EXCEPT ![p] = r] /\ socks' = socks \cup {p} /\ UNCHANGED <<pair, bound, inbox, got, robbed>> /\ agent[p].at = "new"
  BY DEF Gram!Start
<1>2. r \in AgentRecords /\ r.at = "run" /\ r.k = agent[p].k
  BY GramFacts DEF AgentRecords, AgentPlaces
<1> HIDE DEF r
<1>3. r.k = 1 /\ agent[p].k = 1 /\ p \notin socks /\ r.k <= GramLong(p)
  BY <1>1, <1>2, GramFacts DEF InPlace
<1>4. /\ GramTypes /\ OwnAddress /\ Placed /\ pair \in Gram!Kinds /\ bound \in [{"server", "client"} -> Gram!Programs \cup {0}]
      /\ robbed \subseteq Gram!Programs /\ socks \subseteq Gram!Programs
  BY DEF GramInv, GramTypes
<1>5. /\ Sends' = Sends /\ AtPaths' = AtPaths
      /\ \A q : GramShuts(q)' = GramShuts(q) /\ GramLong(q)' = GramLong(q) /\ Gram!Address(q)' = Gram!Address(q)
  BY <1>1, GramSame
<1>6. agent'[p] = r /\ \A q \in Gram!Programs \ {p} : agent'[q] = agent[q]
  BY <1>1, <1>2, <1>4, GramMoves
<1>7. GramShuts(p) \in {3, 4, 5} /\ Sends \in {1, 2, 3} /\ Answers \in {3, 4} /\ (AtPaths => Sends # 1)
  BY <1>4, GramNumbers
<1>8. InPlace(p)'
  BY <1>1, <1>2, <1>3, <1>5, <1>6, <1>7 DEF InPlace
<1>9. OwnAddress'
  BY <1>1, <1>4, <1>5 DEF OwnAddress
<1>10. Placed'
  <2> SUFFICES ASSUME AtPaths, NEW v \in Visitors, v \in socks', agent'[v].k >= Sends PROVE bound["client"] = v \/ v \in robbed
    BY <1>1, <1>5 DEF Placed
  <2>1. v # p
    BY <1>3, <1>6, <1>7
  <2> QED BY <1>1, <1>4, <1>6, <2>1, GramConstants DEF Placed
<1>11. /\ p \in Visitors => r.k >= agent[p].k /\ (pair # "raw" => (r.k > Sends + 1 <=> agent[p].k > Sends + 1))
       /\ p \in Gram!Servers => /\ r.at = "run" /\ r.k = Answers => agent[p].at = "run" /\ agent[p].k = Answers
                                /\ r.k >= Answers => agent[p].k >= Answers
  BY <1>3, <1>7
<1>12. /\ pair' = pair /\ got' = got /\ robbed' \subseteq Gram!Programs /\ robbed \subseteq robbed'
       /\ socks' \subseteq Gram!Programs /\ (\A q \in Gram!Programs \ {p} : q \in socks' <=> q \in socks)
       /\ bound' \in [{"server", "client"} -> Gram!Programs \cup {0}] /\ inbox' = inbox
       /\ \A u \in Visitors : bound["client"] = u /\ u \in socks => bound'["client"] = u /\ u \in socks'
  BY <1>1, <1>4
<1> QED BY <1>1, <1>2, <1>8, <1>9, <1>10, <1>11, <1>12, GramQuiet

\* unlinks its path,
LEMMA GramUnlinks == ASSUME GramInv, NEW p \in Gram!Programs, Gram!Unlink(p) PROVE GramInv'
<1>1. agent[p].at = "run" /\ pair = "local" /\ agent[p].k \in {1, 6}
  BY GramFacts, GramCalls DEF Gram!Unlink
<1> DEFINE here == Gram!Address(p)
<1>2. /\ Gram!GoesOn(p) /\ bound' = [bound EXCEPT ![here] = 0] /\ UNCHANGED <<pair, socks, inbox, got>>
      /\ robbed' = robbed \cup (Gram!SocketAt(here) \ {p})
  BY GramConstants DEF Gram!Unlink
<1>3. /\ GramTypes /\ OwnAddress /\ Placed /\ pair \in Gram!Kinds /\ bound \in [{"server", "client"} -> Gram!Programs \cup {0}]
      /\ robbed \subseteq Gram!Programs /\ socks \subseteq Gram!Programs
  BY DEF GramInv, GramTypes
<1>4. /\ GramShuts(p) = 5 /\ GramLong(p) = 6 /\ Sends = 3 /\ Answers \in {3, 4}
  BY <1>1, <1>3, GramNumbers
<1>5. PICK r \in AgentRecords : /\ agent' = [agent EXCEPT ![p] = r]
                                /\ r.at = (IF agent[p].k = 6 THEN "done" ELSE "run")
                                /\ r.k = IF agent[p].k = 6 THEN 6 ELSE 2
  <2>1. GramTypes /\ InPlace(p)
    BY GramFacts
  <2>2. PICK r \in AgentRecords :
           /\ agent' = [agent EXCEPT ![p] = r]
           /\ r.at = (IF agent[p].k = GramLong(p) /\ ~(pair = "multi" /\ p \in Gram!Servers) THEN "done" ELSE "run")
           /\ r.k = IF agent[p].k # GramLong(p) THEN agent[p].k + 1 ELSE IF pair = "multi" /\ p \in Gram!Servers THEN 2 ELSE agent[p].k
    BY <1>1, <1>2, <2>1, GramGoesOn
  <2>3. r.at = (IF agent[p].k = 6 THEN "done" ELSE "run") /\ r.k = IF agent[p].k = 6 THEN 6 ELSE 2
    BY <1>1, <1>4, <2>2
  <2> QED BY <2>2, <2>3
<1>6. here = (IF p \in Gram!Servers THEN "server" ELSE "client") /\ Gram!SocketAt(here) = {bound[here]} \cap socks
  <2>1. here = (IF p \in Gram!Servers THEN "server" ELSE "client")
    BY <1>1 DEF Gram!Address
  <2> HIDE DEF here
  <2> QED BY <2>1, GramConstants DEF Gram!SocketAt
<1> HIDE DEF here
<1>7. /\ Sends' = Sends /\ AtPaths' = AtPaths
      /\ \A q : GramShuts(q)' = GramShuts(q) /\ GramLong(q)' = GramLong(q) /\ Gram!Address(q)' = Gram!Address(q)
  BY <1>2, GramSame
<1>8. agent'[p] = r /\ \A q \in Gram!Programs \ {p} : agent'[q] = agent[q]
  BY <1>3, <1>5, GramMoves
<1>9. /\ bound' \in [{"server", "client"} -> Gram!Programs \cup {0}]
      /\ \A a \in {"server", "client"} : bound'[a] = 0 \/ bound'[a] = bound[a]
      /\ bound'["client"] = bound["client"] \/ here = "client"
  BY <1>2, <1>3
<1>10. OwnAddress'
  BY <1>3, <1>7, <1>9 DEF OwnAddress
<1>11. p \in socks <=> agent[p].k = 1
  BY <1>1, <1>4, GramFacts DEF InPlace
<1>12. InPlace(p)'
  <2>1. InPlace(p)
    BY GramFacts
  <2> QED BY <1>1, <1>2, <1>4, <1>5, <1>7, <1>8, <1>11, <2>1 DEF InPlace
<1>13. \A u \in Visitors : u \in Gram!Programs /\ (u \in socks /\ bound["client"] = u => bound'["client"] = u \/ u \in robbed' \/ u = p)
  BY <1>2, <1>6, <1>9, GramConstants
<1>14. Placed'
  <2> SUFFICES ASSUME NEW v \in Visitors, v \in socks, agent'[v].k >= Sends, AtPaths PROVE bound'["client"] = v \/ v \in robbed'
    BY <1>2, <1>7 DEF Placed
  <2>1. v # p
    BY <1>1, <1>4, <1>5, <1>8, <1>11
  <2>2. bound["client"] = v \/ v \in robbed
    BY <1>3, <1>8, <1>13, <2>1 DEF Placed
  <2> QED BY <1>2, <1>13, <2>1, <2>2
<1>15. \A u \in Visitors : bound["client"] = u /\ u \in socks /\ agent[u].k > Sends => bound'["client"] = u \/ u \in robbed'
  BY <1>4, <1>11, <1>13
<1>16. /\ p \in Visitors => r.k >= agent[p].k /\ (pair # "raw" => (r.k > Sends + 1 <=> agent[p].k > Sends + 1))
       /\ p \in Gram!Servers => /\ r.at = "run" /\ r.k = Answers => agent[p].at = "run" /\ agent[p].k = Answers
                                /\ r.k >= Answers => agent[p].k >= Answers
  BY <1>1, <1>4, <1>5
<1>17. /\ pair' = pair /\ got' = got /\ robbed' \subseteq Gram!Programs /\ robbed \subseteq robbed' /\ socks' = socks /\ inbox' = inbox
       /\ socks' \subseteq Gram!Programs
  BY <1>2, <1>3, <1>6
<1> QED BY <1>5, <1>9, <1>10, <1>12, <1>14, <1>15, <1>16, <1>17, GramQuiet

\* binds its socket,
LEMMA GramBinds == ASSUME GramInv, NEW p \in Gram!Programs, Gram!Bind(p) PROVE GramInv'
<1>1. agent[p].at = "run" /\ (p \in Gram!Servers \/ AtPaths) /\ agent[p].k = Binds
  BY GramFacts, GramCalls DEF Gram!Bind
<1> DEFINE here == Gram!Address(p)
<1>3. /\ GramTypes /\ OwnAddress /\ Placed /\ pair \in Gram!Kinds /\ bound \in [{"server", "client"} -> Gram!Programs \cup {0}]
      /\ robbed \subseteq Gram!Programs /\ socks \subseteq Gram!Programs /\ UNCHANGED <<pair, got, robbed>>
  BY DEF GramInv, GramTypes, Gram!Bind
<1>4. /\ Binds \in {1, 2} /\ Answers = Binds + 2 /\ (AtPaths => Sends = Binds + 1)
      /\ GramShuts(p) \in {3, 4, 5} /\ GramShuts(p) <= GramLong(p) /\ GramLong(p) \in {3, 4, 6}
      /\ (p \in Gram!Servers => GramShuts(p) >= Answers) /\ (p \notin Gram!Servers => GramShuts(p) = Sends + 2)
  BY <1>3, GramNumbers
<1>5. p \in Gram!Servers <=> p \notin Visitors
  BY GramFacts
<1>6. CASE bound[here] # 0
  <2>1. Gram!Exits(p, "failed")
    BY <1>6, GramConstants DEF Gram!Bind
  <2>2. p \in Visitors => agent[p].k <= Sends
    BY <1>1, <1>4, <1>5
  <2> QED BY <1>1, <1>3, <2>1, <2>2, GramExits
<1>7. CASE bound[here] = 0
  <2>1. Gram!GoesOn(p) /\ bound' = [bound EXCEPT ![here] = p] /\ UNCHANGED <<socks, inbox>>
    BY <1>7, GramConstants DEF Gram!Bind
  <2>2. PICK r \in AgentRecords : agent' = [agent EXCEPT ![p] = r] /\ r.at = "run" /\ r.k = Binds + 1
    <3>1. GramTypes /\ InPlace(p)
      BY GramFacts
    <3>2. PICK r \in AgentRecords :
             /\ agent' = [agent EXCEPT ![p] = r]
             /\ r.at = (IF agent[p].k = GramLong(p) /\ ~(pair = "multi" /\ p \in Gram!Servers) THEN "done" ELSE "run")
             /\ r.k = IF agent[p].k # GramLong(p) THEN agent[p].k + 1 ELSE IF pair = "multi" /\ p \in Gram!Servers THEN 2 ELSE agent[p].k
      BY <1>1, <2>1, <3>1, GramGoesOn
    <3>3. agent[p].k # GramLong(p)
      BY <1>1, <1>4
    <3>4. r.at = "run" /\ r.k = Binds + 1
      BY <1>1, <3>2, <3>3
    <3> QED BY <3>2, <3>4
  <2>3. here = (IF p \in Gram!Servers THEN "server" ELSE "client")
    BY <1>1 DEF Gram!Address, AtPaths
  <2>4. /\ Sends' = Sends /\ AtPaths' = AtPaths
        /\ \A q : GramShuts(q)' = GramShuts(q) /\ GramLong(q)' = GramLong(q) /\ Gram!Address(q)' = Gram!Address(q)
    BY <1>3, GramSame
  <2>5. agent'[p] = r /\ \A q \in Gram!Programs \ {p} : agent'[q] = agent[q]
    BY <1>3, <2>2, GramMoves
  <2>6. OwnAddress'
    <3>1. \A a \in {"server", "client"} : bound'[a] = bound[a] \/ (bound'[a] = p /\ Gram!Address(p) = a)
      BY <1>3, <2>1
    <3> QED BY <1>3, <2>4, <3>1 DEF OwnAddress
  <2> HIDE DEF here
  <2>7. /\ bound' \in [{"server", "client"} -> Gram!Programs \cup {0}]
        /\ bound'["client"] = (IF here = "client" THEN p ELSE bound["client"])
    BY <1>3, <2>1, <2>3
  <2>8. \A u \in Visitors : bound["client"] = u => bound'["client"] = u
    BY <1>7, <2>7, GramConstants
  <2>9. InPlace(p)'
    <3>1. InPlace(p)
      BY GramFacts
    <3>2. r.k <= GramShuts(p) /\ agent[p].k <= GramShuts(p)
      BY <1>1, <1>4, <1>5, <2>2
    <3> QED BY <1>1, <1>4, <2>1, <2>2, <2>4, <2>5, <3>1, <3>2 DEF InPlace
  <2>10. Placed'
    <3> SUFFICES ASSUME AtPaths, NEW v \in Visitors, v \in socks, agent'[v].k >= Sends PROVE bound'["client"] = v \/ v \in robbed
      BY <1>3, <2>1, <2>4 DEF Placed
    <3>1. CASE v = p
      BY <1>5, <2>3, <2>7, <3>1
    <3>2. CASE v # p
      BY <1>3, <2>5, <2>8, <3>2, GramConstants DEF Placed
    <3> QED BY <3>1, <3>2
  <2>11. /\ p \in Visitors => r.k >= agent[p].k /\ (pair # "raw" => (r.k > Sends + 1 <=> agent[p].k > Sends + 1))
         /\ p \in Gram!Servers => /\ r.at = "run" /\ r.k = Answers => agent[p].at = "run" /\ agent[p].k = Answers
                                  /\ r.k >= Answers => agent[p].k >= Answers
    BY <1>1, <1>4, <1>5, <2>2
  <2>12. /\ robbed' = robbed /\ socks' = socks /\ inbox' = inbox /\ pair' = pair /\ got' = got
    BY <1>3, <2>1
  <2> QED BY <1>3, <2>2, <2>6, <2>7, <2>8, <2>9, <2>10, <2>11, <2>12, GramQuiet
<1> QED BY <1>6, <1>7

\* closes it;
LEMMA GramShut == ASSUME GramInv, NEW p \in Gram!Programs, Gram!Close(p) PROVE GramInv'
<1>1. agent[p].at = "run" /\ agent[p].k = GramShuts(p) /\ ~(p \in Gram!Servers /\ pair = "multi")
  BY GramFacts, GramCalls DEF Gram!Close
<1>2. /\ GramTypes /\ InTime /\ pair \in Gram!Kinds /\ robbed \subseteq Gram!Programs /\ socks \subseteq Gram!Programs
      /\ UNCHANGED <<pair, got, robbed>> /\ Gram!CloseSocket(p) /\ Gram!GoesOn(p)
  BY DEF GramInv, GramTypes, Gram!Close
<1>3. /\ GramShuts(p) \in {3, 4, 5} /\ GramShuts(p) <= GramLong(p) /\ GramLong(p) \in {3, 4, 6} /\ Sends \in Int /\ Answers \in Int
      /\ (p \in Gram!Servers => GramShuts(p) = Answers + 1) /\ (p \notin Gram!Servers => GramShuts(p) = Sends + 2)
  BY <1>1, <1>2, GramNumbers
<1>4. p \in Gram!Servers <=> p \notin Visitors
  BY GramFacts
<1>5. PICK r \in AgentRecords :
        /\ agent' = [agent EXCEPT ![p] = r] /\ r.at \in {"done", "run"} /\ r.k >= agent[p].k /\ r.k <= GramLong(p)
        /\ r.at = "run" => r.k > GramShuts(p)
  <2>1. GramTypes /\ InPlace(p)
    BY GramFacts
  <2>2. PICK r \in AgentRecords :
           /\ agent' = [agent EXCEPT ![p] = r]
           /\ r.at = (IF agent[p].k = GramLong(p) /\ ~(pair = "multi" /\ p \in Gram!Servers) THEN "done" ELSE "run")
           /\ r.k = IF agent[p].k # GramLong(p) THEN agent[p].k + 1 ELSE IF pair = "multi" /\ p \in Gram!Servers THEN 2 ELSE agent[p].k
    BY <1>1, <1>2, <2>1, GramGoesOn
  <2>3. r.at \in {"done", "run"} /\ r.k >= agent[p].k /\ r.k <= GramLong(p) /\ (r.at = "run" => r.k > GramShuts(p))
    <3>1. r.k = IF agent[p].k # GramLong(p) THEN agent[p].k + 1 ELSE agent[p].k
      BY <1>1, <2>2
    <3>2. r.at = IF agent[p].k = GramLong(p) THEN "done" ELSE "run"
      BY <1>1, <2>2
    <3> QED BY <1>1, <1>3, <3>1, <3>2
  <2> QED BY <2>2, <2>3
<1>6. /\ socks' = socks \ {p} /\ inbox' = [inbox EXCEPT ![p] = <<>>]
      /\ bound' \in [{"server", "client"} -> Gram!Programs \cup {0}]
      /\ \A u \in Gram!Programs \ {p} : bound["client"] = u => bound'["client"] = u
      /\ OwnAddress' /\ Placed' /\ InPlace(p)'
  <2>1. pair' = pair /\ robbed \subseteq robbed' /\ r.at # "new"
    BY <1>2, <1>5
  <2> QED BY <1>2, <1>5, <2>1, SocketShut
<1>7. socks' \subseteq Gram!Programs /\ \A q \in Gram!Programs \ {p} : q \in socks' <=> q \in socks
  BY <1>2, <1>6
<1>8. /\ p \in Visitors => r.k >= agent[p].k /\ (pair # "raw" => (r.k > Sends + 1 <=> agent[p].k > Sends + 1))
      /\ p \in Gram!Servers => /\ r.at = "run" /\ r.k = Answers => agent[p].at = "run" /\ agent[p].k = Answers
                               /\ r.k >= Answers => agent[p].k >= Answers
  <2>1. r.k \in Int
    BY DEF AgentRecords
  <2>2. r.k >= agent[p].k
    BY <1>5
  <2> QED BY <1>1, <1>3, <1>4, <2>1, <2>2
<1>9. AtPaths => \A u \in Visitors : bound["client"] = u /\ u \in socks /\ agent[u].k > Sends =>
           (bound'["client"] = u /\ u \in socks') \/ u \in robbed' \/ got[u] # Gram!None
  <2> SUFFICES ASSUME AtPaths, NEW u \in Visitors, bound["client"] = u, u \in socks, agent[u].k > Sends
               PROVE  (bound'["client"] = u /\ u \in socks') \/ got[u] # Gram!None
    OBVIOUS
  <2>1. CASE u = p
    <3>1. pair # "raw" /\ agent[u].k > Sends + 1
      BY <1>1, <1>3, <1>4, <2>1 DEF AtPaths
    <3> QED BY <1>2, <3>1 DEF InTime
  <2>2. CASE u # p
    BY <1>6, <2>2, GramConstants
  <2> QED BY <2>1, <2>2
<1> QED BY <1>2, <1>5, <1>6, <1>7, <1>8, <1>9, GramQuiet

\* A datagram reaches who has bound its address.
LEMMA ReachOf ==
  ASSUME GramInv
  PROVE  /\ \A q \in Gram!Reach("server") : q \in socks /\ (q = bound["server"] \/ (pair = "raw" /\ q \in Visitors))
         /\ \A q \in Gram!Reach("server") : q \in Visitors => pair = "raw"
         /\ \A u \in Visitors : \A q \in Gram!Reach(Gram!Address(u)) :
              q \in socks /\ q \in Visitors /\ (pair = "multi" => q = u) /\ (AtPaths => q = bound["client"])
<1>1. /\ OwnAddress /\ bound \in [{"server", "client"} -> Gram!Programs \cup {0}] /\ socks \subseteq Gram!Programs /\ pair \in Gram!Kinds
  BY DEF GramInv, GramTypes
<1>2. \A v \in Visitors : Gram!Address(v) = IF pair = "multi" THEN v ELSE "client"
  BY GramConstants DEF Gram!Address
<1>3. \A s \in Gram!Servers : Gram!Address(s) = "server"
  BY DEF Gram!Address
<1>4. bound["server"] \notin Visitors
  BY <1>1, <1>2, GramConstants DEF OwnAddress
<1>5. bound["client"] \notin Gram!Servers
  BY <1>1, <1>3, GramConstants DEF OwnAddress
<1>6. Gram!Reach("server") = ({bound["server"]} \cap socks) \cup (IF pair = "raw" THEN Visitors \cap socks ELSE {})
  BY GramConstants DEF Gram!Reach, Gram!SocketAt
<1>7. ASSUME NEW u \in Visitors, NEW q \in Gram!Reach(Gram!Address(u))
      PROVE  q \in socks /\ q \in Visitors /\ (pair = "multi" => q = u) /\ (AtPaths => q = bound["client"])
  <2>1. CASE pair = "multi"
    <3>1. Gram!Reach(u) = {u} \cap socks
      BY <2>1 DEF Gram!Reach, Gram!SocketAt
    <3> QED BY <1>2, <1>7, <2>1, <3>1 DEF AtPaths
  <2>2. CASE pair # "multi"
    <3>1. Gram!Reach("client") = ({bound["client"]} \cap socks) \cup (IF pair = "raw" THEN Visitors \cap socks ELSE {})
      BY GramConstants DEF Gram!Reach, Gram!SocketAt
    <3>2. q \in Gram!Reach("client")
      BY <1>2, <1>7, <2>2
    <3>3. bound["client"] \in socks => bound["client"] \in Visitors
      BY <1>1, <1>5, GramConstants
    <3> QED BY <2>2, <3>1, <3>2, <3>3 DEF AtPaths
  <2> QED BY <2>1, <2>2
<1> QED BY <1>4, <1>6, <1>7

\* A client sends its request,
LEMMA GramAsks == ASSUME GramInv, NEW p \in Gram!Programs, Gram!Send(p) PROVE GramInv'
<1> DEFINE e == [by |-> p, from |-> Gram!Address(p), for |-> "server", to |-> 0]
           R == Gram!Reach("server")
<1>1. agent[p].at = "run" /\ p \notin Gram!Servers /\ p \in Visitors /\ agent[p].k = Sends
  BY GramFacts, GramCalls DEF Gram!Send
<1>2. /\ GramTypes /\ OwnAddress /\ Placed /\ Formed /\ Sole /\ InTime /\ Pending /\ Delivered /\ pair \in Gram!Kinds
      /\ \A q \in Gram!Programs : InPlace(q)
      /\ bound \in [{"server", "client"} -> Gram!Programs \cup {0}] /\ inbox \in [Gram!Programs -> Seq(GramRecords)]
      /\ agent \in [Gram!Programs -> AgentRecords]
  BY DEF GramInv, GramTypes
<1>3. UNCHANGED <<pair, got, robbed>>
  BY DEF Gram!Send, Gram!SendTo
<1>4. CASE Gram!Paths /\ Gram!SocketAt("server") = {}
  <2>1. Gram!Exits(p, "failed")
    BY <1>4 DEF Gram!Send, Gram!SendTo
  <2>2. agent[p].k <= Sends /\ robbed \subseteq Gram!Programs
    BY <1>1, <1>2, GramNumbers DEF GramTypes
  <2> QED BY <1>1, <1>3, <2>1, <2>2, GramExits
<1>5. CASE ~(Gram!Paths /\ Gram!SocketAt("server") = {})
  <2>1. /\ Gram!GoesOn(p) /\ UNCHANGED <<socks, bound>>
        /\ inbox' = [q \in Gram!Programs |-> IF q \in R THEN Append(inbox[q], e) ELSE inbox[q]]
    BY <1>5, GramConstants DEF Gram!Send, Gram!SendTo
  <2>2. /\ Sends \in {1, 2, 3} /\ Answers \in {3, 4} /\ GramShuts(p) = Sends + 2 /\ GramShuts(p) <= GramLong(p) /\ GramLong(p) \in {3, 4, 6}
    BY <1>1, <1>2, GramNumbers
  <2>3. PICK r \in AgentRecords : agent' = [agent EXCEPT ![p] = r] /\ r.at = "run" /\ r.k = Sends + 1
    <3>1. GramTypes /\ InPlace(p)
      BY GramFacts
    <3>2. PICK r \in AgentRecords :
             /\ agent' = [agent EXCEPT ![p] = r]
             /\ r.at = (IF agent[p].k = GramLong(p) /\ ~(pair = "multi" /\ p \in Gram!Servers) THEN "done" ELSE "run")
             /\ r.k = IF agent[p].k # GramLong(p) THEN agent[p].k + 1 ELSE IF pair = "multi" /\ p \in Gram!Servers THEN 2 ELSE agent[p].k
      BY <1>1, <2>1, <3>1, GramGoesOn
    <3>3. agent[p].k # GramLong(p)
      BY <1>1, <2>2
    <3>4. r.at = "run" /\ r.k = Sends + 1
      BY <1>1, <3>2, <3>3
    <3> QED BY <3>2, <3>4
  <2>4. /\ Sends' = Sends /\ Answers' = Answers /\ AtPaths' = AtPaths
        /\ \A q : GramShuts(q)' = GramShuts(q) /\ GramLong(q)' = GramLong(q) /\ Gram!Address(q)' = Gram!Address(q)
        /\ \A m : (Request(m)' <=> Request(m)) /\ (Reply(m)' <=> Reply(m))
    BY <1>3, GramSame
  <2>5. agent' \in [Gram!Programs -> AgentRecords] /\ agent'[p] = r /\ \A q \in Gram!Programs \ {p} : agent'[q] = agent[q]
    BY <1>2, <2>3, GramMoves
  <2>6. e \in GramRecords /\ e.by = p /\ e.to = 0 /\ Request(e) /\ ~Reply(e)
    <3>1. Gram!Address(p) \in GramPlaces
      BY <1>1 DEF Gram!Address, GramPlaces
    <3> QED BY <1>1, <3>1 DEF GramRecords, GramPlaces, Request, Reply
  <2> HIDE DEF e
  <2>7. /\ \A q \in R : q \in socks /\ (q \in Visitors => pair = "raw") /\ (q \in Gram!Servers => q = bound["server"])
    BY ReachOf, GramConstants
  <2> HIDE DEF R
  <2>8. /\ inbox' \in [Gram!Programs -> Seq(GramRecords)]
        /\ \A q \in Gram!Programs : IF q \in R THEN inbox'[q] = Append(inbox[q], e) /\ Mail(inbox'[q]) = Mail(inbox[q]) \cup {e}
                                    ELSE inbox'[q] = inbox[q]
    <3>1. \A q \in Gram!Programs : Append(inbox[q], e) \in Seq(GramRecords) /\ Mail(Append(inbox[q], e)) = Mail(inbox[q]) \cup {e}
      BY <1>2, <2>6, MailAppended
    <3> QED BY <1>2, <2>1, <3>1
  <2>9. /\ \A v \in Visitors : v \in Gram!Programs /\ v \notin Gram!Servers
        /\ \A s \in Gram!Servers : s \in Gram!Programs /\ s \notin Visitors /\ s # p /\ agent'[s] = agent[s]
    BY <1>1, <2>5, GramConstants
  <2>10. GramTypes'
    BY <1>2, <1>3, <2>1, <2>5, <2>8 DEF GramTypes
  <2>11. ASSUME NEW q \in Gram!Programs PROVE InPlace(q)'
    <3>1. CASE q = p
      <4>1. InPlace(p) /\ p \in socks /\ r.k <= GramShuts(p) /\ r.k <= GramLong(p)
        BY <1>1, <1>2, <2>2, <2>3 DEF InPlace
      <4> QED BY <2>1, <2>3, <2>4, <2>5, <3>1, <4>1 DEF InPlace
    <3>2. CASE q # p
      BY <1>2, <2>1, <2>4, <2>5, <2>7, <2>8, <3>2 DEF InPlace
    <3> QED BY <3>1, <3>2
  <2>12. OwnAddress'
    BY <1>2, <2>1, <2>4 DEF OwnAddress
  <2>13. p \in socks /\ (AtPaths => bound["client"] = p \/ p \in robbed)
    <3>1. p \in socks
      BY <1>1, <1>2, <2>2 DEF InPlace
    <3>2. agent[p].k >= Sends
      BY <1>1, <2>2
    <3> QED BY <1>1, <1>2, <3>1, <3>2 DEF Placed
  <2>14. Placed'
    <3> SUFFICES ASSUME AtPaths, NEW v \in Visitors, v \in socks, agent'[v].k >= Sends PROVE bound["client"] = v \/ v \in robbed
      BY <1>3, <2>1, <2>4 DEF Placed
    <3>1. CASE v = p
      BY <2>13, <3>1
    <3>2. CASE v # p
      BY <1>2, <2>5, <2>9, <3>2 DEF Placed
    <3> QED BY <3>1, <3>2
  <2>15. Formed'
    <3>1. ASSUME NEW s \in Gram!Servers
          PROVE  /\ \A m \in Mail(inbox'[s]) : Request(m)
                 /\ got[s] = Gram!None \/ Request(got[s])
                 /\ agent'[s].k >= Answers => got[s] # Gram!None
      <4>1. /\ \A m \in Mail(inbox[s]) : Request(m)
            /\ got[s] = Gram!None \/ Request(got[s])
            /\ agent[s].k >= Answers => got[s] # Gram!None
        BY <1>2 DEF Formed
      <4>2. s \in Gram!Programs /\ agent'[s] = agent[s]
        BY <2>9
      <4>3. Mail(inbox'[s]) = Mail(inbox[s]) \/ Mail(inbox'[s]) = Mail(inbox[s]) \cup {e}
        BY <2>8, <4>2
      <4>4. \A m \in Mail(inbox'[s]) : Request(m)
        BY <2>6, <4>1, <4>3
      <4> QED BY <4>1, <4>2, <4>4
    <3>2. ASSUME NEW v \in Visitors
          PROVE  /\ \A m \in Mail(inbox'[v]) : Reply(m) \/ (pair = "raw" /\ Request(m))
                 /\ got[v] = Gram!None \/ Reply(got[v])
      BY <1>2, <2>6, <2>7, <2>8, <2>9 DEF Formed
    <3> QED BY <1>3, <2>4, <3>1, <3>2 DEF Formed
  <2>16. /\ \A u : \A s \in Gram!Servers : Asked(s, u)' => Asked(s, u) \/ (u = p /\ s = bound["server"])
         /\ \A s \in Gram!Servers : ~Asked(s, p)
    <3>1. \A s \in Gram!Servers : ~Asked(s, p)
      BY <1>1, <1>2, <2>2 DEF Sole
    <3>2. ASSUME NEW u, NEW s \in Gram!Servers, Asked(s, u)' PROVE Asked(s, u) \/ (u = p /\ s = bound["server"])
      BY <1>3, <2>6, <2>7, <2>8, <2>9, <3>2 DEF Asked
    <3> QED BY <3>1, <3>2
  <2>17. \A v \in Visitors : agent[v].k \in Int /\ agent'[v].k \in Int /\ agent'[v].k >= agent[v].k
    <3>1. \A a \in AgentRecords : a.k \in Int
      BY DEF AgentRecords
    <3> QED BY <1>1, <1>2, <2>2, <2>3, <2>5, <2>9, <3>1
  <2>18. Sole'
    <3>1. ASSUME NEW u \in Visitors, NEW s \in Gram!Servers, Asked(s, u)' PROVE agent'[u].k > Sends
      <4>1. CASE u = p
        BY <2>2, <2>3, <2>5, <4>1
      <4>2. CASE u # p
        BY <1>2, <2>2, <2>16, <2>17, <3>1, <4>2, SMTT(30) DEF Sole
      <4> QED BY <4>1, <4>2
    <3>2. ASSUME NEW u \in Visitors, NEW s \in Gram!Servers, NEW t \in Gram!Servers, Asked(s, u)', Asked(t, u)' PROVE s = t
      BY <1>2, <2>16, <3>2 DEF Sole
    <3>3. ASSUME NEW s \in Gram!Servers PROVE OneEach(inbox'[s]) /\ \A m \in Mail(inbox'[s]) : m.by # got[s].by
      <4>1. OneEach(inbox[s]) /\ (\A m \in Mail(inbox[s]) : m.by # got[s].by /\ m.by # p) /\ got[s].by # p
        BY <1>2, <2>16 DEF Sole, Asked
      <4>2. CASE s \in R
        <5>1. OneEach(Append(inbox[s], e))
          <6>1. inbox[s] \in Seq(GramRecords)
            BY <1>2, <2>9
          <6> QED BY <2>6, <4>1, <6>1, MailAppended
        <5> QED BY <2>6, <2>8, <2>9, <4>1, <4>2, <5>1
      <4>3. CASE s \notin R
        BY <2>8, <2>9, <4>1, <4>3
      <4> QED BY <4>2, <4>3
    <3> QED BY <1>3, <2>4, <3>1, <3>2, <3>3 DEF Sole
  <2>19. \A m : \A w \in Visitors : Told(w, m)' => Told(w, m) \/ (m = e /\ pair = "raw")
    BY <1>3, <2>7, <2>8, <2>9 DEF Told
  <2>20. InTime'
    <3>1. ASSUME NEW w \in Visitors, NEW u \in Visitors, NEW m \in GramRecords, Told(w, m)', Reply(m), m.to = u PROVE agent'[u].k > Sends
      <4>1. Told(w, m)
        BY <2>6, <2>19, <3>1
      <4>2. agent[u].k > Sends
        BY <1>2, <3>1, <4>1 DEF InTime
      <4> QED BY <2>2, <2>17, <4>2
    <3>2. ASSUME pair # "raw", NEW v \in Visitors PROVE got[v] # Gram!None <=> agent'[v].k > Sends + 1
      <4>1. got[v] # Gram!None <=> agent[v].k > Sends + 1
        BY <1>2, <3>2 DEF InTime
      <4>2. CASE v = p
        BY <1>1, <2>2, <2>3, <2>5, <4>1, <4>2
      <4>3. CASE v # p
        BY <2>5, <2>9, <4>1, <4>3
      <4> QED BY <4>2, <4>3
    <3> QED BY <1>3, <2>4, <3>1, <3>2 DEF InTime
  <2>21. Pending'
    <3> SUFFICES ASSUME AtPaths, NEW s \in Gram!Servers, NEW u \in Visitors, Awaits(s, u)'
                 PROVE  /\ \A w \in Visitors, m \in GramRecords : Told(w, m)' => m.to # u
                        /\ u \in robbed \/ got[u] # Gram!None \/ (bound["client"] = u /\ u \in socks)
      BY <1>3, <2>1, <2>4 DEF Pending
    <3>1. pair # "raw"
      BY DEF AtPaths
    <3>2. CASE u = p
      <4>1. ASSUME NEW w \in Visitors, NEW m \in GramRecords, Told(w, m), m.to = u PROVE FALSE
        <5>1. Reply(m)
          BY <1>2, <3>1, <4>1, <2>9, GramConstants DEF Formed, Told
        <5>2. agent[u].k > Sends
          BY <1>2, <4>1, <5>1 DEF InTime
        <5> QED BY <1>1, <2>2, <3>2, <5>2
      <4> QED BY <2>13, <2>19, <3>1, <3>2, <4>1
    <3>3. CASE u # p
      <4>1. Awaits(s, u)
        BY <1>3, <2>4, <2>6, <2>8, <2>9, <3>3 DEF Awaits
      <4> QED BY <1>2, <2>19, <3>1, <4>1 DEF Pending
    <3> QED BY <3>2, <3>3
  <2>22. Delivered'
    <3> SUFFICES ASSUME pair # "raw", NEW w \in Visitors, NEW m \in GramRecords, Told(w, m)', Reply(m)
                 PROVE  m.to = w \/ (robbed # {} /\ (m.to \in robbed \/ Gram!Misled(m.to)'))
      BY <1>3, <2>4 DEF Delivered
    <3>1. Gram!Misled(m.to)' <=> Gram!Misled(m.to)
      BY <1>3 DEF Gram!Misled, Gram!None
    <3> QED BY <1>2, <2>19, <3>1 DEF Delivered
  <2> QED BY <2>10, <2>11, <2>12, <2>14, <2>15, <2>18, <2>20, <2>21, <2>22 DEF GramInv
<1> QED BY <1>4, <1>5

\* the server its answer;
LEMMA GramAnswers == ASSUME GramInv, NEW p \in Gram!Programs, Gram!Answer(p) PROVE GramInv'
<1> DEFINE u0 == got[p].by
           e == [by |-> p, from |-> Gram!Address(p), for |-> got[p].from, to |-> u0]
           R == Gram!Reach(got[p].from)
<1>1. agent[p].at = "run" /\ p \in Gram!Servers /\ p \notin Visitors /\ agent[p].k = Answers
  BY GramFacts, GramCalls DEF Gram!Answer
<1>2. /\ GramTypes /\ OwnAddress /\ Placed /\ Formed /\ Sole /\ InTime /\ Pending /\ Delivered /\ pair \in Gram!Kinds
      /\ \A q \in Gram!Programs : InPlace(q)
      /\ bound \in [{"server", "client"} -> Gram!Programs \cup {0}] /\ inbox \in [Gram!Programs -> Seq(GramRecords)]
      /\ agent \in [Gram!Programs -> AgentRecords] /\ got \in [Gram!Programs -> GramRecords]
  BY DEF GramInv, GramTypes
<1>3. UNCHANGED <<pair, got, robbed>>
  BY DEF Gram!Answer, Gram!SendTo
<1>4. CASE Gram!Paths /\ Gram!SocketAt(got[p].from) = {}
  <2>1. Gram!Exits(p, "failed")
    BY <1>4 DEF Gram!Answer, Gram!SendTo
  <2>2. robbed \subseteq Gram!Programs
    BY <1>2 DEF GramTypes
  <2> QED BY <1>1, <1>3, <2>1, <2>2, GramExits
<1>5. CASE ~(Gram!Paths /\ Gram!SocketAt(got[p].from) = {})
  <2>1. /\ Gram!GoesOn(p) /\ UNCHANGED <<socks, bound>>
        /\ inbox' = [q \in Gram!Programs |-> IF q \in R THEN Append(inbox[q], e) ELSE inbox[q]]
    BY <1>5 DEF Gram!Answer, Gram!SendTo
  <2>2. /\ Sends \in {1, 2, 3} /\ Answers \in {3, 4} /\ GramShuts(p) >= Answers /\ GramShuts(p) <= GramLong(p)
        /\ GramShuts(p) \in {3, 4, 5} /\ GramLong(p) \in {3, 4, 6}
        /\ (pair # "multi" => GramShuts(p) = Answers + 1) /\ (pair = "multi" => GramLong(p) = Answers /\ Answers = 3)
    <3>1. pair = "multi" => GramLong(p) = 3 /\ Answers = 3
      BY <1>1 DEF GramLong, GramShuts, Answers
    <3> QED BY <1>1, <1>2, <3>1, GramNumbers
  <2>3. PICK r \in AgentRecords : /\ agent' = [agent EXCEPT ![p] = r] /\ r.at = "run" /\ r.k # Answers
                                  /\ r.k <= GramShuts(p) /\ r.k <= GramLong(p)
    <3>1. GramTypes /\ InPlace(p)
      BY GramFacts
    <3>2. PICK r \in AgentRecords :
             /\ agent' = [agent EXCEPT ![p] = r]
             /\ r.at = (IF agent[p].k = GramLong(p) /\ ~(pair = "multi" /\ p \in Gram!Servers) THEN "done" ELSE "run")
             /\ r.k = IF agent[p].k # GramLong(p) THEN agent[p].k + 1 ELSE IF pair = "multi" /\ p \in Gram!Servers THEN 2 ELSE agent[p].k
      BY <1>1, <2>1, <3>1, GramGoesOn
    <3>3. CASE pair = "multi"
      <4>1. r.at = "run" /\ r.k = 2
        BY <1>1, <2>2, <3>2, <3>3
      <4>2. r.k # Answers /\ r.k <= GramShuts(p) /\ r.k <= GramLong(p)
        BY <2>2, <4>1
      <4> QED BY <3>2, <4>1, <4>2
    <3>4. CASE pair # "multi"
      <4>1. agent[p].k # GramLong(p)
        BY <1>1, <2>2, <3>4
      <4>2. r.at = "run" /\ r.k = Answers + 1
        BY <1>1, <3>2, <4>1
      <4>3. r.k # Answers /\ r.k <= GramShuts(p) /\ r.k <= GramLong(p)
        BY <2>2, <3>4, <4>2
      <4> QED BY <3>2, <4>2, <4>3
    <3> QED BY <3>3, <3>4
  <2>4. /\ Sends' = Sends /\ Answers' = Answers /\ AtPaths' = AtPaths
        /\ \A q : GramShuts(q)' = GramShuts(q) /\ GramLong(q)' = GramLong(q) /\ Gram!Address(q)' = Gram!Address(q)
        /\ \A m : (Request(m)' <=> Request(m)) /\ (Reply(m)' <=> Reply(m))
    BY <1>3, GramSame
  <2>5. agent' \in [Gram!Programs -> AgentRecords] /\ agent'[p] = r /\ \A q \in Gram!Programs \ {p} : agent'[q] = agent[q]
    BY <1>2, <2>3, GramMoves
  <2>6. /\ \A v \in Visitors : v \in Gram!Programs /\ v \notin Gram!Servers /\ v # p /\ agent'[v] = agent[v] /\ v # 0
        /\ \A s \in Gram!Servers : s \in Gram!Programs /\ s \notin Visitors /\ s # 0
    BY <1>1, <2>5, GramConstants
  <2>7. got[p] # Gram!None /\ Request(got[p]) /\ u0 \in Visitors /\ got[p].from = Gram!Address(u0)
    <3>1. agent[p].k >= Answers
      BY <1>1, <2>2
    <3> QED BY <1>1, <1>2, <3>1 DEF Formed, Request
  <2>8. e \in GramRecords /\ e.by = p /\ e.to = u0 /\ Reply(e)
    <3>1. Gram!Address(p) \in GramPlaces /\ Gram!Address(u0) \in GramPlaces
      BY <1>1, <2>7 DEF Gram!Address, GramPlaces
    <3>2. e.by = p /\ e.to = u0 /\ e.for = Gram!Address(u0) /\ u0 \in Gram!Programs /\ e \in GramRecords
      BY <2>6, <2>7, <3>1 DEF GramRecords
    <3> QED BY <1>1, <2>7, <3>2 DEF Reply
  <2>9. \A q \in R : q \in socks /\ q \in Visitors /\ (pair = "multi" => q = u0) /\ (AtPaths => q = bound["client"])
    BY <2>7, ReachOf
  <2> HIDE DEF e, R, u0
  <2>10. /\ inbox' \in [Gram!Programs -> Seq(GramRecords)]
         /\ \A q \in Gram!Programs : IF q \in R THEN inbox'[q] = Append(inbox[q], e) /\ Mail(inbox'[q]) = Mail(inbox[q]) \cup {e}
                                     ELSE inbox'[q] = inbox[q]
         /\ \A s \in Gram!Servers : inbox'[s] = inbox[s]
    <3>1. \A q \in Gram!Programs : Append(inbox[q], e) \in Seq(GramRecords) /\ Mail(Append(inbox[q], e)) = Mail(inbox[q]) \cup {e}
      BY <1>2, <2>8, MailAppended
    <3>2. \A s \in Gram!Servers : s \notin R
      BY <2>6, <2>9
    <3> QED BY <1>2, <2>1, <2>6, <3>1, <3>2
  <2>11. GramTypes'
    BY <1>2, <1>3, <2>1, <2>5, <2>10 DEF GramTypes
  <2>12. ASSUME NEW q \in Gram!Programs PROVE InPlace(q)'
    <3>1. CASE q = p
      <4>1. p \in socks
        BY <1>1, <1>2, <2>2 DEF InPlace
      <4> QED BY <2>1, <2>3, <2>4, <2>5, <3>1, <4>1 DEF InPlace
    <3>2. CASE q # p
      BY <1>2, <2>1, <2>4, <2>5, <2>9, <2>10, <3>2 DEF InPlace
    <3> QED BY <3>1, <3>2
  <2>13. OwnAddress'
    BY <1>2, <2>1, <2>4 DEF OwnAddress
  <2>14. Placed'
    BY <1>2, <1>3, <2>1, <2>4, <2>6 DEF Placed
  <2>15. Formed'
    <3>1. ASSUME NEW s \in Gram!Servers
          PROVE  /\ \A m \in Mail(inbox'[s]) : Request(m)
                 /\ got[s] = Gram!None \/ Request(got[s])
                 /\ agent'[s].k >= Answers => got[s] # Gram!None
      <4>1. CASE s = p
        BY <1>2, <2>7, <2>10, <4>1 DEF Formed
      <4>2. CASE s # p
        BY <1>2, <2>5, <2>6, <2>10, <4>2 DEF Formed
      <4> QED BY <4>1, <4>2
    <3>2. ASSUME NEW v \in Visitors
          PROVE  /\ \A m \in Mail(inbox'[v]) : Reply(m) \/ (pair = "raw" /\ Request(m))
                 /\ got[v] = Gram!None \/ Reply(got[v])
      <4>1. /\ \A m \in Mail(inbox[v]) : Reply(m) \/ (pair = "raw" /\ Request(m))
            /\ got[v] = Gram!None \/ Reply(got[v])
        BY <1>2 DEF Formed
      <4>2. v \in Gram!Programs
        BY <2>6
      <4>3. Mail(inbox'[v]) = Mail(inbox[v]) \/ Mail(inbox'[v]) = Mail(inbox[v]) \cup {e}
        BY <2>10, <4>2
      <4>4. \A m \in Mail(inbox'[v]) : Reply(m) \/ (pair = "raw" /\ Request(m))
        BY <2>8, <4>1, <4>3
      <4> QED BY <4>1, <4>4
    <3> QED BY <1>3, <2>4, <3>1, <3>2 DEF Formed
  <2>16. \A u : \A s \in Gram!Servers : Asked(s, u)' <=> Asked(s, u)
    BY <1>3, <2>10 DEF Asked
  <2>17. Sole'
    <3>1. \A u \in Visitors, s \in Gram!Servers : Asked(s, u)' => agent'[u].k > Sends
      BY <1>2, <2>6, <2>16 DEF Sole
    <3>2. \A u \in Visitors, s, t \in Gram!Servers : Asked(s, u)' /\ Asked(t, u)' => s = t
      BY <1>2, <2>16 DEF Sole
    <3>3. \A s \in Gram!Servers : OneEach(inbox'[s]) /\ \A m \in Mail(inbox'[s]) : m.by # got[s].by
      BY <1>2, <2>10 DEF Sole
    <3> QED BY <1>3, <2>4, <3>1, <3>2, <3>3 DEF Sole
  <2>18. \A m : \A w \in Visitors : Told(w, m)' => Told(w, m) \/ (m = e /\ w \in R)
    BY <1>3, <2>6, <2>10 DEF Told
  <2>19. Asked(p, u0) /\ Awaits(p, u0) /\ agent[u0].k > Sends
    <3>1. Asked(p, u0) /\ Awaits(p, u0)
      BY <1>1 DEF Asked, Awaits, u0
    <3> QED BY <1>1, <1>2, <2>7, <3>1 DEF Sole
  <2>20. InTime'
    <3>1. ASSUME NEW w \in Visitors, NEW u \in Visitors, NEW m \in GramRecords, Told(w, m)', Reply(m), m.to = u PROVE agent'[u].k > Sends
      <4>1. CASE Told(w, m)
        BY <1>2, <2>6, <3>1, <4>1 DEF InTime
      <4>2. CASE m = e
        BY <2>6, <2>8, <2>19, <3>1, <4>2
      <4> QED BY <2>18, <3>1, <4>1, <4>2
    <3>2. pair # "raw" => \A v \in Visitors : got[v] # Gram!None <=> agent'[v].k > Sends + 1
      BY <1>2, <2>6 DEF InTime
    <3> QED BY <1>3, <2>4, <3>1, <3>2 DEF InTime
  <2>21. Pending'
    <3> SUFFICES ASSUME AtPaths, NEW s \in Gram!Servers, NEW u \in Visitors, Awaits(s, u)'
                 PROVE  /\ \A w \in Visitors, m \in GramRecords : Told(w, m)' => m.to # u
                        /\ u \in robbed \/ got[u] # Gram!None \/ (bound["client"] = u /\ u \in socks)
      BY <1>3, <2>1, <2>4 DEF Pending
    <3>1. Awaits(s, u) /\ u # u0
      <4>1. CASE s = p
        <5>1. \E m \in Mail(inbox[p]) : m.by = u
          BY <1>1, <2>3, <2>4, <2>5, <2>10, <4>1 DEF Awaits
        <5> QED BY <1>1, <1>2, <4>1, <5>1 DEF Awaits, Sole, u0
      <4>2. CASE s # p
        <5>1. Awaits(s, u) /\ Asked(s, u)
          BY <1>3, <2>4, <2>5, <2>6, <2>10, <4>2 DEF Awaits, Asked
        <5>2. u # u0
          BY <1>1, <1>2, <2>19, <4>2, <5>1 DEF Sole
        <5> QED BY <5>1, <5>2
      <4> QED BY <4>1, <4>2
    <3> QED BY <1>2, <2>8, <2>18, <3>1 DEF Pending
  <2>22. Delivered'
    <3> SUFFICES ASSUME pair # "raw", NEW w \in Visitors, NEW m \in GramRecords, Told(w, m)', Reply(m)
                 PROVE  m.to = w \/ (robbed # {} /\ (m.to \in robbed \/ Gram!Misled(m.to)'))
      BY <1>3, <2>4 DEF Delivered
    <3>1. Gram!Misled(m.to)' <=> Gram!Misled(m.to)
      BY <1>3 DEF Gram!Misled, Gram!None
    <3>2. CASE Told(w, m)
      BY <1>2, <3>1, <3>2 DEF Delivered
    <3>3. CASE m = e /\ w \in R
      <4>1. CASE pair = "multi"
        BY <2>8, <2>9, <3>3, <4>1
      <4>2. CASE AtPaths
        <5>1. w = bound["client"] /\ m.to = u0
          BY <2>8, <2>9, <3>3, <4>2
        <5>2. /\ \A v \in Visitors, n \in GramRecords : Told(v, n) => n.to # u0
              /\ u0 \in robbed \/ got[u0] # Gram!None \/ bound["client"] = u0
          BY <1>1, <1>2, <2>7, <2>19, <4>2 DEF Pending
        <5>3. CASE u0 \in robbed
          BY <5>1, <5>3
        <5>4. CASE bound["client"] = u0
          BY <5>1, <5>4
        <5>5. CASE got[u0] # Gram!None
          <6>1. Told(u0, got[u0]) /\ got[u0] \in GramRecords /\ Reply(got[u0])
            BY <1>2, <2>6, <2>7, <5>5 DEF Told, Formed
          <6>2. got[u0].to # u0
            BY <2>7, <5>2, <6>1
          <6>3. robbed # {}
            BY <1>2, <2>7, <6>1, <6>2 DEF Delivered
          <6>4. Gram!Misled(u0)
            BY <5>5, <6>2 DEF Gram!Misled
          <6> QED BY <3>1, <5>1, <6>3, <6>4
        <5> QED BY <5>2, <5>3, <5>4, <5>5
      <4> QED BY <1>2, <4>1, <4>2, GramConstants DEF AtPaths
    <3> QED BY <2>18, <3>2, <3>3
  <2> QED BY <2>11, <2>12, <2>13, <2>14, <2>15, <2>17, <2>20, <2>21, <2>22 DEF GramInv
<1> QED BY <1>4, <1>5

\* a client takes a reply;
LEMMA GramTakes ==
  ASSUME GramInv, NEW p \in Visitors, agent[p].at = "run", agent[p].k = Sends + 1, inbox[p] # <<>>,
         NEW r \in AgentRecords, agent' = [agent EXCEPT ![p] = r], r.at = "run", r.k \in {Sends + 1, Sends + 2},
         NEW g \in GramRecords, got' = [got EXCEPT ![p] = g], g \in {got[p], Head(inbox[p])}, g = Gram!None \/ Reply(g),
         pair # "raw" => g = Head(inbox[p]) /\ r.k = Sends + 2,
         inbox' = [inbox EXCEPT ![p] = Tail(inbox[p])], UNCHANGED <<pair, socks, bound, robbed>>
  PROVE  GramInv'
<1>1. /\ GramTypes /\ OwnAddress /\ Placed /\ Formed /\ Sole /\ InTime /\ Pending /\ Delivered /\ pair \in Gram!Kinds
      /\ \A q \in Gram!Programs : InPlace(q)
      /\ inbox \in [Gram!Programs -> Seq(GramRecords)]
      /\ agent \in [Gram!Programs -> AgentRecords] /\ got \in [Gram!Programs -> GramRecords]
  BY DEF GramInv, GramTypes
<1>2. /\ \A v \in Visitors : v \in Gram!Programs /\ v \notin Gram!Servers
      /\ \A s \in Gram!Servers : s \in Gram!Programs /\ s \notin Visitors /\ s # 0 /\ s # p
  BY GramConstants
<1>3. /\ Sends' = Sends /\ Answers' = Answers /\ AtPaths' = AtPaths
      /\ \A q : GramShuts(q)' = GramShuts(q) /\ GramLong(q)' = GramLong(q) /\ Gram!Address(q)' = Gram!Address(q)
      /\ \A m : (Request(m)' <=> Request(m)) /\ (Reply(m)' <=> Reply(m))
  BY GramSame
<1>4. agent' \in [Gram!Programs -> AgentRecords] /\ agent'[p] = r /\ \A q \in Gram!Programs \ {p} : agent'[q] = agent[q]
  BY <1>1, <1>2, GramMoves
<1>5. /\ Head(inbox[p]) \in Mail(inbox[p]) /\ Tail(inbox[p]) \in Seq(GramRecords) /\ Mail(Tail(inbox[p])) \subseteq Mail(inbox[p])
  BY <1>1, <1>2, MailTaken
<1>6. /\ inbox' \in [Gram!Programs -> Seq(GramRecords)] /\ got' \in [Gram!Programs -> GramRecords]
      /\ \A q \in Gram!Programs : q # p => inbox'[q] = inbox[q] /\ got'[q] = got[q]
      /\ got'[p] = g /\ Mail(inbox'[p]) \subseteq Mail(inbox[p])
  BY <1>1, <1>2, <1>5
<1>7. Sends \in {1, 2, 3} /\ GramShuts(p) = Sends + 2 /\ GramShuts(p) <= GramLong(p) /\ GramLong(p) \in {3, 4, 6}
  BY <1>1, <1>2, GramNumbers
<1>8. GramTypes'
  BY <1>1, <1>4, <1>6 DEF GramTypes
<1>9. ASSUME NEW q \in Gram!Programs PROVE InPlace(q)'
  <2>1. CASE q = p
    <3>1. p \in socks
      BY <1>1, <1>2, <1>7 DEF InPlace
    <3>2. r.k <= GramShuts(p) /\ r.k <= GramLong(p)
      BY <1>7
    <3> QED BY <1>3, <1>4, <2>1, <3>1, <3>2 DEF InPlace
  <2>2. CASE q # p
    BY <1>1, <1>3, <1>4, <1>6, <2>2 DEF InPlace
  <2> QED BY <2>1, <2>2
<1>10. OwnAddress'
  BY <1>1, <1>3 DEF OwnAddress
<1>11. \A v \in Visitors : agent[v].k \in Int /\ agent'[v].k \in Int /\ agent'[v].k >= agent[v].k
  <2>1. \A a \in AgentRecords : a.k \in Int
    BY DEF AgentRecords
  <2> QED BY <1>1, <1>2, <1>4, <1>7, <2>1
<1>12. Placed'
  <2> SUFFICES ASSUME AtPaths, NEW v \in Visitors, v \in socks, agent'[v].k >= Sends PROVE bound["client"] = v \/ v \in robbed
    BY <1>3 DEF Placed
  <2>1. agent[v].k >= Sends
    BY <1>2, <1>4, <1>7
  <2> QED BY <1>1, <2>1 DEF Placed
<1>13. Formed'
  <2>1. ASSUME NEW s \in Gram!Servers
        PROVE  /\ \A m \in Mail(inbox'[s]) : Request(m)
               /\ got'[s] = Gram!None \/ Request(got'[s])
               /\ agent'[s].k >= Answers => got'[s] # Gram!None
    BY <1>1, <1>2, <1>4, <1>6 DEF Formed
  <2>2. ASSUME NEW v \in Visitors
        PROVE  /\ \A m \in Mail(inbox'[v]) : Reply(m) \/ (pair = "raw" /\ Request(m))
               /\ got'[v] = Gram!None \/ Reply(got'[v])
    BY <1>1, <1>2, <1>6 DEF Formed
  <2> QED BY <1>3, <2>1, <2>2 DEF Formed
<1>14. \A u : \A s \in Gram!Servers : Asked(s, u)' <=> Asked(s, u)
  BY <1>2, <1>6 DEF Asked
<1>15. Sole'
  <2>1. \A u \in Visitors, s \in Gram!Servers : Asked(s, u)' => agent'[u].k > Sends
    BY <1>1, <1>7, <1>11, <1>14 DEF Sole
  <2>2. \A u \in Visitors, s, t \in Gram!Servers : Asked(s, u)' /\ Asked(t, u)' => s = t
    BY <1>1, <1>14 DEF Sole
  <2>3. \A s \in Gram!Servers : OneEach(inbox'[s]) /\ \A m \in Mail(inbox'[s]) : m.by # got'[s].by
    BY <1>1, <1>2, <1>6 DEF Sole
  <2> QED BY <1>3, <2>1, <2>2, <2>3 DEF Sole
<1>16. \A m : \A w \in Visitors : Told(w, m)' => Told(w, m)
  BY <1>2, <1>5, <1>6 DEF Told
<1>17. ASSUME pair # "raw" PROVE got[p] = Gram!None /\ g # Gram!None
  <2>1. got[p] = Gram!None
    <3>1. ~(agent[p].k > Sends + 1)
      BY <1>7
    <3> QED BY <1>1, <1>17, <3>1 DEF InTime
  <2>2. Reply(g)
    BY <1>1, <1>5, <1>17 DEF Formed
  <2> QED BY <1>2, <2>1, <2>2, GramConstants DEF Reply
<1>18. InTime'
  <2>1. \A w, u \in Visitors, m \in GramRecords : Told(w, m)' /\ Reply(m) /\ m.to = u => agent'[u].k > Sends
    BY <1>1, <1>7, <1>11, <1>16 DEF InTime
  <2>2. ASSUME pair # "raw", NEW v \in Visitors PROVE got'[v] # Gram!None <=> agent'[v].k > Sends + 1
    <3>1. CASE v = p
      BY <1>4, <1>6, <1>7, <1>17, <2>2, <3>1
    <3>2. CASE v # p
      BY <1>1, <1>2, <1>4, <1>6, <2>2, <3>2 DEF InTime
    <3> QED BY <3>1, <3>2
  <2> QED BY <1>3, <2>1, <2>2, GramConstants DEF InTime
<1>19. pair # "raw" => \A u \in Visitors : (got[u] # Gram!None => got'[u] # Gram!None) /\ (Gram!Misled(u) => Gram!Misled(u)')
  <2> SUFFICES ASSUME pair # "raw", NEW u \in Visitors
               PROVE  (got[u] # Gram!None => got'[u] # Gram!None) /\ (Gram!Misled(u) => Gram!Misled(u)')
    OBVIOUS
  <2>1. CASE u = p
    BY <1>6, <1>17, <2>1 DEF Gram!Misled
  <2>2. CASE u # p
    BY <1>2, <1>6, <2>2 DEF Gram!Misled, Gram!None
  <2> QED BY <2>1, <2>2
<1>20. Pending'
  <2> SUFFICES ASSUME AtPaths, NEW s \in Gram!Servers, NEW u \in Visitors, Awaits(s, u)'
               PROVE  /\ \A w \in Visitors, m \in GramRecords : Told(w, m)' => m.to # u
                      /\ u \in robbed \/ got'[u] # Gram!None \/ (bound["client"] = u /\ u \in socks)
    BY <1>3, GramConstants DEF Pending
  <2>1. Awaits(s, u)
    BY <1>2, <1>3, <1>4, <1>6 DEF Awaits
  <2>2. pair # "raw"
    BY DEF AtPaths
  <2> QED BY <1>1, <1>16, <1>19, <2>1, <2>2 DEF Pending
<1>21. Delivered'
  <2> SUFFICES ASSUME pair # "raw", NEW w \in Visitors, NEW m \in GramRecords, Told(w, m)', Reply(m)
               PROVE  m.to = w \/ (robbed # {} /\ (m.to \in robbed \/ Gram!Misled(m.to)'))
    BY <1>3 DEF Delivered
  <2>1. m.to \in Visitors
    BY DEF Reply
  <2> QED BY <1>1, <1>16, <1>19, <2>1 DEF Delivered
<1> QED BY <1>8, <1>9, <1>10, <1>12, <1>13, <1>15, <1>18, <1>20, <1>21 DEF GramInv

\* a server receives a request,
LEMMA GramServed == ASSUME GramInv, NEW p \in Gram!Servers, Gram!Recv(p) PROVE GramInv'
<1>1. p \in Gram!Programs /\ p \notin Visitors /\ agent[p].at = "run" /\ agent[p].k = Answers - 1
  <2>1. p \in Gram!Programs
    BY GramConstants
  <2> QED BY <2>1, GramFacts, GramCalls DEF Gram!Recv
<1>2. /\ GramTypes /\ OwnAddress /\ Placed /\ Formed /\ Sole /\ InTime /\ Pending /\ Delivered /\ pair \in Gram!Kinds
      /\ \A q \in Gram!Programs : InPlace(q)
      /\ inbox \in [Gram!Programs -> Seq(GramRecords)]
      /\ agent \in [Gram!Programs -> AgentRecords] /\ got \in [Gram!Programs -> GramRecords]
  BY DEF GramInv, GramTypes
<1> DEFINE g == Head(inbox[p])
<1>3. /\ Gram!GoesOn(p) /\ inbox[p] # <<>> /\ UNCHANGED <<pair, socks, bound, robbed>>
      /\ got' = [got EXCEPT ![p] = g] /\ inbox' = [inbox EXCEPT ![p] = Tail(inbox[p])]
  BY DEF Gram!Recv
<1>4. /\ Sends' = Sends /\ Answers' = Answers /\ AtPaths' = AtPaths
      /\ \A q : GramShuts(q)' = GramShuts(q) /\ GramLong(q)' = GramLong(q) /\ Gram!Address(q)' = Gram!Address(q)
      /\ \A m : (Request(m)' <=> Request(m)) /\ (Reply(m)' <=> Reply(m))
  BY <1>3, GramSame
<1>5. Answers \in {3, 4} /\ GramShuts(p) >= Answers /\ GramShuts(p) \in {3, 4, 5} /\ GramShuts(p) <= GramLong(p) /\ GramLong(p) \in {3, 4, 6}
  BY <1>2, GramNumbers
<1>6. PICK r \in AgentRecords : agent' = [agent EXCEPT ![p] = r] /\ r.at = "run" /\ r.k = Answers
  <2>1. GramTypes /\ InPlace(p)
    BY <1>1, GramFacts
  <2>2. PICK r \in AgentRecords :
           /\ agent' = [agent EXCEPT ![p] = r]
           /\ r.at = (IF agent[p].k = GramLong(p) /\ ~(pair = "multi" /\ p \in Gram!Servers) THEN "done" ELSE "run")
           /\ r.k = IF agent[p].k # GramLong(p) THEN agent[p].k + 1 ELSE IF pair = "multi" /\ p \in Gram!Servers THEN 2 ELSE agent[p].k
    BY <1>1, <1>3, <2>1, GramGoesOn
  <2>3. agent[p].k # GramLong(p)
    BY <1>1, <1>5
  <2>4. r.at = "run" /\ r.k = Answers
    BY <1>1, <1>5, <2>2, <2>3
  <2> QED BY <2>2, <2>4
<1>7. agent' \in [Gram!Programs -> AgentRecords] /\ agent'[p] = r /\ \A q \in Gram!Programs \ {p} : agent'[q] = agent[q]
  BY <1>1, <1>2, <1>6, GramMoves
<1>8. /\ g \in Mail(inbox[p]) /\ Tail(inbox[p]) \in Seq(GramRecords) /\ Mail(Tail(inbox[p])) \subseteq Mail(inbox[p]) /\ g \in GramRecords
      /\ OneEach(inbox[p]) => OneEach(Tail(inbox[p])) /\ \A m \in Mail(Tail(inbox[p])) : m.by # g.by
  BY <1>1, <1>2, <1>3, MailTaken
<1> HIDE DEF g
<1>9. /\ inbox' \in [Gram!Programs -> Seq(GramRecords)] /\ got' \in [Gram!Programs -> GramRecords]
      /\ \A q \in Gram!Programs : q # p => inbox'[q] = inbox[q] /\ got'[q] = got[q]
      /\ got'[p] = g /\ inbox'[p] = Tail(inbox[p])
  BY <1>1, <1>2, <1>3, <1>8
<1>10. /\ \A v \in Visitors : v \in Gram!Programs /\ v # p /\ v \notin Gram!Servers /\ agent'[v] = agent[v] /\ got'[v] = got[v] /\ inbox'[v] = inbox[v]
       /\ \A s \in Gram!Servers : s \in Gram!Programs /\ s \notin Visitors
  BY <1>1, <1>7, <1>9, GramConstants
<1>11. GramTypes'
  BY <1>2, <1>3, <1>7, <1>9 DEF GramTypes
<1>12. ASSUME NEW q \in Gram!Programs PROVE InPlace(q)'
  <2>1. CASE q = p
    <3>1. p \in socks
      BY <1>1, <1>2, <1>5 DEF InPlace
    <3>2. r.k <= GramShuts(p) /\ r.k <= GramLong(p)
      BY <1>5, <1>6
    <3> QED BY <1>3, <1>4, <1>6, <1>7, <2>1, <3>1, <3>2 DEF InPlace
  <2>2. CASE q # p
    BY <1>2, <1>3, <1>4, <1>7, <1>9, <2>2 DEF InPlace
  <2> QED BY <2>1, <2>2
<1>13. OwnAddress' /\ Placed'
  BY <1>2, <1>3, <1>4, <1>10 DEF OwnAddress, Placed
<1>14. Request(g) /\ g # Gram!None
  BY <1>2, <1>8, GramConstants DEF Formed, Request
<1>15. Formed'
  <2>1. ASSUME NEW s \in Gram!Servers
        PROVE  /\ \A m \in Mail(inbox'[s]) : Request(m)
               /\ got'[s] = Gram!None \/ Request(got'[s])
               /\ agent'[s].k >= Answers => got'[s] # Gram!None
    <3>1. CASE s = p
      BY <1>2, <1>8, <1>9, <1>14, <3>1 DEF Formed
    <3>2. CASE s # p
      BY <1>2, <1>7, <1>9, <1>10, <3>2 DEF Formed
    <3> QED BY <3>1, <3>2
  <2>2. ASSUME NEW v \in Visitors
        PROVE  /\ \A m \in Mail(inbox'[v]) : Reply(m) \/ (pair = "raw" /\ Request(m))
               /\ got'[v] = Gram!None \/ Reply(got'[v])
    BY <1>2, <1>10 DEF Formed
  <2> QED BY <1>3, <1>4, <2>1, <2>2 DEF Formed
<1>16. ASSUME NEW u, NEW s \in Gram!Servers, Asked(s, u)' PROVE Asked(s, u)
  <2>1. CASE s = p
    BY <1>8, <1>9, <1>16, <2>1 DEF Asked
  <2>2. CASE s # p
    BY <1>9, <1>10, <1>16, <2>2 DEF Asked
  <2> QED BY <2>1, <2>2
<1>17. Sole'
  <2>1. \A u \in Visitors, s \in Gram!Servers : Asked(s, u)' => agent'[u].k > Sends
    BY <1>2, <1>10, <1>16 DEF Sole
  <2>2. \A u \in Visitors, s, t \in Gram!Servers : Asked(s, u)' /\ Asked(t, u)' => s = t
    BY <1>2, <1>16 DEF Sole
  <2>3. \A s \in Gram!Servers : OneEach(inbox'[s]) /\ \A m \in Mail(inbox'[s]) : m.by # got'[s].by
    BY <1>2, <1>8, <1>9, <1>10 DEF Sole
  <2> QED BY <1>4, <2>1, <2>2, <2>3 DEF Sole
<1>18. \A m : \A w \in Visitors : Told(w, m)' <=> Told(w, m)
  BY <1>10 DEF Told
<1>19. InTime'
  <2>1. \A w, u \in Visitors, m \in GramRecords : Told(w, m)' /\ Reply(m) /\ m.to = u => agent'[u].k > Sends
    BY <1>2, <1>10, <1>18 DEF InTime
  <2>2. pair # "raw" => \A v \in Visitors : got'[v] # Gram!None <=> agent'[v].k > Sends + 1
    BY <1>2, <1>10 DEF InTime
  <2> QED BY <1>3, <1>4, <2>1, <2>2, GramConstants DEF InTime
<1>20. Pending'
  <2> SUFFICES ASSUME AtPaths, NEW s \in Gram!Servers, NEW u \in Visitors, Awaits(s, u)'
               PROVE  /\ \A w \in Visitors, m \in GramRecords : Told(w, m)' => m.to # u
                      /\ u \in robbed \/ got'[u] # Gram!None \/ (bound["client"] = u /\ u \in socks)
    BY <1>3, <1>4, GramConstants DEF Pending
  <2>1. Awaits(s, u)
    <3>1. CASE s = p
      BY <1>8, <1>9, <3>1 DEF Awaits
    <3>2. CASE s # p
      BY <1>4, <1>7, <1>9, <1>10, <3>2 DEF Awaits
    <3> QED BY <3>1, <3>2
  <2> QED BY <1>2, <1>10, <1>18, <2>1 DEF Pending
<1>21. Delivered'
  <2> SUFFICES ASSUME pair # "raw", NEW w \in Visitors, NEW m \in GramRecords, Told(w, m)', Reply(m)
               PROVE  m.to = w \/ (robbed # {} /\ (m.to \in robbed \/ Gram!Misled(m.to)'))
    BY <1>3, <1>4 DEF Delivered
  <2>1. m.to \in Visitors
    BY DEF Reply
  <2>2. Gram!Misled(m.to)' <=> Gram!Misled(m.to)
    BY <1>10, <2>1 DEF Gram!Misled, Gram!None
  <2> QED BY <1>2, <1>18, <2>1, <2>2 DEF Delivered
<1> QED BY <1>11, <1>12, <1>13, <1>15, <1>17, <1>19, <1>20, <1>21 DEF GramInv

\* a client its answer, or what the raw socket shows it.
LEMMA GramReceives == ASSUME GramInv, NEW p \in Gram!Programs, Gram!Recv(p) \/ Gram!Sniff(p) PROVE GramInv'
<1>1. CASE Gram!Recv(p) /\ p \in Gram!Servers
  BY <1>1, GramServed
<1> DEFINE h == Head(inbox[p])
<1>2. CASE (Gram!Recv(p) /\ p \notin Gram!Servers) \/ Gram!Sniff(p)
  <2>1. p \in Visitors /\ p \notin Gram!Servers /\ agent[p].at = "run" /\ agent[p].k = Sends + 1
    BY <1>2, GramFacts, GramCalls DEF Gram!Recv, Gram!Sniff
  <2>2. /\ inbox[p] # <<>> /\ UNCHANGED <<pair, socks, bound, robbed>> /\ inbox' = [inbox EXCEPT ![p] = Tail(inbox[p])]
        /\ (Gram!Recv(p) => pair # "raw") /\ (Gram!Sniff(p) => pair = "raw")
    BY <1>2, GramFacts, GramCalls DEF Gram!Recv, Gram!Sniff
  <2>3. /\ GramTypes /\ InPlace(p) /\ Formed /\ pair \in Gram!Kinds /\ got \in [Gram!Programs -> GramRecords]
        /\ agent \in [Gram!Programs -> AgentRecords] /\ inbox \in [Gram!Programs -> Seq(GramRecords)]
    BY DEF GramInv, GramTypes
  <2>4. h \in Mail(inbox[p]) /\ h \in GramRecords
    BY <2>2, <2>3, MailTaken
  <2>5. Sends \in {1, 2, 3} /\ GramShuts(p) = Sends + 2 /\ GramShuts(p) <= GramLong(p) /\ GramLong(p) \in {3, 4, 6}
    BY <2>1, <2>3, GramNumbers
  <2> HIDE DEF h
  <2>6. CASE Gram!GoesOn(p) /\ got' = [got EXCEPT ![p] = h] /\ Reply(h)
    <3>1. PICK r \in AgentRecords : agent' = [agent EXCEPT ![p] = r] /\ r.at = "run" /\ r.k = Sends + 2
      <4>1. PICK r \in AgentRecords :
               /\ agent' = [agent EXCEPT ![p] = r]
               /\ r.at = (IF agent[p].k = GramLong(p) /\ ~(pair = "multi" /\ p \in Gram!Servers) THEN "done" ELSE "run")
               /\ r.k = IF agent[p].k # GramLong(p) THEN agent[p].k + 1 ELSE IF pair = "multi" /\ p \in Gram!Servers THEN 2 ELSE agent[p].k
        BY <2>1, <2>3, <2>6, GramGoesOn
      <4>2. agent[p].k # GramLong(p)
        BY <2>1, <2>5
      <4>3. r.at = "run" /\ r.k = Sends + 2
        BY <2>1, <2>5, <4>1, <4>2
      <4> QED BY <4>1, <4>3
    <3>2. h \in {got[p], Head(inbox[p])} /\ h = Head(inbox[p])
      BY DEF h
    <3> QED BY <2>1, <2>2, <2>4, <2>6, <3>1, <3>2, GramTakes
  <2>7. CASE Gram!Recv(p)
    <3>1. Gram!GoesOn(p) /\ got' = [got EXCEPT ![p] = h]
      BY <2>7 DEF Gram!Recv, h
    <3>2. Reply(h)
      BY <2>1, <2>2, <2>3, <2>4, <2>7 DEF Formed
    <3> QED BY <2>6, <3>1, <3>2
  <2>8. CASE Gram!Sniff(p)
    <3>1. CASE h.for = Gram!Address(p)
      <4>1. Gram!GoesOn(p) /\ got' = [got EXCEPT ![p] = h]
        BY <2>8, <3>1 DEF Gram!Sniff, h
      <4>2. Gram!Address(p) = "client"
        BY <2>1, <2>2, <2>8 DEF Gram!Address
      <4>3. Reply(h)
        BY <2>1, <2>3, <2>4, <3>1, <4>2 DEF Formed, Request
      <4> QED BY <2>6, <4>1, <4>3
    <3>2. CASE h.for # Gram!Address(p)
      <4> DEFINE r == agent[p]
      <4>1. agent' = agent /\ got' = [got EXCEPT ![p] = got[p]]
        BY <2>8, <3>2 DEF Gram!Sniff, h
      <4>2. agent' = [agent EXCEPT ![p] = r] /\ r \in AgentRecords /\ got[p] \in GramRecords
        BY <2>3, <4>1
      <4>3. got[p] = Gram!None \/ Reply(got[p])
        BY <2>1, <2>3 DEF Formed
      <4>4. r.at = "run" /\ r.k \in {Sends + 1, Sends + 2} /\ got[p] \in {got[p], Head(inbox[p])}
        BY <2>1
      <4> HIDE DEF r
      <4> QED BY <2>1, <2>2, <2>8, <4>1, <4>2, <4>3, <4>4, GramTakes
    <3> QED BY <3>1, <3>2
  <2> QED BY <1>2, <2>7, <2>8
<1> QED BY <1>1, <1>2

\* The invariant holds when nobody has started.
LEMMA GramOpen == Gram!Init => GramInv
<1> SUFFICES ASSUME Gram!Init PROVE GramInv
  OBVIOUS
<1> DEFINE new == [at |-> "new", k |-> 1]
<1>1. /\ pair \in Gram!Kinds /\ socks = {} /\ robbed = {} /\ bound = [a \in {"server", "client"} |-> 0]
      /\ agent = [p \in Gram!Programs |-> new] /\ inbox = [p \in Gram!Programs |-> <<>>]
      /\ got = [p \in Gram!Programs |-> Gram!None]
  BY GramConstants DEF Gram!Init
<1>2. new \in AgentRecords /\ new.at = "new" /\ new.k = 1
  BY DEF AgentRecords, AgentPlaces
<1> HIDE DEF new
<1>3. /\ \A p \in Gram!Programs : agent[p] = new /\ inbox[p] = <<>> /\ got[p] = Gram!None
      /\ bound["server"] = 0 /\ bound["client"] = 0
      /\ \A v \in Visitors : v \in Gram!Programs /\ v # 0
      /\ \A s \in Gram!Servers : s \in Gram!Programs
  BY <1>1, GramConstants
<1>4. GramTypes
  BY <1>1, <1>2, NoMail, GramConstants DEF GramTypes
<1>5. Sends \in {1, 2, 3} /\ Answers \in {3, 4} /\ \A p : GramLong(p) \in {3, 4, 6}
  BY <1>1, GramNumbers
<1>6. ASSUME NEW p \in Gram!Programs PROVE InPlace(p)
  <2>1. 1 <= GramLong(p)
    BY <1>5
  <2> QED BY <1>1, <1>2, <1>3, <2>1 DEF InPlace
<1>7. OwnAddress /\ Placed /\ Formed
  BY <1>1, <1>2, <1>3, <1>5, NoMail DEF OwnAddress, Placed, Formed
<1>8. /\ \A s \in Gram!Servers, u \in Visitors : ~Asked(s, u) /\ ~Awaits(s, u)
      /\ \A w \in Visitors, m \in GramRecords : Told(w, m) => m = Gram!None
  BY <1>3, NoMail, GramConstants DEF Asked, Awaits, Told
<1>9. Sole
  BY <1>3, <1>8, NoMail DEF Sole
<1>10. InTime
  <2>1. \A w, u \in Visitors, m \in GramRecords : ~(Told(w, m) /\ m.to = u)
    BY <1>3, <1>8, GramConstants
  <2>2. \A v \in Visitors : got[v] = Gram!None /\ ~(agent[v].k > Sends + 1)
    BY <1>2, <1>3, <1>5
  <2> QED BY <2>1, <2>2 DEF InTime
<1>11. Pending
  BY <1>8 DEF Pending
<1>12. Delivered
  BY <1>8, GramConstants DEF Delivered, Reply
<1> QED BY <1>4, <1>6, <1>7, <1>9, <1>10, <1>11, <1>12 DEF GramInv

\* Every step of the datagrams keeps the invariant.
LEMMA GramKept == GramInv /\ [Gram!Next]_(Gram!gramVars) => GramInv'
<1> SUFFICES ASSUME GramInv, [Gram!Next]_(Gram!gramVars) PROVE GramInv'
  OBVIOUS
<1>1. CASE UNCHANGED Gram!gramVars
  <2>1. UNCHANGED <<pair, agent, socks, bound, inbox, got, robbed>>
    BY <1>1 DEF Gram!gramVars
  <2>2. /\ Sends' = Sends /\ Answers' = Answers /\ AtPaths' = AtPaths
        /\ \A q : GramShuts(q)' = GramShuts(q) /\ GramLong(q)' = GramLong(q) /\ Gram!Address(q)' = Gram!Address(q)
        /\ \A m : (Request(m)' <=> Request(m)) /\ (Reply(m)' <=> Reply(m))
    BY <2>1, GramSame
  <2>3. GramTypes' /\ OwnAddress' /\ Placed'
    BY <2>1, <2>2 DEF GramInv, GramTypes, OwnAddress, Placed
  <2>4. Formed'
    BY <2>1, <2>2 DEF GramInv, Formed
  <2>5. \A s, u : (Asked(s, u)' <=> Asked(s, u)) /\ (Awaits(s, u)' <=> Awaits(s, u)) /\ (Told(s, u)' <=> Told(s, u))
    BY <2>1, <2>2 DEF Asked, Awaits, Told
  <2>6. Sole'
    BY <2>1, <2>2, <2>5 DEF GramInv, Sole
  <2>7. InTime'
    BY <2>1, <2>2, <2>5, GramConstants DEF GramInv, InTime
  <2>8. Pending'
    BY <2>1, <2>2, <2>5, GramConstants DEF GramInv, Pending
  <2>9. \A u : Gram!Misled(u)' <=> Gram!Misled(u)
    BY <2>1 DEF Gram!Misled, Gram!None
  <2>10. Delivered'
    BY <2>1, <2>2, <2>5, <2>9 DEF GramInv, Delivered
  <2>11. \A p \in Gram!Programs : InPlace(p)'
    BY <2>1, <2>2 DEF GramInv, InPlace
  <2> QED BY <2>3, <2>4, <2>6, <2>7, <2>8, <2>10, <2>11 DEF GramInv
<1>2. CASE Gram!Next
  <2>1. PICK p \in Gram!Programs : Gram!Start(p) \/ Gram!CallStep(p) \/ Gram!Kill(p)
    BY <1>2 DEF Gram!Next
  <2>2. CASE Gram!Start(p)
    BY <2>2, GramStarts
  <2>3. CASE Gram!Kill(p)
    BY <2>3, GramKilled
  <2>4. CASE Gram!CallStep(p)
    BY <2>4, GramUnlinks, GramBinds, GramAsks, GramAnswers, GramReceives, GramShut DEF Gram!CallStep
  <2> QED BY <2>1, <2>2, <2>3, <2>4
<1> QED BY <1>1, <1>2

\* What the runs check of the datagrams follows from it.
LEMMA GramSafe == GramInv => Gram!TypeOK /\ Gram!AnsweredByName
<1> SUFFICES ASSUME GramInv PROVE Gram!TypeOK /\ Gram!AnsweredByName
  OBVIOUS
<1>1. /\ GramTypes /\ OwnAddress /\ Formed /\ Sole /\ Delivered /\ pair \in Gram!Kinds /\ socks \subseteq Gram!Programs
      /\ robbed \subseteq Gram!Programs /\ \A q \in Gram!Programs : InPlace(q)
      /\ bound \in [{"server", "client"} -> Gram!Programs \cup {0}] /\ inbox \in [Gram!Programs -> Seq(GramRecords)]
      /\ agent \in [Gram!Programs -> AgentRecords] /\ got \in [Gram!Programs -> GramRecords]
  BY DEF GramInv, GramTypes
<1>2. /\ \A v \in Visitors : v \in Gram!Programs /\ v \notin Gram!Servers /\ v # 0
      /\ \A s \in Gram!Servers : s \in Gram!Programs /\ s \notin Visitors /\ s # 0
  BY GramConstants
<1>3. ASSUME NEW p \in Gram!Programs
      PROVE  /\ agent[p].at \in AgentPlaces /\ agent[p].k \in DOMAIN Gram!MyScript(p)
             /\ agent[p].at = "new" => p \notin socks
             /\ \A g \in {got[p]} \cup {inbox[p][k] : k \in DOMAIN inbox[p]} : g.by \in Gram!Programs \cup {0}
  <2>1. /\ agent[p].at \in AgentPlaces /\ agent[p].k \in 1 .. 6 /\ InPlace(p)
        /\ inbox[p] \in Seq(GramRecords) /\ got[p] \in GramRecords
    BY GramFacts
  <2>2. Len(Gram!MyScript(p)) = GramLong(p) /\ GramLong(p) \in {3, 4, 6}
    BY <1>1, <2>1, GramCalls, GramNumbers
  <2>3. DOMAIN Gram!MyScript(p) = 1 .. Len(Gram!MyScript(p))
    <3>1. DOMAIN Gram!InetServer = 1 .. Len(Gram!InetServer)
      BY DEF Gram!InetServer
    <3>2. DOMAIN Gram!InetClient = 1 .. Len(Gram!InetClient)
      BY DEF Gram!InetClient
    <3>3. DOMAIN Gram!LocalServer = 1 .. Len(Gram!LocalServer)
      BY DEF Gram!LocalServer
    <3>4. DOMAIN Gram!LocalClient = 1 .. Len(Gram!LocalClient)
      BY DEF Gram!LocalClient
    <3>5. DOMAIN Gram!MultiServer = 1 .. Len(Gram!MultiServer)
      BY DEF Gram!MultiServer
    <3>6. DOMAIN Gram!MultiClient = 1 .. Len(Gram!MultiClient)
      BY DEF Gram!MultiClient
    <3>7. DOMAIN Gram!RawClient = 1 .. Len(Gram!RawClient)
      BY DEF Gram!RawClient
    <3>8. Gram!MyScript(p) \in {Gram!InetServer, Gram!InetClient, Gram!LocalServer, Gram!LocalClient,
                               Gram!MultiServer, Gram!MultiClient, Gram!RawClient}
      BY <1>1, GramConstants DEF Gram!MyScript, Gram!Script, Gram!RawServer
    <3> QED BY <3>1, <3>2, <3>3, <3>4, <3>5, <3>6, <3>7, <3>8
  <2>4. agent[p].k \in DOMAIN Gram!MyScript(p)
    BY <2>1, <2>2, <2>3 DEF InPlace
  <2>5. agent[p].at = "new" => p \notin socks
    BY <2>1 DEF InPlace
  <2>6. \A k \in DOMAIN inbox[p] : inbox[p][k] \in GramRecords
    BY <2>1
  <2> QED BY <2>1, <2>4, <2>5, <2>6 DEF GramRecords
<1>4. Gram!TypeOK
  <2>1. \A a \in DOMAIN bound : bound[a] \in Gram!Programs \cup {0} /\ (bound[a] = 0 \/ Gram!Address(bound[a]) = a)
    BY <1>1 DEF OwnAddress
  <2> QED BY <1>1, <1>3, <2>1, GramConstants DEF Gram!TypeOK, AgentPlaces
<1>5. \A s \in Gram!Servers : got[s] # Gram!None => got[s].by \in Visitors
  BY <1>1 DEF Formed, Request
<1>6. \A s, t \in Gram!Servers : s # t /\ got[s] # Gram!None => got[s] # got[t]
  BY <1>1, <1>5 DEF Sole, Asked
<1>7. ASSUME NEW v \in Visitors, got[v] # Gram!None
      PROVE  /\ got[v].by \in Gram!Servers /\ got[v].to \in Visitors
             /\ pair # "raw" => got[v].to = v \/ (robbed # {} /\ (got[v].to \in robbed \/ Gram!Misled(got[v].to)))
  <2>1. Reply(got[v]) /\ got[v] \in GramRecords /\ Told(v, got[v])
    BY <1>1, <1>2, <1>7 DEF Formed, Told
  <2> QED BY <1>1, <2>1 DEF Reply, Delivered
<1>8. Gram!AnsweredByName
  BY <1>5, <1>6, <1>7 DEF Gram!AnsweredByName
<1> QED BY <1>4, <1>8

(***************************************************************************)
(* The exchanges of "13-message queues/1" and "14-shared memory/1".        *)
(***************************************************************************)
\* The records that say where a process is, and the messages.
PartyRecords == [at : AgentPlaces, k : 1 .. 8, attached : BOOLEAN]
TalkRecords  == [text : Talk!Texts, by : Talk!Programs \cup {0}]

\* The pairs over queues; the object the server makes for what it sends, and the one it
\* hears from.
Queued      == kind \in {"mq", "msg"}
Out         == IF kind = "mq" THEN "server_queue" ELSE IF kind = "msg" THEN "queue" ELSE "memory"
Back        == IF kind = "mq" THEN "client_queue" ELSE Out

\* Where in its script a server waits for the answer, or polls the memory, how long the
\* script of process p is, and after which call it has heard.
Meets       == IF kind = "mq" THEN 4 ELSE 3
Polls       == IF kind = "shm" THEN 6 ELSE 5
TalkLong(p) == IF p \in Talk!Servers THEN CASE kind = "mq" -> 6 [] kind = "msg" -> 4 [] kind = "shm" -> 8 [] kind = "ipc" -> 7
                                     ELSE IF Queued THEN Meets ELSE 6
Hears(p)    == IF p \in Talk!Servers THEN Meets ELSE 2

\* The type invariant of the exchanges, as function sets.
TalkTypes ==
  /\ kind \in Talk!Kinds /\ calm \in BOOLEAN /\ removed \subseteq Talk!Ids
  /\ party \in [Talk!Programs -> PartyRecords]
  /\ handle \in [Talk!Programs -> [Talk!Objects -> Talk!Ids \cup {0}]]
  /\ named \in [Talk!Objects -> Talk!Ids \cup {0}]
  /\ box \in [Talk!Ids -> Seq(TalkRecords)]
  /\ heard \in [Talk!Programs -> TalkRecords]

\* The place of process p, what it has opened and what it has heard belong together.
InStep(p) ==
  /\ party[p].k <= TalkLong(p) /\ (party[p].at = "new" => party[p].k = 1)
  /\ party[p].k = 1 => handle[p][Out] = 0
  /\ kind = "mq" /\ party[p].k <= 3 => handle[p][Back] = 0
  /\ \A o \in Talk!Objects : handle[p][o] # 0 => o \in {Out, Back}
  /\ party[p].at = "run" /\ party[p].k > 1 => handle[p][Out] # 0
  /\ party[p].at = "run" /\ party[p].k > 3 => handle[p][Back] # 0
  /\ Queued => (heard[p] # Talk!Nothing <=> party[p].k > Hears(p))

\* The servers run one after the other.
InLine == \A s, t \in Talk!Servers : s < t /\ party[t].at # "new" => party[s].at \notin {"new", "run"}

\* What is named and what a client has opened was made by a server.
Owned  == \A o \in Talk!Objects :
  /\ named[o] # 0 => \E s \in Talk!Servers : handle[s][o] = named[o]
  /\ \A c \in Visitors : handle[c][o] # 0 => \E s \in Talk!Servers : handle[s][o] = handle[c][o]

\* A queue is for one direction only.
Apart  == kind = "mq" => \A p, q \in Talk!Programs : handle[p][Out] = handle[q][Back] => handle[p][Out] = 0

\* The message of a server and the answer of a client, by the queue each is in.
Greeting(m, d) == m.text = Talk!HI /\ m.by \in Talk!Servers /\ handle[m.by][Out] = d
Return(m, d)   == m.text = Talk!HELLO /\ m.by \in Visitors /\ handle[m.by][Back] = d /\ party[m.by].at = "done"

\* In a queue there are greetings of servers and answers of clients, one of each at most.
Mailed == \A d \in Talk!Ids : OneEach(box[d]) /\ \A m \in Mail(box[d]) : party[m.by].k > 2 /\ (Greeting(m, d) \/ Return(m, d))

\* A server has heard an answer and a client a greeting,
Spoken == \A p \in Talk!Programs : heard[p] # Talk!Nothing =>
  IF p \in Talk!Servers THEN heard[p].text = Talk!HELLO /\ heard[p].by \in Visitors
                        ELSE heard[p].text = Talk!HI /\ heard[p].by \in Talk!Servers /\ party[heard[p].by].k > 2

\* and a greeting is heard once.
ToOne  ==
  /\ \A c, e \in Visitors : heard[c] # Talk!Nothing /\ heard[c].by = heard[e].by => c = e
  /\ \A c \in Visitors, d \in Talk!Ids : \A m \in Mail(box[d]) : m.by \in Talk!Servers => m.by # heard[c].by

\* What holds of the queues.
Post == Queued => Apart /\ Mailed /\ Spoken /\ ToOne

\* The server has greeted and not heard yet.
Waits(s) == party[s].at = "run" /\ party[s].k <= Meets

\* As long as the programs meet as they should (calm): no server fails,
Smooth    == \A s \in Talk!Servers : party[s].at \in {"new", "run", "done"}

\* no two servers have the same object,
OneMaker  == \A s, t \in Talk!Servers, o \in Talk!Objects : handle[s][o] = handle[t][o] /\ handle[s][o] # 0 => s = t

\* a name stands for an object of the server that runs,
Current   == \A o \in Talk!Objects : named[o] # 0 =>
  \E s \in Talk!Servers : party[s].at = "run" /\ handle[s][o] = named[o] /\ (o # Out => party[s].k <= Meets + 1)

\* a queue is removed by the server that made it when it is done,
Dropped   == \A d \in removed : \E t \in Talk!Servers : party[t].at = "done" /\ handle[t][Out] = d

\* an answer is in the queue of the server it answers, which waits for it, as for a greeting,
Addressed == \A d \in Talk!Ids : \A m \in Mail(box[d]) :
  IF m.by \in Visitors THEN handle[heard[m.by].by][Back] = d ELSE Waits(m.by)

\* the server of a client that has not answered waits for it,
Talking   == \A c \in Visitors : party[c].at = "run" /\ party[c].k > 2 =>
  Waits(heard[c].by) /\ (party[c].k = Meets => handle[c][Back] = handle[heard[c].by][Back])

\* and a server has heard the client that has heard it.
Mutual    == \A s \in Talk!Servers : heard[s] # Talk!Nothing => heard[heard[s].by].by = s
Peace     == Queued /\ calm => Smooth /\ OneMaker /\ Current /\ Dropped /\ Addressed /\ Talking /\ Mutual

\* A server that copies out of the shared memory finds its own greeting or the answer.
Memory == ~Queued => \A s \in Talk!Servers :
  /\ heard[s] # Talk!Nothing => heard[s].by \in Visitors
  /\ party[s].at = "run" /\ party[s].k = Polls =>
       LET b == box[handle[s][Out]] IN b # <<>> /\ (b[1].text = Talk!HI \/ b[1].by \in Visitors)

\* The inductive invariant of the exchanges.
TalkInv == TalkTypes /\ InLine /\ Owned /\ Post /\ Peace /\ Memory /\ \A p \in Talk!Programs : InStep(p)

\* What the assumption on the constants says of the processes.
LEMMA TalkConstants ==
  /\ Runs \in Nat \ {0} /\ Talk!Servers = 1 .. Runs /\ Talk!Programs = Talk!Servers \cup Visitors
  /\ \A v \in Visitors : v \notin Talk!Servers /\ v # 0 /\ v \in Talk!Programs
  /\ 0 \notin Talk!Servers /\ \A s \in Talk!Servers : s \in Int /\ s \notin Visitors /\ s \in Talk!Programs
  /\ Talk!Ids = 1 .. 2 * Runs /\ 0 \notin Talk!Ids
  /\ Talk!Nothing \in TalkRecords /\ Talk!Nothing.by = 0 /\ Talk!Nothing.text # Talk!HI /\ Talk!Nothing.text # Talk!HELLO
  /\ Talk!HI # Talk!HELLO /\ Talk!HI # Talk!ANY /\ Talk!HELLO # Talk!ANY /\ Talk!HI # "half" /\ Talk!HELLO # "half"
  /\ "half" \in Talk!Texts /\ Talk!HI \in Talk!Texts /\ Talk!HELLO \in Talk!Texts
  /\ Talk!Kinds = {"mq", "msg", "shm", "ipc"} /\ Talk!Objects = {"server_queue", "client_queue", "queue", "memory"}
<1>1. /\ Runs \in Nat \ {0} /\ Talk!Servers = 1 .. Runs /\ Talk!Programs = Talk!Servers \cup Visitors
      /\ Visitors \cap (0 .. Runs) = {}
  BY ExchangesAssumption DEF Talk!ConstantsOK, Talk!Servers, Talk!Programs
<1>2. Talk!Nothing \in TalkRecords /\ Talk!Nothing.by = 0 /\ Talk!Nothing.text # Talk!HI /\ Talk!Nothing.text # Talk!HELLO
  BY DEF TalkRecords, Talk!Texts, Talk!Nothing, Talk!HI, Talk!HELLO
<1>3. /\ Talk!HI # Talk!HELLO /\ Talk!HI # Talk!ANY /\ Talk!HELLO # Talk!ANY /\ Talk!HI # "half" /\ Talk!HELLO # "half"
  BY DEF Talk!HI, Talk!HELLO, Talk!ANY
<1>4. Talk!Ids = 1 .. 2 * Runs /\ 0 \notin Talk!Ids
  BY <1>1 DEF Talk!Ids
<1>5. /\ \A v \in Visitors : v \notin Talk!Servers /\ v # 0 /\ v \in Talk!Programs
      /\ 0 \notin Talk!Servers /\ \A s \in Talk!Servers : s \in Int /\ s \notin Visitors /\ s \in Talk!Programs
  BY <1>1
<1>6. "half" \in Talk!Texts /\ Talk!HI \in Talk!Texts /\ Talk!HELLO \in Talk!Texts
  BY Zenon DEF Talk!Texts
<1>7. Talk!Kinds = {"mq", "msg", "shm", "ipc"} /\ Talk!Objects = {"server_queue", "client_queue", "queue", "memory"}
  BY DEF Talk!Kinds, Talk!Objects
<1> QED BY <1>1, <1>2, <1>3, <1>4, <1>5, <1>6, <1>7

\* The calls of each script.
LEMMA MqServerCalls ==
  LET s == Talk!MqServer IN
  /\ Len(s) = 6 /\ DOMAIN s = 1 .. 6
  /\ s[1].op = "make" /\ s[1].on = "server_queue" /\ s[1].text = Talk!ANY
  /\ s[2].op = "put" /\ s[2].on = "server_queue" /\ s[2].text = Talk!HI
  /\ s[3].op = "make" /\ s[3].on = "client_queue" /\ s[3].text = Talk!ANY
  /\ s[4].op = "get" /\ s[4].on = "client_queue" /\ s[4].text = Talk!ANY
  /\ s[5].op = "drop" /\ s[5].on = "client_queue" /\ s[5].text = Talk!ANY
  /\ s[6].op = "drop" /\ s[6].on = "server_queue" /\ s[6].text = Talk!ANY
BY DEF Talk!MqServer, Talk!Say, Talk!Call

LEMMA MqClientCalls ==
  LET s == Talk!MqClient IN
  /\ Len(s) = 4 /\ DOMAIN s = 1 .. 4
  /\ s[1].op = "open" /\ s[1].on = "server_queue" /\ s[1].text = Talk!ANY
  /\ s[2].op = "get" /\ s[2].on = "server_queue" /\ s[2].text = Talk!ANY
  /\ s[3].op = "open" /\ s[3].on = "client_queue" /\ s[3].text = Talk!ANY
  /\ s[4].op = "put" /\ s[4].on = "client_queue" /\ s[4].text = Talk!HELLO
BY DEF Talk!MqClient, Talk!Say, Talk!Call

LEMMA MsgServerCalls ==
  LET s == Talk!MsgServer IN
  /\ Len(s) = 4 /\ DOMAIN s = 1 .. 4
  /\ s[1].op = "make" /\ s[1].on = "queue" /\ s[1].text = Talk!ANY
  /\ s[2].op = "put" /\ s[2].on = "queue" /\ s[2].text = Talk!HI
  /\ s[3].op = "get" /\ s[3].on = "queue" /\ s[3].text = Talk!HELLO
  /\ s[4].op = "drop" /\ s[4].on = "queue" /\ s[4].text = Talk!ANY
BY DEF Talk!MsgServer, Talk!Say, Talk!Call

LEMMA MsgClientCalls ==
  LET s == Talk!MsgClient IN
  /\ Len(s) = 3 /\ DOMAIN s = 1 .. 3
  /\ s[1].op = "open" /\ s[1].on = "queue" /\ s[1].text = Talk!ANY
  /\ s[2].op = "get" /\ s[2].on = "queue" /\ s[2].text = Talk!HI
  /\ s[3].op = "put" /\ s[3].on = "queue" /\ s[3].text = Talk!HELLO
BY DEF Talk!MsgClient, Talk!Say, Talk!Call

LEMMA ShmServerCalls ==
  LET s == Talk!ShmServer IN
  /\ Len(s) = 8 /\ DOMAIN s = 1 .. 8
  /\ s[1].op = "make" /\ s[1].on = "memory" /\ s[1].text = Talk!ANY
  /\ s[2].op = "size" /\ s[2].on = "memory" /\ s[2].text = Talk!ANY
  /\ s[3].op = "attach" /\ s[3].on = "memory" /\ s[3].text = Talk!ANY
  /\ s[4].op = "half" /\ s[4].on = "memory" /\ s[4].text = Talk!HI
  /\ s[5].op = "write" /\ s[5].on = "memory" /\ s[5].text = Talk!HI
  /\ s[6].op = "poll" /\ s[6].on = "memory" /\ s[6].text = Talk!HI
  /\ s[7].op = "detach" /\ s[7].on = "memory" /\ s[7].text = Talk!ANY
  /\ s[8].op = "drop" /\ s[8].on = "memory" /\ s[8].text = Talk!ANY
BY DEF Talk!ShmServer, Talk!MemoryServer, Talk!Memcpy, Talk!Say, Talk!Call

LEMMA IpcServerCalls ==
  LET s == Talk!IpcServer IN
  /\ Len(s) = 7 /\ DOMAIN s = 1 .. 7
  /\ s[1].op = "make" /\ s[1].on = "memory" /\ s[1].text = Talk!ANY
  /\ s[2].op = "attach" /\ s[2].on = "memory" /\ s[2].text = Talk!ANY
  /\ s[3].op = "half" /\ s[3].on = "memory" /\ s[3].text = Talk!HI
  /\ s[4].op = "write" /\ s[4].on = "memory" /\ s[4].text = Talk!HI
  /\ s[5].op = "poll" /\ s[5].on = "memory" /\ s[5].text = Talk!HI
  /\ s[6].op = "detach" /\ s[6].on = "memory" /\ s[6].text = Talk!ANY
  /\ s[7].op = "drop" /\ s[7].on = "memory" /\ s[7].text = Talk!ANY
BY DEF Talk!IpcServer, Talk!MemoryServer, Talk!Memcpy, Talk!Say, Talk!Call

LEMMA ShmClientCalls ==
  LET s == Talk!ShmClient IN
  /\ Len(s) = 6 /\ DOMAIN s = 1 .. 6
  /\ s[1].op = "open" /\ s[1].on = "memory" /\ s[1].text = Talk!ANY
  /\ s[2].op = "attach" /\ s[2].on = "memory" /\ s[2].text = Talk!ANY
  /\ s[3].op = "look" /\ s[3].on = "memory" /\ s[3].text = Talk!ANY
  /\ s[4].op = "half" /\ s[4].on = "memory" /\ s[4].text = Talk!HELLO
  /\ s[5].op = "write" /\ s[5].on = "memory" /\ s[5].text = Talk!HELLO
  /\ s[6].op = "detach" /\ s[6].on = "memory" /\ s[6].text = Talk!ANY
BY DEF Talk!ShmClient, Talk!Memcpy, Talk!Say, Talk!Call

\* Which call a process is at, by its place in the script.
LEMMA TalkCalls ==
  ASSUME NEW p \in Talk!Programs, TalkTypes, InStep(p)
  PROVE  LET k == party[p].k  server == p \in Talk!Servers  runs == party[p].at = "run" IN
         /\ Len(Talk!MyScript(p)) = TalkLong(p) /\ DOMAIN Talk!MyScript(p) = 1 .. TalkLong(p)
         /\ Talk!Doing(p, "make") <=> runs /\ server /\ (k = 1 \/ (kind = "mq" /\ k = 3))
         /\ Talk!Doing(p, "open") <=> runs /\ ~server /\ (k = 1 \/ (kind = "mq" /\ k = 3))
         /\ Talk!Doing(p, "size") <=> runs /\ server /\ kind = "shm" /\ k = 2
         /\ Talk!Doing(p, "attach") <=> runs /\ ~Queued /\ k = IF server /\ kind = "shm" THEN 3 ELSE 2
         /\ Talk!Doing(p, "detach") <=> runs /\ ~Queued /\ k = IF server THEN Polls + 1 ELSE 6
         /\ Talk!Doing(p, "put") <=> runs /\ Queued /\ k = IF server THEN 2 ELSE Meets
         /\ Talk!Doing(p, "get") <=> runs /\ Queued /\ k = Hears(p)
         /\ Talk!Doing(p, "half") <=> runs /\ ~Queued /\ k = IF server THEN Polls - 2 ELSE 4
         /\ Talk!Doing(p, "write") <=> runs /\ ~Queued /\ k = IF server THEN Polls - 1 ELSE 5
         /\ Talk!Doing(p, "look") <=> runs /\ ~Queued /\ ~server /\ k = 3
         /\ Talk!Doing(p, "poll") <=> runs /\ ~Queued /\ server /\ k = Polls
         /\ Talk!Doing(p, "drop") <=> runs /\ server /\ (k = TalkLong(p) \/ (kind = "mq" /\ k = 5))
         /\ Talk!Op(p).on = IF kind = "mq" /\ k \in {3, 4, 5} THEN Back ELSE Out
         /\ Talk!Op(p).op \in {"put", "write", "poll"} => Talk!Op(p).text = IF server THEN Talk!HI ELSE Talk!HELLO
         /\ kind = "msg" /\ Talk!Op(p).op = "get" => Talk!Op(p).text = IF server THEN Talk!HELLO ELSE Talk!HI
<1> DEFINE k == party[p].k  script == Talk!MyScript(p)
<1>1. k \in 1 .. 8 /\ k <= TalkLong(p) /\ kind \in {"mq", "msg", "shm", "ipc"}
  BY TalkConstants DEF InStep, TalkTypes, PartyRecords
<1>2. Talk!Op(p) = script[k] /\ \A c : Talk!Doing(p, c) <=> party[p].at = "run" /\ script[k].op = c
  BY DEF Talk!Doing, Talk!Op
<1> HIDE DEF k
<1>3. CASE kind = "mq" /\ p \in Talk!Servers
  <2>1. script = Talk!MqServer
    BY <1>3 DEF Talk!MyScript, Talk!Script
  <2> HIDE DEF script
  <2>2. TalkLong(p) = 6 /\ Len(script) = 6 /\ DOMAIN script = 1 .. 6
    BY <1>3, <2>1, MqServerCalls DEF TalkLong, Queued, Meets
  <2>3. k \in {1, 2, 3, 4, 5, 6}
    BY <1>1, <2>2
  <2>4. /\ Out = "server_queue" /\ Back = "client_queue" /\ Meets = 4 /\ Polls = 5
        /\ Hears(p) = 4 /\ Queued
    BY <1>3 DEF Out, Back, Meets, Polls, Hears, Queued
  <2> QED BY <1>2, <1>3, <2>1, <2>2, <2>3, <2>4, MqServerCalls DEF k, script
<1>4. CASE kind = "mq" /\ p \notin Talk!Servers
  <2>1. script = Talk!MqClient
    BY <1>4 DEF Talk!MyScript, Talk!Script
  <2> HIDE DEF script
  <2>2. TalkLong(p) = 4 /\ Len(script) = 4 /\ DOMAIN script = 1 .. 4
    BY <1>4, <2>1, MqClientCalls DEF TalkLong, Queued, Meets
  <2>3. k \in {1, 2, 3, 4}
    BY <1>1, <2>2
  <2>4. /\ Out = "server_queue" /\ Back = "client_queue" /\ Meets = 4 /\ Polls = 5
        /\ Hears(p) = 2 /\ Queued
    BY <1>4 DEF Out, Back, Meets, Polls, Hears, Queued
  <2> QED BY <1>2, <1>4, <2>1, <2>2, <2>3, <2>4, MqClientCalls DEF k, script
<1>5. CASE kind = "msg" /\ p \in Talk!Servers
  <2>1. script = Talk!MsgServer
    BY <1>5 DEF Talk!MyScript, Talk!Script
  <2> HIDE DEF script
  <2>2. TalkLong(p) = 4 /\ Len(script) = 4 /\ DOMAIN script = 1 .. 4
    BY <1>5, <2>1, MsgServerCalls DEF TalkLong, Queued, Meets
  <2>3. k \in {1, 2, 3, 4}
    BY <1>1, <2>2
  <2>4. /\ Out = "queue" /\ Back = "queue" /\ Meets = 3 /\ Polls = 5
        /\ Hears(p) = 3 /\ Queued
    BY <1>5 DEF Out, Back, Meets, Polls, Hears, Queued
  <2> QED BY <1>2, <1>5, <2>1, <2>2, <2>3, <2>4, MsgServerCalls DEF k, script
<1>6. CASE kind = "msg" /\ p \notin Talk!Servers
  <2>1. script = Talk!MsgClient
    BY <1>6 DEF Talk!MyScript, Talk!Script
  <2> HIDE DEF script
  <2>2. TalkLong(p) = 3 /\ Len(script) = 3 /\ DOMAIN script = 1 .. 3
    BY <1>6, <2>1, MsgClientCalls DEF TalkLong, Queued, Meets
  <2>3. k \in {1, 2, 3}
    BY <1>1, <2>2
  <2>4. /\ Out = "queue" /\ Back = "queue" /\ Meets = 3 /\ Polls = 5
        /\ Hears(p) = 2 /\ Queued
    BY <1>6 DEF Out, Back, Meets, Polls, Hears, Queued
  <2> QED BY <1>2, <1>6, <2>1, <2>2, <2>3, <2>4, MsgClientCalls DEF k, script
<1>7. CASE kind = "shm" /\ p \in Talk!Servers
  <2>1. script = Talk!ShmServer
    BY <1>7 DEF Talk!MyScript, Talk!Script
  <2> HIDE DEF script
  <2>2. TalkLong(p) = 8 /\ Len(script) = 8 /\ DOMAIN script = 1 .. 8
    BY <1>7, <2>1, ShmServerCalls DEF TalkLong, Queued, Meets
  <2>3. k \in {1, 2, 3, 4, 5, 6, 7, 8}
    BY <1>1, <2>2
  <2>4. /\ Out = "memory" /\ Back = "memory" /\ Meets = 3 /\ Polls = 6
        /\ Hears(p) = 3 /\ ~Queued
    BY <1>7 DEF Out, Back, Meets, Polls, Hears, Queued
  <2> QED BY <1>2, <1>7, <2>1, <2>2, <2>3, <2>4, ShmServerCalls DEF k, script
<1>8. CASE kind = "ipc" /\ p \in Talk!Servers
  <2>1. script = Talk!IpcServer
    BY <1>8 DEF Talk!MyScript, Talk!Script
  <2> HIDE DEF script
  <2>2. TalkLong(p) = 7 /\ Len(script) = 7 /\ DOMAIN script = 1 .. 7
    BY <1>8, <2>1, IpcServerCalls DEF TalkLong, Queued, Meets
  <2>3. k \in {1, 2, 3, 4, 5, 6, 7}
    BY <1>1, <2>2
  <2>4. /\ Out = "memory" /\ Back = "memory" /\ Meets = 3 /\ Polls = 5
        /\ Hears(p) = 3 /\ ~Queued
    BY <1>8 DEF Out, Back, Meets, Polls, Hears, Queued
  <2> QED BY <1>2, <1>8, <2>1, <2>2, <2>3, <2>4, IpcServerCalls DEF k, script
<1>9. CASE kind = "shm" /\ p \notin Talk!Servers
  <2>1. script = Talk!ShmClient
    BY <1>9 DEF Talk!MyScript, Talk!Script
  <2> HIDE DEF script
  <2>2. TalkLong(p) = 6 /\ Len(script) = 6 /\ DOMAIN script = 1 .. 6
    BY <1>9, <2>1, ShmClientCalls DEF TalkLong, Queued, Meets
  <2>3. k \in {1, 2, 3, 4, 5, 6}
    BY <1>1, <2>2
  <2>4. /\ Out = "memory" /\ Back = "memory" /\ Meets = 3 /\ Polls = 6
        /\ Hears(p) = 2 /\ ~Queued
    BY <1>9 DEF Out, Back, Meets, Polls, Hears, Queued
  <2> QED BY <1>2, <1>9, <2>1, <2>2, <2>3, <2>4, ShmClientCalls DEF k, script
<1>10. CASE kind = "ipc" /\ p \notin Talk!Servers
  <2>1. script = Talk!ShmClient
    BY <1>10 DEF Talk!MyScript, Talk!Script, Talk!IpcClient
  <2> HIDE DEF script
  <2>2. TalkLong(p) = 6 /\ Len(script) = 6 /\ DOMAIN script = 1 .. 6
    BY <1>10, <2>1, ShmClientCalls DEF TalkLong, Queued, Meets
  <2>3. k \in {1, 2, 3, 4, 5, 6}
    BY <1>1, <2>2
  <2>4. /\ Out = "memory" /\ Back = "memory" /\ Meets = 3 /\ Polls = 5
        /\ Hears(p) = 2 /\ ~Queued
    BY <1>10 DEF Out, Back, Meets, Polls, Hears, Queued
  <2> QED BY <1>2, <1>10, <2>1, <2>2, <2>3, <2>4, ShmClientCalls DEF k, script
<1> QED BY <1>1, <1>3, <1>4, <1>5, <1>6, <1>7, <1>8, <1>9, <1>10

\* The places in their order.
LEMMA TalkNumbers ==
  ASSUME kind \in Talk!Kinds, NEW p \in Talk!Programs
  PROVE  /\ Meets \in {3, 4} /\ Polls \in {5, 6} /\ Hears(p) \in {2, 3, 4} /\ TalkLong(p) \in 3 .. 8
         /\ Out \in Talk!Objects /\ Back \in Talk!Objects
         /\ (kind = "mq" => Queued /\ Out # Back /\ Meets = 4) /\ (kind # "mq" => Out = Back /\ Meets = 3)
         /\ (p \in Talk!Servers => Hears(p) = Meets) /\ (p \notin Talk!Servers => Hears(p) = 2)
         /\ (p \in Talk!Servers /\ Queued => TalkLong(p) = IF kind = "mq" THEN 6 ELSE 4)
         /\ (p \in Talk!Servers /\ ~Queued => TalkLong(p) = Polls + 2)
         /\ (p \notin Talk!Servers => TalkLong(p) = IF Queued THEN Meets ELSE 6)
         /\ (~Queued => kind \in {"shm", "ipc"}) /\ (Queued => kind \in {"mq", "msg"})
<1>1. kind \in {"mq", "msg", "shm", "ipc"}
  BY TalkConstants
<1>2. /\ Meets \in {3, 4} /\ Polls \in {5, 6} /\ Hears(p) \in {2, 3, 4}
      /\ (p \in Talk!Servers => Hears(p) = Meets) /\ (p \notin Talk!Servers => Hears(p) = 2)
      /\ (kind = "mq" => Queued /\ Out # Back /\ Meets = 4) /\ (kind # "mq" => Out = Back /\ Meets = 3)
  BY DEF Meets, Polls, Hears, Out, Back, Queued
<1>3. Out \in Talk!Objects /\ Back \in Talk!Objects
  BY TalkConstants DEF Out, Back
<1>4. (~Queued => kind \in {"shm", "ipc"}) /\ (Queued => kind \in {"mq", "msg"})
  BY <1>1 DEF Queued
<1>5. /\ TalkLong(p) \in 3 .. 8
      /\ (p \in Talk!Servers /\ Queued => TalkLong(p) = IF kind = "mq" THEN 6 ELSE 4)
      /\ (p \in Talk!Servers /\ ~Queued => TalkLong(p) = Polls + 2)
      /\ (p \notin Talk!Servers => TalkLong(p) = IF Queued THEN Meets ELSE 6)
  <2>1. CASE kind = "mq"
    BY <2>1 DEF TalkLong, Queued, Meets, Polls
  <2>2. CASE kind = "msg"
    BY <2>2 DEF TalkLong, Queued, Meets, Polls
  <2>3. CASE kind = "shm"
    BY <2>3 DEF TalkLong, Queued, Meets, Polls
  <2>4. CASE kind = "ipc"
    BY <2>4 DEF TalkLong, Queued, Meets, Polls
  <2> QED BY <1>1, <2>1, <2>2, <2>3, <2>4
<1> QED BY <1>2, <1>3, <1>4, <1>5

\* The places do not change in a run.
LEMMA TalkSame ==
  ASSUME kind' = kind
  PROVE  /\ Queued' = Queued /\ Out' = Out /\ Back' = Back /\ Meets' = Meets /\ Polls' = Polls
         /\ \A q : TalkLong(q)' = TalkLong(q) /\ Hears(q)' = Hears(q)
         /\ Talk!Nothing' = Talk!Nothing
<1>1. Talk!Nothing' = Talk!Nothing
  BY Zenon DEF Talk!Nothing
<1> QED BY <1>1 DEF Queued, Out, Back, Meets, Polls, TalkLong, Hears

\* What the invariant says of one process.
LEMMA TalkFacts ==
  ASSUME TalkInv, NEW p \in Talk!Programs
  PROVE  /\ TalkTypes /\ InLine /\ Owned /\ Post /\ Peace /\ Memory /\ InStep(p) /\ kind \in Talk!Kinds
         /\ party[p] \in PartyRecords /\ party[p].at \in AgentPlaces /\ party[p].k \in 1 .. 8 /\ heard[p] \in TalkRecords
         /\ (p \in Talk!Servers <=> p \notin Visitors)
         /\ \A o \in Talk!Objects : handle[p][o] \in Talk!Ids \cup {0} /\ named[o] \in Talk!Ids \cup {0}
         /\ box \in [Talk!Ids -> Seq(TalkRecords)] /\ \A d \in Talk!Ids : box[d] \in Seq(TalkRecords)
<1>1. /\ TalkTypes /\ InLine /\ Owned /\ Post /\ Peace /\ Memory /\ InStep(p) /\ kind \in Talk!Kinds
      /\ box \in [Talk!Ids -> Seq(TalkRecords)]
  BY DEF TalkInv, TalkTypes
<1>2. party[p] \in PartyRecords /\ heard[p] \in TalkRecords
  BY <1>1 DEF TalkTypes
<1>3. party[p].at \in AgentPlaces /\ party[p].k \in 1 .. 8
  BY <1>2 DEF PartyRecords
<1>4. \A o \in Talk!Objects : handle[p][o] \in Talk!Ids \cup {0} /\ named[o] \in Talk!Ids \cup {0}
  BY <1>1 DEF TalkTypes
<1>5. p \in Talk!Servers <=> p \notin Visitors
  BY TalkConstants
<1> QED BY <1>1, <1>2, <1>3, <1>4, <1>5

\* One process moves.
LEMMA TalkMoves ==
  ASSUME TalkTypes, NEW p \in Talk!Programs, NEW r \in PartyRecords, party' = [party EXCEPT ![p] = r]
  PROVE  party' \in [Talk!Programs -> PartyRecords] /\ party'[p] = r /\ \A q \in Talk!Programs \ {p} : party'[q] = party[q]
BY DEF TalkTypes

\* Where it is after a call,
LEMMA TalkAfter ==
  ASSUME TalkTypes, NEW p \in Talk!Programs, InStep(p), party[p].at = "run"
  PROVE  LET last == party[p].k = TalkLong(p) IN
         /\ Talk!After(p) \in PartyRecords
         /\ Talk!After(p).at = (IF last THEN "done" ELSE "run")
         /\ Talk!After(p).k = IF last THEN party[p].k ELSE party[p].k + 1
<1> DEFINE k == party[p].k
           r == [party[p] EXCEPT !.at = IF k = TalkLong(p) THEN "done" ELSE "run", !.k = IF k = TalkLong(p) THEN k ELSE k + 1]
<1>1. party[p] \in PartyRecords /\ k \in 1 .. 8 /\ k <= TalkLong(p) /\ TalkLong(p) \in 3 .. 8 /\ Len(Talk!MyScript(p)) = TalkLong(p)
  BY TalkNumbers, TalkCalls DEF InStep, TalkTypes, PartyRecords
<1>2. Talk!After(p) = r
  BY <1>1 DEF Talk!After
<1>3. k # TalkLong(p) => k + 1 \in 1 .. 8
  BY <1>1
<1>4. r \in PartyRecords /\ r.at = (IF k = TalkLong(p) THEN "done" ELSE "run") /\ r.k = IF k = TalkLong(p) THEN k ELSE k + 1
  BY <1>1, <1>3 DEF PartyRecords, AgentPlaces
<1> QED BY <1>2, <1>4

\* and after one that fails.
LEMMA TalkFailure ==
  ASSUME TalkTypes, NEW p \in Talk!Programs, Talk!Fails(p)
  PROVE  \E r \in PartyRecords : party' = [party EXCEPT ![p] = r] /\ r.at = "failed" /\ r.k = party[p].k
<1> DEFINE r == [party[p] EXCEPT !.at = "failed", !.attached = FALSE]
<1>1. party' = [party EXCEPT ![p] = r]
  BY DEF Talk!Fails
<1>2. r \in PartyRecords /\ r.at = "failed" /\ r.k = party[p].k
  BY DEF TalkTypes, PartyRecords, AgentPlaces
<1> HIDE DEF r
<1> QED BY <1>1, <1>2

\* A step of a process that runs keeps the servers in line.
LEMMA LineKept ==
  ASSUME TalkInv, NEW p \in Talk!Programs, NEW r \in PartyRecords, party' = [party EXCEPT ![p] = r],
         party[p].at = "run", r.at # "new"
  PROVE  InLine'
<1>1. TalkTypes /\ InLine
  BY DEF TalkInv
<1>2. party'[p] = r /\ \A q \in Talk!Programs \ {p} : party'[q] = party[q]
  BY <1>1, TalkMoves
<1> QED BY <1>1, <1>2, TalkConstants DEF InLine

\* One server runs at a time.
LEMMA OneRuns ==
  ASSUME InLine
  PROVE  \A s, t \in Talk!Servers : party[s].at = "run" /\ party[t].at = "run" => s = t
<1> SUFFICES ASSUME NEW s \in Talk!Servers, NEW t \in Talk!Servers, party[s].at = "run", party[t].at = "run" PROVE s = t
  OBVIOUS
<1>1. ~(s < t) /\ ~(t < s)
  BY DEF InLine
<1>2. s \in Int /\ t \in Int
  BY TalkConstants
<1> QED BY <1>1, <1>2

\* A step that sends and hears nothing keeps what holds of the messages,
LEMMA LettersKept ==
  ASSUME TalkInv, NEW p \in Talk!Programs, NEW r \in PartyRecords, party' = [party EXCEPT ![p] = r],
         kind' = kind, box' = box, heard' = heard, party[p].at # "done", r.k >= party[p].k,
         \A q \in Talk!Programs, o \in Talk!Objects : handle[q][o] # 0 => handle'[q][o] = handle[q][o]
  PROVE  Queued => Mailed' /\ Spoken' /\ ToOne'
<1> SUFFICES ASSUME Queued PROVE Mailed' /\ Spoken' /\ ToOne'
  OBVIOUS
<1>1. TalkTypes /\ Mailed /\ Spoken /\ ToOne /\ kind \in Talk!Kinds
  BY DEF TalkInv, TalkTypes, Post
<1>2. party'[p] = r /\ \A q \in Talk!Programs \ {p} : party'[q] = party[q]
  BY <1>1, TalkMoves
<1>3. Out' = Out /\ Back' = Back /\ Out \in Talk!Objects /\ Back \in Talk!Objects
  BY <1>1, TalkSame, TalkNumbers
<1>4. \A q \in Talk!Programs : party[q].k > 2 => party'[q].k > 2
  <2>1. \A a \in PartyRecords : a.k \in Int
    BY DEF PartyRecords
  <2>2. party[p].k \in Int /\ r.k \in Int
    BY <1>1, <2>1 DEF TalkTypes
  <2> QED BY <1>2, <2>2
<1>5. \A d \in Talk!Ids : d # 0
  BY TalkConstants
<1>6. ASSUME NEW d \in Talk!Ids, NEW m \in Mail(box[d])
      PROVE  party'[m.by].k > 2 /\ (Greeting(m, d)' \/ Return(m, d)')
  <2>1. party[m.by].k > 2 /\ (Greeting(m, d) \/ Return(m, d))
    BY <1>1, <1>6 DEF Mailed
  <2>2. m.by \in Talk!Programs
    BY <2>1, TalkConstants DEF Greeting, Return
  <2>3. Greeting(m, d) => Greeting(m, d)'
    BY <1>3, <1>5, <2>2 DEF Greeting
  <2>4. Return(m, d) => Return(m, d)'
    BY <1>2, <1>3, <1>5, <2>2 DEF Return
  <2> QED BY <1>4, <2>1, <2>2, <2>3, <2>4
<1>7. Mailed'
  BY <1>1, <1>6 DEF Mailed
<1>8. Spoken'
  BY <1>1, <1>4, TalkConstants DEF Spoken
<1>9. ToOne'
  <2>1. \A c, e \in Visitors : heard[c] # Talk!Nothing /\ heard[c].by = heard[e].by => c = e
    BY <1>1 DEF ToOne
  <2>2. \A c \in Visitors, d \in Talk!Ids : \A m \in Mail(box[d]) : m.by \in Talk!Servers => m.by # heard[c].by
    BY <1>1 DEF ToOne
  <2> QED BY <2>1, <2>2 DEF ToOne, Talk!Nothing
<1> QED BY <1>7, <1>8, <1>9

\* and all of the invariant if no object changes.
LEMMA TalkStill ==
  ASSUME TalkInv, NEW p \in Talk!Programs, NEW r \in PartyRecords, party' = [party EXCEPT ![p] = r],
         UNCHANGED <<kind, handle, named, box, removed, heard>>, calm' \in BOOLEAN, calm' => calm, InStep(p)', InLine',
         party[p].at # "done", r.k >= party[p].k, Queued => r.k = party[p].k,
         Queued /\ calm' /\ p \in Talk!Servers => r.at = "run",
         Queued /\ p \in Visitors /\ r.at = "run" => party[p].at = "run" \/ r.k = 1,
         ~Queued /\ p \in Talk!Servers /\ r.at = "run" /\ r.k = Polls => party[p].at = "run" /\ party[p].k = Polls
  PROVE  TalkInv'
<1>1. TalkTypes /\ Owned /\ Post /\ Peace /\ Memory /\ kind \in Talk!Kinds /\ \A q \in Talk!Programs : InStep(q)
  BY DEF TalkInv, TalkTypes
<1>2. party' \in [Talk!Programs -> PartyRecords] /\ party'[p] = r /\ \A q \in Talk!Programs \ {p} : party'[q] = party[q]
  BY <1>1, TalkMoves
<1>3. /\ Queued' = Queued /\ Out' = Out /\ Back' = Back /\ Meets' = Meets /\ Polls' = Polls
      /\ \A q : TalkLong(q)' = TalkLong(q) /\ Hears(q)' = Hears(q)
  BY TalkSame
<1>4. TalkTypes'
  BY <1>1, <1>2 DEF TalkTypes
<1>5. Owned'
  BY <1>1 DEF Owned
<1>6. \A q \in Talk!Programs : InStep(q)'
  <2> SUFFICES ASSUME NEW q \in Talk!Programs, q # p PROVE InStep(q)'
    OBVIOUS
  <2> QED BY <1>1, <1>2, <1>3 DEF InStep
<1>7. Post'
  <2>1. Queued => Apart'
    BY <1>1, <1>3 DEF Post, Apart
  <2> QED BY <1>3, <2>1, LettersKept DEF Post
<1>8. Peace'
  <2> SUFFICES ASSUME Queued, calm' PROVE Smooth' /\ OneMaker' /\ Current' /\ Dropped' /\ Addressed' /\ Talking' /\ Mutual'
    BY <1>3 DEF Peace
  <2>1. Smooth /\ OneMaker /\ Current /\ Dropped /\ Addressed /\ Talking /\ Mutual
    BY <1>1 DEF Peace
  <2>2. /\ \A v \in Visitors : v \in Talk!Programs /\ v \notin Talk!Servers
        /\ \A s \in Talk!Servers : s \in Talk!Programs
        /\ \A d \in Talk!Ids : \A m \in Mail(box[d]) : m.by \notin Visitors => m.by \in Talk!Servers
        /\ \A c \in Visitors : party[c].k > 2 => heard[c].by \in Talk!Servers
    <3>1. \A d \in Talk!Ids : \A m \in Mail(box[d]) : m.by \notin Visitors => m.by \in Talk!Servers
      BY <1>1 DEF Post, Mailed, Greeting, Return
    <3>2. ASSUME NEW c \in Visitors, party[c].k > 2 PROVE heard[c].by \in Talk!Servers
      <4>1. c \in Talk!Programs /\ c \notin Talk!Servers /\ Hears(c) = 2
        BY <1>1, TalkConstants, TalkNumbers
      <4>2. heard[c] # Talk!Nothing
        BY <1>1, <3>2, <4>1 DEF InStep
      <4> QED BY <1>1, <4>1, <4>2 DEF Post, Spoken
    <3> QED BY <3>1, <3>2, TalkConstants
  <2>3. /\ \A s \in Talk!Servers : party[s].at = "run" => party'[s].at = "run" /\ party'[s].k = party[s].k
        /\ \A s \in Talk!Servers : party[s].at = "done" => party'[s] = party[s]
    BY <1>2, <2>2
  <2>4. Smooth'
    BY <1>2, <2>1, <2>2 DEF Smooth
  <2>5. OneMaker' /\ Mutual'
    BY <2>1 DEF OneMaker, Mutual
  <2>6. Current'
    BY <1>3, <2>1, <2>3 DEF Current
  <2>7. Dropped'
    BY <1>3, <2>1, <2>3 DEF Dropped
  <2>8. \A s \in Talk!Servers : Waits(s) => Waits(s)'
    BY <1>3, <2>3 DEF Waits
  <2>9. Addressed'
    BY <1>3, <2>1, <2>2, <2>8 DEF Addressed
  <2>10. Talking'
    <3> SUFFICES ASSUME NEW c \in Visitors, party'[c].at = "run", party'[c].k > 2
                 PROVE  Waits(heard[c].by)' /\ (party'[c].k = Meets => handle[c][Back] = handle[heard[c].by][Back])
      BY <1>3 DEF Talking
    <3>1. party[c].at = "run" /\ party[c].k = party'[c].k
      BY <1>2, <2>2
    <3> QED BY <2>1, <2>2, <2>8, <3>1 DEF Talking
  <2> QED BY <2>4, <2>5, <2>6, <2>7, <2>9, <2>10
<1>9. Memory'
  <2> SUFFICES ASSUME ~Queued, NEW s \in Talk!Servers
               PROVE  /\ heard[s] # Talk!Nothing => heard[s].by \in Visitors
                      /\ party'[s].at = "run" /\ party'[s].k = Polls =>
                           LET b == box[handle[s][Out]] IN b # <<>> /\ (b[1].text = Talk!HI \/ b[1].by \in Visitors)
    BY <1>3 DEF Memory, Talk!Nothing
  <2>1. party'[s].at = "run" /\ party'[s].k = Polls => party[s].at = "run" /\ party[s].k = Polls
    BY <1>2, TalkConstants
  <2> QED BY <1>1, <2>1 DEF Memory
<1> QED BY <1>4, <1>5, <1>6, <1>7, <1>8, <1>9 DEF TalkInv

\* The place of a process stays right.
LEMMA StepStays ==
  ASSUME NEW p \in Talk!Programs, InStep(p), kind' = kind, handle'[p] = handle[p], heard'[p] = heard[p],
         party'[p].k = party[p].k, party'[p].at # "new", party'[p].at = "run" /\ party[p].k # 1 => party[p].at = "run",
         party[p].k \in Int
  PROVE  InStep(p)'
<1>1. /\ Queued' = Queued /\ Out' = Out /\ Back' = Back /\ TalkLong(p)' = TalkLong(p) /\ Hears(p)' = Hears(p)
  BY TalkSame
<1>2. party'[p].k <= TalkLong(p) /\ (party'[p].at = "new" => party'[p].k = 1)
  BY DEF InStep
<1>3. /\ party'[p].k = 1 => handle'[p][Out] = 0
      /\ kind = "mq" /\ party'[p].k <= 3 => handle'[p][Back] = 0
      /\ \A o \in Talk!Objects : handle'[p][o] # 0 => o \in {Out, Back}
  BY DEF InStep
<1>4. /\ party'[p].at = "run" /\ party'[p].k > 1 => handle'[p][Out] # 0
      /\ party'[p].at = "run" /\ party'[p].k > 3 => handle'[p][Back] # 0
  BY DEF InStep
<1>5. Queued => (heard'[p] # Talk!Nothing <=> party'[p].k > Hears(p))
  BY DEF InStep
<1> QED BY <1>1, <1>2, <1>3, <1>4, <1>5 DEF InStep, Talk!Nothing

\* Every step keeps it: a process starts,
LEMMA TalkBegins == ASSUME TalkInv, NEW p \in Talk!Programs, Talk!Start(p) PROVE TalkInv'
<1> DEFINE r == [party[p] EXCEPT !.at = "run"]
<1>1. /\ party' = [party EXCEPT ![p] = r] /\ party[p].at = "new" /\ UNCHANGED <<kind, handle, named, box, removed, heard, calm>>
      /\ \A s \in Talk!Servers : p \in Talk!Servers /\ s < p => party[s].at \notin {"new", "run"}
  BY DEF Talk!Start
<1>2. r \in PartyRecords /\ r.at = "run" /\ r.k = party[p].k
  BY TalkFacts DEF PartyRecords, AgentPlaces
<1> HIDE DEF r
<1>3. TalkTypes /\ InLine /\ InStep(p) /\ party[p].k = 1 /\ kind \in Talk!Kinds /\ calm \in BOOLEAN
  BY <1>1, TalkFacts DEF InStep, TalkTypes
<1>4. party'[p] = r /\ \A q \in Talk!Programs \ {p} : party'[q] = party[q]
  BY <1>1, <1>2, <1>3, TalkMoves
<1>5. InLine'
  <2> SUFFICES ASSUME NEW s \in Talk!Servers, NEW t \in Talk!Servers, s < t, party'[t].at # "new" PROVE party'[s].at \notin {"new", "run"}
    BY DEF InLine
  <2>1. s \in Talk!Programs /\ t \in Talk!Programs /\ s \in Int /\ t \in Int
    BY TalkConstants
  <2>2. CASE t = p
    BY <1>1, <1>4, <2>1, <2>2
  <2>3. CASE t # p
    BY <1>1, <1>3, <1>4, <2>1, <2>3 DEF InLine
  <2> QED BY <2>2, <2>3
<1>6. InStep(p)'
  <2>1. party'[p].at # "new" /\ party'[p].k = party[p].k /\ handle'[p] = handle[p] /\ heard'[p] = heard[p] /\ kind' = kind
    BY <1>1, <1>2, <1>4
  <2> QED BY <1>3, <2>1, StepStays
<1>7. r.k >= party[p].k /\ party[p].at # "done" /\ calm' \in BOOLEAN /\ (calm' => calm) /\ ~(r.k = Polls)
  BY <1>1, <1>2, <1>3, TalkNumbers
<1> QED BY <1>1, <1>2, <1>3, <1>5, <1>6, <1>7, TalkStill

\* stops,
LEMMA TalkStops ==
  ASSUME TalkInv, NEW p \in Talk!Programs, NEW r \in PartyRecords, party' = [party EXCEPT ![p] = r],
         party[p].at = "run", r.at \in {"failed", "killed"}, r.k = party[p].k,
         UNCHANGED <<kind, handle, named, box, removed, heard>>, calm' \in BOOLEAN, calm' => calm,
         ~(Queued /\ calm' /\ p \in Talk!Servers)
  PROVE  TalkInv'
<1>1. TalkTypes /\ InStep(p) /\ r.at # "new" /\ r.at # "run" /\ party[p].k \in Int
  BY TalkFacts
<1>2. InLine'
  BY <1>1, LineKept
<1>3. party'[p] = r
  BY <1>1, TalkMoves
<1>4. InStep(p)'
  <2>1. /\ party'[p].at # "new" /\ party'[p].at # "run" /\ party'[p].k = party[p].k
        /\ handle'[p] = handle[p] /\ heard'[p] = heard[p] /\ kind' = kind
    BY <1>1, <1>3
  <2> QED BY <1>1, <2>1, StepStays
<1>5. party[p].at # "done" /\ r.k >= party[p].k
  BY <1>1
<1> QED BY <1>1, <1>2, <1>4, <1>5, TalkStill

\* is killed,
LEMMA TalkKilled == ASSUME TalkInv, NEW p \in Talk!Programs, Talk!Kill(p) PROVE TalkInv'
<1> DEFINE r == [party[p] EXCEPT !.at = "killed", !.attached = FALSE]
<1>1. /\ party' = [party EXCEPT ![p] = r] /\ party[p].at = "run" /\ UNCHANGED <<kind, handle, named, box, removed, heard>>
      /\ calm' = FALSE
  BY DEF Talk!Kill
<1>2. r \in PartyRecords /\ r.at = "killed" /\ r.k = party[p].k
  BY TalkFacts DEF PartyRecords, AgentPlaces
<1> HIDE DEF r
<1> QED BY <1>1, <1>2, TalkStops

\* attaches or detaches the memory;
LEMMA TalkAttaches == ASSUME TalkInv, NEW p \in Talk!Programs, Talk!Attach(p) \/ Talk!Detach(p) PROVE TalkInv'
<1>1. /\ party[p].at = "run" /\ ~Queued /\ TalkTypes /\ InStep(p) /\ party[p] \in PartyRecords /\ party[p].k \in Int
      /\ party[p].k = (IF p \in Talk!Servers /\ kind = "shm" THEN 3 ELSE 2) \/ party[p].k = (IF p \in Talk!Servers THEN Polls + 1 ELSE 6)
  BY TalkFacts, TalkCalls DEF Talk!Attach, Talk!Detach
<1>2. UNCHANGED <<kind, handle, named, box, removed, heard, calm>> /\ calm \in BOOLEAN /\ kind \in Talk!Kinds
  BY <1>1 DEF Talk!Attach, Talk!Detach, TalkTypes
<1>3. CASE Talk!Fails(p)
  <2>1. PICK r \in PartyRecords : party' = [party EXCEPT ![p] = r] /\ r.at = "failed" /\ r.k = party[p].k
    BY <1>1, <1>3, TalkFailure
  <2> QED BY <1>1, <1>2, <2>1, TalkStops
<1> DEFINE a == Talk!After(p)
<1>4. ASSUME NEW b \in BOOLEAN, party' = [party EXCEPT ![p] = [a EXCEPT !.attached = b]] PROVE TalkInv'
  <2> DEFINE r == [a EXCEPT !.attached = b]
  <2>1. /\ a \in PartyRecords /\ a.at = (IF party[p].k = TalkLong(p) THEN "done" ELSE "run")
        /\ a.k = IF party[p].k = TalkLong(p) THEN party[p].k ELSE party[p].k + 1
    BY <1>1, TalkAfter
  <2> HIDE DEF a
  <2>2. r \in PartyRecords /\ r.at = a.at /\ r.k = a.k
    BY <1>4, <2>1 DEF PartyRecords
  <2>3. party' = [party EXCEPT ![p] = r]
    BY <1>4
  <2> HIDE DEF r
  <2>4. party'[p] = r
    BY <1>1, <2>2, <2>3, TalkMoves
  <2>5. /\ Polls = (IF kind = "shm" THEN 6 ELSE 5) /\ TalkLong(p) = (IF p \in Talk!Servers THEN Polls + 2 ELSE 6)
        /\ Out = Back /\ kind # "mq"
    BY <1>1, <1>2, TalkNumbers DEF Polls
  <2>6. /\ r.k >= party[p].k /\ r.at \in {"done", "run"} /\ r.k <= TalkLong(p) /\ r.k # 1
        /\ party[p].k > 1 /\ (p \in Talk!Servers => r.k # Polls)
    BY <1>1, <2>1, <2>2, <2>5
  <2>7. InLine'
    BY <1>1, <2>2, <2>3, <2>6, LineKept
  <2>8. InStep(p)'
    BY <1>1, <1>2, <2>4, <2>5, <2>6, TalkSame DEF InStep
  <2> QED BY <1>1, <1>2, <2>2, <2>3, <2>6, <2>7, <2>8, TalkStill
<1>5. \/ Talk!Fails(p) \/ \E b \in BOOLEAN : party' = [party EXCEPT ![p] = [a EXCEPT !.attached = b]]
  BY DEF Talk!Attach, Talk!Detach
<1> QED BY <1>3, <1>4, <1>5

\* A step on the memory leaves the queues alone:
LEMMA MemoryStep ==
  ASSUME TalkInv, NEW p \in Talk!Programs, ~Queued, party[p].at = "run", party[p].k > 1, Talk!GoesOn(p),
         UNCHANGED <<kind, handle, named, removed, calm>>,
         box' \in [Talk!Ids -> Seq(TalkRecords)], heard' \in [Talk!Programs -> TalkRecords],
         Memory'
  PROVE  TalkInv'
<1> DEFINE r == Talk!After(p)
<1>1. TalkTypes /\ InStep(p) /\ Owned /\ party[p].k \in Int /\ kind \in Talk!Kinds /\ \A q \in Talk!Programs : InStep(q)
  <2>1. TalkTypes /\ Owned /\ \A q \in Talk!Programs : InStep(q)
    BY DEF TalkInv
  <2>2. kind \in Talk!Kinds
    BY <2>1 DEF TalkTypes
  <2>3. party[p].k \in 1 .. 8
    BY TalkFacts
  <2> QED BY <2>1, <2>2, <2>3
<1>2. /\ r \in PartyRecords /\ r.at = (IF party[p].k = TalkLong(p) THEN "done" ELSE "run")
      /\ r.k = IF party[p].k = TalkLong(p) THEN party[p].k ELSE party[p].k + 1
  BY <1>1, TalkAfter
<1>3. party' = [party EXCEPT ![p] = r]
  BY DEF Talk!GoesOn
<1> HIDE DEF r
<1>4. party' \in [Talk!Programs -> PartyRecords] /\ party'[p] = r /\ \A q \in Talk!Programs \ {p} : party'[q] = party[q]
  BY <1>1, <1>2, <1>3, TalkMoves
<1>5. InLine'
  BY <1>1, <1>2, <1>3, LineKept
<1>6. /\ Queued' = Queued /\ Out' = Out /\ Back' = Back
      /\ \A q : TalkLong(q)' = TalkLong(q)
  BY TalkSame
<1>7. TalkTypes'
  BY <1>1, <1>4 DEF TalkTypes
<1>8. Owned' /\ Post' /\ Peace'
  BY <1>1, <1>6 DEF Owned, Post, Peace
<1>9. InStep(p)'
  <2>1. TalkLong(p) \in Int /\ kind # "mq" /\ Out = Back
    BY <1>1, TalkNumbers
  <2>2. r.k <= TalkLong(p) /\ r.k # 1 /\ r.at # "new"
    BY <1>1, <1>2, <2>1 DEF InStep
  <2> QED BY <1>1, <1>2, <1>4, <1>6, <2>1, <2>2 DEF InStep
<1>10. ASSUME NEW q \in Talk!Programs, q # p PROVE InStep(q)'
  BY <1>1, <1>4, <1>6, <1>10 DEF InStep
<1> QED BY <1>5, <1>7, <1>8, <1>9, <1>10 DEF TalkInv

LEMMA OneLetter == ASSUME NEW M, NEW e \in M PROVE <<e>> \in Seq(M) /\ <<e>> # <<>> /\ <<e>>[1] = e
OBVIOUS

\* the memory gets its size,
LEMMA TalkSizes == ASSUME TalkInv, NEW p \in Talk!Programs, Talk!Size(p) PROVE TalkInv'
<1> DEFINE d == handle[p][Out]
           b == IF box[d] = <<>> THEN <<Talk!Nothing>> ELSE box[d]
<1>1. /\ party[p].at = "run" /\ p \in Talk!Servers /\ kind = "shm" /\ party[p].k = 2 /\ TalkTypes /\ InStep(p) /\ InLine /\ Memory
      /\ Talk!Op(p).on = Out /\ kind \in Talk!Kinds /\ box \in [Talk!Ids -> Seq(TalkRecords)] /\ Out \in Talk!Objects
  BY TalkFacts, TalkCalls, TalkNumbers DEF Talk!Size
<1>2. Talk!GoesOn(p) /\ UNCHANGED <<kind, handle, named, removed, heard, calm>> /\ box' = [box EXCEPT ![d] = b]
  BY <1>1 DEF Talk!Size, Talk!Obj
<1>3. d \in Talk!Ids /\ b \in Seq(TalkRecords)
  <2>1. d \in Talk!Ids
    BY <1>1, TalkFacts DEF InStep
  <2>2. <<Talk!Nothing>> \in Seq(TalkRecords)
    BY TalkConstants, OneLetter
  <2> HIDE DEF d
  <2> QED BY <1>1, <2>1, <2>2
<1> HIDE DEF b, d
<1>4. box' \in [Talk!Ids -> Seq(TalkRecords)] /\ heard' \in [Talk!Programs -> TalkRecords]
  BY <1>1, <1>2, <1>3 DEF TalkTypes
<1> DEFINE r == Talk!After(p)
<1>5. ~Queued /\ Polls = 6 /\ TalkLong(p) # 2
  BY <1>1, TalkNumbers DEF Queued, Polls
<1>6. r \in PartyRecords /\ r.k = 3
  BY <1>1, <1>5, TalkAfter
<1>7. party' = [party EXCEPT ![p] = r]
  BY <1>2 DEF Talk!GoesOn
<1> HIDE DEF r
<1>8. party'[p] = r /\ \A q \in Talk!Programs \ {p} : party'[q] = party[q]
  BY <1>1, <1>6, <1>7, TalkMoves
<1>9. \A s \in Talk!Servers : ~(party'[s].at = "run" /\ party'[s].k = Polls)
  <2> SUFFICES ASSUME NEW s \in Talk!Servers, party'[s].at = "run", party'[s].k = Polls PROVE FALSE
    OBVIOUS
  <2>1. s # p /\ s \in Talk!Programs
    BY <1>5, <1>6, <1>8, TalkConstants
  <2>2. party[s].at = "run"
    BY <1>8, <2>1
  <2> QED BY <1>1, <2>1, <2>2, OneRuns
<1>10. Memory'
  BY <1>1, <1>2, <1>5, <1>9, TalkSame DEF Memory, Talk!Nothing
<1> QED BY <1>1, <1>2, <1>4, <1>5, <1>10, MemoryStep

\* a process copies into it,
LEMMA TalkCopies == ASSUME TalkInv, NEW p \in Talk!Programs, Talk!Copy(p) PROVE TalkInv'
<1> DEFINE d == handle[p][Out]
           e == [text |-> IF Talk!Op(p).op = "half" THEN "half" ELSE Talk!Op(p).text, by |-> p]
<1>1. /\ party[p].at = "run" /\ ~Queued /\ TalkTypes /\ InStep(p) /\ InLine /\ Memory /\ party[p].k \in Int
      /\ IF p \in Talk!Servers THEN party[p].k \in {Polls - 2, Polls - 1} ELSE party[p].k \in {4, 5}
      /\ kind \in Talk!Kinds /\ box \in [Talk!Ids -> Seq(TalkRecords)]
  BY TalkFacts, TalkCalls DEF Talk!Copy
<1>2. Out \in Talk!Objects /\ Polls \in {5, 6} /\ kind # "mq" /\ TalkLong(p) = (IF p \in Talk!Servers THEN Polls + 2 ELSE 6)
  BY <1>1, TalkNumbers
<1>3. Talk!Op(p).on = Out /\ party[p].k > 1
  BY <1>1, <1>2, TalkCalls
<1>4. Talk!GoesOn(p) /\ UNCHANGED <<kind, handle, named, removed, heard, calm>> /\ box' = [box EXCEPT ![d] = <<e>>]
  BY <1>3 DEF Talk!Copy, Talk!Obj
<1>5. d \in Talk!Ids
  BY <1>1, <1>2, <1>3, TalkFacts DEF InStep
<1>6. e \in TalkRecords /\ e.by = p /\ (p \in Talk!Servers /\ party[p].k = Polls - 1 => e.text = Talk!HI)
  <2>1. Talk!Op(p).op = "half" \/ (Talk!Op(p).op = "write" /\ Talk!Op(p).text = IF p \in Talk!Servers THEN Talk!HI ELSE Talk!HELLO)
    BY <1>1, TalkCalls DEF Talk!Copy, Talk!Doing
  <2>2. p \in Talk!Servers /\ party[p].k = Polls - 1 => Talk!Op(p).op # "half"
    <3>1. p \in Talk!Servers /\ party[p].k = Polls - 1 => ~Talk!Doing(p, "half")
      BY <1>1, <1>2, TalkCalls
    <3> QED BY <1>1, <3>1 DEF Talk!Doing
  <2>3. IF Talk!Op(p).op = "half" THEN TRUE ELSE Talk!Op(p).text \in Talk!Texts
    BY <2>1, TalkConstants
  <2>4. e.text \in Talk!Texts
    BY <2>3, TalkConstants
  <2>5. e \in TalkRecords /\ e.by = p
    BY <2>4 DEF TalkRecords
  <2> QED BY <2>1, <2>2, <2>5
<1> HIDE DEF e, d
<1>7. /\ <<e>> \in Seq(TalkRecords) /\ <<e>> # <<>> /\ <<e>>[1] = e
      /\ box' \in [Talk!Ids -> Seq(TalkRecords)] /\ box'[d] = <<e>> /\ \A g \in Talk!Ids : g # d => box'[g] = box[g]
  BY <1>1, <1>4, <1>5, <1>6
<1> DEFINE r == Talk!After(p)
<1>8. r \in PartyRecords /\ r.k = party[p].k + 1
  BY <1>1, <1>2, TalkAfter
<1>9. party' = [party EXCEPT ![p] = r]
  BY <1>4 DEF Talk!GoesOn
<1> HIDE DEF r
<1>10. party'[p] = r /\ \A q \in Talk!Programs \ {p} : party'[q] = party[q]
  BY <1>1, <1>8, <1>9, TalkMoves
<1>11. Memory'
  <2> SUFFICES ASSUME NEW s \in Talk!Servers
               PROVE  /\ heard[s] # Talk!Nothing => heard[s].by \in Visitors
                      /\ party'[s].at = "run" /\ party'[s].k = Polls =>
                           LET b == box'[handle[s][Out]] IN b # <<>> /\ (b[1].text = Talk!HI \/ b[1].by \in Visitors)
    BY <1>4, TalkSame DEF Memory, Talk!Nothing
  <2>1. heard[s] # Talk!Nothing => heard[s].by \in Visitors
    BY <1>1 DEF Memory
  <2>2. CASE s = p
    <3>1. party'[s].k = Polls => party[p].k = Polls - 1
      BY <1>1, <1>2, <1>8, <1>10, <2>2
    <3>2. handle[s][Out] = d
      BY <2>2 DEF d
    <3> QED BY <1>6, <1>7, <2>1, <2>2, <3>1, <3>2
  <2>3. CASE s # p
    <3> SUFFICES ASSUME party'[s].at = "run", party'[s].k = Polls
                 PROVE  LET b == box'[handle[s][Out]] IN b # <<>> /\ (b[1].text = Talk!HI \/ b[1].by \in Visitors)
      BY <2>1
    <3>1. party[s].at = "run" /\ party[s].k = Polls /\ s \in Talk!Programs
      BY <1>10, <2>3, TalkConstants
    <3>2. p \in Visitors
      BY <1>1, <2>3, <3>1, OneRuns, TalkConstants
    <3>3. handle[s][Out] \in Talk!Ids
      <4>1. InStep(s)
        BY <3>1, TalkFacts
      <4>2. handle[s][Out] # 0
        BY <1>2, <3>1, <4>1 DEF InStep
      <4> QED BY <1>2, <3>1, <4>2, TalkFacts
    <3>4. LET b == box[handle[s][Out]] IN b # <<>> /\ (b[1].text = Talk!HI \/ b[1].by \in Visitors)
      BY <1>1, <3>1 DEF Memory
    <3> QED BY <1>6, <1>7, <3>2, <3>3, <3>4
  <2> QED BY <2>2, <2>3
<1>12. heard' \in [Talk!Programs -> TalkRecords]
  BY <1>1, <1>4 DEF TalkTypes
<1> QED BY <1>1, <1>3, <1>4, <1>7, <1>11, <1>12, MemoryStep

\* or looks at it;
LEMMA TalkLooks == ASSUME TalkInv, NEW p \in Talk!Programs, Talk!Look(p) PROVE TalkInv'
<1> DEFINE d == handle[p][Out]
<1>1. /\ party[p].at = "run" /\ ~Queued /\ TalkTypes /\ InStep(p) /\ InLine /\ Memory /\ party[p].k \in Int
      /\ IF p \in Talk!Servers THEN party[p].k = Polls ELSE party[p].k = 3
      /\ kind \in Talk!Kinds /\ box \in [Talk!Ids -> Seq(TalkRecords)] /\ heard \in [Talk!Programs -> TalkRecords]
  <2>1. TalkTypes /\ heard \in [Talk!Programs -> TalkRecords]
    BY DEF TalkInv, TalkTypes
  <2> QED BY <2>1, TalkFacts, TalkCalls, SMTT(30) DEF Talk!Look
<1>2. Out \in Talk!Objects /\ Polls \in {5, 6} /\ kind # "mq" /\ TalkLong(p) = (IF p \in Talk!Servers THEN Polls + 2 ELSE 6)
  BY <1>1, TalkNumbers
<1>3. Talk!Op(p).on = Out /\ party[p].k > 1
  BY <1>1, <1>2, TalkCalls
<1>4. UNCHANGED <<kind, handle, named, box, removed, calm>> /\ calm \in BOOLEAN
  BY <1>1 DEF Talk!Look, TalkTypes
<1>5. d \in Talk!Ids
  BY <1>1, <1>2, <1>3, TalkFacts DEF InStep
<1>6. Talk!Obj(p) = d
  BY <1>3 DEF Talk!Obj
<1>7. CASE box[d] = <<>>
  <2>1. Talk!Fails(p) /\ heard' = heard
    BY <1>6, <1>7 DEF Talk!Look
  <2>2. PICK r \in PartyRecords : party' = [party EXCEPT ![p] = r] /\ r.at = "failed" /\ r.k = party[p].k
    BY <1>1, <2>1, TalkFailure
  <2> QED BY <1>1, <1>4, <2>1, <2>2, TalkStops
<1>8. CASE box[d] # <<>>
  <2> DEFINE e == box[d][1]
  <2>1. Talk!GoesOn(p) /\ heard' = [heard EXCEPT ![p] = e]
    BY <1>6, <1>8 DEF Talk!Look, Talk!InMemory
  <2>2. e \in TalkRecords
    <3>1. box[d] \in Seq(TalkRecords)
      BY <1>1, <1>5
    <3> QED BY <1>8, <3>1, HeadTailProperties, LenProperties, EmptySeq, ElementOfSeq
  <2>3. p \in Talk!Servers => e.by \in Visitors
    <3> SUFFICES ASSUME p \in Talk!Servers PROVE e.by \in Visitors
      OBVIOUS
    <3>1. Talk!Doing(p, "poll") /\ ~Talk!Doing(p, "look")
      BY <1>1, TalkCalls
    <3>2. Talk!Op(p).op = "poll" /\ Talk!Op(p).text = Talk!HI
      <4>1. Talk!Op(p).op = "poll"
        BY <3>1 DEF Talk!Doing
      <4> QED BY <1>1, <4>1, TalkCalls
    <3>3. e.text # Talk!HI
      BY <1>6, <3>1, <3>2 DEF Talk!Look, Talk!InMemory
    <3> QED BY <1>1, <3>3 DEF Memory
  <2> HIDE DEF e
  <2>4. heard' \in [Talk!Programs -> TalkRecords] /\ heard'[p] = e /\ \A q \in Talk!Programs \ {p} : heard'[q] = heard[q]
    BY <1>1, <2>1, <2>2
  <2> DEFINE r == Talk!After(p)
  <2>5. r \in PartyRecords /\ r.k = party[p].k + 1
    BY <1>1, <1>2, TalkAfter
  <2>6. party' = [party EXCEPT ![p] = r]
    BY <2>1 DEF Talk!GoesOn
  <2> HIDE DEF r
  <2>7. party'[p] = r /\ \A q \in Talk!Programs \ {p} : party'[q] = party[q]
    BY <1>1, <2>5, <2>6, TalkMoves
  <2>8. Memory'
    <3> SUFFICES ASSUME NEW s \in Talk!Servers
                 PROVE  /\ heard'[s] # Talk!Nothing => heard'[s].by \in Visitors
                        /\ party'[s].at = "run" /\ party'[s].k = Polls =>
                             LET b == box[handle[s][Out]] IN b # <<>> /\ (b[1].text = Talk!HI \/ b[1].by \in Visitors)
      BY <1>4, TalkSame DEF Memory, Talk!Nothing
    <3>1. CASE s = p
      BY <1>1, <1>2, <2>3, <2>4, <2>5, <2>7, <3>1
    <3>2. CASE s # p
      <4>1. s \in Talk!Programs
        BY TalkConstants
      <4> QED BY <1>1, <2>4, <2>7, <3>2, <4>1 DEF Memory
    <3> QED BY <3>1, <3>2
  <2>9. box' \in [Talk!Ids -> Seq(TalkRecords)]
    BY <1>1, <1>4
  <2> QED BY <1>1, <1>3, <1>4, <2>1, <2>4, <2>8, <2>9, MemoryStep
<1> QED BY <1>7, <1>8

\* There is an object that nobody has opened: there are two for each server, and the one
\* that makes an object has not made that one.
LEMMA FreshId ==
  ASSUME TalkInv, NEW p \in Talk!Servers, NEW o \in {Out, Back}, handle[p][o] = 0
  PROVE  \E d \in Talk!Ids : \A q \in Talk!Programs : d \notin Talk!Range(handle[q])
<1> SUFFICES ASSUME \A d \in Talk!Ids : \E q \in Talk!Programs : d \in Talk!Range(handle[q]) PROVE FALSE
  OBVIOUS
<1> DEFINE N == 2 * Runs
           F == [j \in 1 .. N |-> IF j <= Runs THEN handle[j][Out] ELSE handle[j - Runs][Back]]
           x == IF o = Out THEN p ELSE p + Runs
           D == 1 .. N \ {x}
           G == [j \in D |-> IF F[j] \in Talk!Ids THEN F[j] ELSE 1]
<1>1. /\ Runs \in Nat \ {0} /\ Talk!Servers = 1 .. Runs /\ Talk!Ids = 1 .. N /\ 0 \notin Talk!Ids
      /\ \A s \in Talk!Servers : s \in Talk!Programs
  BY TalkConstants
<1>2. x \in 1 .. N /\ F[x] = 0
  BY <1>1
<1>3. ASSUME NEW d \in Talk!Ids PROVE \E j \in D : F[j] = d
  <2>1. PICK q \in Talk!Programs : d \in Talk!Range(handle[q])
    OBVIOUS
  <2>2. PICK a \in Talk!Objects : handle[q][a] = d
    BY <2>1, TalkFacts DEF Talk!Range, TalkTypes
  <2>3. PICK s \in Talk!Servers : handle[s][a] = d
    <3>1. d # 0
      BY <1>1
    <3>2. Owned /\ (q \in Talk!Servers <=> q \notin Visitors)
      BY TalkFacts
    <3> QED BY <2>2, <3>1, <3>2 DEF Owned
  <2>4. a \in {Out, Back}
    <3>1. InStep(s) /\ d # 0
      BY <1>1, TalkFacts
    <3> QED BY <2>3, <3>1 DEF InStep
  <2>5. CASE a = Out
    <3>1. s \in 1 .. N /\ s <= Runs
      BY <1>1
    <3>2. F[s] = d
      BY <2>3, <2>5, <3>1
    <3> QED BY <1>1, <1>2, <3>1, <3>2
  <2>6. CASE a = Back
    <3>1. s + Runs \in 1 .. N /\ ~(s + Runs <= Runs) /\ (s + Runs) - Runs = s
      BY <1>1
    <3>2. F[s + Runs] = d
      BY <2>3, <2>6, <3>1
    <3> QED BY <1>1, <1>2, <3>1, <3>2
  <2> QED BY <2>4, <2>5, <2>6
<1> HIDE DEF F, x
<1>4. N \in Nat \ {0}
  BY <1>1
<1> HIDE DEF N
<1>5. IsFiniteSet(1 .. N) /\ Cardinality(1 .. N) = N
  <2>1. 1 \in Int /\ N \in Int /\ ~(1 > N) /\ N - 1 + 1 = N
    BY <1>4
  <2> QED BY <2>1, FS_Interval
<1>6. IsFiniteSet(D) /\ Cardinality(D) = N - 1
  BY <1>2, <1>5, FS_RemoveElement
<1>7. 1 \in Talk!Ids
  BY <1>1, <1>4
<1>8. G \in [D -> Talk!Ids]
  BY <1>7
<1>9. \A d \in Talk!Ids : \E j \in D : G[j] = d
  BY <1>3
<1> HIDE DEF G, D
<1>10. G \in Surjection(D, Talk!Ids)
  BY <1>8, <1>9 DEF Surjection
<1>11. Cardinality(Talk!Ids) <= Cardinality(D)
  BY <1>6, <1>10, FS_Surjection
<1> QED BY <1>1, <1>5, <1>6, <1>11, <1>4

\* A client that has gone on has heard a server;
LEMMA HeardOut ==
  ASSUME TalkInv, Queued, NEW c \in Visitors, party[c].k > 2
  PROVE  heard[c] # Talk!Nothing /\ heard[c].by \in Talk!Servers /\ heard[c].by \in Talk!Programs
<1>1. c \in Talk!Programs /\ c \notin Talk!Servers /\ kind \in Talk!Kinds
  BY TalkConstants DEF TalkInv, TalkTypes
<1>2. InStep(c) /\ Post /\ Hears(c) = 2
  BY <1>1, TalkFacts, TalkNumbers
<1>3. heard[c] # Talk!Nothing
  BY <1>2 DEF InStep
<1> QED BY <1>1, <1>2, <1>3, TalkConstants DEF Post, Spoken

\* a message is from a process that has got so far;
LEMMA MailFrom ==
  ASSUME TalkInv, Queued, NEW d \in Talk!Ids, NEW m \in Mail(box[d])
  PROVE  /\ m.by \in Talk!Programs /\ (m.by \notin Visitors => m.by \in Talk!Servers) /\ party[m.by].k > 2
         /\ m.by \in Visitors => heard[m.by] # Talk!Nothing /\ heard[m.by].by \in Talk!Servers /\ party[m.by].at = "done"
<1>1. party[m.by].k > 2 /\ (Greeting(m, d) \/ Return(m, d))
  BY DEF TalkInv, Post, Mailed
<1>2. m.by \in Talk!Programs /\ (m.by \notin Visitors => m.by \in Talk!Servers) /\ (m.by \in Visitors => party[m.by].at = "done")
  BY <1>1, TalkConstants DEF Greeting, Return
<1> QED BY <1>1, <1>2, HeardOut

\* who waits for the answer has a queue for it.
LEMMA BothHeld ==
  ASSUME TalkInv, NEW p \in Talk!Programs, party[p].at = "run", party[p].k = Meets, Queued
  PROVE  handle[p][Back] # 0
<1>1. /\ party[p].k > 1 => handle[p][Out] # 0
      /\ party[p].k > 3 => handle[p][Back] # 0
      /\ kind \in Talk!Kinds
  BY TalkFacts DEF InStep
<1>2. Meets \in {3, 4} /\ (Meets = 4 \/ Out = Back)
  BY <1>1, TalkNumbers
<1> QED BY <1>1, <1>2

\* a server makes an object, named or not,
LEMMA TalkMakes == ASSUME TalkInv, NEW p \in Talk!Programs, Talk!Make(p) PROVE TalkInv'
<1> DEFINE k == party[p].k
           o == Talk!Op(p).on
           new == CHOOSE d \in Talk!Ids : \A q \in Talk!Programs : d \notin Talk!Range(handle[q])
           d == IF named[o] = 0 THEN new ELSE named[o]
           r == Talk!After(p)
<1>1. /\ TalkTypes /\ InLine /\ Owned /\ Post /\ Peace /\ Memory /\ InStep(p) /\ kind \in Talk!Kinds /\ k \in Int
      /\ \A q \in Talk!Programs : InStep(q)
  <2>1. \A q \in Talk!Programs : InStep(q)
    BY DEF TalkInv
  <2> QED BY <2>1, TalkFacts
<1>2. /\ party[p].at = "run" /\ p \in Talk!Servers /\ (k = 1 \/ (kind = "mq" /\ k = 3))
      /\ o = IF k = 1 THEN Out ELSE Back
  BY <1>1, TalkCalls DEF Talk!Make
<1>3. /\ party' = [party EXCEPT ![p] = r] /\ named' = [named EXCEPT ![o] = d] /\ handle' = [handle EXCEPT ![p][o] = d]
      /\ (Queued => box' = box) /\ UNCHANGED <<kind, removed, heard, calm>>
  BY DEF Talk!Make, Talk!GoesOn, Queued
<1>4. o \in Talk!Objects /\ handle[p][o] = 0 /\ o \in {Out, Back} /\ Out \in Talk!Objects /\ Back \in Talk!Objects
  BY <1>1, <1>2, TalkNumbers DEF InStep
<1>5. /\ d \in Talk!Ids /\ d # 0
      /\ named[o] = 0 => \A q \in Talk!Programs, a \in Talk!Objects : handle[q][a] # d
      /\ named[o] # 0 => d = named[o]
  <2>1. CASE named[o] = 0
    <3>1. d \in Talk!Ids /\ \A q \in Talk!Programs : d \notin Talk!Range(handle[q])
      BY <1>2, <1>4, <2>1, FreshId
    <3> HIDE DEF d
    <3>2. \A q \in Talk!Programs : handle[q] \in [Talk!Objects -> Talk!Ids \cup {0}]
      BY <1>1 DEF TalkTypes
    <3>3. \A q \in Talk!Programs, a \in Talk!Objects : handle[q][a] # d
      BY <3>1, <3>2 DEF Talk!Range
    <3> QED BY <2>1, <3>1, <3>3, TalkConstants
  <2>2. CASE named[o] # 0
    BY <1>1, <1>4, <2>2, TalkConstants DEF TalkTypes
  <2> QED BY <2>1, <2>2
<1> HIDE DEF d, o, new
<1>6. TalkLong(p) >= 4 /\ r \in PartyRecords /\ r.at = "run" /\ r.k = k + 1
  <2>1. TalkLong(p) \in Int /\ TalkLong(p) >= 4 /\ (kind = "mq" => TalkLong(p) = 6)
    BY <1>1, <1>2, TalkNumbers
  <2> QED BY <1>1, <1>2, <2>1, TalkAfter
<1> HIDE DEF r
<1>7. party' \in [Talk!Programs -> PartyRecords] /\ party'[p] = r /\ \A q \in Talk!Programs \ {p} : party'[q] = party[q]
  BY <1>1, <1>3, <1>6, TalkMoves
<1>8. /\ handle' \in [Talk!Programs -> [Talk!Objects -> Talk!Ids \cup {0}]] /\ handle'[p][o] = d
      /\ \A q \in Talk!Programs, a \in Talk!Objects : (q # p \/ a # o) => handle'[q][a] = handle[q][a]
  BY <1>1, <1>3, <1>4, <1>5 DEF TalkTypes
<1>9. named' \in [Talk!Objects -> Talk!Ids \cup {0}] /\ named'[o] = d /\ \A a \in Talk!Objects : a # o => named'[a] = named[a]
  BY <1>1, <1>3, <1>4, <1>5 DEF TalkTypes
<1>10. /\ Queued' = Queued /\ Out' = Out /\ Back' = Back /\ Meets' = Meets /\ Polls' = Polls
       /\ \A q : TalkLong(q)' = TalkLong(q) /\ Hears(q)' = Hears(q)
       /\ Talk!Nothing' = Talk!Nothing
  BY <1>3, TalkSame
<1>11. \A q \in Talk!Programs, a \in Talk!Objects : handle[q][a] # 0 => handle'[q][a] = handle[q][a]
  BY <1>4, <1>8
<1>12. TalkTypes'
  <2>1. box' \in [Talk!Ids -> Seq(TalkRecords)]
    <3>1. <<Talk!Nothing>> \in Seq(TalkRecords) /\ box \in [Talk!Ids -> Seq(TalkRecords)]
      BY <1>1, TalkConstants, OneLetter DEF TalkTypes
    <3>2. box' = [box EXCEPT ![d] = <<Talk!Nothing>>] \/ box' = box
      BY DEF Talk!Make, d, o, new
    <3> QED BY <1>5, <3>1, <3>2
  <2> QED BY <1>1, <1>3, <1>7, <1>8, <1>9, <2>1 DEF TalkTypes
<1>13. InLine'
  BY <1>2, <1>3, <1>6, LineKept
<1>14. Owned'
  <2> SUFFICES ASSUME NEW a \in Talk!Objects
               PROVE  /\ named'[a] # 0 => \E s \in Talk!Servers : handle'[s][a] = named'[a]
                      /\ \A c \in Visitors : handle'[c][a] # 0 => \E s \in Talk!Servers : handle'[s][a] = handle'[c][a]
    BY DEF Owned
  <2>1. named'[a] # 0 => \E s \in Talk!Servers : handle'[s][a] = named'[a]
    <3>1. CASE a = o
      BY <1>2, <1>8, <1>9, <3>1
    <3>2. ASSUME a # o, named[a] # 0 PROVE \E s \in Talk!Servers : handle'[s][a] = named[a]
      <4>1. PICK s \in Talk!Servers : handle[s][a] = named[a]
        BY <1>1, <3>2 DEF Owned
      <4> QED BY <1>8, <3>2, <4>1, TalkConstants
    <3> QED BY <1>9, <3>1, <3>2
  <2>2. ASSUME NEW c \in Visitors, handle'[c][a] # 0 PROVE \E s \in Talk!Servers : handle'[s][a] = handle'[c][a]
    <3>1. c \in Talk!Programs /\ c # p
      BY <1>2, TalkConstants
    <3>2. PICK s \in Talk!Servers : handle[s][a] = handle[c][a]
      BY <1>1, <1>8, <2>2, <3>1 DEF Owned
    <3>3. handle'[s][a] = handle[s][a]
      BY <1>8, <1>11, <2>2, <3>1, <3>2, TalkConstants
    <3> QED BY <1>8, <3>1, <3>2, <3>3
  <2> QED BY <2>1, <2>2
<1>15. \A q \in Talk!Programs : InStep(q)'
  <2>1. InStep(p)'
    <3>1. r.k <= TalkLong(p) /\ r.at # "new" /\ r.k # 1
      <4>1. kind = "mq" => TalkLong(p) = 6
        BY <1>1, <1>2, TalkNumbers
      <4> QED BY <1>1, <1>2, <1>6, <4>1, TalkNumbers
    <3>2. kind = "mq" /\ r.k <= 3 => handle'[p][Back] = 0
      BY <1>1, <1>2, <1>4, <1>6, <1>8, TalkNumbers DEF InStep
    <3>3. \A a \in Talk!Objects : handle'[p][a] # 0 => a \in {Out, Back}
      BY <1>1, <1>4, <1>8 DEF InStep
    <3>4. handle'[p][Out] # 0
      BY <1>1, <1>2, <1>4, <1>5, <1>8 DEF InStep
    <3>5. r.k > 3 => handle'[p][Back] # 0
      BY <1>1, <1>2, <1>5, <1>6, <1>8
    <3>6. Queued => (heard[p] # Talk!Nothing <=> r.k > Hears(p))
      BY <1>1, <1>2, <1>6, TalkNumbers DEF InStep
    <3> QED BY <1>3, <1>7, <1>10, <3>1, <3>2, <3>3, <3>4, <3>5, <3>6 DEF InStep
  <2>2. ASSUME NEW q \in Talk!Programs, q # p PROVE InStep(q)'
    <3>1. party'[q] = party[q] /\ heard'[q] = heard[q] /\ \A a \in Talk!Objects : handle'[q][a] = handle[q][a]
      BY <1>3, <1>7, <1>8, <2>2
    <3> QED BY <1>1, <1>3, <1>4, <1>10, <3>1 DEF InStep
  <2> QED BY <2>1, <2>2
<1>16. Post'
  <2> SUFFICES ASSUME Queued PROVE Apart' /\ Mailed' /\ Spoken' /\ ToOne'
    BY <1>10 DEF Post
  <2>1. Mailed' /\ Spoken' /\ ToOne'
    <3>1. party[p].at # "done" /\ r.k >= party[p].k /\ box' = box /\ heard' = heard /\ kind' = kind
      BY <1>1, <1>2, <1>3, <1>6
    <3> QED BY <1>3, <1>6, <1>11, <3>1, LettersKept
  <2>2. Apart'
    <3> SUFFICES ASSUME kind = "mq", NEW q \in Talk!Programs, NEW t \in Talk!Programs, handle'[q][Out] = handle'[t][Back]
                 PROVE  handle'[q][Out] = 0
      BY <1>3, <1>10 DEF Apart
    <3>1. Out # Back /\ \A g, h \in Talk!Programs : handle[g][Out] = handle[h][Back] => handle[g][Out] = 0
      BY <1>1, TalkNumbers DEF Post, Apart
    <3>2. \A g \in Talk!Programs, a \in {Out, Back} : a # o => handle[g][a] # d
      <4> SUFFICES ASSUME NEW g \in Talk!Programs, NEW a \in {Out, Back}, a # o, handle[g][a] = d, named[o] # 0 PROVE FALSE
        BY <1>4, <1>5
      <4>1. PICK s \in Talk!Servers : handle[s][o] = named[o]
        BY <1>1, <1>4 DEF Owned
      <4> QED BY <1>4, <1>5, <3>1, <4>1, TalkConstants
    <3> QED BY <1>4, <1>5, <1>8, <3>1, <3>2
  <2> QED BY <2>1, <2>2
<1>17. Peace'
  <2> SUFFICES ASSUME Queued, calm PROVE Smooth' /\ OneMaker' /\ Current' /\ Dropped' /\ Addressed' /\ Talking' /\ Mutual'
    BY <1>3, <1>10 DEF Peace
  <2>1. Smooth /\ OneMaker /\ Current /\ Dropped /\ Addressed /\ Talking /\ Mutual
    BY <1>1 DEF Peace
  <2>2. \A s \in Talk!Servers : s \in Talk!Programs /\ (party[s].at = "run" => s = p)
    BY <1>1, <1>2, OneRuns, TalkConstants
  <2>3. named[o] = 0
    BY <1>4, <2>1, <2>2 DEF Current
  <2>4. r.k <= Meets /\ r.k \in Int /\ Meets \in Int
    BY <1>1, <1>2, <1>6, TalkNumbers
  <2>5. Smooth'
    BY <1>6, <1>7, <2>1, <2>2 DEF Smooth
  <2>6. OneMaker'
    BY <1>5, <1>8, <2>1, <2>2, <2>3 DEF OneMaker
  <2>7. Current'
    <3> SUFFICES ASSUME NEW a \in Talk!Objects, named'[a] # 0
                 PROVE  party'[p].at = "run" /\ handle'[p][a] = named'[a] /\ party'[p].k <= Meets + 1
      BY <1>2, <1>10 DEF Current
    <3>1. handle'[p][a] = named'[a]
      <4>1. CASE a = o
        BY <1>8, <1>9, <4>1
      <4>2. CASE a # o
        BY <1>8, <1>9, <2>1, <2>2, <4>2 DEF Current
      <4> QED BY <4>1, <4>2
    <3> QED BY <1>6, <1>7, <2>4, <3>1
  <2>8. Dropped'
    <3> SUFFICES ASSUME NEW e \in removed PROVE \E t \in Talk!Servers : party'[t].at = "done" /\ handle'[t][Out] = e
      BY <1>3, <1>10 DEF Dropped
    <3>1. PICK t \in Talk!Servers : party[t].at = "done" /\ handle[t][Out] = e
      BY <2>1 DEF Dropped
    <3>2. t # p /\ t \in Talk!Programs
      BY <1>2, <2>2, <3>1
    <3> QED BY <1>4, <1>7, <1>8, <3>1, <3>2
  <2>9. \A s \in Talk!Servers : Waits(s) => Waits(s)'
    BY <1>6, <1>7, <1>10, <2>2, <2>4 DEF Waits
  <2>10. Addressed'
    <3> SUFFICES ASSUME NEW e \in Talk!Ids, NEW m \in Mail(box[e])
                 PROVE  IF m.by \in Visitors THEN handle'[heard[m.by].by][Back] = e ELSE Waits(m.by)'
      BY <1>3, <1>10 DEF Addressed
    <3>1. IF m.by \in Visitors THEN handle[heard[m.by].by][Back] = e ELSE Waits(m.by)
      BY <2>1 DEF Addressed
    <3>2. e # 0
      BY TalkConstants
    <3> QED BY <1>4, <1>11, <2>2, <2>9, <3>1, <3>2, MailFrom
  <2>11. Talking'
    <3> SUFFICES ASSUME NEW c \in Visitors, party'[c].at = "run", party'[c].k > 2
                 PROVE  Waits(heard[c].by)' /\ (party'[c].k = Meets => handle'[c][Back] = handle'[heard[c].by][Back])
      BY <1>3, <1>10 DEF Talking
    <3>1. c # p /\ c \in Talk!Programs
      BY <1>2, TalkConstants
    <3>2. party'[c] = party[c] /\ handle'[c][Back] = handle[c][Back]
      BY <1>4, <1>7, <1>8, <3>1
    <3>3. heard[c].by \in Talk!Servers
      BY <3>2, HeardOut
    <3>4. Waits(heard[c].by) /\ (party[c].k = Meets => handle[c][Back] = handle[heard[c].by][Back])
      BY <2>1, <3>2 DEF Talking
    <3>5. ASSUME party[c].k = Meets PROVE handle[c][Back] # 0
      <4>1. party[c].at = "run"
        BY <3>2
      <4> QED BY <3>1, <3>5, <4>1, BothHeld
    <3> QED BY <1>3, <1>4, <1>11, <2>2, <2>9, <3>2, <3>3, <3>4, <3>5
  <2>12. Mutual'
    BY <1>3, <1>10, <2>1 DEF Mutual
  <2> QED BY <2>5, <2>6, <2>7, <2>8, <2>10, <2>11, <2>12
<1>18. Memory'
  <2> SUFFICES ASSUME ~Queued, NEW s \in Talk!Servers
               PROVE  (heard[s] # Talk!Nothing => heard[s].by \in Visitors) /\ ~(party'[s].at = "run" /\ party'[s].k = Polls)
    BY <1>3, <1>10 DEF Memory
  <2>1. heard[s] # Talk!Nothing => heard[s].by \in Visitors
    BY <1>1 DEF Memory
  <2>2. s \in Talk!Programs /\ (party[s].at = "run" => s = p)
    BY <1>1, <1>2, OneRuns, TalkConstants
  <2>3. k = 1 /\ Polls \in {5, 6}
    BY <1>1, <1>2, TalkNumbers
  <2> QED BY <1>6, <1>7, <2>1, <2>2, <2>3
<1> QED BY <1>12, <1>13, <1>14, <1>15, <1>16, <1>17, <1>18 DEF TalkInv

\* a client opens one,
LEMMA TalkOpens == ASSUME TalkInv, NEW p \in Talk!Programs, Talk!Open(p) PROVE TalkInv'
<1> DEFINE k == party[p].k
           o == Talk!Op(p).on
           r == Talk!After(p)
<1>1. /\ TalkTypes /\ InLine /\ Owned /\ Post /\ Peace /\ Memory /\ InStep(p) /\ kind \in Talk!Kinds /\ k \in Int
      /\ \A q \in Talk!Programs : InStep(q)
  <2>1. \A q \in Talk!Programs : InStep(q)
    BY DEF TalkInv
  <2> QED BY <2>1, TalkFacts
<1>2. /\ party[p].at = "run" /\ p \notin Talk!Servers /\ (k = 1 \/ (kind = "mq" /\ k = 3))
      /\ o = IF k = 1 THEN Out ELSE Back
  BY <1>1, TalkCalls DEF Talk!Open
<1>3. handle' = [handle EXCEPT ![p][o] = named[o]] /\ UNCHANGED <<kind, named, box, removed, heard, calm>>
  BY DEF Talk!Open
<1>4. /\ o \in Talk!Objects /\ handle[p][o] = 0 /\ o \in {Out, Back} /\ Out \in Talk!Objects /\ Back \in Talk!Objects
      /\ p \in Visitors /\ calm \in BOOLEAN /\ named[o] \in Talk!Ids \cup {0}
  BY <1>1, <1>2, TalkNumbers, TalkConstants, SMTT(30) DEF InStep, TalkTypes
<1>5. CASE named[o] = 0
  <2>1. Talk!Fails(p)
    BY <1>5 DEF Talk!Open
  <2>2. PICK f \in PartyRecords : party' = [party EXCEPT ![p] = f] /\ f.at = "failed" /\ f.k = party[p].k
    BY <1>1, <2>1, TalkFailure
  <2> HIDE DEF o
  <2>3. handle' = handle
    BY <1>1, <1>3, <1>4, <1>5 DEF TalkTypes
  <2> QED BY <1>2, <1>3, <1>4, <2>2, <2>3, TalkStops
<1>6. CASE named[o] # 0
  <2>1. party' = [party EXCEPT ![p] = r]
    BY <1>6 DEF Talk!Open, Talk!GoesOn
  <2>2. r \in PartyRecords /\ r.at = "run" /\ r.k = k + 1 /\ k # TalkLong(p)
    <3>1. k # TalkLong(p)
      BY <1>1, <1>2, TalkNumbers
    <3> QED BY <1>1, <1>2, <3>1, TalkAfter
  <2> HIDE DEF r, o
  <2>3. party' \in [Talk!Programs -> PartyRecords] /\ party'[p] = r /\ \A q \in Talk!Programs \ {p} : party'[q] = party[q]
    BY <1>1, <2>1, <2>2, TalkMoves
  <2>4. /\ handle' \in [Talk!Programs -> [Talk!Objects -> Talk!Ids \cup {0}]] /\ handle'[p][o] = named[o]
        /\ \A q \in Talk!Programs, a \in Talk!Objects : (q # p \/ a # o) => handle'[q][a] = handle[q][a]
    BY <1>1, <1>3, <1>4 DEF TalkTypes
  <2>5. /\ Queued' = Queued /\ Out' = Out /\ Back' = Back /\ Meets' = Meets /\ Polls' = Polls
        /\ \A q : TalkLong(q)' = TalkLong(q) /\ Hears(q)' = Hears(q)
        /\ Talk!Nothing' = Talk!Nothing
    BY <1>3, TalkSame
  <2>6. /\ \A q \in Talk!Programs, a \in Talk!Objects : handle[q][a] # 0 => handle'[q][a] = handle[q][a]
        /\ \A s \in Talk!Servers : s # p /\ s \in Talk!Programs /\ party'[s] = party[s]
                                   /\ \A a \in Talk!Objects : handle'[s][a] = handle[s][a]
    BY <1>2, <1>4, <2>3, <2>4, TalkConstants
  <2>7. TalkTypes'
    BY <1>1, <1>3, <2>3, <2>4 DEF TalkTypes
  <2>8. InLine'
    BY <1>1, <2>6 DEF InLine
  <2>9. Owned'
    <3> SUFFICES ASSUME NEW a \in Talk!Objects
                 PROVE  /\ named[a] # 0 => \E s \in Talk!Servers : handle'[s][a] = named[a]
                        /\ \A c \in Visitors : handle'[c][a] # 0 => \E s \in Talk!Servers : handle'[s][a] = handle'[c][a]
      BY <1>3 DEF Owned
    <3>1. ASSUME named[a] # 0 PROVE \E s \in Talk!Servers : handle'[s][a] = named[a]
      <4>1. \E s \in Talk!Servers : handle[s][a] = named[a]
        BY <1>1, <3>1 DEF Owned
      <4> QED BY <2>6, <4>1
    <3>2. ASSUME NEW c \in Visitors, handle'[c][a] # 0 PROVE \E s \in Talk!Servers : handle'[s][a] = handle'[c][a]
      <4>1. CASE c = p /\ a = o
        BY <1>6, <2>4, <3>1, <4>1
      <4>2. CASE ~(c = p /\ a = o)
        <5>1. handle'[c][a] = handle[c][a]
          BY <2>4, <4>2, TalkConstants
        <5>2. \E s \in Talk!Servers : handle[s][a] = handle[c][a]
          BY <1>1, <3>2, <5>1 DEF Owned
        <5> QED BY <2>6, <5>1, <5>2
      <4> QED BY <4>1, <4>2
    <3> QED BY <3>1, <3>2
  <2>10. \A q \in Talk!Programs : InStep(q)'
    <3>1. InStep(p)'
      <4>1. r.k <= TalkLong(p) /\ r.at # "new" /\ r.k # 1
        BY <1>1, <1>2, <2>2, TalkNumbers DEF InStep
      <4>2. kind = "mq" /\ r.k <= 3 => handle'[p][Back] = 0
        BY <1>1, <1>2, <1>4, <2>2, <2>4, TalkNumbers DEF InStep
      <4>3. \A a \in Talk!Objects : handle'[p][a] # 0 => a \in {Out, Back}
        BY <1>1, <1>4, <2>4 DEF InStep
      <4>4. handle'[p][Out] # 0
        BY <1>1, <1>2, <1>4, <1>6, <2>4 DEF InStep
      <4>5. r.k > 3 => handle'[p][Back] # 0
        BY <1>1, <1>2, <1>6, <2>2, <2>4
      <4>6. Queued => (heard[p] # Talk!Nothing <=> r.k > Hears(p))
        BY <1>1, <1>2, <2>2, TalkNumbers DEF InStep
      <4> QED BY <1>3, <2>3, <2>5, <4>1, <4>2, <4>3, <4>4, <4>5, <4>6 DEF InStep
    <3>2. ASSUME NEW q \in Talk!Programs, q # p PROVE InStep(q)'
      <4>1. party'[q] = party[q] /\ heard'[q] = heard[q] /\ \A a \in Talk!Objects : handle'[q][a] = handle[q][a]
        BY <1>3, <2>3, <2>4, <3>2
      <4> QED BY <1>1, <1>3, <1>4, <2>5, <4>1 DEF InStep
    <3> QED BY <3>1, <3>2
  <2>11. Post'
    <3> SUFFICES ASSUME Queued PROVE Apart' /\ Mailed' /\ Spoken' /\ ToOne'
      BY <2>5 DEF Post
    <3>1. Mailed' /\ Spoken' /\ ToOne'
      <4>1. party[p].at # "done" /\ r.k >= party[p].k /\ box' = box /\ heard' = heard /\ kind' = kind
        BY <1>1, <1>2, <1>3, <2>2
      <4> QED BY <2>1, <2>2, <2>6, <4>1, LettersKept
    <3>2. Apart'
      <4> SUFFICES ASSUME kind = "mq", NEW q \in Talk!Programs, NEW t \in Talk!Programs, handle'[q][Out] = handle'[t][Back]
                   PROVE  handle'[q][Out] = 0
        BY <1>3, <2>5 DEF Apart
      <4>1. Out # Back /\ \A g, h \in Talk!Programs : handle[g][Out] = handle[h][Back] => handle[g][Out] = 0
        BY <1>1, TalkNumbers DEF Post, Apart
      <4>2. PICK s \in Talk!Servers : handle[s][o] = named[o]
        BY <1>1, <1>4, <1>6 DEF Owned
      <4>3. \A g \in Talk!Programs, a \in {Out, Back} : a # o => handle[g][a] # named[o]
        BY <1>4, <1>6, <4>1, <4>2, TalkConstants
      <4> QED BY <1>4, <1>6, <2>4, <4>1, <4>3
    <3> QED BY <3>1, <3>2
  <2>12. Peace'
    <3> SUFFICES ASSUME Queued, calm PROVE Smooth' /\ OneMaker' /\ Current' /\ Dropped' /\ Addressed' /\ Talking' /\ Mutual'
      BY <1>3, <2>5 DEF Peace
    <3>1. Smooth /\ OneMaker /\ Current /\ Dropped /\ Addressed /\ Talking /\ Mutual
      BY <1>1 DEF Peace
    <3>2. Smooth' /\ OneMaker' /\ Mutual'
      BY <1>3, <2>5, <2>6, <3>1 DEF Smooth, OneMaker, Mutual
    <3>3. Current'
      BY <1>3, <2>5, <2>6, <3>1 DEF Current
    <3>4. Dropped'
      BY <1>3, <1>4, <2>5, <2>6, <3>1 DEF Dropped
    <3>5. \A s \in Talk!Servers : Waits(s) <=> Waits(s)'
      BY <2>5, <2>6 DEF Waits
    <3>6. Addressed'
      <4> SUFFICES ASSUME NEW e \in Talk!Ids, NEW m \in Mail(box[e])
                   PROVE  IF m.by \in Visitors THEN handle'[heard[m.by].by][Back] = e ELSE Waits(m.by)'
        BY <1>3, <2>5 DEF Addressed
      <4>1. IF m.by \in Visitors THEN handle[heard[m.by].by][Back] = e ELSE Waits(m.by)
        BY <3>1 DEF Addressed
      <4> QED BY <1>4, <2>6, <3>5, <4>1, MailFrom
    <3>7. Talking'
      <4> SUFFICES ASSUME NEW c \in Visitors, party'[c].at = "run", party'[c].k > 2
                   PROVE  Waits(heard[c].by)' /\ (party'[c].k = Meets => handle'[c][Back] = handle'[heard[c].by][Back])
        BY <1>3, <2>5 DEF Talking
      <4>1. party[c].at = "run" /\ party[c].k > 2 /\ (c # p => party'[c] = party[c]) /\ c \in Talk!Programs
        BY <1>1, <1>2, <2>2, <2>3, TalkConstants
      <4>2. heard[c].by \in Talk!Servers
        BY <4>1, HeardOut
      <4>3. Waits(heard[c].by) /\ (party[c].k = Meets => handle[c][Back] = handle[heard[c].by][Back])
        BY <3>1, <4>1 DEF Talking
      <4>4. Waits(heard[c].by)' /\ handle'[heard[c].by][Back] = handle[heard[c].by][Back]
        BY <1>3, <1>4, <2>6, <3>5, <4>2, <4>3
      <4>5. CASE c = p
        <5>1. o = Back /\ o # Out
          BY <1>1, <1>2, <4>1, <4>5, TalkNumbers
        <5>2. PICK s \in Talk!Servers : party[s].at = "run" /\ handle[s][o] = named[o]
          BY <1>4, <1>6, <3>1 DEF Current
        <5>3. s = heard[c].by
          BY <1>1, <4>2, <4>3, <5>2, OneRuns DEF Waits
        <5> QED BY <2>4, <4>4, <4>5, <5>1, <5>2, <5>3
      <4>6. CASE c # p
        BY <1>4, <2>4, <4>1, <4>3, <4>4, <4>6
      <4> QED BY <4>5, <4>6
    <3> QED BY <3>1, <3>2, <3>3, <3>4, <3>6, <3>7
  <2>13. Memory'
    <3> SUFFICES ASSUME ~Queued, NEW s \in Talk!Servers
                 PROVE  /\ heard[s] # Talk!Nothing => heard[s].by \in Visitors
                        /\ party[s].at = "run" /\ party[s].k = Polls =>
                             LET b == box[handle[s][Out]] IN b # <<>> /\ (b[1].text = Talk!HI \/ b[1].by \in Visitors)
      BY <1>3, <1>4, <2>5, <2>6 DEF Memory
    <3> QED BY <1>1 DEF Memory
  <2> QED BY <2>7, <2>8, <2>9, <2>10, <2>11, <2>12, <2>13 DEF TalkInv
<1> QED BY <1>5, <1>6

\* a server removes it;
LEMMA TalkDrops == ASSUME TalkInv, NEW p \in Talk!Programs, Talk!Drop(p) PROVE TalkInv'
<1> DEFINE k == party[p].k
           o == Talk!Op(p).on
           r == Talk!After(p)
           last == k = TalkLong(p)
<1>1. /\ TalkTypes /\ InLine /\ Owned /\ Post /\ Peace /\ Memory /\ InStep(p) /\ kind \in Talk!Kinds /\ k \in Int
      /\ \A q \in Talk!Programs : InStep(q)
  <2>1. \A q \in Talk!Programs : InStep(q)
    BY DEF TalkInv
  <2> QED BY <2>1, TalkFacts
<1>2. /\ party[p].at = "run" /\ p \in Talk!Servers /\ (last \/ (kind = "mq" /\ k = 5))
      /\ TalkLong(p) = (IF Queued THEN IF kind = "mq" THEN 6 ELSE 4 ELSE Polls + 2) /\ Polls \in {5, 6}
      /\ Meets = (IF kind = "mq" THEN 4 ELSE 3) /\ Hears(p) = Meets /\ (kind = "mq" => Queued /\ Out # Back) /\ (kind # "mq" => Out = Back)
  BY <1>1, TalkCalls, TalkNumbers DEF Talk!Drop
<1>3. /\ k > 3 /\ o = (IF last THEN Out ELSE Back) /\ (Queued => k > Meets)
      /\ Out \in Talk!Objects /\ Back \in Talk!Objects /\ o \in Talk!Objects
  BY <1>1, <1>2, TalkCalls, TalkNumbers
<1>4. /\ party' = [party EXCEPT ![p] = r] /\ named' = [named EXCEPT ![o] = 0]
      /\ removed' = (IF kind \in {"msg", "ipc"} THEN removed \cup {handle[p][o]} ELSE removed)
      /\ UNCHANGED <<kind, handle, box, heard, calm>>
  BY DEF Talk!Drop, Talk!GoesOn, Talk!Obj
<1>5. r \in PartyRecords /\ r.at = (IF last THEN "done" ELSE "run") /\ r.k = IF last THEN k ELSE k + 1
  BY <1>1, <1>2, TalkAfter
<1> HIDE DEF r, o
<1>6. party' \in [Talk!Programs -> PartyRecords] /\ party'[p] = r /\ \A q \in Talk!Programs \ {p} : party'[q] = party[q]
  BY <1>1, <1>4, <1>5, TalkMoves
<1>7. named' \in [Talk!Objects -> Talk!Ids \cup {0}] /\ named'[o] = 0 /\ \A a \in Talk!Objects : a # o => named'[a] = named[a]
  BY <1>1, <1>3, <1>4 DEF TalkTypes
<1>8. /\ Queued' = Queued /\ Out' = Out /\ Back' = Back /\ Meets' = Meets /\ Polls' = Polls
      /\ \A q : TalkLong(q)' = TalkLong(q) /\ Hears(q)' = Hears(q)
      /\ Talk!Nothing' = Talk!Nothing
  BY <1>4, TalkSame
<1>9. TalkTypes'
  <2>1. kind \in {"msg", "ipc"} => handle[p][o] \in Talk!Ids
    <3>1. kind \in {"msg", "ipc"} => o = Out
      BY <1>2, <1>3
    <3>2. handle[p][Out] \in Talk!Ids
      BY <1>1, <1>2, <1>3, TalkFacts DEF InStep
    <3> QED BY <3>1, <3>2
  <2>2. removed' \subseteq Talk!Ids
    BY <1>1, <1>4, <2>1 DEF TalkTypes
  <2> QED BY <1>1, <1>4, <1>6, <1>7, <2>2 DEF TalkTypes
<1>10. InLine'
  BY <1>2, <1>4, <1>5, LineKept
<1>11. Owned'
  BY <1>1, <1>4, <1>7 DEF Owned
<1>12. \A q \in Talk!Programs : InStep(q)'
  <2>1. InStep(p)'
    <3>1. r.k <= TalkLong(p) /\ r.at # "new" /\ r.k > 3 /\ (Queued => r.k > Hears(p))
      BY <1>1, <1>2, <1>3, <1>5
    <3>2. (Queued => heard[p] # Talk!Nothing) /\ handle[p][Out] # 0 /\ handle[p][Back] # 0
          /\ \A a \in Talk!Objects : handle[p][a] # 0 => a \in {Out, Back}
      BY <1>1, <1>2, <1>3 DEF InStep
    <3>3. r.k \in Int /\ r.k # 1 /\ ~(r.k <= 3)
      BY <1>1, <1>2, <1>3, <1>5
    <3> QED BY <1>4, <1>6, <1>8, <3>1, <3>2, <3>3 DEF InStep
  <2>2. ASSUME NEW q \in Talk!Programs, q # p PROVE InStep(q)'
    BY <1>1, <1>4, <1>6, <1>8, <2>2 DEF InStep
  <2> QED BY <2>1, <2>2
<1>13. Post'
  <2>1. /\ party[p].at # "done" /\ r.k >= party[p].k /\ box' = box /\ heard' = heard /\ kind' = kind
        /\ \A q \in Talk!Programs, a \in Talk!Objects : handle[q][a] # 0 => handle'[q][a] = handle[q][a]
    BY <1>1, <1>2, <1>4, <1>5
  <2>2. Queued => Mailed' /\ Spoken' /\ ToOne'
    BY <1>4, <1>5, <2>1, LettersKept
  <2>3. Queued => Apart'
    BY <1>1, <1>4, <1>8 DEF Post, Apart
  <2> QED BY <1>8, <2>2, <2>3 DEF Post
<1>14. Peace'
  <2> SUFFICES ASSUME Queued, calm PROVE Smooth' /\ OneMaker' /\ Current' /\ Dropped' /\ Addressed' /\ Talking' /\ Mutual'
    BY <1>4, <1>8 DEF Peace
  <2>1. Smooth /\ OneMaker /\ Current /\ Dropped /\ Addressed /\ Talking /\ Mutual
    BY <1>1 DEF Peace
  <2>2. /\ \A s \in Talk!Servers : s \in Talk!Programs /\ (party[s].at = "run" => s = p)
        /\ \A c \in Visitors : c \in Talk!Programs /\ c # p
    BY <1>1, <1>2, OneRuns, TalkConstants
  <2>3. Smooth'
    BY <1>5, <1>6, <2>1, <2>2 DEF Smooth
  <2>4. OneMaker' /\ Mutual'
    BY <1>4, <1>8, <2>1 DEF OneMaker, Mutual
  <2>5. Current'
    <3> SUFFICES ASSUME NEW a \in Talk!Objects, named'[a] # 0
                 PROVE  party'[p].at = "run" /\ handle[p][a] = named'[a] /\ (a # Out => party'[p].k <= Meets + 1)
      BY <1>2, <1>4, <1>8 DEF Current
    <3>1. a # o /\ named'[a] = named[a] /\ named[a] # 0
      BY <1>7
    <3>2. handle[p][a] = named[a] /\ (a # Out => k <= Meets + 1)
      BY <2>1, <2>2, <3>1 DEF Current
    <3>3. a \in {Out, Back}
      BY <1>1, <3>1, <3>2 DEF InStep
    <3>4. ~last /\ a = Out
      BY <1>1, <1>2, <1>3, <3>1, <3>2, <3>3
    <3> QED BY <1>5, <1>6, <3>1, <3>2, <3>4
  <2>6. Dropped'
    <3> SUFFICES ASSUME NEW e \in removed' PROVE \E t \in Talk!Servers : party'[t].at = "done" /\ handle[t][Out] = e
      BY <1>4, <1>8 DEF Dropped
    <3>1. CASE e \in removed
      <4>1. PICK t \in Talk!Servers : party[t].at = "done" /\ handle[t][Out] = e
        BY <2>1, <3>1 DEF Dropped
      <4> QED BY <1>2, <1>6, <2>2, <4>1
    <3>2. CASE e \notin removed
      <4>1. kind # "mq" /\ e = handle[p][o]
        BY <1>4, <3>2
      <4>2. last /\ o = Out
        BY <1>2, <1>3, <4>1
      <4> QED BY <1>2, <1>5, <1>6, <4>1, <4>2
    <3> QED BY <3>1, <3>2
  <2>7. \A s \in Talk!Servers : Waits(s) => Waits(s)'
    <3>1. ~Waits(p)
      BY <1>1, <1>2, <1>3 DEF Waits
    <3> QED BY <1>6, <1>8, <2>2, <3>1 DEF Waits
  <2>8. Addressed'
    <3> SUFFICES ASSUME NEW e \in Talk!Ids, NEW m \in Mail(box[e])
                 PROVE  IF m.by \in Visitors THEN handle[heard[m.by].by][Back] = e ELSE Waits(m.by)'
      BY <1>4, <1>8 DEF Addressed
    <3>1. IF m.by \in Visitors THEN handle[heard[m.by].by][Back] = e ELSE Waits(m.by)
      BY <2>1 DEF Addressed
    <3> QED BY <2>7, <3>1, MailFrom
  <2>9. Talking'
    <3> SUFFICES ASSUME NEW c \in Visitors, party'[c].at = "run", party'[c].k > 2
                 PROVE  Waits(heard[c].by)' /\ (party'[c].k = Meets => handle[c][Back] = handle[heard[c].by][Back])
      BY <1>4, <1>8 DEF Talking
    <3>1. party'[c] = party[c]
      BY <1>6, <2>2
    <3>2. heard[c].by \in Talk!Servers
      BY <3>1, HeardOut
    <3>3. Waits(heard[c].by) /\ (party[c].k = Meets => handle[c][Back] = handle[heard[c].by][Back])
      BY <2>1, <3>1 DEF Talking
    <3> QED BY <1>4, <2>7, <3>1, <3>2, <3>3
  <2> QED BY <2>3, <2>4, <2>5, <2>6, <2>8, <2>9
<1>15. Memory'
  <2> SUFFICES ASSUME ~Queued, NEW s \in Talk!Servers
               PROVE  /\ heard[s] # Talk!Nothing => heard[s].by \in Visitors
                      /\ party'[s].at = "run" /\ party'[s].k = Polls =>
                           LET b == box[handle[s][Out]] IN b # <<>> /\ (b[1].text = Talk!HI \/ b[1].by \in Visitors)
    BY <1>4, <1>8 DEF Memory
  <2>1. party'[s].at = "run" => s # p /\ party'[s] = party[s]
    BY <1>2, <1>5, <1>6, TalkConstants
  <2> QED BY <1>1, <2>1 DEF Memory
<1> QED BY <1>9, <1>10, <1>11, <1>12, <1>13, <1>14, <1>15 DEF TalkInv

\* a process sends
LEMMA TalkPuts == ASSUME TalkInv, NEW p \in Talk!Programs, Talk!Put(p) PROVE TalkInv'
<1> DEFINE k == party[p].k
           o == Talk!Op(p).on
           r == Talk!After(p)
           d == handle[p][o]
           e == [text |-> Talk!Op(p).text, by |-> p]
<1>1. /\ TalkTypes /\ InLine /\ Owned /\ Post /\ Peace /\ Memory /\ InStep(p) /\ kind \in Talk!Kinds /\ k \in Int
      /\ box \in [Talk!Ids -> Seq(TalkRecords)] /\ calm \in BOOLEAN
      /\ \A q \in Talk!Programs : InStep(q)
  <2>1. \A q \in Talk!Programs : InStep(q)
    BY DEF TalkInv
  <2>2. calm \in BOOLEAN
    BY DEF TalkInv, TalkTypes
  <2> QED BY <2>1, <2>2, TalkFacts
<1>2. /\ party[p].at = "run" /\ Queued /\ k = (IF p \in Talk!Servers THEN 2 ELSE Meets)
      /\ Meets = (IF kind = "mq" THEN 4 ELSE 3)
      /\ (kind = "mq" => Out # Back) /\ (kind # "mq" => Out = Back) /\ Out \in Talk!Objects /\ Back \in Talk!Objects
  BY <1>1, TalkCalls, TalkNumbers DEF Talk!Put
<1>3. o = IF p \in Talk!Servers THEN Out ELSE Back
  BY <1>1, <1>2, TalkCalls
<1>4. e.by = p /\ e.text = (IF p \in Talk!Servers THEN Talk!HI ELSE Talk!HELLO) /\ e \in TalkRecords
  <2>1. Talk!Op(p).op = "put"
    BY DEF Talk!Put, Talk!Doing
  <2>2. Talk!Op(p).text = IF p \in Talk!Servers THEN Talk!HI ELSE Talk!HELLO
    BY <1>1, <2>1, TalkCalls
  <2> QED BY <2>2, TalkConstants DEF TalkRecords
<1>5. d \in Talk!Ids
  <2>1. /\ party[p].k > 1 => handle[p][Out] # 0
        /\ party[p].k > 3 => handle[p][Back] # 0
    BY <1>1, <1>2 DEF InStep
  <2>2. handle[p][o] # 0
    BY <1>1, <1>2, <1>3, <2>1
  <2> QED BY <1>2, <1>3, <2>2, TalkFacts
<1>6. UNCHANGED <<kind, handle, named, removed, heard, calm>>
  BY DEF Talk!Put
<1>7. CASE d \in removed
  <2>1. Talk!Fails(p) /\ box' = box
    BY <1>7 DEF Talk!Put, Talk!Obj
  <2>2. PICK f \in PartyRecords : party' = [party EXCEPT ![p] = f] /\ f.at = "failed" /\ f.k = party[p].k
    BY <1>1, <2>1, TalkFailure
  <2>3. ~(Queued /\ calm' /\ p \in Talk!Servers)
    <3> SUFFICES ASSUME calm, p \in Talk!Servers PROVE FALSE
      BY <1>6
    <3>1. Dropped /\ OneMaker
      BY <1>1, <1>2 DEF Peace
    <3>2. PICK t \in Talk!Servers : party[t].at = "done" /\ handle[t][Out] = d
      BY <1>7, <3>1 DEF Dropped
    <3>3. d # 0 /\ handle[p][Out] = d
      BY <1>3, <1>5, TalkConstants
    <3>4. t = p
      BY <1>2, <3>1, <3>2, <3>3 DEF OneMaker
    <3> QED BY <1>2, <3>2, <3>4
  <2> QED BY <1>1, <1>2, <1>6, <2>1, <2>2, <2>3, TalkStops
<1>8. CASE d \notin removed
  <2>1. party' = [party EXCEPT ![p] = r] /\ box' = [box EXCEPT ![d] = Append(box[d], e)]
    BY <1>8 DEF Talk!Put, Talk!Obj, Talk!GoesOn
  <2>2. /\ r \in PartyRecords /\ r.at = (IF p \in Talk!Servers THEN "run" ELSE "done")
        /\ r.k = (IF p \in Talk!Servers THEN 3 ELSE Meets)
    <3>1. TalkLong(p) = IF p \in Talk!Servers THEN IF kind = "mq" THEN 6 ELSE 4 ELSE Meets
      BY <1>1, <1>2, TalkNumbers
    <3> QED BY <1>1, <1>2, <3>1, TalkAfter
  <2> HIDE DEF r, o, d, e
  <2>3. party' \in [Talk!Programs -> PartyRecords] /\ party'[p] = r /\ \A q \in Talk!Programs \ {p} : party'[q] = party[q]
    BY <1>1, <2>1, <2>2, TalkMoves
  <2>4. /\ Queued' = Queued /\ Out' = Out /\ Back' = Back /\ Meets' = Meets /\ Polls' = Polls
        /\ \A q : TalkLong(q)' = TalkLong(q) /\ Hears(q)' = Hears(q)
        /\ Talk!Nothing' = Talk!Nothing
    BY <1>6, TalkSame
  <2>5. box[d] \in Seq(TalkRecords)
    BY <1>1, <1>5
  <2>6. \A m \in Mail(box[d]) : m.by # p
    <3> SUFFICES ASSUME NEW m \in Mail(box[d]), m.by = p PROVE FALSE
      OBVIOUS
    <3>1. party[p].k > 2 /\ (p \in Visitors => party[p].at = "done") /\ (p \notin Visitors => p \in Talk!Servers)
      BY <1>2, <1>5, MailFrom
    <3> QED BY <1>2, <3>1
  <2>7. /\ Append(box[d], e) \in Seq(TalkRecords) /\ Mail(Append(box[d], e)) = Mail(box[d]) \cup {e}
        /\ OneEach(box[d]) /\ (\A m \in Mail(box[d]) : m.by # e.by) => OneEach(Append(box[d], e))
    BY <1>4, <2>5, MailAppended
  <2>8. OneEach(box[d]) => OneEach(Append(box[d], e))
    BY <1>4, <2>6, <2>7
  <2>9. /\ box' \in [Talk!Ids -> Seq(TalkRecords)] /\ box'[d] = Append(box[d], e)
        /\ \A g \in Talk!Ids : g # d => box'[g] = box[g]
    BY <1>1, <1>5, <2>1, <2>7
  <2>10. \A g \in Talk!Ids : \A m \in Mail(box'[g]) : m \in Mail(box[g]) \/ (g = d /\ m = e)
    BY <2>7, <2>9
  <2>11. /\ \A q \in Talk!Programs : party[q].k > 2 => party'[q].k > 2
         /\ \A q \in Talk!Programs : party[q].at = "done" => party'[q] = party[q]
         /\ r.k > 2 /\ r.k <= Meets /\ (p \in Talk!Servers => ~(k > 2))
    BY <1>2, <2>2, <2>3
  <2>12. TalkTypes'
    BY <1>1, <1>6, <2>3, <2>9 DEF TalkTypes
  <2>13. InLine'
    BY <1>2, <2>1, <2>2, LineKept
  <2>14. Owned'
    BY <1>1, <1>6 DEF Owned
  <2>15. \A q \in Talk!Programs : InStep(q)'
    <3>1. InStep(p)'
      <4>1. r.k <= TalkLong(p) /\ r.at # "new" /\ r.k # 1
        BY <1>1, <1>2, <2>2, <2>11, TalkNumbers
      <4>2. /\ kind = "mq" /\ r.k <= 3 => handle[p][Back] = 0
            /\ \A a \in Talk!Objects : handle[p][a] # 0 => a \in {Out, Back}
            /\ handle[p][Out] # 0 /\ (r.at = "run" => ~(r.k > 3))
        BY <1>1, <1>2, <2>2, TalkNumbers DEF InStep
      <4>3. Queued => (heard[p] # Talk!Nothing <=> r.k > Hears(p))
        BY <1>1, <1>2, <2>2, TalkNumbers DEF InStep
      <4> QED BY <1>6, <2>3, <2>4, <4>1, <4>2, <4>3 DEF InStep
    <3>2. ASSUME NEW q \in Talk!Programs, q # p PROVE InStep(q)'
      BY <1>1, <1>6, <2>3, <2>4, <3>2 DEF InStep
    <3> QED BY <3>1, <3>2
  <2>16. Post'
    <3>1. Apart /\ Mailed /\ Spoken /\ ToOne
      BY <1>1, <1>2 DEF Post
    <3>2. Apart'
      BY <1>6, <2>4, <3>1 DEF Apart
    <3>3. Mailed'
      <4>1. ASSUME NEW g \in Talk!Ids PROVE OneEach(box'[g])
        <5>1. OneEach(box[g])
          BY <3>1 DEF Mailed
        <5> QED BY <2>8, <2>9, <5>1
      <4>2. ASSUME NEW g \in Talk!Ids, NEW m \in Mail(box'[g])
            PROVE  party'[m.by].k > 2 /\ (Greeting(m, g)' \/ Return(m, g)')
        <5>1. CASE m \in Mail(box[g])
          <6>1. party[m.by].k > 2 /\ (Greeting(m, g) \/ Return(m, g)) /\ m.by \in Talk!Programs
            BY <1>2, <3>1, <5>1, MailFrom DEF Mailed
          <6> QED BY <1>6, <2>4, <2>11, <6>1 DEF Greeting, Return
        <5>2. CASE g = d /\ m = e
          <6>1. party'[p].k > 2
            BY <2>3, <2>11
          <6>2. m.by = p /\ m.text = (IF p \in Talk!Servers THEN Talk!HI ELSE Talk!HELLO) /\ g = handle[p][o]
            BY <1>4, <5>2 DEF d
          <6>3. p \in Talk!Servers => Greeting(m, g)'
            BY <1>3, <1>6, <2>4, <6>2 DEF Greeting
          <6>4. p \notin Talk!Servers => Return(m, g)'
            BY <1>3, <1>6, <2>2, <2>3, <2>4, <6>2, TalkConstants DEF Return
          <6> QED BY <6>1, <6>2, <6>3, <6>4
        <5> QED BY <2>10, <5>1, <5>2
      <4> QED BY <1>6, <4>1, <4>2 DEF Mailed
    <3>4. Spoken'
      BY <1>6, <2>4, <2>11, <3>1, TalkConstants DEF Spoken
    <3>5. ToOne'
      <4>1. \A c, f \in Visitors : heard[c] # Talk!Nothing /\ heard[c].by = heard[f].by => c = f
        BY <3>1 DEF ToOne
      <4>2. ASSUME NEW c \in Visitors, NEW g \in Talk!Ids, NEW m \in Mail(box'[g]), m.by \in Talk!Servers, m.by = heard[c].by PROVE FALSE
        <5>1. m = e
          BY <2>10, <3>1, <4>2 DEF ToOne
        <5>2. heard[c] # Talk!Nothing
          BY <4>2, TalkConstants
        <5>3. party[p].k > 2
          BY <1>4, <3>1, <4>2, <5>1, <5>2, TalkConstants DEF Spoken
        <5> QED BY <1>4, <2>11, <4>2, <5>1, <5>3
      <4> QED BY <1>6, <2>4, <4>1, <4>2 DEF ToOne
    <3> QED BY <3>2, <3>3, <3>4, <3>5 DEF Post
  <2>17. Peace'
    <3> SUFFICES ASSUME calm PROVE Smooth' /\ OneMaker' /\ Current' /\ Dropped' /\ Addressed' /\ Talking' /\ Mutual'
      BY <1>6, <2>4 DEF Peace
    <3>1. Smooth /\ OneMaker /\ Current /\ Dropped /\ Addressed /\ Talking /\ Mutual
      BY <1>1, <1>2 DEF Peace
    <3>2. Smooth'
      BY <2>2, <2>3, <3>1, TalkConstants DEF Smooth
    <3>3. OneMaker' /\ Mutual'
      BY <1>6, <2>4, <3>1 DEF OneMaker, Mutual
    <3>4. Current'
      <4> SUFFICES ASSUME NEW a \in Talk!Objects, named[a] # 0
                   PROVE  \E s \in Talk!Servers : party'[s].at = "run" /\ handle[s][a] = named[a] /\ (a # Out => party'[s].k <= Meets + 1)
        BY <1>6, <2>4 DEF Current
      <4>1. PICK s \in Talk!Servers : party[s].at = "run" /\ handle[s][a] = named[a] /\ (a # Out => party[s].k <= Meets + 1)
        BY <3>1 DEF Current
      <4>2. r.k <= Meets + 1
        BY <1>2, <2>2
      <4> QED BY <2>2, <2>3, <4>1, <4>2, TalkConstants
    <3>5. Dropped'
      <4> SUFFICES ASSUME NEW g \in removed PROVE \E t \in Talk!Servers : party'[t].at = "done" /\ handle[t][Out] = g
        BY <1>6, <2>4 DEF Dropped
      <4>1. PICK t \in Talk!Servers : party[t].at = "done" /\ handle[t][Out] = g
        BY <3>1 DEF Dropped
      <4> QED BY <2>11, <4>1, TalkConstants
    <3>6. \A s \in Talk!Servers : Waits(s) \/ s = p => Waits(s)'
      BY <2>2, <2>3, <2>4, <2>11, TalkConstants DEF Waits
    <3>7. p \in Visitors => handle[heard[p].by][Back] = d
      BY <1>2, <1>3, <2>2, <2>11, <3>1, TalkConstants DEF Talking, d
    <3>8. Addressed'
      <4> SUFFICES ASSUME NEW g \in Talk!Ids, NEW m \in Mail(box'[g])
                   PROVE  IF m.by \in Visitors THEN handle[heard[m.by].by][Back] = g ELSE Waits(m.by)'
        BY <1>6, <2>4 DEF Addressed
      <4>1. CASE m \in Mail(box[g])
        <5>1. IF m.by \in Visitors THEN handle[heard[m.by].by][Back] = g ELSE Waits(m.by)
          BY <3>1, <4>1 DEF Addressed
        <5> QED BY <1>2, <3>6, <4>1, <5>1, MailFrom
      <4>2. CASE g = d /\ m = e
        BY <1>4, <3>6, <3>7, <4>2, TalkConstants
      <4> QED BY <2>10, <4>1, <4>2
    <3>9. Talking'
      <4> SUFFICES ASSUME NEW c \in Visitors, party'[c].at = "run", party'[c].k > 2
                   PROVE  Waits(heard[c].by)' /\ (party'[c].k = Meets => handle[c][Back] = handle[heard[c].by][Back])
        BY <1>6, <2>4 DEF Talking
      <4>1. c # p /\ c \in Talk!Programs
        BY <2>2, <2>3, TalkConstants
      <4>2. party'[c] = party[c]
        BY <2>3, <4>1
      <4>3. heard[c].by \in Talk!Servers
        BY <1>2, <4>2, HeardOut
      <4>4. Waits(heard[c].by) /\ (party[c].k = Meets => handle[c][Back] = handle[heard[c].by][Back])
        BY <3>1, <4>2 DEF Talking
      <4> QED BY <1>6, <3>6, <4>2, <4>3, <4>4
    <3> QED BY <3>2, <3>3, <3>4, <3>5, <3>8, <3>9
  <2>18. Memory'
    BY <1>2, <2>4 DEF Memory
  <2> QED BY <2>12, <2>13, <2>14, <2>15, <2>16, <2>17, <2>18 DEF TalkInv
<1> QED BY <1>7, <1>8

\* What a queue holds after a message is taken out of it.
LEMMA MailRemoved ==
  ASSUME NEW M, NEW q \in Seq(M), NEW j \in DOMAIN q, OneEach(q)
  PROVE  /\ Talk!RemoveAt(q, j) \in Seq(M) /\ Mail(Talk!RemoveAt(q, j)) \subseteq Mail(q) /\ OneEach(Talk!RemoveAt(q, j))
         /\ \A m \in Mail(Talk!RemoveAt(q, j)) : m.by # q[j].by
<1> DEFINE t == RemoveAt(q, j)
<1>1. Talk!RemoveAt(q, j) = t
  BY DEF Talk!RemoveAt, RemoveAt
<1>2. /\ t \in Seq(M)
      /\ \A a \in DOMAIN t : \E b \in DOMAIN q \ {j} : t[a] = q[b]
      /\ \A a, c \in DOMAIN t : a # c => \E b, e \in DOMAIN q \ {j} : b # e /\ t[a] = q[b] /\ t[c] = q[e]
  BY RemovedFrom
<1> HIDE DEF t
<1>3. Mail(t) \subseteq Mail(q)
  BY <1>2 DEF Mail
<1>4. \A m \in Mail(t) : m.by # q[j].by
  BY <1>2 DEF Mail, OneEach
<1>5. OneEach(t)
  <2> SUFFICES ASSUME NEW a \in DOMAIN t, NEW c \in DOMAIN t, t[a].by = t[c].by, a # c PROVE FALSE
    BY DEF OneEach
  <2>1. PICK b, e \in DOMAIN q \ {j} : b # e /\ t[a] = q[b] /\ t[c] = q[e]
    BY <1>2
  <2> QED BY <2>1 DEF OneEach
<1> QED BY <1>1, <1>2, <1>3, <1>4, <1>5

\* and receives.
LEMMA TalkGets == ASSUME TalkInv, NEW p \in Talk!Programs, Talk!Get(p) PROVE TalkInv'
<1> DEFINE k == party[p].k
           o == Talk!Op(p).on
           r == Talk!After(p)
           d == handle[p][o]
<1>1. /\ TalkTypes /\ InLine /\ Owned /\ Post /\ Peace /\ Memory /\ InStep(p) /\ kind \in Talk!Kinds /\ k \in Int
      /\ box \in [Talk!Ids -> Seq(TalkRecords)] /\ calm \in BOOLEAN /\ heard \in [Talk!Programs -> TalkRecords]
      /\ \A q \in Talk!Programs : InStep(q)
  <2>1. \A q \in Talk!Programs : InStep(q)
    BY DEF TalkInv
  <2>2. calm \in BOOLEAN /\ heard \in [Talk!Programs -> TalkRecords]
    BY DEF TalkInv, TalkTypes
  <2> QED BY <2>1, <2>2, TalkFacts
<1>2. /\ party[p].at = "run" /\ Queued /\ k = (IF p \in Talk!Servers THEN Meets ELSE 2) /\ k = Hears(p)
      /\ Meets = (IF kind = "mq" THEN 4 ELSE 3)
      /\ (kind = "mq" => Out # Back) /\ (kind # "mq" => Out = Back) /\ Out \in Talk!Objects /\ Back \in Talk!Objects
      /\ (kind # "mq" => kind = "msg")
  BY <1>1, TalkCalls, TalkNumbers DEF Talk!Get
<1>3. o = IF p \in Talk!Servers THEN Back ELSE Out
  BY <1>1, <1>2, TalkCalls
<1>4. kind = "msg" => Talk!Op(p).text = IF p \in Talk!Servers THEN Talk!HELLO ELSE Talk!HI
  <2>1. Talk!Op(p).op = "get"
    BY DEF Talk!Get, Talk!Doing
  <2> QED BY <1>1, <2>1, TalkCalls
<1>5. d \in Talk!Ids /\ d # 0
  <2>1. p \in Talk!Servers => handle[p][Back] # 0
    BY <1>2, BothHeld
  <2>2. p \notin Talk!Servers => handle[p][Out] # 0
    BY <1>1, <1>2 DEF InStep
  <2> QED BY <1>2, <1>3, <2>1, <2>2, TalkFacts
<1>6. UNCHANGED <<kind, handle, named, removed, calm>>
  BY DEF Talk!Get
<1>7. CASE d \in removed
  <2>1. Talk!Fails(p) /\ box' = box /\ heard' = heard
    BY <1>7 DEF Talk!Get, Talk!Obj
  <2>2. PICK f \in PartyRecords : party' = [party EXCEPT ![p] = f] /\ f.at = "failed" /\ f.k = party[p].k
    BY <1>1, <2>1, TalkFailure
  <2>3. ~(Queued /\ calm' /\ p \in Talk!Servers)
    <3> SUFFICES ASSUME calm, p \in Talk!Servers PROVE FALSE
      BY <1>6
    <3>1. Dropped /\ OneMaker
      BY <1>1, <1>2 DEF Peace
    <3>2. PICK t \in Talk!Servers : party[t].at = "done" /\ handle[t][Out] = d
      BY <1>7, <3>1 DEF Dropped
    <3>3. handle[p][Back] = d /\ t # p /\ t \in Talk!Programs
      BY <1>2, <1>3, <3>2, TalkConstants
    <3>4. CASE kind = "mq"
      BY <1>1, <1>2, <1>5, <3>2, <3>3, <3>4 DEF Post, Apart
    <3>5. CASE kind # "mq"
      BY <1>2, <1>5, <3>1, <3>2, <3>3, <3>5 DEF OneMaker
    <3> QED BY <3>4, <3>5
  <2> QED BY <1>1, <1>2, <1>6, <2>1, <2>2, <2>3, TalkStops
<1>8. CASE d \notin removed
  <2> DEFINE Fitting == {j \in DOMAIN box[d] : Talk!Op(p).text \in {Talk!ANY, box[d][j].text}}
             first == CHOOSE j \in Fitting : \A l \in Fitting : j <= l
  <2>1. /\ Fitting # {} /\ party' = [party EXCEPT ![p] = r]
        /\ heard' = [heard EXCEPT ![p] = box[d][first]] /\ box' = [box EXCEPT ![d] = Talk!RemoveAt(box[d], first)]
    BY <1>8 DEF Talk!Get, Talk!Obj, Talk!GoesOn
  <2> HIDE DEF r, o, d
  <2>2. box[d] \in Seq(TalkRecords)
    BY <1>1, <1>5
  <2>3. first \in Fitting
    <3>1. Fitting \in SUBSET DOMAIN box[d]
      OBVIOUS
    <3> HIDE DEF Fitting
    <3>2. \E j \in Fitting : \A l \in Fitting : j <= l
      BY <2>1, <2>2, <3>1, FirstPlace
    <3> QED BY <3>2
  <2>4. PICK j \in DOMAIN box[d] : j = first /\ Talk!Op(p).text \in {Talk!ANY, box[d][j].text}
    BY <2>3
  <2> HIDE DEF first, Fitting
  <2>5. PICK m \in Mail(box[d]) : m = box[d][j]
    BY DEF Mail
  <2>6. PICK rest : rest = Talk!RemoveAt(box[d], j)
    OBVIOUS
  <2>7. /\ party' = [party EXCEPT ![p] = r] /\ heard' = [heard EXCEPT ![p] = m] /\ box' = [box EXCEPT ![d] = rest]
        /\ kind = "msg" => m.text = IF p \in Talk!Servers THEN Talk!HELLO ELSE Talk!HI
    BY <1>4, <2>1, <2>4, <2>5, <2>6, TalkConstants
  <2>8. Apart /\ Mailed /\ Spoken /\ ToOne
    BY <1>1, <1>2 DEF Post
  <2>9. /\ rest \in Seq(TalkRecords) /\ Mail(rest) \subseteq Mail(box[d]) /\ OneEach(rest)
        /\ \A l \in Mail(rest) : l.by # m.by
    <3>1. OneEach(box[d])
      BY <1>5, <2>8 DEF Mailed
    <3> QED BY <2>2, <2>5, <2>6, <3>1, MailRemoved
  <2>10. /\ box' \in [Talk!Ids -> Seq(TalkRecords)] /\ box'[d] = rest /\ \A g \in Talk!Ids : g # d => box'[g] = box[g]
         /\ \A g \in Talk!Ids : Mail(box'[g]) \subseteq Mail(box[g])
    BY <1>1, <1>5, <2>7, <2>9
  <2>11. party[m.by].k > 2 /\ (Greeting(m, d) \/ Return(m, d)) /\ m \in TalkRecords /\ m.by \in Talk!Programs
    <3>1. m \in TalkRecords
      BY <2>2, <2>4, <2>5, ElementOfSeq
    <3> QED BY <1>2, <1>5, <2>8, <3>1, MailFrom DEF Mailed
  <2>12. IF p \in Talk!Servers THEN Return(m, d) ELSE Greeting(m, d)
    <3>1. CASE kind = "mq"
      <4>1. \A q, t \in Talk!Programs : handle[q][Out] = handle[t][Back] => handle[q][Out] = 0
        BY <2>8, <3>1 DEF Apart
      <4>2. p \in Talk!Servers => ~Greeting(m, d)
        BY <1>3, <1>5, <2>11, <4>1 DEF Greeting, d
      <4>3. p \notin Talk!Servers => ~Return(m, d)
        BY <1>3, <1>5, <2>11, <4>1 DEF Return, d
      <4> QED BY <2>11, <4>2, <4>3
    <3>2. CASE kind # "mq"
      BY <1>2, <2>7, <2>11, <3>2, TalkConstants DEF Greeting, Return
    <3> QED BY <3>1, <3>2
  <2>13. /\ m # Talk!Nothing
         /\ IF p \in Talk!Servers THEN m.text = Talk!HELLO /\ m.by \in Visitors /\ party[m.by].at = "done" /\ m.by # p
                                  ELSE m.text = Talk!HI /\ m.by \in Talk!Servers /\ handle[m.by][Out] = d /\ m.by # p
    BY <1>2, <2>12, TalkConstants DEF Greeting, Return
  <2>14. heard' \in [Talk!Programs -> TalkRecords] /\ heard'[p] = m /\ \A q \in Talk!Programs : q # p => heard'[q] = heard[q]
    BY <1>1, <2>7, <2>11
  <2>15. /\ r \in PartyRecords /\ r.at = "run" /\ r.k = k + 1
    <3>1. k # TalkLong(p)
      BY <1>1, <1>2, TalkNumbers
    <3> QED BY <1>1, <1>2, <3>1, TalkAfter DEF r
  <2>16. party' \in [Talk!Programs -> PartyRecords] /\ party'[p] = r /\ \A q \in Talk!Programs : q # p => party'[q] = party[q]
    BY <1>1, <2>7, <2>15, TalkMoves
  <2>17. /\ Queued' = Queued /\ Out' = Out /\ Back' = Back /\ Meets' = Meets /\ Polls' = Polls
         /\ \A q : TalkLong(q)' = TalkLong(q) /\ Hears(q)' = Hears(q)
         /\ Talk!Nothing' = Talk!Nothing
    BY <1>6, TalkSame
  <2>18. /\ \A q \in Talk!Programs : party[q].k > 2 => party'[q].k > 2
         /\ \A q \in Talk!Programs : party[q].at = "done" => party'[q] = party[q]
         /\ r.k > 2 /\ r.k <= Meets + 1 /\ (p \in Talk!Servers => r.k = Meets + 1) /\ (p \notin Talk!Servers => r.k = 3)
    BY <1>2, <2>15, <2>16
  <2>19. heard[p] = Talk!Nothing
    BY <1>1, <1>2 DEF InStep
  <2>20. TalkTypes'
    BY <1>1, <1>6, <2>10, <2>14, <2>16 DEF TalkTypes
  <2>21. InLine'
    BY <1>2, <2>7, <2>15, LineKept
  <2>22. Owned'
    BY <1>1, <1>6 DEF Owned
  <2>23. \A q \in Talk!Programs : InStep(q)'
    <3>1. InStep(p)'
      <4>1. r.k <= TalkLong(p) /\ r.at # "new" /\ r.k # 1
        BY <1>1, <1>2, <2>15, TalkNumbers
      <4>2. /\ kind = "mq" /\ r.k <= 3 => handle[p][Back] = 0
            /\ \A a \in Talk!Objects : handle[p][a] # 0 => a \in {Out, Back}
            /\ handle[p][Out] # 0
        BY <1>1, <1>2, <2>15 DEF InStep
      <4>3. r.k > 3 => handle[p][Back] # 0
        BY <1>2, <1>3, <1>5, <2>15 DEF d
      <4>4. Queued => (m # Talk!Nothing <=> r.k > Hears(p))
        BY <1>2, <2>13, <2>15
      <4> QED BY <1>6, <2>14, <2>16, <2>17, <4>1, <4>2, <4>3, <4>4 DEF InStep
    <3>2. ASSUME NEW q \in Talk!Programs, q # p PROVE InStep(q)'
      BY <1>1, <1>6, <2>14, <2>16, <2>17, <3>2 DEF InStep
    <3> QED BY <3>1, <3>2

  <2>24. \A q, t : q \in Talk!Servers /\ t \in Visitors => q # t /\ q \in Talk!Programs /\ t \in Talk!Programs
    BY TalkConstants
  <2>25. ASSUME NEW g \in Talk!Ids, NEW l \in Mail(box'[g]), l.by \in Talk!Servers, p \in Visitors PROVE l.by # m.by
    <3>1. l \in Mail(box[g])
      BY <2>10
    <3>2. Greeting(l, g)
      BY <2>8, <2>25, <3>1, TalkConstants DEF Mailed, Return
    <3>3. CASE g = d
      BY <2>9, <2>10, <3>3
    <3>4. CASE g # d
      BY <2>13, <2>25, <3>2, <3>4, TalkConstants DEF Greeting
    <3> QED BY <3>3, <3>4
  <2>26. Post'
    <3>1. Apart'
      BY <1>6, <2>8, <2>17 DEF Apart
    <3>2. Mailed'
      <4>1. ASSUME NEW g \in Talk!Ids PROVE OneEach(box'[g])
        BY <2>8, <2>9, <2>10, <4>1 DEF Mailed
      <4>2. ASSUME NEW g \in Talk!Ids, NEW l \in Mail(box'[g])
            PROVE  party'[l.by].k > 2 /\ (Greeting(l, g)' \/ Return(l, g)')
        <5>1. l \in Mail(box[g])
          BY <2>10
        <5>2. party[l.by].k > 2 /\ (Greeting(l, g) \/ Return(l, g)) /\ l.by \in Talk!Programs
          BY <1>2, <2>8, <5>1, MailFrom DEF Mailed
        <5> QED BY <1>6, <2>17, <2>18, <5>2 DEF Greeting, Return
      <4> QED BY <1>6, <4>1, <4>2 DEF Mailed
    <3>3. Spoken'
      <4> SUFFICES ASSUME NEW q \in Talk!Programs, heard'[q] # Talk!Nothing
                   PROVE  IF q \in Talk!Servers THEN heard'[q].text = Talk!HELLO /\ heard'[q].by \in Visitors
                          ELSE heard'[q].text = Talk!HI /\ heard'[q].by \in Talk!Servers /\ party'[heard'[q].by].k > 2
        BY <1>6, <2>17 DEF Spoken
      <4>1. CASE q = p
        BY <2>11, <2>13, <2>14, <2>18, <4>1
      <4>2. CASE q # p
        <5>1. heard'[q] = heard[q]
          BY <2>14, <4>2
        <5>2. IF q \in Talk!Servers THEN heard[q].text = Talk!HELLO /\ heard[q].by \in Visitors
              ELSE heard[q].text = Talk!HI /\ heard[q].by \in Talk!Servers /\ party[heard[q].by].k > 2
          BY <2>8, <5>1 DEF Spoken
        <5> QED BY <2>18, <5>1, <5>2, TalkConstants
      <4> QED BY <4>1, <4>2
    <3>4. ToOne'
      <4>1. /\ \A c, f \in Visitors : heard[c] # Talk!Nothing /\ heard[c].by = heard[f].by => c = f
            /\ \A c \in Visitors, g \in Talk!Ids : \A l \in Mail(box[g]) : l.by \in Talk!Servers => l.by # heard[c].by
        BY <2>8 DEF ToOne
      <4>2. ASSUME NEW c \in Visitors, NEW f \in Visitors, heard'[c] # Talk!Nothing, heard'[c].by = heard'[f].by PROVE c = f
        <5>1. c \in Talk!Programs /\ f \in Talk!Programs
          BY TalkConstants
        <5>2. CASE c # p /\ f # p
          BY <2>14, <4>1, <4>2, <5>1, <5>2
        <5>3. ASSUME p \in Visitors, NEW h \in Visitors, h # p PROVE heard[h].by # m.by
          <6>1. m.by \in Talk!Servers
            BY <2>13, <5>3, TalkConstants
          <6> QED BY <1>5, <4>1, <6>1
        <5> QED BY <2>14, <4>2, <5>1, <5>2, <5>3
      <4>3. ASSUME NEW c \in Visitors, NEW g \in Talk!Ids, NEW l \in Mail(box'[g]), l.by \in Talk!Servers PROVE l.by # heard'[c].by
        <5>1. CASE c = p
          BY <2>14, <2>25, <4>3, <5>1
        <5>2. CASE c # p
          <6>1. heard'[c] = heard[c] /\ l \in Mail(box[g])
            BY <2>10, <2>14, <5>2, TalkConstants
          <6> QED BY <4>1, <4>3, <6>1
        <5> QED BY <5>1, <5>2
      <4> QED BY <1>6, <2>17, <4>2, <4>3 DEF ToOne
    <3> QED BY <3>1, <3>2, <3>3, <3>4 DEF Post
  <2>27. Peace'
    <3> SUFFICES ASSUME calm PROVE Smooth' /\ OneMaker' /\ Current' /\ Dropped' /\ Addressed' /\ Talking' /\ Mutual'
      BY <1>6, <2>17 DEF Peace
    <3>1. Smooth /\ OneMaker /\ Current /\ Dropped /\ Addressed /\ Talking /\ Mutual
      BY <1>1, <1>2 DEF Peace
    <3>2. Smooth'
      BY <2>15, <2>16, <3>1, TalkConstants DEF Smooth
    <3>3. OneMaker'
      BY <1>6, <2>17, <3>1 DEF OneMaker
    <3>4. Current'
      <4> SUFFICES ASSUME NEW a \in Talk!Objects, named[a] # 0
                   PROVE  \E s \in Talk!Servers : party'[s].at = "run" /\ handle[s][a] = named[a] /\ (a # Out => party'[s].k <= Meets + 1)
        BY <1>6, <2>17 DEF Current
      <4>1. PICK s \in Talk!Servers : party[s].at = "run" /\ handle[s][a] = named[a] /\ (a # Out => party[s].k <= Meets + 1)
        BY <3>1 DEF Current
      <4> QED BY <2>15, <2>16, <2>18, <4>1, TalkConstants
    <3>5. Dropped'
      <4> SUFFICES ASSUME NEW g \in removed PROVE \E t \in Talk!Servers : party'[t].at = "done" /\ handle[t][Out] = g
        BY <1>6, <2>17 DEF Dropped
      <4>1. PICK t \in Talk!Servers : party[t].at = "done" /\ handle[t][Out] = g
        BY <3>1 DEF Dropped
      <4> QED BY <2>18, <4>1, TalkConstants
    <3>6. p \in Talk!Servers => heard[m.by].by = p
      <4> SUFFICES ASSUME p \in Talk!Servers PROVE heard[m.by].by = p
        OBVIOUS
      <4>1. m.by \in Visitors /\ handle[heard[m.by].by][Back] = d /\ handle[p][Back] = d
        BY <1>3, <1>5, <2>13, <3>1 DEF Addressed, d
      <4>2. heard[m.by].by \in Talk!Servers
        BY <1>2, <1>5, <4>1, MailFrom
      <4> QED BY <1>2, <1>5, <3>1, <4>1, <4>2 DEF OneMaker
    <3>7. p \in Talk!Servers => \A c \in Visitors : heard[c].by = p => c = m.by
      <4> SUFFICES ASSUME p \in Talk!Servers, NEW c \in Visitors, heard[c].by = p PROVE c = m.by
        OBVIOUS
      <4>1. m.by \in Visitors /\ heard[c] # Talk!Nothing
        BY <2>13, TalkConstants
      <4> QED BY <2>8, <3>6, <4>1 DEF ToOne
    <3>8. \A s \in Talk!Servers : Waits(s) /\ s # p => Waits(s)'
      BY <2>16, <2>17, TalkConstants DEF Waits
    <3>9. Addressed'
      <4> SUFFICES ASSUME NEW g \in Talk!Ids, NEW l \in Mail(box'[g])
                   PROVE  IF l.by \in Visitors THEN handle[heard'[l.by].by][Back] = g ELSE Waits(l.by)'
        BY <1>6, <2>17 DEF Addressed
      <4>1. l \in Mail(box[g])
        BY <2>10
      <4>2. IF l.by \in Visitors THEN handle[heard[l.by].by][Back] = g ELSE Waits(l.by)
        BY <3>1, <4>1 DEF Addressed
      <4>3. /\ l.by \in Talk!Programs /\ (l.by \notin Visitors => l.by \in Talk!Servers)
            /\ l.by \in Visitors => party[l.by].at = "done"
        BY <1>2, <4>1, MailFrom
      <4>4. CASE l.by \in Visitors
        <5>1. l.by # p
          BY <1>2, <4>3, <4>4
        <5> QED BY <2>14, <4>2, <4>3, <4>4, <5>1
      <4>5. CASE l.by \notin Visitors
        <5>1. l.by # p
          <6> SUFFICES ASSUME l.by = p PROVE FALSE
            OBVIOUS
          <6>1. p \in Talk!Servers /\ m.by \in Visitors
            BY <2>13, <4>3, <4>5
          <6>2. l.by # heard[m.by].by
            BY <2>8, <4>1, <6>1 DEF ToOne
          <6> QED BY <3>6, <6>1, <6>2
        <5> QED BY <3>8, <4>2, <4>3, <4>5, <5>1
      <4> QED BY <4>4, <4>5
    <3>10. Talking'
      <4> SUFFICES ASSUME NEW c \in Visitors, party'[c].at = "run", party'[c].k > 2
                   PROVE  Waits(heard[c].by)' /\ (party'[c].k = Meets => handle[c][Back] = handle[heard'[c].by][Back])
        BY <1>6, <2>17 DEF Talking
      <4>1. CASE c # p
        <5>1. party'[c] = party[c] /\ heard'[c] = heard[c] /\ party[c].at = "run" /\ party[c].k > 2
          BY <2>14, <2>16, <4>1, TalkConstants
        <5>2. PICK s \in Talk!Servers : s = heard[c].by
          BY <1>2, <5>1, HeardOut
        <5>3. Waits(s) /\ (party[c].k = Meets => handle[c][Back] = handle[s][Back])
          BY <3>1, <5>1, <5>2 DEF Talking
        <5>4. s # p
          BY <2>13, <3>7, <5>1, <5>2
        <5>5. Waits(s)'
          BY <3>8, <5>3, <5>4
        <5> QED BY <5>1, <5>2, <5>3, <5>5
      <4>2. CASE c = p
        <5>1. p \notin Talk!Servers /\ m.by \in Talk!Servers /\ handle[m.by][Out] = d /\ m.by # p /\ m.by \notin Visitors
          BY <2>13, <2>24, <4>2
        <5>2. Waits(m.by)
          BY <1>5, <3>1, <5>1 DEF Addressed
        <5>3. Waits(m.by)'
          BY <3>8, <5>1, <5>2
        <5>4. r.k = Meets => Out = Back
          BY <1>2, <2>18, <5>1
        <5>5. handle[p][Out] = d
          BY <1>3, <5>1 DEF d
        <5> QED BY <2>14, <2>16, <4>2, <5>1, <5>3, <5>4, <5>5
      <4> QED BY <4>1, <4>2
    <3>11. Mutual'
      <4> SUFFICES ASSUME NEW s \in Talk!Servers, heard'[s] # Talk!Nothing PROVE heard'[heard'[s].by].by = s
        BY <2>17 DEF Mutual
      <4>1. CASE s = p
        BY <2>13, <2>14, <3>6, <4>1, TalkConstants
      <4>2. CASE s # p
        <5>1. heard'[s] = heard[s] /\ s # 0
          BY <2>14, <4>2, TalkConstants
        <5>2. heard[heard[s].by].by = s /\ heard[s].by \in Talk!Programs
          BY <2>8, <3>1, <4>2, <5>1, TalkConstants DEF Mutual, Spoken
        <5>3. heard[s].by # p
          BY <2>19, <5>1, <5>2, TalkConstants
        <5> QED BY <2>14, <5>1, <5>2, <5>3
      <4> QED BY <4>1, <4>2
    <3> QED BY <3>2, <3>3, <3>4, <3>5, <3>9, <3>10, <3>11
  <2>28. Memory'
    BY <1>2, <2>17 DEF Memory
  <2> QED BY <2>20, <2>21, <2>22, <2>23, <2>26, <2>27, <2>28 DEF TalkInv
<1> QED BY <1>7, <1>8

\* The invariant holds when nobody has started.
LEMMA TalkOpen == Talk!Init => TalkInv
<1> SUFFICES ASSUME Talk!Init PROVE TalkInv
  OBVIOUS
<1>1. /\ kind \in Talk!Kinds /\ calm = TRUE /\ removed = {}
      /\ party = [p \in Talk!Programs |-> [at |-> "new", k |-> 1, attached |-> FALSE]]
      /\ handle = [p \in Talk!Programs |-> [o \in Talk!Objects |-> 0]]
      /\ named = [o \in Talk!Objects |-> 0] /\ box = [d \in Talk!Ids |-> <<>>]
      /\ heard = [p \in Talk!Programs |-> Talk!Nothing]
  BY DEF Talk!Init
<1>2. /\ \A p \in Talk!Programs : party[p].at = "new" /\ party[p].k = 1 /\ heard[p] = Talk!Nothing
      /\ \A p \in Talk!Programs, o \in Talk!Objects : handle[p][o] = 0
      /\ \A o \in Talk!Objects : named[o] = 0
      /\ \A d \in Talk!Ids : box[d] = <<>>
      /\ \A q, t : q \in Talk!Servers /\ t \in Visitors => q \in Talk!Programs /\ t \in Talk!Programs
  BY <1>1, TalkConstants
<1>3. TalkTypes
  <2>1. [at |-> "new", k |-> 1, attached |-> FALSE] \in PartyRecords
    BY DEF PartyRecords, AgentPlaces
  <2>2. party \in [Talk!Programs -> PartyRecords]
    BY <1>1, <2>1
  <2>3. box \in [Talk!Ids -> Seq(TalkRecords)]
    BY <1>1
  <2>4. heard \in [Talk!Programs -> TalkRecords]
    BY <1>1, TalkConstants
  <2> QED BY <1>1, <2>2, <2>3, <2>4 DEF TalkTypes
<1>4. InLine
  BY <1>2, TalkConstants DEF InLine
<1>5. Owned
  BY <1>2, TalkConstants DEF Owned
<1>6. Post
  <2>1. Out \in Talk!Objects /\ Back \in Talk!Objects
    BY TalkConstants DEF Out, Back
  <2>2. Apart
    BY <1>2, <2>1 DEF Apart
  <2>3. Mailed
    BY <1>2, NoMail DEF Mailed
  <2>4. Spoken
    BY <1>2 DEF Spoken
  <2>5. ToOne
    BY <1>2, NoMail, TalkConstants DEF ToOne
  <2> QED BY <2>2, <2>3, <2>4, <2>5 DEF Post
<1>7. Peace
  <2>1. Smooth /\ OneMaker /\ Current /\ Mutual
    BY <1>2, TalkConstants DEF Smooth, OneMaker, Current, Mutual
  <2>2. Dropped
    BY <1>1 DEF Dropped
  <2>3. Addressed
    BY <1>2, NoMail DEF Addressed
  <2>4. Talking
    BY <1>2, TalkConstants DEF Talking
  <2> QED BY <2>1, <2>2, <2>3, <2>4 DEF Peace
<1>8. Memory
  BY <1>2, TalkConstants DEF Memory
<1>9. ASSUME NEW p \in Talk!Programs PROVE InStep(p)
  <2>1. /\ Hears(p) \in {2, 3, 4} /\ TalkLong(p) \in 3 .. 8 /\ Out \in Talk!Objects /\ Back \in Talk!Objects
    BY <1>1, TalkNumbers
  <2> QED BY <1>2, <2>1 DEF InStep
<1> QED BY <1>3, <1>4, <1>5, <1>6, <1>7, <1>8, <1>9 DEF TalkInv

\* It holds after no step
LEMMA TalkUnmoved == ASSUME TalkInv, UNCHANGED Talk!talkVars PROVE TalkInv'
<1>1. UNCHANGED <<kind, party, handle, named, box, removed, heard, calm>>
  BY DEF Talk!talkVars
<1>2. /\ Queued' = Queued /\ Out' = Out /\ Back' = Back /\ Meets' = Meets /\ Polls' = Polls
      /\ \A q : TalkLong(q)' = TalkLong(q) /\ Hears(q)' = Hears(q)
      /\ Talk!Nothing' = Talk!Nothing
  BY <1>1, TalkSame
<1>3. TalkTypes' /\ InLine' /\ Owned' /\ Memory'
  BY <1>1, <1>2 DEF TalkInv, TalkTypes, InLine, Owned, Memory
<1>4. Post'
  BY <1>1, <1>2 DEF TalkInv, Post, Apart, Mailed, Spoken, ToOne, Greeting, Return
<1>5. Peace'
  BY <1>1, <1>2 DEF TalkInv, Peace, Smooth, OneMaker, Current, Dropped, Addressed, Talking, Mutual, Waits
<1>6. \A p \in Talk!Programs : InStep(p)'
  BY <1>1, <1>2 DEF TalkInv, InStep
<1> QED BY <1>3, <1>4, <1>5, <1>6 DEF TalkInv

\* and after every step of the exchanges.
LEMMA TalkKept == TalkInv /\ [Talk!Next]_(Talk!talkVars) => TalkInv'
<1> SUFFICES ASSUME TalkInv, [Talk!Next]_(Talk!talkVars) PROVE TalkInv'
  OBVIOUS
<1>1. CASE UNCHANGED Talk!talkVars
  BY <1>1, TalkUnmoved
<1>2. ASSUME NEW p \in Talk!Programs, Talk!Start(p) \/ Talk!CallStep(p) \/ Talk!Kill(p) PROVE TalkInv'
  <2>1. CASE Talk!Start(p)
    BY <2>1, TalkBegins
  <2>2. CASE Talk!Kill(p)
    BY <2>2, TalkKilled
  <2>3. CASE Talk!Make(p)
    BY <2>3, TalkMakes
  <2>4. CASE Talk!Size(p)
    BY <2>4, TalkSizes
  <2>5. CASE Talk!Open(p)
    BY <2>5, TalkOpens
  <2>6. CASE Talk!Attach(p) \/ Talk!Detach(p)
    BY <2>6, TalkAttaches
  <2>7. CASE Talk!Put(p)
    BY <2>7, TalkPuts
  <2>8. CASE Talk!Get(p)
    BY <2>8, TalkGets
  <2>9. CASE Talk!Copy(p)
    BY <2>9, TalkCopies
  <2>10. CASE Talk!Look(p)
    BY <2>10, TalkLooks
  <2>11. CASE Talk!Drop(p)
    BY <2>11, TalkDrops
  <2> QED BY <1>2, <2>1, <2>2, <2>3, <2>4, <2>5, <2>6, <2>7, <2>8, <2>9, <2>10, <2>11 DEF Talk!CallStep
<1> QED BY <1>1, <1>2 DEF Talk!Next

\* What the runs check of the exchanges follows from it.
LEMMA TalkSafe == TalkInv => Talk!TypeOK /\ Talk!HeardRight
<1> SUFFICES ASSUME TalkInv PROVE Talk!TypeOK /\ Talk!HeardRight
  OBVIOUS
<1>1. /\ TalkTypes /\ Post /\ Peace /\ Memory /\ kind \in Talk!Kinds
      /\ \A p \in Talk!Programs : InStep(p)
  BY DEF TalkInv, TalkTypes
<1>2. ASSUME NEW d \in Talk!Ids, NEW k \in DOMAIN box[d]
      PROVE  box[d][k].text \in Talk!Texts /\ box[d][k].by \in Talk!Programs \cup {0}
  <2>1. box[d] \in Seq(TalkRecords)
    BY <1>1 DEF TalkTypes
  <2>2. box[d][k] \in TalkRecords
    BY <2>1, ElementOfSeq
  <2> QED BY <2>2 DEF TalkRecords
<1>3. ASSUME NEW p \in Talk!Programs
      PROVE  /\ party[p].at \in {"new", "run", "done", "failed", "killed"} /\ party[p].k \in DOMAIN Talk!MyScript(p)
             /\ party[p].at = "run" /\ Talk!Op(p).op \notin {"make", "open"} => Talk!Obj(p) \in Talk!Ids
             /\ heard[p].text \in Talk!Texts
  <2>1. party[p].at \in {"new", "run", "done", "failed", "killed"} /\ party[p].k \in 1 .. 8 /\ heard[p] \in TalkRecords
    BY TalkFacts DEF AgentPlaces
  <2>2. party[p].k \in DOMAIN Talk!MyScript(p)
    <3>1. party[p].k <= TalkLong(p) /\ TalkLong(p) \in Int /\ DOMAIN Talk!MyScript(p) = 1 .. TalkLong(p)
      BY <1>1, TalkCalls, TalkNumbers DEF InStep
    <3> QED BY <2>1, <3>1
  <2>3. heard[p].text \in Talk!Texts
    BY <2>1 DEF TalkRecords
  <2>4. ASSUME party[p].at = "run", Talk!Op(p).op \notin {"make", "open"} PROVE Talk!Obj(p) \in Talk!Ids
    <3>1. ~Talk!Doing(p, "make") /\ ~Talk!Doing(p, "open")
      BY <2>4 DEF Talk!Doing
    <3>2. party[p].k # 1 /\ ~(kind = "mq" /\ party[p].k = 3)
      BY <1>1, <2>4, <3>1, TalkCalls
    <3>3. /\ party[p].k > 1 => handle[p][Out] # 0
          /\ party[p].k > 3 => handle[p][Back] # 0
      BY <1>1, <2>4 DEF InStep
    <3>4. Talk!Op(p).on = IF kind = "mq" /\ party[p].k \in {3, 4, 5} THEN Back ELSE Out
      BY <1>1, TalkCalls
    <3>5. Talk!Obj(p) # 0 /\ Talk!Op(p).on \in Talk!Objects
      BY <1>1, <2>1, <3>2, <3>3, <3>4, TalkNumbers DEF Talk!Obj
    <3> QED BY <3>5, TalkFacts DEF Talk!Obj
  <2> QED BY <2>1, <2>2, <2>3, <2>4
<1>4. Talk!TypeOK
  <2>1. calm \in BOOLEAN /\ removed \subseteq Talk!Ids /\ \A o \in Talk!Objects : named[o] \in Talk!Ids \cup {0}
    BY <1>1 DEF TalkTypes
  <2> QED BY <1>1, <1>2, <1>3, <2>1 DEF Talk!TypeOK
<1>5. Talk!HeardRight
  <2> SUFFICES ASSUME NEW p \in Talk!Programs, heard[p] # Talk!Nothing
               PROVE  IF kind \in {"mq", "msg"}
                      THEN /\ heard[p].text = IF p \in Talk!Servers THEN Talk!HELLO ELSE Talk!HI
                           /\ p \in Talk!Servers /\ calm => heard[heard[p].by].by = p
                      ELSE p \in Talk!Servers => heard[p].by \in Visitors
    BY DEF Talk!HeardRight
  <2>1. CASE Queued
    <3>1. heard[p].text = IF p \in Talk!Servers THEN Talk!HELLO ELSE Talk!HI
      BY <1>1, <2>1 DEF Post, Spoken
    <3>2. p \in Talk!Servers /\ calm => heard[heard[p].by].by = p
      BY <1>1, <2>1 DEF Peace, Mutual
    <3> QED BY <2>1, <3>1, <3>2 DEF Queued
  <2>2. CASE ~Queued
    BY <1>1, <2>2 DEF Memory, Queued
  <2> QED BY <2>1, <2>2
<1> QED BY <1>4, <1>5

(***************************************************************************)
(* The pipe of "12-channels/1.c" and the FIFO of "12-channels/2".          *)
(***************************************************************************)
\* The places of a process and the records that say where it is.
ProgPlaces  == {"new", "run", "waiting", "done", "failed", "killed"}
ProgRecords == [at : ProgPlaces, k : 1 .. 5, of : Pipe!Servers \cup {0}, ends : SUBSET Pipe!Ends]

\* The type invariant of the pipes, as function sets.
PipeTypes ==
  /\ isfifo \in BOOLEAN /\ whole \in BOOLEAN
  /\ prog \in [Pipe!Programs -> ProgRecords]
  /\ fifo \in Pipe!Servers \cup {0} /\ full \subseteq Pipe!Servers
  /\ print \in [Visitors -> {"no", "message", "nothing"}]

\* The ends process p has open at its place: after fork both of a pipe until it has closed
\* one, of a FIFO the one it has opened.
Opened(p, r) ==
  IF r.at \notin {"run", "waiting"} THEN {}
  ELSE IF isfifo
       THEN IF p \in Pipe!Servers THEN IF r.at = "waiting" \/ r.k \in {3, 4} THEN {"write"} ELSE {}
                                  ELSE IF r.at = "waiting" \/ r.k \in {2, 3} THEN {"read"} ELSE {}
       ELSE IF p \in Pipe!Servers THEN IF r.k \in {1, 2} THEN Pipe!Ends ELSE IF r.k \in {3, 4} THEN {"write"} ELSE {}
                                  ELSE IF r.k = 1 THEN Pipe!Ends ELSE {"read"}

\* The ends, the FIFO and the place of process p belong together.
Fits(p, r) ==
  /\ r.ends = Opened(p, r)
  /\ r.k <= (IF p \in Pipe!Servers THEN 5 ELSE 3) /\ (r.at = "new" => r.k = 1)
  /\ r.at = "waiting" => isfifo /\ r.of \in Pipe!Servers /\ r.k = (IF p \in Pipe!Servers THEN 2 ELSE 1)
  /\ r.ends # {} => r.of \in (IF p \in Pipe!Servers THEN {p} ELSE Pipe!Servers)
  /\ ~isfifo /\ p \in Pipe!Servers /\ p # 1 => r.at = "new"

\* The writers run one after the other.
OneAtATime == \A s, t \in Pipe!Servers : s < t /\ prog[s].at \in {"new", "run", "waiting"} => prog[t].at = "new"

\* From mkfifo to unlink the name stands for the FIFO of the writer that runs.
NameKept ==
  /\ \A s \in Pipe!Servers : isfifo /\ prog[s].at \in {"run", "waiting"} /\ prog[s].k > 1 => fifo = s
  /\ fifo # 0 => prog[fifo].at # "new" /\ (prog[fifo].at = "run" => prog[fifo].k > 1)

\* Reader v has read the message out of f, or is about to read from its own.
Got(f, v)   == prog[v].of = f /\ print[v] = "message"
Written(f)  == f \in full \/ \E v \in Visitors : Got(f, v)
Reading(v)  == prog[v].at = "run" /\ (prog[v].k = 2 \/ (~isfifo /\ prog[v].k = 1))

\* A message is read once, and only after it was written.
Once ==
  /\ \A f \in Pipe!Servers : Written(f) /\ prog[f].at \in {"new", "run", "waiting"} => prog[f].k > 3
  /\ \A f \in full, v \in Visitors : ~Got(f, v)
  /\ \A v, w \in Visitors : Got(prog[v].of, v) /\ Got(prog[v].of, w) => v = w
  /\ \A v \in Visitors : prog[v].k = 1 => print[v] = "no"
  /\ ~isfifo /\ prog[1].at = "run" /\ prog[1].k = 1 => \A v \in Visitors : prog[v].at = "new"

\* As long as no process has failed, the message is in the pipe, has been read, or the writer
\* still has its end open; so a reader that finds the end of the file comes second.
ReachesAll ==
  /\ \A f \in Pipe!Servers : prog[f].at \in {"run", "done"} /\ prog[f].k > 3 => Written(f)
  /\ \A v \in Visitors : whole /\ Reading(v) =>
       Written(prog[v].of) \/ (prog[prog[v].of].at = "run" /\ "write" \in prog[prog[v].of].ends)
  /\ \A v \in Visitors : whole /\ print[v] = "nothing" => \E w \in Visitors : Got(prog[v].of, w)

\* Who waits in open for the writer waits for one that has not opened yet, or never will.
Late ==
  \A v \in Visitors : prog[v].at = "waiting" =>
    LET s == prog[prog[v].of] IN s.at \in {"done", "failed", "killed"} \/ (s.at = "run" /\ s.k \in {2, 5})

\* The inductive invariant of the pipes.
PipeInv == /\ PipeTypes /\ OneAtATime /\ NameKept /\ Once /\ ReachesAll /\ Late
           /\ \A p \in Pipe!Programs : Fits(p, prog[p])

\* What the assumption on the constants says of the processes.
LEMMA PipeConstants ==
  /\ Runs \in Nat \ {0} /\ Pipe!Servers = 1 .. Runs /\ Pipe!Programs = Pipe!Servers \cup Visitors
  /\ 1 \in Pipe!Servers /\ 0 \notin Pipe!Servers /\ \A s \in Pipe!Servers : s \in Int /\ s \notin Visitors
  /\ Pipe!Ends = {"read", "write"}
BY ExchangesAssumption DEF Pipe!ConstantsOK, Pipe!Servers, Pipe!Programs, Pipe!Ends

\* Which call a process is at, by its place in the script.
LEMMA PipeCalls ==
  ASSUME NEW p \in Pipe!Programs, prog[p] \in ProgRecords, isfifo \in BOOLEAN, Fits(p, prog[p])
  PROVE  LET k == prog[p].k  server == p \in Pipe!Servers  runs == prog[p].at = "run" IN
         /\ Len(Pipe!Script(p)) = IF server THEN 5 ELSE 3
         /\ Pipe!Doing(p, "fork") <=> runs /\ ~isfifo /\ server /\ k = 1
         /\ Pipe!Doing(p, "close_read") <=> runs /\ ((~isfifo /\ server /\ k = 2) \/ (~server /\ k = 3))
         /\ Pipe!Doing(p, "write") <=> runs /\ server /\ k = 3
         /\ Pipe!Doing(p, "close_write") <=> runs /\ ((server /\ k = 4) \/ (~isfifo /\ ~server /\ k = 1))
         /\ Pipe!Doing(p, "wait") <=> runs /\ ~isfifo /\ server /\ k = 5
         /\ Pipe!Doing(p, "read") <=> runs /\ ~server /\ k = 2
         /\ Pipe!Doing(p, "mkfifo") <=> runs /\ isfifo /\ server /\ k = 1
         /\ Pipe!Doing(p, "open_write") <=> runs /\ isfifo /\ server /\ k = 2
         /\ Pipe!Doing(p, "unlink") <=> runs /\ isfifo /\ server /\ k = 5
         /\ Pipe!Doing(p, "open_read") <=> runs /\ isfifo /\ ~server /\ k = 1
<1> DEFINE k == prog[p].k
<1>1. k \in 1 .. 5 /\ k <= (IF p \in Pipe!Servers THEN 5 ELSE 3)
  BY DEF ProgRecords, Fits
<1>2. \A c : Pipe!Doing(p, c) <=> prog[p].at = "run" /\ Pipe!Script(p)[k] = c
  BY DEF Pipe!Doing
<1> HIDE DEF k
<1>3. CASE isfifo /\ p \in Pipe!Servers
  <2> DEFINE script == <<"mkfifo", "open_write", "write", "close_write", "unlink">>
  <2>1. Pipe!Script(p) = script
    BY <1>3 DEF Pipe!Script, Pipe!FifoServer
  <2>2. k \in {1, 2, 3, 4, 5}
    BY <1>1
  <2>3. Len(script) = 5
    OBVIOUS
  <2>4. script[1] = "mkfifo" /\ script[2] = "open_write" /\ script[3] = "write" /\ script[4] = "close_write" /\ script[5] = "unlink"
    OBVIOUS
  <2> HIDE DEF k, script
  <2> QED BY <1>2, <1>3, <2>1, <2>2, <2>3, <2>4 DEF k
<1>4. CASE isfifo /\ p \notin Pipe!Servers
  <2> DEFINE script == <<"open_read", "read", "close_read">>
  <2>1. Pipe!Script(p) = script
    BY <1>4 DEF Pipe!Script, Pipe!FifoClient
  <2>2. k \in {1, 2, 3}
    BY <1>1, <1>4
  <2>3. Len(script) = 3
    OBVIOUS
  <2>4. script[1] = "open_read" /\ script[2] = "read" /\ script[3] = "close_read"
    OBVIOUS
  <2> HIDE DEF k, script
  <2> QED BY <1>2, <1>4, <2>1, <2>2, <2>3, <2>4 DEF k
<1>5. CASE ~isfifo /\ p \in Pipe!Servers
  <2> DEFINE script == <<"fork", "close_read", "write", "close_write", "wait">>
  <2>1. Pipe!Script(p) = script
    BY <1>5 DEF Pipe!Script, Pipe!PipeParent
  <2>2. k \in {1, 2, 3, 4, 5}
    BY <1>1
  <2>3. Len(script) = 5
    OBVIOUS
  <2>4. script[1] = "fork" /\ script[2] = "close_read" /\ script[3] = "write" /\ script[4] = "close_write" /\ script[5] = "wait"
    OBVIOUS
  <2> HIDE DEF k, script
  <2> QED BY <1>2, <1>5, <2>1, <2>2, <2>3, <2>4 DEF k
<1>6. CASE ~isfifo /\ p \notin Pipe!Servers
  <2> DEFINE script == <<"close_write", "read", "close_read">>
  <2>1. Pipe!Script(p) = script
    BY <1>6 DEF Pipe!Script, Pipe!PipeChild
  <2>2. k \in {1, 2, 3}
    BY <1>1, <1>6
  <2>3. Len(script) = 3
    OBVIOUS
  <2>4. script[1] = "close_write" /\ script[2] = "read" /\ script[3] = "close_read"
    OBVIOUS
  <2> HIDE DEF k, script
  <2> QED BY <1>2, <1>6, <2>1, <2>2, <2>3, <2>4 DEF k
<1> QED BY <1>3, <1>4, <1>5, <1>6

\* Where a process is after a call,
LEMMA PipeAfter ==
  ASSUME NEW p \in Pipe!Programs, NEW r \in ProgRecords, isfifo \in BOOLEAN,
         r.k <= (IF p \in Pipe!Servers THEN 5 ELSE 3)
  PROVE  LET a == Pipe!After(p, r)  last == r.k = (IF p \in Pipe!Servers THEN 5 ELSE 3) IN
         /\ a \in ProgRecords /\ a.of = r.of
         /\ a.at = (IF last THEN "done" ELSE "run") /\ a.k = (IF last THEN r.k ELSE r.k + 1)
         /\ a.ends = IF last THEN {} ELSE r.ends
<1> DEFINE last == r.k = (IF p \in Pipe!Servers THEN 5 ELSE 3)
<1>1. Len(Pipe!Script(p)) = IF p \in Pipe!Servers THEN 5 ELSE 3
  BY DEF Pipe!Script, Pipe!FifoServer, Pipe!FifoClient, Pipe!PipeParent, Pipe!PipeChild
<1>2. CASE last
  <2> DEFINE b == [r EXCEPT !.at = "done"]  c == [b EXCEPT !.ends = {}]
  <2>1. b \in ProgRecords /\ b.at = "done" /\ b.k = r.k /\ b.of = r.of
    BY DEF ProgRecords, ProgPlaces
  <2> HIDE DEF b
  <2>2. c \in ProgRecords /\ c.at = "done" /\ c.k = r.k /\ c.of = r.of /\ c.ends = {}
    BY <2>1 DEF ProgRecords
  <2>3. Pipe!After(p, r) = c
    BY <1>1, <1>2 DEF Pipe!After, b
  <2> HIDE DEF c
  <2> QED BY <1>2, <2>2, <2>3
<1>3. CASE ~last
  <2> DEFINE b == [r EXCEPT !.at = "run"]  c == [b EXCEPT !.k = r.k + 1]
  <2>1. r.k + 1 \in 1 .. 5
    BY <1>3 DEF ProgRecords
  <2>2. b \in ProgRecords /\ b.at = "run" /\ b.k = r.k /\ b.of = r.of /\ b.ends = r.ends
    BY DEF ProgRecords, ProgPlaces
  <2>3. c = [r EXCEPT !.at = "run", !.k = @ + 1]
    BY DEF ProgRecords
  <2> HIDE DEF b
  <2>4. c \in ProgRecords /\ c.at = "run" /\ c.k = r.k + 1 /\ c.of = r.of /\ c.ends = r.ends
    BY <2>1, <2>2 DEF ProgRecords
  <2>5. Pipe!After(p, r) = c
    BY <1>1, <1>3, <2>3 DEF Pipe!After
  <2> HIDE DEF c
  <2> QED BY <1>3, <2>4, <2>5
<1> QED BY <1>2, <1>3

\* and when it has left.
LEMMA PipeLeft ==
  ASSUME NEW r \in ProgRecords, NEW how \in ProgPlaces
  PROVE  LET a == [r EXCEPT !.at = how, !.ends = {}] IN
         a \in ProgRecords /\ a.of = r.of /\ a.at = how /\ a.k = r.k /\ a.ends = {}
BY DEF ProgRecords

\* One process moves.
LEMMA OneProgMoves ==
  ASSUME PipeTypes, NEW p \in Pipe!Programs, NEW r \in ProgRecords, prog' = [prog EXCEPT ![p] = r]
  PROVE  prog' \in [Pipe!Programs -> ProgRecords] /\ prog'[p] = r /\ \A q \in Pipe!Programs \ {p} : prog'[q] = prog[q]
BY DEF PipeTypes

\* The invariant holds when nobody has started.
LEMMA PipesOpen == Pipe!Init => PipeInv
<1> SUFFICES ASSUME Pipe!Init PROVE PipeInv
  OBVIOUS
<1> DEFINE parent == [at |-> "run", k |-> 1, of |-> 1, ends |-> Pipe!Ends]
           new    == [at |-> "new", k |-> 1, of |-> 0, ends |-> {}]
<1>1. /\ isfifo \in BOOLEAN /\ fifo = 0 /\ full = {} /\ whole = TRUE /\ print = [v \in Visitors |-> "no"]
      /\ prog = [p \in Pipe!Programs |-> IF p = 1 /\ ~isfifo THEN parent ELSE new]
  BY DEF Pipe!Init
<1>2. /\ parent \in ProgRecords /\ new \in ProgRecords
      /\ parent.at = "run" /\ parent.k = 1 /\ parent.of = 1 /\ parent.ends = Pipe!Ends
      /\ new.at = "new" /\ new.k = 1 /\ new.of = 0 /\ new.ends = {}
  BY PipeConstants DEF ProgRecords, ProgPlaces
<1> HIDE DEF parent, new
<1>3. \A p \in Pipe!Programs : prog[p] = IF p = 1 /\ ~isfifo THEN parent ELSE new
  BY <1>1
<1>4. PipeTypes
  BY <1>1, <1>2 DEF PipeTypes
<1>5. ASSUME NEW p \in Pipe!Programs PROVE Fits(p, prog[p])
  <2>1. CASE p = 1 /\ ~isfifo
    <3>1. prog[p] = parent /\ p \in Pipe!Servers
      BY <1>3, <2>1, PipeConstants
    <3>2. Fits(p, parent)
      BY <1>2, <2>1, <3>1 DEF Fits, Opened
    <3> QED BY <3>1, <3>2
  <2>2. CASE ~(p = 1 /\ ~isfifo)
    <3>1. prog[p] = new
      BY <1>3, <2>2
    <3>2. Fits(p, new)
      BY <1>2 DEF Fits, Opened
    <3> QED BY <3>1, <3>2
  <2> QED BY <2>1, <2>2
<1>6. OneAtATime
  BY <1>2, <1>3, PipeConstants DEF OneAtATime
<1>7. NameKept
  BY <1>1, <1>2, <1>3, PipeConstants DEF NameKept
<1>8. Once
  <2>1. \A v \in Visitors : v # 1 /\ prog[v] = new /\ print[v] = "no"
    BY <1>1, <1>3, PipeConstants
  <2> QED BY <1>1, <1>2, <2>1 DEF Once, Written, Got
<1>9. ReachesAll
  <2>1. \A v \in Visitors : prog[v].at = "new" /\ print[v] = "no"
    BY <1>1, <1>2, <1>3, PipeConstants
  <2>2. \A f \in Pipe!Servers : prog[f].k = 1
    BY <1>2, <1>3, PipeConstants
  <2> QED BY <2>1, <2>2 DEF ReachesAll, Reading
<1>10. Late
  BY <1>2, <1>3, PipeConstants DEF Late
<1> QED BY <1>4, <1>5, <1>6, <1>7, <1>8, <1>9, <1>10 DEF PipeInv

\* A step of one process keeps the types, the order of the writers and who waits,
LEMMA PipeFrame ==
  ASSUME PipeInv, NEW p \in Pipe!Programs, NEW r \in ProgRecords, Fits(p, r),
         prog' = [prog EXCEPT ![p] = r], isfifo' = isfifo, whole' \in BOOLEAN,
         fifo' \in Pipe!Servers \cup {0}, full' \subseteq Pipe!Servers, print' \in [Visitors -> {"no", "message", "nothing"}],
         r.at # "new", prog[p].at \in {"new", "run", "waiting"},
         p \in Pipe!Servers /\ prog[p].at = "new" =>
           \A s \in Pipe!Servers : s < p => prog[s].at \notin {"new", "run", "waiting"},
         p \in Visitors /\ r.at = "waiting" =>
           prog[r.of].at \in {"done", "failed", "killed"} \/ (prog[r.of].at = "run" /\ prog[r.of].k \in {2, 5}),
         p \in Pipe!Servers /\ prog[p].at = "run" /\ prog[p].k \in {2, 5} =>
           r.at \in {"done", "failed", "killed"} \/ \A v \in Visitors : ~(prog[v].at = "waiting" /\ prog[v].of = p)
  PROVE  /\ prog' \in [Pipe!Programs -> ProgRecords] /\ prog'[p] = r
         /\ \A q \in Pipe!Programs \ {p} : prog'[q] = prog[q]
         /\ PipeTypes' /\ OneAtATime' /\ Late' /\ \A q \in Pipe!Programs : Fits(q, prog[q])'
<1>0. /\ PipeTypes /\ OneAtATime /\ Once /\ ReachesAll /\ Late
      /\ \A q \in Pipe!Programs : Fits(q, prog[q])
  BY DEF PipeInv
<1>1. /\ prog' \in [Pipe!Programs -> ProgRecords] /\ prog'[p] = r
      /\ \A q \in Pipe!Programs \ {p} : prog'[q] = prog[q]
  BY <1>0, OneProgMoves
<1>2. PipeTypes'
  BY <1>0, <1>1 DEF PipeTypes
<1>3. \A q \in Pipe!Programs : Fits(q, prog[q])'
  BY <1>0, <1>1 DEF Fits, Opened
<1>4. OneAtATime'
  <2> SUFFICES ASSUME NEW s \in Pipe!Servers, NEW t \in Pipe!Servers, s < t, prog'[s].at \in {"new", "run", "waiting"}
               PROVE  prog'[t].at = "new"
    BY DEF OneAtATime
  <2>1. s \in Pipe!Programs /\ t \in Pipe!Programs /\ s # t
    BY PipeConstants
  <2>2. prog[s].at \in {"new", "run", "waiting"}
    BY <1>1, <2>1
  <2>3. prog[t].at = "new"
    BY <1>0, <2>2 DEF OneAtATime
  <2>4. t # p
    BY <2>2, <2>3
  <2> QED BY <1>1, <2>1, <2>3, <2>4
<1>5. \A v \in Visitors : v \in Pipe!Programs /\ v \notin Pipe!Servers
  BY PipeConstants
<1>6. Late'
  <2> SUFFICES ASSUME NEW v \in Visitors, prog'[v].at = "waiting"
               PROVE  LET s == prog'[prog'[v].of] IN s.at \in {"done", "failed", "killed"} \/ (s.at = "run" /\ s.k \in {2, 5})
    BY DEF Late
  <2> DEFINE f == prog'[v].of
  <2>1. f \in Pipe!Servers /\ f \in Pipe!Programs /\ v \in Pipe!Programs /\ v \notin Pipe!Servers
    <3>1. Fits(v, prog[v])' /\ v \notin Pipe!Servers /\ v \in Pipe!Programs
      BY <1>3, <1>5
    <3> QED BY <3>1, PipeConstants DEF Fits
  <2> HIDE DEF f
  <2>2. CASE v = p
    <3>1. f = r.of /\ f # p /\ prog'[f] = prog[f]
      BY <1>1, <2>1, <2>2 DEF f
    <3> QED BY <1>1, <2>2, <3>1 DEF f
  <2>3. CASE v # p
    <3>1. prog'[v] = prog[v] /\ f = prog[v].of
      BY <1>1, <2>1, <2>3 DEF f
    <3>2. prog[f].at \in {"done", "failed", "killed"} \/ (prog[f].at = "run" /\ prog[f].k \in {2, 5})
      BY <1>0, <3>1 DEF Late
    <3>3. CASE f = p
      <4>1. prog[v].at = "waiting" /\ prog[v].of = p /\ prog[p].at = "run" /\ prog[p].k \in {2, 5} /\ p \in Pipe!Servers
        BY <2>1, <3>1, <3>2, <3>3
      <4>2. r.at \in {"done", "failed", "killed"}
        BY <4>1
      <4> QED BY <1>1, <3>3, <4>2 DEF f
    <3>4. CASE f # p
      BY <1>1, <2>1, <3>2, <3>4 DEF f
    <3> QED BY <3>3, <3>4
  <2> QED BY <2>2, <2>3
<1> QED BY <1>1, <1>2, <1>3, <1>4, <1>6

\* and all of the invariant if it leaves messages alone.
LEMMA QuietStep ==
  ASSUME PipeInv, NEW p \in Pipe!Programs, NEW r \in ProgRecords, Fits(p, r),
         prog' = [prog EXCEPT ![p] = r], UNCHANGED <<isfifo, full, print>>,
         fifo' \in Pipe!Servers \cup {0}, NameKept', whole' \in BOOLEAN, whole' => whole,
         p \in Visitors => r.of = prog[p].of \/ (isfifo /\ prog[p].k = 1),
         r.at # "new", r.k >= prog[p].k, prog[p].at \in {"new", "run", "waiting"}, ~isfifo => prog[p].at = "run",
         p \in Pipe!Servers /\ prog[p].at = "new" =>
           \A s \in Pipe!Servers : s < p => prog[s].at \notin {"new", "run", "waiting"},
         p \in Pipe!Servers /\ r.at \in {"run", "done"} /\ r.k > 3 => prog[p].at = "run" /\ prog[p].k > 3,
         p \in Visitors /\ prog'[p].at = "run" /\ (r.k = 2 \/ (~isfifo /\ r.k = 1)) => Reading(p),
         p \in Pipe!Servers /\ whole' /\ prog[p].at = "run" /\ "write" \in prog[p].ends =>
           \/ r.at = "run" /\ "write" \in r.ends
           \/ Written(p) \/ \A v \in Visitors : ~(Reading(v) /\ prog[v].of = p),
         p \in Visitors /\ r.at = "waiting" =>
           prog[r.of].at \in {"done", "failed", "killed"} \/ (prog[r.of].at = "run" /\ prog[r.of].k \in {2, 5}),
         p \in Pipe!Servers /\ prog[p].at = "run" /\ prog[p].k \in {2, 5} =>
           r.at \in {"done", "failed", "killed"} \/ \A v \in Visitors : ~(prog[v].at = "waiting" /\ prog[v].of = p)
  PROVE  PipeInv'
<1>0. /\ PipeTypes /\ OneAtATime /\ Once /\ ReachesAll /\ Late
      /\ \A q \in Pipe!Programs : Fits(q, prog[q])
  BY DEF PipeInv
<1>1. /\ prog' \in [Pipe!Programs -> ProgRecords] /\ prog'[p] = r
      /\ \A q \in Pipe!Programs \ {p} : prog'[q] = prog[q]
      /\ PipeTypes' /\ OneAtATime' /\ Late' /\ \A q \in Pipe!Programs : Fits(q, prog[q])'
  <2>1. full' \subseteq Pipe!Servers /\ print' \in [Visitors -> {"no", "message", "nothing"}]
    BY <1>0 DEF PipeTypes
  <2> QED BY <2>1, PipeFrame
<1>5. \A v \in Visitors : /\ v \in Pipe!Programs /\ v \notin Pipe!Servers
                          /\ (prog'[v].of = prog[v].of \/ (isfifo /\ v = p /\ prog[v].k = 1))
                          /\ (prog[v].k = 1 => print[v] = "no") /\ (prog'[v].k = 1 => prog[v].k = 1)
  <2>1. \A v \in Visitors : v \in Pipe!Programs /\ v \notin Pipe!Servers /\ prog[v] \in ProgRecords
    BY <1>0, PipeConstants DEF PipeTypes
  <2>2. r.k = 1 => prog[p].k = 1
    BY <1>0 DEF PipeTypes, ProgRecords
  <2> QED BY <1>0, <1>1, <2>1, <2>2 DEF Once
<1>6. \A f, v : v \in Visitors => (Got(f, v)' <=> Got(f, v))
  BY <1>5 DEF Got
<1>7. \A f : Written(f)' <=> Written(f)
  BY <1>6 DEF Written
<1>8. Once'
  <2>1. ASSUME NEW f \in Pipe!Servers, Written(f), prog'[f].at \in {"new", "run", "waiting"} PROVE prog'[f].k > 3
    <3>1. f \in Pipe!Programs /\ prog[f] \in ProgRecords
      BY <1>0, PipeConstants DEF PipeTypes
    <3>2. prog[f].at \in {"new", "run", "waiting"} /\ prog'[f].k >= prog[f].k
      BY <1>1, <2>1, <3>1 DEF ProgRecords
    <3>3. prog[f].k > 3 /\ prog[f].k \in Int /\ prog'[f].k \in Int
      BY <1>0, <1>1, <2>1, <3>1, <3>2 DEF Once, ProgRecords
    <3> QED BY <3>2, <3>3
  <2>2. \A f \in full, v \in Visitors : ~Got(f, v)'
    BY <1>0, <1>6 DEF Once
  <2>3. ASSUME NEW v \in Visitors, NEW w \in Visitors, Got(prog[v].of, v)', Got(prog[v].of, w)' PROVE v = w
    <3>1. Got(prog'[v].of, v) /\ Got(prog'[v].of, w)
      BY <1>6, <2>3
    <3>2. prog'[v].of = prog[v].of
      BY <3>1 DEF Got
    <3> QED BY <1>0, <3>1, <3>2 DEF Once
  <2>4. \A v \in Visitors : prog'[v].k = 1 => print'[v] = "no"
    BY <1>5
  <2>5. ASSUME ~isfifo, prog'[1].at = "run", prog'[1].k = 1, NEW v \in Visitors PROVE prog'[v].at = "new"
    <3>1. 1 \in Pipe!Programs /\ 1 \in Pipe!Servers /\ v \in Pipe!Programs
      BY PipeConstants
    <3>2. prog[1].at = "run" /\ prog[1].k = 1
      <4>1. CASE p = 1
        <5>1. r.k = 1 /\ prog[p].k \in 1 .. 5
          BY <1>0, <1>1, <2>5, <4>1 DEF PipeTypes, ProgRecords
        <5> QED BY <4>1, <5>1, <2>5
      <4>2. CASE p # 1
        BY <1>1, <2>5, <3>1, <4>2
      <4> QED BY <4>1, <4>2
    <3>3. prog[v].at = "new"
      BY <1>0, <2>5, <3>2 DEF Once
    <3>4. v # p
      BY <2>5, <3>3
    <3> QED BY <1>1, <3>1, <3>3, <3>4
  <2> QED BY <1>7, <2>1, <2>2, <2>3, <2>4, <2>5 DEF Once
<1>9. ReachesAll'
  <2>1. ASSUME NEW f \in Pipe!Servers, prog'[f].at \in {"run", "done"}, prog'[f].k > 3 PROVE Written(f)
    <3>1. f \in Pipe!Programs
      BY PipeConstants
    <3>2. prog[f].at \in {"run", "done"} /\ prog[f].k > 3
      BY <1>1, <2>1, <3>1
    <3> QED BY <1>0, <3>2 DEF ReachesAll
  <2>2. ASSUME NEW v \in Visitors, whole', prog'[v].at = "run", prog'[v].k = 2 \/ (~isfifo /\ prog'[v].k = 1)
        PROVE  Written(prog'[v].of) \/ (prog'[prog'[v].of].at = "run" /\ "write" \in prog'[prog'[v].of].ends)
    <3>1. Reading(v)
      BY <1>1, <1>5, <2>2 DEF Reading
    <3>2. prog'[v].of = prog[v].of
      BY <1>5, <3>1 DEF Reading
    <3> DEFINE f == prog[v].of
    <3>3. Written(f) \/ (prog[f].at = "run" /\ "write" \in prog[f].ends)
      BY <1>0, <2>2, <3>1 DEF ReachesAll
    <3>4. f \in Pipe!Servers /\ f \in Pipe!Programs
      <4>1. Fits(v, prog[v]) /\ v \notin Pipe!Servers
        BY <1>0, <1>5
      <4>2. prog[v].ends # {}
        BY <3>1, <4>1, PipeConstants DEF Fits, Opened, Reading
      <4> QED BY <4>1, <4>2, PipeConstants DEF Fits
    <3> HIDE DEF f
    <3>5. CASE f = p
      BY <1>1, <2>2, <3>1, <3>2, <3>3, <3>4, <3>5 DEF f
    <3>6. CASE f # p
      BY <1>1, <3>2, <3>3, <3>4, <3>6 DEF f
    <3> QED BY <3>5, <3>6
  <2>3. ASSUME NEW v \in Visitors, whole', print[v] = "nothing" PROVE \E w \in Visitors : Got(prog'[v].of, w)
    <3>1. prog'[v].of = prog[v].of
      BY <1>5, <2>3
    <3> QED BY <1>0, <2>3, <3>1 DEF ReachesAll
  <2> QED BY <1>6, <1>7, <2>1, <2>2, <2>3 DEF ReachesAll, Reading
<1> QED BY <1>1, <1>8, <1>9 DEF PipeInv

\* What the invariant says of one process.
LEMMA PipeFacts ==
  ASSUME PipeInv, NEW p \in Pipe!Programs
  PROVE  /\ prog[p] \in ProgRecords /\ Fits(p, prog[p]) /\ isfifo \in BOOLEAN /\ whole \in BOOLEAN
         /\ prog[p].k \in 1 .. 5 /\ prog[p].at \in ProgPlaces /\ prog[p].ends \subseteq {"read", "write"}
         /\ prog[p].ends = Opened(p, prog[p]) /\ (prog[p].at = "waiting" => isfifo)
         /\ p \in Pipe!Servers \/ p \in Visitors
         /\ ~(p \in Pipe!Servers /\ p \in Visitors)
BY PipeConstants DEF PipeInv, PipeTypes, Fits, ProgRecords

\* While one writer runs no other one does.
LEMMA NobodyElse ==
  ASSUME PipeInv, NEW p \in Pipe!Servers, prog[p].at \in {"run", "waiting"}
  PROVE  \A s \in Pipe!Servers \ {p} : prog[s].at \notin {"run", "waiting"}
<1> SUFFICES ASSUME NEW s \in Pipe!Servers \ {p} PROVE prog[s].at \notin {"run", "waiting"}
  OBVIOUS
<1>1. s < p \/ p < s
  BY PipeConstants
<1> QED BY <1>1 DEF PipeInv, OneAtATime

\* A reader that can still read has its end open.
LEMMA NoReader ==
  ASSUME PipeInv, NEW p \in Pipe!Servers, NEW v \in Visitors, prog[v].of = p
  PROVE  /\ Reading(v) => v \in Pipe!Have("read", p)
         /\ prog[v].at = "waiting" => v \in Pipe!Have("read", p)
<1>1. v \in Pipe!Programs /\ v \notin Pipe!Servers
  BY PipeConstants
<1>2. prog[v].ends = Opened(v, prog[v]) /\ Fits(v, prog[v])
  BY <1>1, PipeFacts
<1>3. Reading(v) \/ prog[v].at = "waiting" => "read" \in prog[v].ends
  BY <1>1, <1>2, PipeConstants DEF Opened, Reading, Fits
<1> QED BY <1>1, <1>3 DEF Pipe!Have

\* Every step keeps it: a process starts,
LEMMA PipeProgStarts == ASSUME PipeInv, NEW p \in Pipe!Programs, Pipe!Start(p) PROVE PipeInv'
<1> DEFINE r == [prog[p] EXCEPT !.at = "run"]
<1>1. /\ isfifo /\ prog[p].at = "new" /\ prog' = [prog EXCEPT ![p] = r]
      /\ UNCHANGED <<isfifo, fifo, full, print, whole>>
      /\ \A s \in Pipe!Servers : p \in Pipe!Servers /\ s < p => prog[s].at \notin {"new", "run", "waiting"}
  BY DEF Pipe!Start
<1>2. /\ r \in ProgRecords /\ r.at = "run" /\ r.k = prog[p].k /\ r.of = prog[p].of /\ r.ends = prog[p].ends
  BY PipeFacts DEF ProgRecords, ProgPlaces
<1> HIDE DEF r
<1>3. prog[p].k = 1 /\ prog[p].ends = {}
  BY <1>1, PipeFacts DEF Fits, Opened
<1>4. Fits(p, r)
  BY <1>1, <1>2, <1>3, PipeFacts DEF Fits, Opened
<1>5. NameKept'
  <2>1. /\ prog'[p] = r /\ \A q \in Pipe!Programs \ {p} : prog'[q] = prog[q]
    BY <1>1, <1>2, OneProgMoves DEF PipeInv
  <2>2. NameKept /\ \A s \in Pipe!Servers : s \in Pipe!Programs
    BY PipeConstants DEF PipeInv
  <2>3. fifo \in Pipe!Servers \cup {0}
    BY DEF PipeInv, PipeTypes
  <2> QED BY <1>1, <1>2, <1>3, <2>1, <2>2, <2>3 DEF NameKept
<1>6. whole \in BOOLEAN /\ fifo \in Pipe!Servers \cup {0}
  BY DEF PipeInv, PipeTypes
<1>7. prog'[p].at = "run" /\ (r.k = 2 \/ (~isfifo /\ r.k = 1)) => Reading(p)
  BY <1>1, <1>2, <1>3
<1>8. /\ r.at # "new" /\ r.at # "waiting" /\ prog[p].at # "run" /\ ~(r.k > 3) /\ r.k >= prog[p].k
      /\ prog[p].at \in {"new", "run", "waiting"}
  BY <1>1, <1>2, <1>3
<1>9. p \in Pipe!Servers => \A s \in Pipe!Servers : s < p => prog[s].at \notin {"new", "run", "waiting"}
  BY <1>1
<1>10. /\ isfifo /\ prog' = [prog EXCEPT ![p] = r] /\ UNCHANGED <<isfifo, full, print>> /\ r.of = prog[p].of
       /\ fifo' \in Pipe!Servers \cup {0} /\ whole' \in BOOLEAN /\ (whole' => whole) /\ r \in ProgRecords
  BY <1>1, <1>2, <1>6
<1> QED BY <1>4, <1>5, <1>7, <1>8, <1>9, <1>10, QuietStep, ZenonT(60)

\* leaves on an error,
LEMMA PipeProgLeaves ==
  ASSUME PipeInv, NEW p \in Pipe!Programs, NEW how \in {"failed", "killed"}, Pipe!Leaves(p, how),
         prog[p].at \in {"run", "waiting"}, UNCHANGED <<isfifo, full, print, fifo>>,
         whole' \in BOOLEAN, whole' => whole,
         p \in Pipe!Servers /\ whole' /\ "write" \in prog[p].ends => \A v \in Visitors : ~(Reading(v) /\ prog[v].of = p)
  PROVE  PipeInv'
<1> DEFINE r == [prog[p] EXCEPT !.at = how, !.ends = {}]
<1>1. prog' = [prog EXCEPT ![p] = r]
  BY DEF Pipe!Leaves
<1>2. /\ r \in ProgRecords /\ r.at = how /\ r.k = prog[p].k /\ r.of = prog[p].of /\ r.ends = {}
  <2>1. how \in ProgPlaces /\ prog[p] \in ProgRecords
    BY PipeFacts DEF ProgPlaces
  <2> QED BY <2>1, PipeLeft
<1> HIDE DEF r
<1>3. Fits(p, r)
  BY <1>2, PipeFacts DEF Fits, Opened
<1>4. /\ prog'[p] = r /\ \A q \in Pipe!Programs \ {p} : prog'[q] = prog[q]
  BY <1>1, <1>2, OneProgMoves DEF PipeInv
<1>5. NameKept'
  <2>2. NameKept /\ \A s \in Pipe!Servers : s \in Pipe!Programs
    BY PipeConstants DEF PipeInv
  <2>3. fifo \in Pipe!Servers \cup {0}
    BY DEF PipeInv, PipeTypes
  <2> QED BY <1>2, <1>4, <2>2, <2>3 DEF NameKept
<1>6. fifo \in Pipe!Servers \cup {0} /\ (~isfifo => prog[p].at = "run") /\ r.k >= prog[p].k
  BY <1>2, PipeFacts DEF PipeInv, PipeTypes
<1>7. ~(prog'[p].at = "run") /\ r.at # "new" /\ r.at \notin {"run", "done"} /\ r.at # "waiting" /\ r.at \in {"done", "failed", "killed"}
  BY <1>2, <1>4
<1> QED BY <1>1, <1>2, <1>3, <1>5, <1>6, <1>7, QuietStep

\* since fork fails,
LEMMA PipeForkFailed == ASSUME PipeInv, NEW p \in Pipe!Programs, Pipe!ForkFails(p) PROVE PipeInv'
<1>1. prog[p].at = "run" /\ ~isfifo /\ p \in Pipe!Servers /\ prog[p].k = 1
  BY PipeFacts, PipeCalls DEF Pipe!ForkFails
<1>2. p = 1
  BY <1>1, PipeFacts DEF Fits
<1>3. \A v \in Visitors : prog[v].at = "new"
  BY <1>1, <1>2 DEF PipeInv, Once
<1>4. whole \in BOOLEAN /\ whole' = whole /\ UNCHANGED <<isfifo, full, print, fifo>> /\ Pipe!Leaves(p, "failed")
  BY PipeFacts DEF Pipe!ForkFails
<1>5. \A v \in Visitors : ~Reading(v)
  BY <1>3 DEF Reading
<1> QED BY <1>1, <1>4, <1>5, PipeProgLeaves

\* or is killed;
LEMMA PipeProgKilled == ASSUME PipeInv, NEW p \in Pipe!Programs, Pipe!Kill(p) PROVE PipeInv'
<1>1. /\ prog[p].at \in {"run", "waiting"} /\ whole' = FALSE /\ UNCHANGED <<isfifo, full, print, fifo>>
      /\ Pipe!Leaves(p, "killed")
  BY DEF Pipe!Kill
<1> QED BY <1>1, PipeProgLeaves

\* the writer makes the FIFO,
LEMMA FifoMade == ASSUME PipeInv, NEW p \in Pipe!Programs, Pipe!Mkfifo(p) PROVE PipeInv'
<1>1. prog[p].at = "run" /\ isfifo /\ p \in Pipe!Servers /\ prog[p].k = 1
  BY PipeFacts, PipeCalls DEF Pipe!Mkfifo
<1>2. UNCHANGED <<isfifo, full, print, whole>> /\ whole \in BOOLEAN
  BY PipeFacts DEF Pipe!Mkfifo
<1>3. prog[p].ends = {}
  BY <1>1, PipeFacts DEF Opened
<1>4. CASE fifo # 0
  <2>1. Pipe!Leaves(p, "failed") /\ UNCHANGED fifo
    BY <1>4 DEF Pipe!Mkfifo
  <2> QED BY <1>1, <1>2, <1>3, <2>1, PipeProgLeaves
<1>5. CASE fifo = 0
  <2> DEFINE r == Pipe!After(p, prog[p])
  <2>1. prog' = [prog EXCEPT ![p] = r] /\ fifo' = p
    BY <1>5 DEF Pipe!Mkfifo, Pipe!GoesOn
  <2>2. /\ r \in ProgRecords /\ r.at = "run" /\ r.k = 2 /\ r.of = prog[p].of /\ r.ends = {}
    BY <1>1, <1>3, PipeFacts, PipeAfter
  <2> HIDE DEF r
  <2>3. Fits(p, r)
    BY <1>1, <2>2, PipeFacts DEF Fits, Opened
  <2>4. /\ prog'[p] = r /\ \A q \in Pipe!Programs \ {p} : prog'[q] = prog[q]
    BY <2>1, <2>2, OneProgMoves DEF PipeInv
  <2>5. NameKept'
    <3>1. \A s \in Pipe!Servers \ {p} : prog'[s].at \notin {"run", "waiting"}
      BY <1>1, <2>4, NobodyElse, PipeConstants
    <3> QED BY <2>1, <2>2, <2>4, <3>1, PipeConstants DEF NameKept
  <2>6. p \notin Visitors /\ "write" \notin prog[p].ends /\ r.k >= prog[p].k
    BY <1>1, <1>3, <2>2, PipeConstants
  <2>7. /\ r.at # "new" /\ r.at # "waiting" /\ ~(r.k > 3) /\ ~(prog[p].k \in {2, 5})
        /\ prog[p].at \in {"new", "run", "waiting"} /\ prog[p].at # "new"
    BY <1>1, <2>2
  <2>8. /\ isfifo /\ UNCHANGED <<isfifo, full, print>>
        /\ fifo' \in Pipe!Servers \cup {0} /\ whole' \in BOOLEAN /\ (whole' => whole) /\ r \in ProgRecords
    BY <1>1, <1>2, <2>1, <2>2
  <2> QED BY <2>1, <2>3, <2>5, <2>6, <2>7, <2>8, QuietStep, ZenonT(60)
<1> QED BY <1>4, <1>5

\* unlinks it, or waits for its child;
LEMMA FifoUnlinked == ASSUME PipeInv, NEW p \in Pipe!Programs, Pipe!Unlink(p) \/ Pipe!Wait(p) PROVE PipeInv'
<1>1. prog[p].at = "run" /\ p \in Pipe!Servers /\ prog[p].k = 5
  BY PipeFacts, PipeCalls DEF Pipe!Unlink, Pipe!Wait
<1>2. UNCHANGED <<isfifo, full, print, whole>> /\ whole \in BOOLEAN /\ Pipe!GoesOn(p)
  BY PipeFacts DEF Pipe!Unlink, Pipe!Wait
<1>3. fifo' = 0 \/ (fifo' = fifo /\ ~isfifo)
  BY PipeFacts, PipeCalls DEF Pipe!Unlink, Pipe!Wait
<1> DEFINE r == Pipe!After(p, prog[p])
<1>4. prog' = [prog EXCEPT ![p] = r]
  BY <1>2 DEF Pipe!GoesOn
<1>5. /\ r \in ProgRecords /\ r.at = "done" /\ r.k = 5 /\ r.of = prog[p].of /\ r.ends = {}
  BY <1>1, PipeFacts, PipeAfter
<1> HIDE DEF r
<1>6. Fits(p, r)
  BY <1>1, <1>5, PipeFacts DEF Fits, Opened
<1>7. /\ prog'[p] = r /\ \A q \in Pipe!Programs \ {p} : prog'[q] = prog[q]
  BY <1>4, <1>5, OneProgMoves DEF PipeInv
<1>8. fifo \in Pipe!Servers \cup {0} /\ NameKept
  BY DEF PipeInv, PipeTypes
<1>9. NameKept'
  <2>1. \A s \in Pipe!Servers \ {p} : prog'[s].at \notin {"run", "waiting"}
    BY <1>1, <1>7, NobodyElse, PipeConstants
  <2> QED BY <1>2, <1>3, <1>5, <1>7, <1>8, <2>1, PipeConstants DEF NameKept
<1>10. p \notin Visitors /\ "write" \notin prog[p].ends /\ r.k >= prog[p].k /\ fifo' \in Pipe!Servers \cup {0}
  <2>1. "write" \notin prog[p].ends
    BY <1>1, PipeFacts DEF Opened
  <2> QED BY <1>1, <1>3, <1>5, <1>8, <2>1, PipeConstants
<1> QED BY <1>1, <1>2, <1>4, <1>5, <1>6, <1>9, <1>10, QuietStep

\* a process closes one end;
LEMMA EndClosed ==
  ASSUME PipeInv, NEW p \in Pipe!Programs, NEW call, NEW end \in {"read", "write"},
         Pipe!CloseEnd(p, call, end),
         (call = "close_read" /\ end = "read") \/ (call = "close_write" /\ end = "write")
  PROVE PipeInv'
<1> DEFINE c == [prog[p] EXCEPT !.ends = @ \ {end}]
           r == Pipe!After(p, c)
           server == p \in Pipe!Servers
           k == prog[p].k
           last == k = (IF server THEN 5 ELSE 3)
<1>1. /\ prog[p].at = "run"
      /\ \/ end = "read" /\ (~isfifo /\ server /\ k = 2)
         \/ end = "read" /\ ~server /\ k = 3
         \/ end = "write" /\ server /\ k = 4
         \/ end = "write" /\ (~isfifo /\ ~server /\ k = 1)
  BY PipeFacts, PipeCalls DEF Pipe!CloseEnd
<1>2. UNCHANGED <<isfifo, full, print, whole, fifo>> /\ whole \in BOOLEAN /\ prog' = [prog EXCEPT ![p] = r]
  <2>1. whole \in BOOLEAN
    BY PipeFacts
  <2> QED BY <2>1 DEF Pipe!CloseEnd
<1>3. c \in ProgRecords /\ c.k = k /\ c.of = prog[p].of /\ c.ends = prog[p].ends \ {end}
  BY PipeFacts DEF ProgRecords
<1>4. k <= (IF server THEN 5 ELSE 3) /\ k \in 1 .. 5
  BY PipeFacts DEF Fits
<1> HIDE DEF c
<1>5. /\ r \in ProgRecords /\ r.of = prog[p].of
      /\ r.at = (IF last THEN "done" ELSE "run") /\ r.k = (IF last THEN k ELSE k + 1)
      /\ r.ends = IF last THEN {} ELSE prog[p].ends \ {end}
  <2>1. c.k <= (IF p \in Pipe!Servers THEN 5 ELSE 3) /\ isfifo \in BOOLEAN
    BY <1>3, <1>4, PipeFacts
  <2>2. LET l == c.k = (IF p \in Pipe!Servers THEN 5 ELSE 3)
        IN  /\ r \in ProgRecords /\ r.of = c.of
            /\ r.at = (IF l THEN "done" ELSE "run") /\ r.k = (IF l THEN c.k ELSE c.k + 1)
            /\ r.ends = IF l THEN {} ELSE c.ends
    BY <1>3, <2>1, PipeAfter
  <2> HIDE DEF r
  <2> QED BY <1>3, <2>2
<1> HIDE DEF r
<1>6. Fits(p, r)
  <2>1. prog[p].ends = Opened(p, prog[p]) /\ Fits(p, prog[p])
    BY PipeFacts
  <2>2. r.ends = Opened(p, r)
    <3>1. CASE end = "read" /\ (~isfifo /\ server /\ k = 2)
      <4>1. prog[p].ends = {"read", "write"} /\ r.k = 3 /\ r.at = "run" /\ r.ends = prog[p].ends \ {end}
        BY <1>1, <1>5, <2>1, <3>1, PipeConstants DEF Opened
      <4>2. Opened(p, r) = {"write"}
        BY <3>1, <4>1 DEF Opened
      <4> QED BY <3>1, <4>1, <4>2
    <3>2. CASE end = "read" /\ ~server /\ k = 3
      <4>1. r.at = "done" /\ r.ends = {}
        BY <1>5, <3>2
      <4> QED BY <4>1 DEF Opened
    <3>3. CASE end = "write" /\ server /\ k = 4
      <4>1. prog[p].ends = {"write"} /\ r.k = 5 /\ r.at = "run" /\ r.ends = prog[p].ends \ {end}
        BY <1>1, <1>5, <2>1, <3>3, PipeConstants DEF Opened
      <4>2. Opened(p, r) = {}
        BY <3>3, <4>1 DEF Opened
      <4> QED BY <3>3, <4>1, <4>2
    <3>4. CASE end = "write" /\ (~isfifo /\ ~server /\ k = 1)
      <4>1. prog[p].ends = {"read", "write"} /\ r.k = 2 /\ r.at = "run" /\ r.ends = prog[p].ends \ {end}
        BY <1>1, <1>5, <2>1, <3>4, PipeConstants DEF Opened
      <4>2. Opened(p, r) = {"read"}
        BY <3>4, <4>1 DEF Opened
      <4> QED BY <3>4, <4>1, <4>2
    <3> QED BY <1>1, <3>1, <3>2, <3>3, <3>4
  <2> QED BY <1>1, <1>5, <2>1, <2>2, PipeConstants DEF Fits
<1>7. /\ prog'[p] = r /\ \A q \in Pipe!Programs \ {p} : prog'[q] = prog[q]
  BY <1>2, <1>5, OneProgMoves DEF PipeInv
<1>8. fifo \in Pipe!Servers \cup {0} /\ NameKept /\ ReachesAll
  BY DEF PipeInv, PipeTypes
<1>9. NameKept'
  <2>1. r.k > 1 /\ (server /\ isfifo => prog[p].at = "run" /\ k > 1)
    BY <1>1, <1>5
  <2> QED BY <1>1, <1>2, <1>5, <1>7, <1>8, <2>1, PipeConstants DEF NameKept
<1>10. server /\ "write" \in prog[p].ends => (r.at = "run" /\ "write" \in r.ends) \/ Written(p)
  <2>1. CASE k = 4
    BY <1>1, <1>8, <2>1 DEF ReachesAll
  <2>2. CASE k # 4
    BY <1>1, <1>5, <2>2
  <2> QED BY <2>1, <2>2
<1>11. p \in Visitors => /\ ~server /\ r.at # "waiting"
                         /\ (prog'[p].at = "run" /\ (r.k = 2 \/ (~isfifo /\ r.k = 1)) => Reading(p))
  BY <1>1, <1>5, <1>7, PipeConstants DEF Reading
<1>12. server /\ r.at \in {"run", "done"} /\ r.k > 3 => k > 3
  BY <1>1, <1>5
<1>13. server /\ k \in {2, 5} => \A v \in Visitors : prog[v].at # "waiting"
  <2>1. server /\ k \in {2, 5} => ~isfifo
    BY <1>1
  <2> QED BY <2>1, PipeFacts, PipeConstants
<1>14. r.k >= k /\ r.at # "new"
  BY <1>4, <1>5
<1>15. server => p \notin Visitors
  BY PipeFacts
<1> HIDE DEF server, last
<1> QED BY <1>1, <1>2, <1>5, <1>6, <1>8, <1>9, <1>10, <1>11, <1>12, <1>13, <1>14, <1>15, QuietStep DEF server

\* a reader reads what a writer has made;
LEMMA ReaderOf ==
  ASSUME PipeInv, NEW v \in Visitors, Reading(v)
  PROVE  prog[v].of \in Pipe!Servers /\ prog[v].of \in Pipe!Programs
<1>1. v \in Pipe!Programs /\ v \notin Pipe!Servers
  BY PipeConstants
<1>2. Fits(v, prog[v]) /\ prog[v].ends = Opened(v, prog[v])
  BY <1>1, PipeFacts
<1>3. "read" \in Opened(v, prog[v])
  BY <1>1, PipeConstants DEF Opened, Reading
<1> QED BY <1>1, <1>2, <1>3, PipeConstants DEF Fits

\* the writer writes,
LEMMA PipeWritten == ASSUME PipeInv, NEW p \in Pipe!Programs, Pipe!Write(p) PROVE PipeInv'
<1>1. prog[p].at = "run" /\ p \in Pipe!Servers /\ prog[p].k = 3 /\ prog[p].ends = {"write"} /\ prog[p].of = p
  <2>1. prog[p].at = "run" /\ p \in Pipe!Servers /\ prog[p].k = 3
    BY PipeFacts, PipeCalls DEF Pipe!Write
  <2>2. prog[p].ends = {"write"} /\ Fits(p, prog[p])
    BY <2>1, PipeFacts DEF Opened
  <2> QED BY <2>1, <2>2 DEF Fits
<1>2. UNCHANGED <<isfifo, fifo, print, whole>> /\ whole \in BOOLEAN
  BY PipeFacts DEF Pipe!Write
<1>3. CASE Pipe!Have("read", prog[p].of) = {}
  <2>1. Pipe!Leaves(p, "failed") /\ UNCHANGED full
    BY <1>3 DEF Pipe!Write
  <2>2. \A v \in Visitors : ~(Reading(v) /\ prog[v].of = p)
    BY <1>1, <1>3, NoReader
  <2> QED BY <1>1, <1>2, <2>1, <2>2, PipeProgLeaves
<1>4. CASE Pipe!Have("read", prog[p].of) # {}
  <2> DEFINE r == Pipe!After(p, prog[p])
  <2>1. prog' = [prog EXCEPT ![p] = r] /\ full' = full \cup {p}
    BY <1>1, <1>4 DEF Pipe!Write, Pipe!GoesOn
  <2>2. /\ r \in ProgRecords /\ r.at = "run" /\ r.k = 4 /\ r.of = p /\ r.ends = {"write"}
    BY <1>1, PipeFacts, PipeAfter
  <2> HIDE DEF r
  <2>3. Fits(p, r)
    <3>1. Opened(p, r) = {"write"}
      BY <1>1, <2>2, PipeFacts, PipeConstants DEF Opened
    <3>2. Fits(p, prog[p])
      BY PipeFacts
    <3> QED BY <1>1, <2>2, <3>1, <3>2 DEF Fits
  <2>4. /\ full' \subseteq Pipe!Servers /\ fifo \in Pipe!Servers \cup {0} /\ print \in [Visitors -> {"no", "message", "nothing"}]
        /\ p \notin Visitors /\ NameKept /\ Once /\ ReachesAll /\ full \subseteq Pipe!Servers
    BY <1>1, <2>1, PipeFacts DEF PipeInv, PipeTypes
  <2>5. /\ fifo' \in Pipe!Servers \cup {0} /\ print' \in [Visitors -> {"no", "message", "nothing"}]
        /\ r.at # "new" /\ prog[p].at \in {"new", "run", "waiting"} /\ prog[p].at # "new" /\ ~(prog[p].k \in {2, 5})
        /\ isfifo' = isfifo /\ whole' \in BOOLEAN
    BY <1>1, <1>2, <2>2, <2>4
  <2>6. /\ prog'[p] = r /\ \A q \in Pipe!Programs \ {p} : prog'[q] = prog[q]
        /\ PipeTypes' /\ OneAtATime' /\ Late' /\ \A q \in Pipe!Programs : Fits(q, prog[q])'
    BY <2>1, <2>2, <2>3, <2>4, <2>5, PipeFrame
  <2>7. NameKept'
    BY <1>1, <1>2, <2>2, <2>4, <2>6, PipeConstants DEF NameKept
  <2>8. \A v \in Visitors : prog'[v] = prog[v] /\ print'[v] = print[v]
    BY <1>2, <2>4, <2>6, PipeConstants
  <2>9. \A g, v : v \in Visitors => (Got(g, v)' <=> Got(g, v))
    BY <2>8 DEF Got
  <2>10. ~Written(p) /\ \A g : Written(g)' <=> Written(g) \/ g = p
    <3>1. ~Written(p)
      BY <1>1, <2>4 DEF Once
    <3> QED BY <2>1, <2>9, <3>1 DEF Written
  <2>11. Once'
    <3>1. ASSUME NEW g \in Pipe!Servers, Written(g)', prog'[g].at \in {"new", "run", "waiting"} PROVE prog'[g].k > 3
      BY <2>2, <2>4, <2>6, <2>10, <3>1, PipeConstants DEF Once
    <3>2. \A g \in full', v \in Visitors : ~Got(g, v)'
      BY <2>1, <2>4, <2>9, <2>10 DEF Once, Written
    <3>3. ASSUME NEW v \in Visitors, NEW w \in Visitors, Got(prog[v].of, v)', Got(prog[v].of, w)' PROVE v = w
      <4>1. prog'[v].of = prog[v].of
        BY <2>8
      <4>2. Got(prog[v].of, v) /\ Got(prog[v].of, w)
        BY <2>8, <3>3, <4>1 DEF Got
      <4> QED BY <2>4, <4>2 DEF Once
    <3>4. ASSUME NEW v \in Visitors, prog'[v].k = 1 PROVE print'[v] = "no"
      BY <2>4, <2>8, <3>4 DEF Once
    <3>5. ASSUME ~isfifo, prog'[1].at = "run", prog'[1].k = 1, NEW v \in Visitors PROVE prog'[v].at = "new"
      <4>1. p # 1 /\ prog'[1] = prog[1]
        BY <2>2, <2>6, <3>5, PipeConstants
      <4> QED BY <2>4, <2>8, <3>5, <4>1 DEF Once
    <3> QED BY <1>2, <3>1, <3>2, <3>3, <3>4, <3>5 DEF Once
  <2>12. ReachesAll'
    <3>1. ASSUME NEW g \in Pipe!Servers, prog'[g].at \in {"run", "done"}, prog'[g].k > 3 PROVE Written(g)'
      BY <2>4, <2>6, <2>10, <3>1, PipeConstants DEF ReachesAll
    <3>2. ASSUME NEW v \in Visitors, whole', Reading(v)'
          PROVE  Written(prog[v].of)' \/ (prog'[prog'[v].of].at = "run" /\ "write" \in prog'[prog'[v].of].ends)
      <4>1. Reading(v) /\ prog'[v].of = prog[v].of
        BY <1>2, <2>8, <3>2 DEF Reading
      <4>2. Written(prog[v].of) \/ (prog[prog[v].of].at = "run" /\ "write" \in prog[prog[v].of].ends)
        BY <1>2, <2>4, <3>2, <4>1 DEF ReachesAll
      <4>3. prog[v].of \in Pipe!Programs
        <5> QED BY <4>1, ReaderOf
      <4>4. Written(prog[v].of)' <=> Written(prog'[v].of) \/ prog'[v].of = p
        BY <2>10
      <4>5. prog[v].of # p => prog'[prog[v].of] = prog[prog[v].of]
        BY <2>6, <4>3
      <4> QED BY <4>1, <4>2, <4>4, <4>5
    <3>3. ASSUME NEW v \in Visitors, whole', print'[v] = "nothing" PROVE \E w \in Visitors : Got(prog[v].of, w)'
      BY <1>2, <2>4, <2>8, <3>3 DEF ReachesAll, Got
    <3> QED BY <3>1, <3>2, <3>3 DEF ReachesAll
  <2> QED BY <2>6, <2>7, <2>11, <2>12 DEF PipeInv
<1> QED BY <1>3, <1>4

\* a reader reads the message,
LEMMA PipeReads == ASSUME PipeInv, NEW p \in Pipe!Programs, Pipe!Read(p) PROVE PipeInv'
<1> DEFINE f == prog[p].of
           r == IF isfifo THEN Pipe!After(p, prog[p]) ELSE prog[p]
<1>1. prog[p].at = "run" /\ p \notin Pipe!Servers /\ p \in Visitors /\ prog[p].k = 2
  BY PipeFacts, PipeCalls DEF Pipe!Read
<1>2. UNCHANGED <<isfifo, fifo, whole>> /\ whole \in BOOLEAN /\ isfifo \in BOOLEAN
  BY PipeFacts DEF Pipe!Read
<1>3. Reading(p) /\ f \in Pipe!Servers /\ f \in Pipe!Programs /\ f # p
  BY <1>1, ReaderOf DEF Reading
<1>4. /\ NameKept /\ Once /\ ReachesAll /\ full \subseteq Pipe!Servers /\ fifo \in Pipe!Servers \cup {0}
      /\ print \in [Visitors -> {"no", "message", "nothing"}] /\ prog \in [Pipe!Programs -> ProgRecords]
  BY DEF PipeInv, PipeTypes
<1>5. /\ f \in full /\ full' = full \ {f} /\ print' = [print EXCEPT ![p] = "message"]
      /\ IF isfifo THEN Pipe!GoesOn(p) ELSE prog' = prog
  BY DEF Pipe!Read
<1>6. prog' = [prog EXCEPT ![p] = r]
  <2>1. CASE isfifo
    BY <1>5, <2>1 DEF Pipe!GoesOn
  <2>2. CASE ~isfifo
    BY <1>4, <1>5, <2>2
  <2> QED BY <2>1, <2>2
<1>7. r \in ProgRecords /\ r.of = f /\ r.at = "run" /\ r.k \in {2, 3} /\ Fits(p, r)
  <2>1. CASE ~isfifo
    BY <1>1, <2>1, PipeFacts
  <2>2. CASE isfifo
    <3>1. /\ r \in ProgRecords /\ r.of = f /\ r.at = "run" /\ r.k = 3 /\ r.ends = prog[p].ends
      BY <1>1, <2>2, PipeFacts, PipeAfter
    <3> HIDE DEF r
    <3>2. Opened(p, r) = Opened(p, prog[p])
      BY <1>1, <2>2, <3>1 DEF Opened
    <3>3. Fits(p, prog[p])
      BY PipeFacts
    <3>4. Fits(p, r)
      BY <1>1, <2>2, <3>1, <3>2, <3>3 DEF Fits
    <3> QED BY <3>1, <3>4
  <2> QED BY <1>2, <2>1, <2>2
<1> HIDE DEF r
<1>8. /\ full' \subseteq Pipe!Servers /\ fifo' \in Pipe!Servers \cup {0} /\ print' \in [Visitors -> {"no", "message", "nothing"}]
      /\ r.at # "new" /\ r.at # "waiting" /\ prog[p].at \in {"new", "run", "waiting"} /\ prog[p].at # "new"
      /\ isfifo' = isfifo /\ whole' \in BOOLEAN
  BY <1>1, <1>2, <1>4, <1>5, <1>7
<1>9. /\ prog'[p] = r /\ \A q \in Pipe!Programs \ {p} : prog'[q] = prog[q]
      /\ PipeTypes' /\ OneAtATime' /\ Late' /\ \A q \in Pipe!Programs : Fits(q, prog[q])'
  BY <1>1, <1>6, <1>7, <1>8, PipeFrame
<1>10. /\ \A s \in Pipe!Servers : prog'[s] = prog[s]
       /\ \A v \in Visitors : prog'[v].of = prog[v].of /\ (prog'[v].k = 1 => prog[v].k = 1 /\ v # p)
       /\ \A v \in Visitors \ {p} : prog'[v] = prog[v] /\ print'[v] = print[v]
       /\ print'[p] = "message"
  <2>1. print'[p] = "message" /\ \A v \in Visitors \ {p} : print'[v] = print[v]
    BY <1>1, <1>4, <1>5
  <2> QED BY <1>1, <1>7, <1>9, <2>1, PipeConstants
<1>11. NameKept'
  BY <1>2, <1>4, <1>10, PipeConstants DEF NameKept
<1>12. \A g, v : v \in Visitors => (Got(g, v)' <=> Got(g, v) \/ (v = p /\ g = f))
  BY <1>1, <1>10 DEF Got
<1>13. \A g : Written(g)' <=> Written(g)
  BY <1>1, <1>5, <1>12 DEF Written
<1> HIDE DEF f
<1>14. Once'
  <2>1. \A g \in Pipe!Servers : Written(g)' /\ prog'[g].at \in {"new", "run", "waiting"} => prog'[g].k > 3
    BY <1>4, <1>10, <1>13 DEF Once
  <2>2. \A g \in full', v \in Visitors : ~Got(g, v)'
    BY <1>4, <1>5, <1>12 DEF Once
  <2>3. ASSUME NEW v \in Visitors, NEW w \in Visitors, Got(prog[v].of, v)', Got(prog[v].of, w)' PROVE v = w
    <3> DEFINE g == prog[v].of
    <3>1. prog'[v].of = g
      BY <1>10
    <3>2. Got(g, v) \/ (v = p /\ g = f)
      <4>1. Got(prog'[v].of, v) \/ (v = p /\ prog'[v].of = f)
        BY <1>12, <2>3
      <4> QED BY <3>1, <4>1
    <3>3. Got(g, w) \/ (w = p /\ g = f)
      <4>1. Got(prog'[v].of, w) \/ (w = p /\ prog'[v].of = f)
        BY <1>12, <2>3
      <4> QED BY <3>1, <4>1
    <3>4. ~Got(f, v) /\ ~Got(f, w)
      BY <1>4, <1>5 DEF Once
    <3>5. Got(g, v) /\ Got(g, w) => v = w
      BY <1>4 DEF Once
    <3> HIDE DEF g
    <3> QED BY <3>2, <3>3, <3>4, <3>5
  <2>4. \A v \in Visitors : prog'[v].k = 1 => print'[v] = "no"
    BY <1>4, <1>10 DEF Once
  <2>5. ASSUME ~isfifo, prog'[1].at = "run", prog'[1].k = 1, NEW v \in Visitors PROVE prog'[v].at = "new"
    <3>1. prog[1].at = "run" /\ prog[1].k = 1
      BY <1>10, <2>5, PipeConstants
    <3>2. prog[p].at = "new"
      BY <1>1, <1>4, <2>5, <3>1 DEF Once
    <3> QED BY <1>1, <3>2
  <2> QED BY <1>2, <2>1, <2>2, <2>3, <2>4, <2>5 DEF Once
<1>15. ReachesAll'
  <2>1. \A g \in Pipe!Servers : prog'[g].at \in {"run", "done"} /\ prog'[g].k > 3 => Written(g)'
    BY <1>4, <1>10, <1>13 DEF ReachesAll
  <2>2. ASSUME NEW v \in Visitors, whole', Reading(v)'
        PROVE  Written(prog[v].of)' \/ (prog'[prog'[v].of].at = "run" /\ "write" \in prog'[prog'[v].of].ends)
    <3>1. Reading(v)
      <4>1. CASE v = p
        BY <1>3, <4>1
      <4>2. CASE v # p
        BY <1>2, <1>10, <2>2, <4>2 DEF Reading
      <4> QED BY <4>1, <4>2
    <3>2. Written(prog[v].of) \/ (prog[prog[v].of].at = "run" /\ "write" \in prog[prog[v].of].ends)
      BY <1>2, <1>4, <2>2, <3>1 DEF ReachesAll
    <3>3. prog[v].of \in Pipe!Servers /\ prog'[v].of = prog[v].of
      BY <1>10, <3>1, ReaderOf
    <3>4. Written(prog[v].of)' <=> Written(prog'[v].of)
      BY <1>13
    <3> QED BY <1>10, <3>2, <3>3, <3>4
  <2>3. ASSUME NEW v \in Visitors, whole', print'[v] = "nothing" PROVE \E w \in Visitors : Got(prog[v].of, w)'
    <3>1. v # p /\ print[v] = "nothing" /\ prog'[v].of = prog[v].of
      BY <1>10, <2>3
    <3>2. PICK w \in Visitors : Got(prog[v].of, w)
      BY <1>2, <1>4, <2>3, <3>1 DEF ReachesAll
    <3>3. Got(prog'[v].of, w)
      BY <3>1, <3>2
    <3> QED BY <1>12, <3>3
  <2> QED BY <2>1, <2>2, <2>3 DEF ReachesAll
<1> QED BY <1>9, <1>11, <1>14, <1>15 DEF PipeInv

\* or the end of the file;
LEMMA PipeEndRead == ASSUME PipeInv, NEW p \in Pipe!Programs, Pipe!ReadEnd(p) PROVE PipeInv'
<1> DEFINE f == prog[p].of
           r == Pipe!After(p, prog[p])
<1>1. prog[p].at = "run" /\ p \notin Pipe!Servers /\ p \in Visitors /\ prog[p].k = 2
  BY PipeFacts, PipeCalls DEF Pipe!ReadEnd
<1>2. UNCHANGED <<isfifo, fifo, full, whole>> /\ whole \in BOOLEAN /\ isfifo \in BOOLEAN
  BY PipeFacts DEF Pipe!ReadEnd
<1>3. Reading(p) /\ f \in Pipe!Servers /\ f \in Pipe!Programs /\ f # p
  BY <1>1, ReaderOf DEF Reading
<1>4. /\ NameKept /\ Once /\ ReachesAll /\ full \subseteq Pipe!Servers /\ fifo \in Pipe!Servers \cup {0}
      /\ print \in [Visitors -> {"no", "message", "nothing"}] /\ prog \in [Pipe!Programs -> ProgRecords]
  BY DEF PipeInv, PipeTypes
<1>5. /\ f \notin full /\ Pipe!Have("write", f) = {}
      /\ print' = [print EXCEPT ![p] = IF @ = "no" THEN "nothing" ELSE @] /\ prog' = [prog EXCEPT ![p] = r]
  BY DEF Pipe!ReadEnd, Pipe!GoesOn
<1>7. /\ r \in ProgRecords /\ r.of = f /\ r.at = "run" /\ r.k = 3 /\ r.ends = prog[p].ends
  BY <1>1, PipeFacts, PipeAfter
<1> HIDE DEF r
<1>8. Fits(p, r)
  <2>1. Opened(p, r) = Opened(p, prog[p])
    BY <1>1, <1>7 DEF Opened
  <2>2. Fits(p, prog[p])
    BY PipeFacts
  <2> QED BY <1>1, <1>7, <2>1, <2>2 DEF Fits
<1>9. /\ full' \subseteq Pipe!Servers /\ fifo' \in Pipe!Servers \cup {0} /\ print' \in [Visitors -> {"no", "message", "nothing"}]
      /\ r.at # "new" /\ r.at # "waiting" /\ prog[p].at \in {"new", "run", "waiting"} /\ prog[p].at # "new"
      /\ isfifo' = isfifo /\ whole' \in BOOLEAN
  BY <1>1, <1>2, <1>4, <1>5, <1>7
<1>10. /\ prog'[p] = r /\ \A q \in Pipe!Programs \ {p} : prog'[q] = prog[q]
       /\ PipeTypes' /\ OneAtATime' /\ Late' /\ \A q \in Pipe!Programs : Fits(q, prog[q])'
  BY <1>1, <1>5, <1>7, <1>8, <1>9, PipeFrame
<1>11. /\ \A s \in Pipe!Servers : prog'[s] = prog[s]
       /\ \A v \in Visitors : prog'[v].of = prog[v].of /\ (prog'[v].k = 1 => prog[v].k = 1 /\ v # p)
       /\ \A v \in Visitors \ {p} : prog'[v] = prog[v] /\ print'[v] = print[v]
       /\ print'[p] = IF print[p] = "no" THEN "nothing" ELSE print[p]
  <2>1. print'[p] = (IF print[p] = "no" THEN "nothing" ELSE print[p]) /\ \A v \in Visitors \ {p} : print'[v] = print[v]
    BY <1>1, <1>4, <1>5
  <2> QED BY <1>1, <1>7, <1>10, <2>1, PipeConstants
<1>12. NameKept'
  BY <1>2, <1>4, <1>11, PipeConstants DEF NameKept
<1>13. \A g, v : v \in Visitors => (Got(g, v)' <=> Got(g, v))
  BY <1>1, <1>11 DEF Got
<1>14. \A g : Written(g)' <=> Written(g)
  BY <1>2, <1>13 DEF Written
<1>15. Once'
  <2>1. \A g \in Pipe!Servers : Written(g)' /\ prog'[g].at \in {"new", "run", "waiting"} => prog'[g].k > 3
    BY <1>4, <1>11, <1>14 DEF Once
  <2>2. \A g \in full', v \in Visitors : ~Got(g, v)'
    BY <1>2, <1>4, <1>13 DEF Once
  <2>3. ASSUME NEW v \in Visitors, NEW w \in Visitors, Got(prog[v].of, v)', Got(prog[v].of, w)' PROVE v = w
    <3>1. prog'[v].of = prog[v].of /\ Got(prog'[v].of, v) /\ Got(prog'[v].of, w)
      BY <1>11, <1>13, <2>3
    <3> QED BY <1>4, <3>1 DEF Once
  <2>4. \A v \in Visitors : prog'[v].k = 1 => print'[v] = "no"
    BY <1>4, <1>11 DEF Once
  <2>5. ASSUME ~isfifo, prog'[1].at = "run", prog'[1].k = 1, NEW v \in Visitors PROVE prog'[v].at = "new"
    <3>1. prog[1].at = "run" /\ prog[1].k = 1
      BY <1>11, <2>5, PipeConstants
    <3>2. prog[p].at = "new"
      BY <1>1, <1>4, <2>5, <3>1 DEF Once
    <3> QED BY <1>1, <3>2
  <2> QED BY <1>2, <2>1, <2>2, <2>3, <2>4, <2>5 DEF Once
<1>16. ReachesAll'
  <2>1. \A g \in Pipe!Servers : prog'[g].at \in {"run", "done"} /\ prog'[g].k > 3 => Written(g)'
    BY <1>4, <1>11, <1>14 DEF ReachesAll
  <2>2. ASSUME NEW v \in Visitors, whole', Reading(v)'
        PROVE  Written(prog[v].of)' \/ (prog'[prog'[v].of].at = "run" /\ "write" \in prog'[prog'[v].of].ends)
    <3>1. Reading(v)
      <4>1. CASE v = p
        BY <1>3, <4>1
      <4>2. CASE v # p
        BY <1>2, <1>11, <2>2, <4>2 DEF Reading
      <4> QED BY <4>1, <4>2
    <3>2. Written(prog[v].of) \/ (prog[prog[v].of].at = "run" /\ "write" \in prog[prog[v].of].ends)
      BY <1>2, <1>4, <2>2, <3>1 DEF ReachesAll
    <3>3. prog[v].of \in Pipe!Servers /\ prog'[v].of = prog[v].of
      BY <1>11, <3>1, ReaderOf
    <3>4. Written(prog[v].of)' <=> Written(prog'[v].of)
      BY <1>14
    <3> QED BY <1>11, <3>2, <3>3, <3>4
  <2>3. ASSUME NEW v \in Visitors, whole', print'[v] = "nothing" PROVE \E w \in Visitors : Got(prog[v].of, w)'
    <3>1. \E w \in Visitors : Got(prog[v].of, w)
      <4>1. CASE print[v] = "nothing"
        BY <1>2, <1>4, <2>3, <4>1 DEF ReachesAll
      <4>2. CASE print[v] # "nothing"
        <5>1. v = p
          BY <1>11, <2>3, <4>2
        <5>2. Written(f) \/ (prog[f].at = "run" /\ "write" \in prog[f].ends)
          <6>1. \A w \in Visitors : whole /\ Reading(w) =>
                  Written(prog[w].of) \/ (prog[prog[w].of].at = "run" /\ "write" \in prog[prog[w].of].ends)
            BY <1>4 DEF ReachesAll
          <6>2. whole /\ Reading(p) /\ p \in Visitors
            BY <1>1, <1>2, <1>3, <2>3
          <6> QED BY <6>1, <6>2, ZenonT(30)
        <5>3. "write" \in prog[f].ends => prog[f].of = f
          <6>1. Fits(f, prog[f])
            BY <1>3, PipeFacts
          <6> QED BY <1>3, <6>1 DEF Fits
        <5>4. Written(f)
          BY <1>3, <1>5, <5>2, <5>3 DEF Pipe!Have
        <5> QED BY <1>5, <5>1, <5>4 DEF Written
      <4> QED BY <4>1, <4>2
    <3>2. PICK w \in Visitors : Got(prog[v].of, w)
      BY <3>1
    <3>3. Got(prog'[v].of, w)
      BY <1>11, <3>2
    <3> QED BY <1>13, <3>3
  <2> QED BY <2>1, <2>2, <2>3 DEF ReachesAll
<1> QED BY <1>10, <1>12, <1>15, <1>16 DEF PipeInv

\* the writer forks a reader, which has both ends,
LEMMA PipeForked == ASSUME PipeInv, NEW p \in Pipe!Programs, Pipe!Fork(p) PROVE PipeInv'
<1>1. prog[p].at = "run" /\ ~isfifo /\ p \in Pipe!Servers /\ prog[p].k = 1
  BY PipeFacts, PipeCalls DEF Pipe!Fork
<1>2. p = 1 /\ p \notin Visitors /\ prog[p].of = 1 /\ prog[p].ends = Pipe!Ends
  <2>1. Fits(p, prog[p]) /\ prog[p].ends = Pipe!Ends
    BY <1>1, PipeFacts DEF Opened
  <2> QED BY <1>1, <2>1, PipeConstants DEF Fits
<1>3. /\ NameKept /\ Once /\ ReachesAll /\ OneAtATime /\ full \subseteq Pipe!Servers /\ fifo \in Pipe!Servers \cup {0}
      /\ print \in [Visitors -> {"no", "message", "nothing"}] /\ prog \in [Pipe!Programs -> ProgRecords] /\ PipeTypes
      /\ \A q \in Pipe!Programs : Fits(q, prog[q])
  BY DEF PipeInv, PipeTypes
<1>4. \A v \in Visitors : prog[v].at = "new" /\ prog[v].k = 1 /\ print[v] = "no" /\ v \in Pipe!Programs /\ v \notin Pipe!Servers
  <2>1. \A v \in Visitors : prog[v].at = "new" /\ v \in Pipe!Programs /\ v \notin Pipe!Servers
    BY <1>1, <1>2, <1>3, PipeConstants DEF Once
  <2> QED BY <1>3, <2>1 DEF Fits, Once
<1>5. UNCHANGED <<isfifo, fifo, full, print, whole>>
  BY DEF Pipe!Fork
<1> DEFINE r == Pipe!After(p, prog[p])
<1>6. r \in ProgRecords /\ r.at = "run" /\ r.k = 2 /\ r.of = 1 /\ r.ends = Pipe!Ends
  BY <1>1, <1>2, PipeFacts, PipeAfter
<1>7. PICK v \in Visitors :
        prog' = [prog EXCEPT ![p] = r, ![v] = [@ EXCEPT !.at = "run", !.of = prog[p].of, !.ends = prog[p].ends]]
  BY DEF Pipe!Fork
<1> DEFINE c == [prog[v] EXCEPT !.at = "run", !.of = prog[p].of, !.ends = prog[p].ends]
<1>8. c \in ProgRecords /\ c.at = "run" /\ c.k = 1 /\ c.of = 1 /\ c.ends = Pipe!Ends
  <2>1. prog[v] \in ProgRecords /\ prog[v].k = 1
    BY <1>3, <1>4
  <2>2. prog[p].of \in Pipe!Servers /\ prog[p].ends \in SUBSET Pipe!Ends
    BY <1>2, PipeConstants
  <2> QED BY <1>2, <2>1, <2>2 DEF ProgRecords, ProgPlaces
<1>9. prog' = [prog EXCEPT ![p] = r, ![v] = c]
  <2>1. v # p /\ v \in Pipe!Programs
    BY <1>1, <1>4
  <2> HIDE DEF r
  <2> QED BY <1>3, <1>7, <2>1
<1> HIDE DEF r, c
<1>10. /\ prog' \in [Pipe!Programs -> ProgRecords] /\ prog'[p] = r /\ prog'[v] = c /\ v # p
       /\ \A q \in Pipe!Programs \ {p, v} : prog'[q] = prog[q]
  BY <1>3, <1>4, <1>6, <1>8, <1>9, <1>2
<1>11. PipeTypes'
  BY <1>3, <1>5, <1>10 DEF PipeTypes
<1>12. ASSUME NEW q \in Pipe!Programs PROVE Fits(q, prog[q])'
  <2>1. CASE q = p
    <3>1. Opened(p, r) = Pipe!Ends
      BY <1>1, <1>6 DEF Opened
    <3>2. Fits(p, r)
      BY <1>1, <1>2, <1>6, <3>1 DEF Fits
    <3> QED BY <1>5, <1>10, <2>1, <3>2 DEF Fits, Opened
  <2>2. CASE q = v
    <3>1. Opened(v, c) = Pipe!Ends
      BY <1>1, <1>4, <1>8 DEF Opened
    <3>2. Fits(v, c)
      BY <1>1, <1>4, <1>8, <3>1, PipeConstants DEF Fits
    <3> QED BY <1>5, <1>10, <2>2, <3>2 DEF Fits, Opened
  <2>3. CASE q \notin {p, v}
    BY <1>3, <1>5, <1>10, <2>3 DEF Fits, Opened
  <2> QED BY <2>1, <2>2, <2>3
<1>13. \A s \in Pipe!Servers : prog'[s].at = prog[s].at /\ (s # p => prog'[s] = prog[s])
  BY <1>1, <1>4, <1>6, <1>10, PipeConstants
<1>14. OneAtATime'
  BY <1>3, <1>13 DEF OneAtATime
<1>15. NameKept'
  BY <1>1, <1>3, <1>5, <1>6, <1>10, <1>13 DEF NameKept
<1>16. Late'
  <2>1. \A w \in Visitors : prog'[w].at # "waiting"
    BY <1>4, <1>8, <1>10, <1>1
  <2> QED BY <2>1 DEF Late
<1>17. (\A g, w : w \in Visitors => ~Got(g, w)') /\ \A g : Written(g)' <=> g \in full
  <2>1. \A g, w : w \in Visitors => ~Got(g, w)'
    BY <1>4, <1>5 DEF Got
  <2> QED BY <1>5, <2>1 DEF Written
<1>18. Once'
  <2>1. ASSUME NEW g \in Pipe!Servers, g \in full, prog'[g].at \in {"new", "run", "waiting"} PROVE prog'[g].k > 3
    <3>1. prog[g].at \in {"new", "run", "waiting"} /\ Written(g)
      BY <1>13, <2>1 DEF Written
    <3>2. prog[g].k > 3
      BY <1>3, <3>1 DEF Once
    <3>3. g # p
      BY <1>1, <3>2
    <3> QED BY <1>13, <3>2, <3>3
  <2>2. prog'[1].k # 1
    BY <1>2, <1>6, <1>10
  <2>3. \A w \in Visitors : print'[w] = "no"
    BY <1>4, <1>5
  <2> QED BY <1>5, <1>17, <2>1, <2>2, <2>3 DEF Once
<1>19. ReachesAll'
  <2>1. ASSUME NEW g \in Pipe!Servers, prog'[g].at \in {"run", "done"}, prog'[g].k > 3 PROVE Written(g)'
    <3>1. g # p
      BY <1>6, <1>10, <2>1
    <3>2. Written(g)
      BY <1>3, <1>13, <2>1, <3>1 DEF ReachesAll
    <3>3. g \in full
      BY <1>4, <3>2 DEF Written, Got
    <3> QED BY <1>17, <3>3
  <2>2. ASSUME NEW w \in Visitors, Reading(w)' PROVE prog'[prog'[w].of].at = "run" /\ "write" \in prog'[prog'[w].of].ends
    <3>1. w = v
      BY <1>1, <1>4, <1>10, <2>2 DEF Reading
    <3>2. prog'[w].of = p
      BY <1>2, <1>8, <1>10, <3>1
    <3> QED BY <1>6, <1>10, <3>2, PipeConstants
  <2>3. \A w \in Visitors : print'[w] # "nothing"
    BY <1>4, <1>5
  <2> QED BY <2>1, <2>2, <2>3 DEF ReachesAll
<1> QED BY <1>11, <1>12, <1>14, <1>15, <1>16, <1>18, <1>19 DEF PipeInv

\* a process opens the FIFO, with or without the other one waiting for it,
LEMMA PipeMeeting ==
  ASSUME PipeInv, isfifo, fifo \in Pipe!Servers, NEW M \in SUBSET Pipe!Programs,
         UNCHANGED <<isfifo, fifo, full, print, whole>>, prog' \in [Pipe!Programs -> ProgRecords],
         \A q \in M : /\ prog[q].at \in {"run", "waiting"} /\ prog[q].k = (IF q \in Pipe!Servers THEN 2 ELSE 1)
                      /\ q \in Pipe!Servers => q = fifo
                      /\ prog'[q].at = "run" /\ prog'[q].of = fifo
                      /\ prog'[q].k = (IF q \in Pipe!Servers THEN 3 ELSE 2)
                      /\ prog'[q].ends = (IF q \in Pipe!Servers THEN {"write"} ELSE {"read"}),
         \A q \in Pipe!Programs \ M : prog'[q] = prog[q],
         prog'[fifo].at = "run", "write" \in prog'[fifo].ends, prog'[fifo].k > 1,
         \A v \in Visitors : ~(prog'[v].at = "waiting" /\ prog'[v].of = fifo)
  PROVE  PipeInv'
<1>1. /\ NameKept /\ Once /\ ReachesAll /\ OneAtATime /\ Late /\ full \subseteq Pipe!Servers
      /\ print \in [Visitors -> {"no", "message", "nothing"}] /\ prog \in [Pipe!Programs -> ProgRecords] /\ PipeTypes
      /\ \A q \in Pipe!Programs : Fits(q, prog[q])
  BY DEF PipeInv, PipeTypes
<1>2. /\ \A v \in Visitors : v \in Pipe!Programs /\ v \notin Pipe!Servers
      /\ \A s \in Pipe!Servers : s \in Pipe!Programs
  BY PipeConstants
<1>3. PipeTypes'
  BY <1>1 DEF PipeTypes
<1>4. ASSUME NEW q \in Pipe!Programs PROVE Fits(q, prog[q])'
  <2>1. CASE q \in M
    <3>1. Opened(q, prog'[q]) = IF q \in Pipe!Servers THEN {"write"} ELSE {"read"}
      BY <2>1 DEF Opened
    <3>2. Fits(q, prog'[q])
      BY <2>1, <3>1 DEF Fits
    <3> QED BY <3>2 DEF Fits, Opened
  <2>2. CASE q \notin M
    <3>1. prog'[q] = prog[q] /\ Fits(q, prog[q])
      BY <1>1, <2>2
    <3>2. isfifo' = isfifo
      OBVIOUS
    <3>3. Fits(q, prog'[q])
      BY <3>1
    <3> QED BY <3>2, <3>3 DEF Fits, Opened
  <2> QED BY <2>1, <2>2
<1>5. \A s \in Pipe!Servers : \/ prog'[s] = prog[s]
                              \/ s \in M /\ s = fifo /\ prog[s].at \in {"run", "waiting"} /\ prog[s].k = 2 /\ prog'[s].at = "run" /\ prog'[s].k = 3
  BY <1>2
<1>6. OneAtATime'
  BY <1>1, <1>5 DEF OneAtATime
<1>7. NameKept'
  BY <1>1, <1>5 DEF NameKept
<1>8. \A v \in Visitors : \/ prog'[v] = prog[v] /\ v \notin M
                          \/ v \in M /\ prog[v].k = 1 /\ prog'[v].at = "run" /\ prog'[v].k = 2 /\ prog'[v].of = fifo /\ print[v] = "no"
  <2>1. \A v \in Visitors : prog[v].k = 1 => print[v] = "no"
    BY <1>1 DEF Once
  <2> QED BY <1>2, <2>1
<1>9. Late'
  <2> SUFFICES ASSUME NEW v \in Visitors, prog'[v].at = "waiting"
               PROVE  LET s == prog'[prog'[v].of] IN s.at \in {"done", "failed", "killed"} \/ (s.at = "run" /\ s.k \in {2, 5})
    BY DEF Late
  <2>1. prog'[v] = prog[v] /\ prog[v].of # fifo /\ prog[v].of \in Pipe!Servers
    <3>1. prog'[v] = prog[v]
      BY <1>8
    <3>2. Fits(v, prog[v])
      BY <1>1, <1>2
    <3> QED BY <3>1, <3>2 DEF Fits
  <2>2. prog'[prog[v].of] = prog[prog[v].of]
    BY <1>5, <2>1
  <2> QED BY <1>1, <2>1, <2>2 DEF Late
<1>10. \A g, v : v \in Visitors => (Got(g, v)' <=> Got(g, v))
  BY <1>8 DEF Got
<1>11. \A g : Written(g)' <=> Written(g)
  BY <1>10 DEF Written
<1>12. Once'
  <2>1. ASSUME NEW g \in Pipe!Servers, Written(g)', prog'[g].at \in {"new", "run", "waiting"} PROVE prog'[g].k > 3
    <3>1. prog[g].at \in {"new", "run", "waiting"} /\ Written(g)
      BY <1>5, <1>11, <2>1
    <3>2. prog[g].k > 3
      BY <1>1, <3>1 DEF Once
    <3>3. prog'[g] = prog[g]
      BY <1>5, <3>2
    <3> QED BY <3>2, <3>3
  <2>2. \A g \in full', v \in Visitors : ~Got(g, v)'
    BY <1>1, <1>10 DEF Once
  <2>3. ASSUME NEW v \in Visitors, NEW w \in Visitors, Got(prog[v].of, v)', Got(prog[v].of, w)' PROVE v = w
    <3>1. Got(prog'[v].of, v) /\ Got(prog'[v].of, w)
      BY <1>10, <2>3
    <3>2. prog'[v].of = prog[v].of
      BY <1>8, <3>1 DEF Got
    <3> QED BY <1>1, <3>1, <3>2 DEF Once
  <2>4. ASSUME NEW v \in Visitors, prog'[v].k = 1 PROVE print'[v] = "no"
    <3>1. prog[v].k = 1
      BY <1>8, <2>4
    <3> QED BY <1>1, <3>1 DEF Once
  <2> QED BY <2>1, <2>2, <2>3, <2>4 DEF Once
<1>13. ReachesAll'
  <2>1. ASSUME NEW g \in Pipe!Servers, prog'[g].at \in {"run", "done"}, prog'[g].k > 3 PROVE Written(g)'
    <3>1. prog'[g] = prog[g]
      BY <1>5, <2>1
    <3> QED BY <1>1, <1>11, <2>1, <3>1 DEF ReachesAll
  <2>2. ASSUME NEW v \in Visitors, whole', Reading(v)'
        PROVE  Written(prog[v].of)' \/ (prog'[prog'[v].of].at = "run" /\ "write" \in prog'[prog'[v].of].ends)
    <3>1. CASE prog'[v].of = fifo
      BY <3>1
    <3>2. CASE prog'[v].of # fifo
      <4>1. prog'[v] = prog[v] /\ Reading(v)
        <5>1. prog'[v] = prog[v]
          BY <1>8, <3>2
        <5> QED BY <2>2, <5>1 DEF Reading
      <4>2. prog[v].of \in Pipe!Servers
        BY <4>1, ReaderOf
      <4>3. prog'[prog[v].of] = prog[prog[v].of]
        BY <1>5, <3>2, <4>1, <4>2
      <4>4. \A w \in Visitors : whole /\ Reading(w) =>
              Written(prog[w].of) \/ (prog[prog[w].of].at = "run" /\ "write" \in prog[prog[w].of].ends)
        BY <1>1 DEF ReachesAll
      <4>5. Written(prog[v].of) \/ (prog[prog[v].of].at = "run" /\ "write" \in prog[prog[v].of].ends)
        <5>1. whole
          BY <2>2
        <5> QED BY <4>1, <4>4, <5>1, ZenonT(30)
      <4>6. Written(prog[v].of)' <=> Written(prog'[v].of)
        BY <1>11
      <4> QED BY <4>1, <4>3, <4>5, <4>6
    <3> QED BY <3>1, <3>2
  <2>3. ASSUME NEW v \in Visitors, whole', print'[v] = "nothing" PROVE \E w \in Visitors : Got(prog[v].of, w)'
    <3>1. prog'[v] = prog[v] /\ print[v] = "nothing"
      BY <1>8, <2>3
    <3>2. PICK w \in Visitors : Got(prog[v].of, w)
      BY <1>1, <2>3, <3>1 DEF ReachesAll
    <3>3. Got(prog'[v].of, w)
      BY <3>1, <3>2
    <3> QED BY <1>10, <3>3
  <2> QED BY <2>1, <2>2, <2>3 DEF ReachesAll
<1> QED BY <1>3, <1>4, <1>6, <1>7, <1>9, <1>12, <1>13 DEF PipeInv

\* at its own place,
LEMMA Opener ==
  ASSUME PipeInv, NEW p \in Pipe!Programs, NEW call, NEW end, NEW other, Pipe!OpenEnd(p, call, end, other),
         (call = "open_read" /\ end = "read" /\ other = "write") \/ (call = "open_write" /\ end = "write" /\ other = "read")
  PROVE  /\ isfifo /\ prog[p].at = "run" /\ prog[p].ends = {}
         /\ prog[p].k = (IF p \in Pipe!Servers THEN 2 ELSE 1)
         /\ end = (IF p \in Pipe!Servers THEN "write" ELSE "read") /\ other = (IF p \in Pipe!Servers THEN "read" ELSE "write")
         /\ fifo \in Pipe!Servers \cup {0} /\ (p \in Pipe!Servers => fifo = p)
         /\ UNCHANGED <<isfifo, fifo, full, print, whole>> /\ whole \in BOOLEAN
<1>1. /\ isfifo /\ prog[p].at = "run"
      /\ \/ call = "open_read" /\ end = "read" /\ other = "write" /\ p \notin Pipe!Servers /\ prog[p].k = 1
         \/ call = "open_write" /\ end = "write" /\ other = "read" /\ p \in Pipe!Servers /\ prog[p].k = 2
  BY PipeFacts, PipeCalls DEF Pipe!OpenEnd
<1>2. prog[p].ends = {}
  BY <1>1, PipeFacts DEF Opened
<1>3. fifo \in Pipe!Servers \cup {0} /\ whole \in BOOLEAN /\ NameKept
  BY DEF PipeInv, PipeTypes
<1>4. p \in Pipe!Servers => fifo = p
  BY <1>1, <1>3 DEF NameKept
<1>5. UNCHANGED <<isfifo, fifo, full, print, whole>>
  BY DEF Pipe!OpenEnd
<1> QED BY <1>1, <1>2, <1>3, <1>4, <1>5

\* and all of it together;
LEMMA FifoOpened ==
  ASSUME PipeInv, NEW p \in Pipe!Programs, NEW call, NEW end, NEW other, Pipe!OpenEnd(p, call, end, other),
         (call = "open_read" /\ end = "read" /\ other = "write") \/ (call = "open_write" /\ end = "write" /\ other = "read")
  PROVE  PipeInv'
<1> DEFINE server == p \in Pipe!Servers
           ready  == Pipe!Have(other, fifo)
           mine   == [prog[p] EXCEPT !.of = fifo, !.ends = {end}]
           stuck  == [mine EXCEPT !.at = "waiting"]
<1>1. /\ isfifo /\ prog[p].at = "run" /\ prog[p].ends = {}
      /\ prog[p].k = (IF server THEN 2 ELSE 1)
      /\ end = (IF server THEN "write" ELSE "read") /\ other = (IF server THEN "read" ELSE "write")
      /\ fifo \in Pipe!Servers \cup {0} /\ (server => fifo = p)
      /\ UNCHANGED <<isfifo, fifo, full, print, whole>> /\ whole \in BOOLEAN
  BY Opener
<1>2. CASE fifo = 0
  <2>1. Pipe!Leaves(p, "failed")
    BY <1>2 DEF Pipe!OpenEnd
  <2> QED BY <1>1, <2>1, PipeProgLeaves
<1>3. CASE fifo # 0
  <2>1. prog' = [q \in Pipe!Programs |->
                   CASE q = p -> IF ready = {} THEN stuck ELSE Pipe!After(p, mine)
                     [] q \in ready /\ prog[q].at = "waiting" -> Pipe!After(q, prog[q])
                     [] OTHER -> prog[q]]
    BY <1>3 DEF Pipe!OpenEnd
  <2>2. fifo \in Pipe!Servers /\ {end} \in SUBSET Pipe!Ends
    BY <1>1, <1>3, PipeConstants
  <2>3. mine \in ProgRecords /\ mine.at = "run" /\ mine.k = prog[p].k /\ mine.of = fifo /\ mine.ends = {end}
    <3>1. prog[p] \in ProgRecords
      BY PipeFacts
    <3> QED BY <1>1, <2>2, <3>1 DEF ProgRecords
  <2> HIDE DEF mine
  <2>4. stuck \in ProgRecords /\ stuck.at = "waiting" /\ stuck.k = prog[p].k /\ stuck.of = fifo /\ stuck.ends = {end}
    BY <2>3 DEF ProgRecords, ProgPlaces
  <2> HIDE DEF stuck
  <2>5. prog \in [Pipe!Programs -> ProgRecords] /\ NameKept /\ Late /\ isfifo \in BOOLEAN
    BY DEF PipeInv, PipeTypes
  <2>6. CASE ready = {}
    <3>1. prog' = [prog EXCEPT ![p] = stuck]
      <4>1. \A q \in Pipe!Programs : q \in ready => FALSE
        BY <2>6
      <4> HIDE DEF ready
      <4> QED BY <2>1, <2>5, <2>6, <4>1
    <3>2. Fits(p, stuck)
      <4>1. Opened(p, stuck) = {end}
        BY <1>1, <2>4 DEF Opened
      <4> QED BY <1>1, <2>2, <2>4, <4>1 DEF Fits
    <3>3. prog'[p] = stuck /\ \A q \in Pipe!Programs \ {p} : prog'[q] = prog[q]
      BY <2>4, <3>1, OneProgMoves DEF PipeInv
    <3>4. NameKept'
      BY <1>1, <2>2, <2>4, <2>5, <3>3, PipeConstants DEF NameKept
    <3>5. ~server => prog[fifo].at \in {"done", "failed", "killed"} \/ (prog[fifo].at = "run" /\ prog[fifo].k \in {2, 5})
      <4> SUFFICES ASSUME ~server PROVE prog[fifo].at \in {"done", "failed", "killed"} \/ (prog[fifo].at = "run" /\ prog[fifo].k \in {2, 5})
        OBVIOUS
      <4>1. fifo \in Pipe!Programs /\ Fits(fifo, prog[fifo]) /\ prog[fifo].ends = Opened(fifo, prog[fifo])
            /\ prog[fifo].at \in ProgPlaces /\ prog[fifo].k \in 1 .. 5
        BY <2>2, PipeFacts, PipeConstants
      <4>2. prog[fifo].at # "new" /\ (prog[fifo].at = "run" => prog[fifo].k > 1)
        BY <1>3, <2>5 DEF NameKept
      <4>3. "write" \notin prog[fifo].ends
        <5>1. "write" \in prog[fifo].ends => prog[fifo].of = fifo
          BY <2>2, <4>1 DEF Fits
        <5> QED BY <1>1, <2>6, <4>1, <5>1 DEF Pipe!Have
      <4>4. ~(prog[fifo].at = "waiting" \/ (prog[fifo].at = "run" /\ prog[fifo].k \in {3, 4}))
        BY <1>1, <2>2, <4>1, <4>3 DEF Opened
      <4> QED BY <4>1, <4>2, <4>4 DEF ProgPlaces
    <3>6. server => \A v \in Visitors : ~(prog[v].at = "waiting" /\ prog[v].of = p)
      BY <1>1, <2>6, NoReader
    <3>7. p \in Visitors => ~server
      BY PipeFacts
    <3>8. /\ stuck.at # "new" /\ stuck.at \notin {"run", "done"} /\ stuck.k >= prog[p].k /\ prog[p].at \in {"new", "run", "waiting"}
          /\ prog[p].at # "new" /\ "write" \notin prog[p].ends /\ prog'[p].at # "run" /\ (p \in Visitors => isfifo /\ prog[p].k = 1)
      BY <1>1, <2>4, <3>3, <3>7, PipeFacts
    <3>9. p \in Visitors => prog[stuck.of].at \in {"done", "failed", "killed"} \/ (prog[stuck.of].at = "run" /\ prog[stuck.of].k \in {2, 5})
      BY <2>4, <3>5, <3>7
    <3> HIDE DEF ready
    <3> QED BY <1>1, <2>4, <3>1, <3>2, <3>4, <3>6, <3>8, <3>9, QuietStep
  <2>7. CASE ready # {}
    <3> DEFINE M == {p} \cup {q \in ready : prog[q].at = "waiting"}
    <3>1. \A q \in ready : /\ q \in Pipe!Programs /\ prog[q].of = fifo /\ other \in prog[q].ends /\ Fits(q, prog[q])
                           /\ prog[q] \in ProgRecords /\ prog[q].ends = Opened(q, prog[q]) /\ q # p
      BY <1>1, PipeFacts DEF Pipe!Have
    <3>2. \A q \in ready : (q \in Pipe!Servers <=> ~server) /\ (q \in Pipe!Servers => q = fifo)
      <4> SUFFICES ASSUME NEW q \in ready PROVE (q \in Pipe!Servers <=> ~server) /\ (q \in Pipe!Servers => q = fifo)
        OBVIOUS
      <4>1. other \in Opened(q, prog[q]) /\ Fits(q, prog[q]) /\ prog[q].ends # {} /\ prog[q].of = fifo
        BY <3>1
      <4>2. other = IF q \in Pipe!Servers THEN "write" ELSE "read"
        BY <1>1, <4>1 DEF Opened
      <4> QED BY <1>1, <4>1, <4>2 DEF Fits
    <3> HIDE DEF ready
    <3>3. \A q \in Pipe!Programs : prog'[q] = IF q = p THEN Pipe!After(p, mine)
                                              ELSE IF q \in M THEN Pipe!After(q, prog[q]) ELSE prog[q]
      <4>1. \A q : q \in M <=> q = p \/ (q \in ready /\ prog[q].at = "waiting")
        OBVIOUS
      <4> HIDE DEF M
      <4> SUFFICES ASSUME NEW q \in Pipe!Programs
                   PROVE  prog'[q] = IF q = p THEN Pipe!After(p, mine) ELSE IF q \in M THEN Pipe!After(q, prog[q]) ELSE prog[q]
        OBVIOUS
      <4> DEFINE a == Pipe!After(p, mine)
      <4> HIDE DEF a
      <4>5. prog'[q] = CASE q = p -> IF ready = {} THEN stuck ELSE a
                         [] q \in ready /\ prog[q].at = "waiting" -> Pipe!After(q, prog[q])
                         [] OTHER -> prog[q]
        BY <2>1 DEF a
      <4>2. CASE q = p
        <5>1. prog'[p] = CASE p = p -> IF ready = {} THEN stuck ELSE a
                           [] p \in ready /\ prog[p].at = "waiting" -> Pipe!After(p, prog[p])
                           [] OTHER -> prog[p]
          BY <4>2, <4>5
        <5>2. p \notin ready
          BY <3>1
        <5> QED BY <2>7, <4>2, <5>1, <5>2 DEF a
      <4>3. CASE q # p /\ q \in M
        BY <2>1, <4>1, <4>3
      <4>4. CASE q # p /\ q \notin M
        BY <2>1, <4>1, <4>4
      <4> QED BY <4>2, <4>3, <4>4
    <3>4. ASSUME NEW q \in M
          PROVE  /\ q \in Pipe!Programs
                 /\ prog[q].at \in {"run", "waiting"} /\ prog[q].k = (IF q \in Pipe!Servers THEN 2 ELSE 1)
                 /\ q \in Pipe!Servers => q = fifo
                 /\ prog'[q] \in ProgRecords /\ prog'[q].at = "run" /\ prog'[q].of = fifo
                 /\ prog'[q].k = (IF q \in Pipe!Servers THEN 3 ELSE 2)
                 /\ prog'[q].ends = (IF q \in Pipe!Servers THEN {"write"} ELSE {"read"})
      <4>1. CASE q = p
        <5>1. prog'[q] = Pipe!After(p, mine)
          BY <3>3, <4>1
        <5>2. mine.k <= (IF server THEN 5 ELSE 3) /\ mine.k # (IF server THEN 5 ELSE 3)
          BY <1>1, <2>3
        <5>3. /\ prog'[q] \in ProgRecords /\ prog'[q].of = mine.of /\ prog'[q].at = "run" /\ prog'[q].k = mine.k + 1 /\ prog'[q].ends = mine.ends
          BY <2>3, <2>5, <5>1, <5>2, PipeAfter
        <5> QED BY <1>1, <2>3, <4>1, <5>3
      <4>2. CASE q # p
        <5>1. q \in ready /\ prog[q].at = "waiting" /\ prog'[q] = Pipe!After(q, prog[q]) /\ q \in Pipe!Programs
          BY <3>1, <3>3, <4>2
        <5>2. prog[q].k = (IF q \in Pipe!Servers THEN 2 ELSE 1) /\ prog[q].ends = (IF q \in Pipe!Servers THEN {"write"} ELSE {"read"})
          BY <1>1, <3>1, <5>1 DEF Fits, Opened
        <5>3. prog[q].k <= (IF q \in Pipe!Servers THEN 5 ELSE 3) /\ prog[q].k # (IF q \in Pipe!Servers THEN 5 ELSE 3)
          BY <5>2
        <5>4. /\ prog'[q] \in ProgRecords /\ prog'[q].of = prog[q].of /\ prog'[q].at = "run" /\ prog'[q].k = prog[q].k + 1 /\ prog'[q].ends = prog[q].ends
          BY <2>5, <3>1, <5>1, <5>3, PipeAfter
        <5> QED BY <3>1, <3>2, <5>1, <5>2, <5>4
      <4> QED BY <4>1, <4>2
    <3>5. \A q \in Pipe!Programs \ M : prog'[q] = prog[q]
      BY <3>3
    <3>6. prog' \in [Pipe!Programs -> ProgRecords]
      <4>1. \A q \in Pipe!Programs : prog'[q] \in ProgRecords
        BY <2>5, <3>4, <3>5
      <4>2. prog' = [q \in Pipe!Programs |-> prog'[q]]
        BY <2>1
      <4> HIDE DEF M
      <4> QED BY <4>1, <4>2
    <3>7. ~server => fifo \in ready /\ (prog[fifo].at = "waiting" \/ (prog[fifo].at = "run" /\ prog[fifo].k \in {3, 4}))
      <4> SUFFICES ASSUME ~server PROVE fifo \in ready /\ (prog[fifo].at = "waiting" \/ (prog[fifo].at = "run" /\ prog[fifo].k \in {3, 4}))
        OBVIOUS
      <4>1. fifo \in ready
        BY <2>7, <3>2
      <4>2. "write" \in Opened(fifo, prog[fifo])
        BY <1>1, <3>1, <4>1
      <4> QED BY <1>1, <2>2, <4>1, <4>2 DEF Opened
    <3>8. prog'[fifo].at = "run" /\ "write" \in prog'[fifo].ends /\ prog'[fifo].k > 1
      <4>1. CASE fifo \in M
        BY <2>2, <3>4, <4>1
      <4>2. CASE fifo \notin M
        <5>1. ~server
          BY <1>1, <4>2
        <5>2. prog'[fifo] = prog[fifo] /\ prog[fifo].at = "run" /\ prog[fifo].k \in {3, 4} /\ "write" \in prog[fifo].ends
          BY <1>1, <3>1, <3>5, <3>7, <4>2, <5>1
        <5> QED BY <5>2
      <4> QED BY <4>1, <4>2
    <3>9. \A v \in Visitors : ~(prog'[v].at = "waiting" /\ prog'[v].of = fifo)
      <4> SUFFICES ASSUME NEW v \in Visitors, prog'[v].at = "waiting", prog'[v].of = fifo PROVE FALSE
        OBVIOUS
      <4>1. v \notin M /\ v \in Pipe!Programs
        BY <3>4, PipeConstants
      <4>2. prog[v].at = "waiting" /\ prog[v].of = fifo
        BY <3>5, <4>1
      <4>3. CASE server
        BY <1>1, <4>1, <4>2, <4>3, NoReader DEF ready
      <4>4. CASE ~server
        BY <2>5, <3>7, <4>2, <4>4 DEF Late
      <4> QED BY <4>3, <4>4
    <3>10. M \in SUBSET Pipe!Programs
      BY <3>4
    <3> HIDE DEF M
    <3> QED BY <1>1, <2>2, <3>4, <3>5, <3>6, <3>8, <3>9, <3>10, PipeMeeting
  <2> QED BY <2>6, <2>7
<1> QED BY <1>2, <1>3

\* close and
LEMMA PipeEndShut == ASSUME PipeInv, NEW p \in Pipe!Programs, Pipe!Close(p) PROVE PipeInv'
BY EndClosed DEF Pipe!Close

\* open, by their ends.
LEMMA PipeEndOpened == ASSUME PipeInv, NEW p \in Pipe!Programs, Pipe!Open(p) PROVE PipeInv'
BY FifoOpened DEF Pipe!Open

\* Every step of the pipes keeps the invariant.
LEMMA PipesKept == PipeInv /\ [Pipe!Next]_(Pipe!pipeVars) => PipeInv'
<1> SUFFICES ASSUME PipeInv, [Pipe!Next]_(Pipe!pipeVars) PROVE PipeInv'
  OBVIOUS
<1>1. CASE UNCHANGED Pipe!pipeVars
  <2>1. UNCHANGED <<isfifo, prog, fifo, full, print, whole>>
    BY <1>1 DEF Pipe!pipeVars
  <2>2. PipeTypes' /\ OneAtATime' /\ Late'
    BY <2>1 DEF PipeInv, PipeTypes, OneAtATime, Late
  <2>3. NameKept'
    BY <2>1 DEF PipeInv, NameKept
  <2>4. Once'
    BY <2>1 DEF PipeInv, Once, Got, Written
  <2>5. ReachesAll'
    BY <2>1 DEF PipeInv, ReachesAll, Got, Written, Reading
  <2>6. \A p \in Pipe!Programs : Fits(p, prog[p])'
    BY <2>1 DEF PipeInv, Fits, Opened
  <2> QED BY <2>2, <2>3, <2>4, <2>5, <2>6 DEF PipeInv
<1>2. CASE Pipe!Next
  <2>1. PICK p \in Pipe!Programs : Pipe!Start(p) \/ Pipe!CallStep(p) \/ Pipe!ForkFails(p) \/ Pipe!Kill(p)
    BY <1>2 DEF Pipe!Next
  <2>2. CASE Pipe!Start(p)
    BY <2>2, PipeProgStarts
  <2>3. CASE Pipe!ForkFails(p)
    BY <2>3, PipeForkFailed
  <2>4. CASE Pipe!Kill(p)
    BY <2>4, PipeProgKilled
  <2>5. CASE Pipe!CallStep(p)
    BY <2>5, PipeForked, FifoMade, PipeEndOpened, PipeWritten, PipeReads, PipeEndRead, PipeEndShut, FifoUnlinked DEF Pipe!CallStep
  <2> QED BY <2>1, <2>2, <2>3, <2>4, <2>5
<1> QED BY <1>1, <1>2

\* What the runs check of the pipes follows from it.
LEMMA PipesSafe == PipeInv => Pipe!TypeOK /\ Pipe!PassedOn
<1> SUFFICES ASSUME PipeInv PROVE Pipe!TypeOK /\ Pipe!PassedOn
  OBVIOUS
<1>1. /\ Once /\ ReachesAll /\ Late /\ PipeTypes /\ isfifo \in BOOLEAN
      /\ \A q \in Pipe!Programs : Fits(q, prog[q])
  BY DEF PipeInv, PipeTypes
<1>2. Pipe!TypeOK
  <2>1. ASSUME NEW p \in Pipe!Programs
        PROVE  /\ prog[p].at \in {"new", "run", "waiting", "done", "failed", "killed"}
               /\ prog[p].k \in DOMAIN Pipe!Script(p) /\ prog[p].ends \subseteq Pipe!Ends
               /\ prog[p].ends # {} => prog[p].of \in Pipe!Servers
    <3>1. Len(Pipe!Script(p)) = (IF p \in Pipe!Servers THEN 5 ELSE 3) /\ DOMAIN Pipe!Script(p) = 1 .. Len(Pipe!Script(p))
      <4>1. DOMAIN Pipe!Script(p) = 1 .. Len(Pipe!Script(p))
        <5>1. DOMAIN Pipe!FifoServer = 1 .. Len(Pipe!FifoServer)
          BY DEF Pipe!FifoServer
        <5>2. DOMAIN Pipe!FifoClient = 1 .. Len(Pipe!FifoClient)
          BY DEF Pipe!FifoClient
        <5>3. DOMAIN Pipe!PipeParent = 1 .. Len(Pipe!PipeParent)
          BY DEF Pipe!PipeParent
        <5>4. DOMAIN Pipe!PipeChild = 1 .. Len(Pipe!PipeChild)
          BY DEF Pipe!PipeChild
        <5>5. Pipe!Script(p) \in {Pipe!FifoServer, Pipe!FifoClient, Pipe!PipeParent, Pipe!PipeChild}
          BY DEF Pipe!Script
        <5> QED BY <5>1, <5>2, <5>3, <5>4, <5>5
      <4> QED BY <4>1, PipeFacts, PipeCalls
    <3>2. prog[p].k \in 1 .. 5 /\ prog[p].k <= (IF p \in Pipe!Servers THEN 5 ELSE 3)
      BY PipeFacts DEF Fits
    <3>3. prog[p].at \in ProgPlaces /\ prog[p].ends \subseteq Pipe!Ends
      BY PipeFacts, PipeConstants
    <3>4. prog[p].ends # {} => prog[p].of \in Pipe!Servers
      BY <1>1 DEF Fits
    <3> QED BY <3>1, <3>2, <3>3, <3>4 DEF ProgPlaces
  <2> QED BY <1>1, <2>1 DEF Pipe!TypeOK, PipeTypes
<1>3. ASSUME NEW v \in Visitors
      PROVE  LET Others == {w \in Visitors \ {v} : prog[w].of = prog[v].of /\ print[w] = "message"}
             IN  /\ print[v] = "message" => Others = {}
                 /\ print[v] = "nothing" /\ whole => Others # {}
  <2>1. \A w \in Visitors : Got(prog[v].of, v) /\ Got(prog[v].of, w) => v = w
    BY <1>1 DEF Once
  <2>2. print[v] = "nothing" /\ whole => \E w \in Visitors : Got(prog[v].of, w)
    BY <1>1 DEF ReachesAll
  <2> QED BY <2>1, <2>2 DEF Got
<1>4. ASSUME NEW v \in Visitors, prog[v].at = "waiting"
      PROVE  \/ prog[prog[v].of].at \in {"failed", "killed", "done"}
             \/ Pipe!Doing(prog[v].of, "open_write") \/ Pipe!Doing(prog[v].of, "unlink")
  <2>1. Fits(v, prog[v])
    BY <1>1, PipeConstants
  <2>2. prog[v].of \in Pipe!Servers /\ isfifo /\ prog[v].of \in Pipe!Programs
    BY <1>4, <2>1, PipeConstants DEF Fits
  <2>3. prog[prog[v].of].at \in {"done", "failed", "killed"} \/ (prog[prog[v].of].at = "run" /\ prog[prog[v].of].k \in {2, 5})
    BY <1>1, <1>4 DEF Late
  <2>4. prog[prog[v].of] \in ProgRecords /\ Fits(prog[v].of, prog[prog[v].of])
    BY <2>2, PipeFacts
  <2>5. prog[prog[v].of].at = "run" /\ prog[prog[v].of].k = 2 => Pipe!Doing(prog[v].of, "open_write")
    BY <2>2, <2>4, PipeCalls
  <2>6. prog[prog[v].of].at = "run" /\ prog[prog[v].of].k = 5 => Pipe!Doing(prog[v].of, "unlink")
    BY <2>2, <2>4, PipeCalls
  <2> QED BY <2>3, <2>5, <2>6
<1>5. Pipe!PassedOn
  BY <1>3, <1>4 DEF Pipe!PassedOn
<1> QED BY <1>2, <1>5

(***************************************************************************)
(* The pairs in one run.                                                   *)
(***************************************************************************)
\* A behaviour takes the steps of the program it has chosen.
LEMMA StepOfExchange == ASSUME [Next]_vars
  PROVE /\ program' = program
        /\ program = "exchange" => [Talk!Next]_(Talk!talkVars)
        /\ program = "datagrams" => [Gram!Next]_(Gram!gramVars)
        /\ program = "tcp" => [Tcp!Next]_tcpVars
        /\ program = "pipes" => [Pipe!Next]_(Pipe!pipeVars)
<1>1. talkVars = Talk!talkVars /\ gramVars = Gram!gramVars /\ pipeVars = Pipe!pipeVars
  BY DEF talkVars, Talk!talkVars, gramVars, Gram!gramVars, pipeVars, Pipe!pipeVars
<1>2. /\ program' = program
      /\ program = "exchange" => [Talk!Next]_talkVars
      /\ program = "datagrams" => [Gram!Next]_gramVars
      /\ program = "tcp" => [Tcp!Next]_tcpVars
      /\ program = "pipes" => [Pipe!Next]_pipeVars
  <2>1. CASE UNCHANGED vars
    BY <2>1 DEF vars
  <2>2. CASE Next
    BY <2>2 DEF Next
  <2> QED BY <2>1, <2>2
<1>3. talkVars' = (Talk!talkVars)' /\ gramVars' = (Gram!gramVars)' /\ pipeVars' = (Pipe!pipeVars)'
  BY DEF talkVars, Talk!talkVars, gramVars, Gram!gramVars, pipeVars, Pipe!pipeVars
<1> QED BY <1>1, <1>2, <1>3

\* The invariants of the pairs, and that every step keeps them.
ExchangeInv ==
  /\ program = "exchange" => TalkInv
  /\ program = "datagrams" => GramInv
  /\ program = "tcp" => TcpInv
  /\ program = "pipes" => PipeInv

LEMMA ExchangeStarts == Init => ExchangeInv
BY TalkOpen, GramOpen, TcpStarts, PipesOpen DEF Init, ExchangeInv

LEMMA ExchangeKept == ExchangeInv /\ [Next]_vars => ExchangeInv'
<1> SUFFICES ASSUME ExchangeInv, [Next]_vars PROVE ExchangeInv'
  OBVIOUS
<1>1. /\ program' = program
      /\ program = "exchange" => [Talk!Next]_(Talk!talkVars)
      /\ program = "datagrams" => [Gram!Next]_(Gram!gramVars)
      /\ program = "tcp" => [Tcp!Next]_tcpVars
      /\ program = "pipes" => [Pipe!Next]_(Pipe!pipeVars)
  BY StepOfExchange
<1>2. program = "exchange" => TalkInv'
  BY <1>1, TalkKept DEF ExchangeInv
<1>3. program = "datagrams" => GramInv'
  BY <1>1, GramKept DEF ExchangeInv
<1>4. program = "tcp" => TcpInv'
  BY <1>1, TcpKept DEF ExchangeInv
<1>5. program = "pipes" => PipeInv'
  BY <1>1, PipesKept DEF ExchangeInv
<1> QED BY <1>1, <1>2, <1>3, <1>4, <1>5 DEF ExchangeInv

\* The type invariants of the four modules: what a process has open was made, a port is
\* held by its owner, the backlog is that of the run that listens.
THEOREM TypeCorrect == Spec => []TypeOK
<1>1. ExchangeInv => TypeOK
  BY TalkSafe, GramSafe, TcpSafe, PipesSafe DEF ExchangeInv, TypeOK
<1> QED BY <1>1, ExchangeStarts, ExchangeKept, PTL DEF Spec

\* Each side of an exchange hears what the other meant for it, and who hears nothing
\* knows that nothing is to come (13-message queues/1, 14-shared memory/1, 16-sockets/1,
\* 2/multi_protocol and 4); the message of a pipe or a FIFO is printed once, who prints
\* nothing came second (as long as no program is killed), and nobody waits in open for a
\* partner that is there (12-channels/1.c, 2): for every number of runs of the server and
\* every finite set of clients.
THEOREM HeardRightHolds == Spec => []HeardRight
<1>1. ExchangeInv => HeardRight
  BY TalkSafe, GramSafe, TcpSafe, PipesSafe DEF ExchangeInv, HeardRight
<1> QED BY <1>1, ExchangeStarts, ExchangeKept, PTL DEF Spec
==================================================================================
