------------------------------- MODULE MCExchanges -------------------------------
(***************************************************************************)
(* The programs that come in pairs in one run: a server, its clients and   *)
(* the one message, or two, that pass between them.  A behaviour chooses   *)
(* a pair at its start and takes the steps of that pair only.  They share  *)
(* nothing, so the states of the run are those of the pairs one after the  *)
(* other.                                                                  *)
(***************************************************************************)
EXTENDS Integers, Sequences

CONSTANTS Runs, Visitors,     \* of all pairs: runs of the server, and the clients
          BACKLOG,            \* of TcpExchange
          InThisRun           \* bound: the programs of the run

VARIABLES
  program,                                                           \* never changes
  kind, party, handle, named, box, removed, heard, calm,             \* Exchange
  isfifo, prog, fifo, full, print, whole,                            \* Pipes
  pair, agent, socks, bound, inbox, got, robbed,                     \* Datagrams
  local, run, active, waiting, caller, up, down, shown, linger       \* TcpExchange

Talk == INSTANCE Exchange
Pipe == INSTANCE Pipes
Gram == INSTANCE Datagrams
Tcp  == INSTANCE TcpExchange

ASSUME ExchangesAssumption ==
  Talk!ConstantsOK /\ Pipe!ConstantsOK /\ Gram!ConstantsOK /\ Tcp!ConstantsOK

talkVars == <<kind, party, handle, named, box, removed, heard, calm>>
pipeVars == <<isfifo, prog, fifo, full, print, whole>>
gramVars == <<pair, agent, socks, bound, inbox, got, robbed>>
tcpVars  == <<local, run, active, waiting, caller, up, down, shown, linger>>
vars     == <<program, talkVars, pipeVars, gramVars, tcpVars>>

\* The variables of the programs that are not chosen have one value each.
Init ==
  /\ program \in InThisRun
  /\ Talk!Init /\ (program = "exchange" \/ kind = "mq")
  /\ Pipe!Init /\ (program = "pipes" \/ isfifo)
  /\ Gram!Init /\ (program = "datagrams" \/ pair = "inet")
  /\ Tcp!Init /\ (program = "tcp" \/ local)

Next ==
  \/ program = "exchange" /\ Talk!Next /\ UNCHANGED <<program, pipeVars, gramVars, tcpVars>>
  \/ program = "pipes" /\ Pipe!Next /\ UNCHANGED <<program, talkVars, gramVars, tcpVars>>
  \/ program = "datagrams" /\ Gram!Next /\ UNCHANGED <<program, talkVars, pipeVars, tcpVars>>
  \/ program = "tcp" /\ Tcp!Next /\ UNCHANGED <<program, talkVars, pipeVars, gramVars>>

Spec == Init /\ [][Next]_vars

\* The fairness of each module, of the program that was chosen.
Fairness ==
  /\ WF_talkVars(program = "exchange" /\ \E p \in Talk!Programs : Talk!CallStep(p))
  /\ WF_pipeVars(program = "pipes" /\ \E p \in Pipe!Programs : Pipe!CallStep(p))
  /\ WF_gramVars(program = "datagrams" /\ \E p \in Gram!Programs : Gram!CallStep(p))
  /\ WF_tcpVars(program = "tcp" /\ ((\E s \in Tcp!Servers : Tcp!ServerStep(s)) \/ (\E v \in Visitors : Tcp!ClientStep(v))))

FairSpec == Spec /\ Fairness
-------------------------------------------------------------------------------
\* The type invariants of the modules.
TypeOK ==
  /\ program = "exchange" => Talk!TypeOK
  /\ program = "pipes" => Pipe!TypeOK
  /\ program = "datagrams" => Gram!TypeOK
  /\ program = "tcp" => Tcp!TypeOK

\* Each side of an exchange prints what the other meant for it, and who prints
\* nothing knows that nothing is to come (13-message queues/1, 14-shared memory/1,
\* 16-sockets/1, the UDP side of 16-sockets/2/multi_protocol, 16-sockets/4).  A
\* message written into a pipe or a FIFO is printed once, who prints nothing came
\* second, and nobody waits in open for a partner that is there (12-channels/1.c, 2).
HeardRight ==
  /\ program = "exchange" => Talk!HeardRight
  /\ program = "datagrams" => Gram!AnsweredByName
  /\ program = "tcp" => Tcp!HelloForHi
  /\ program = "pipes" => Pipe!PassedOn

\* A server that was answered ends, and so do the client that was answered and the
\* one that never will be.
AllAnswered ==
  []<>(/\ program = "exchange" => Talk!Answered
       /\ program = "pipes" => Pipe!AllThrough
       /\ program = "datagrams" => Gram!AllHeard
       /\ program = "tcp" => Tcp!AllBack)
===============================================================================
