--------------------------------- MODULE Pipes ---------------------------------
(***************************************************************************)
(* "12-channels/1.c", a parent that writes to its child through a pipe,    *)
(* and "12-channels/2", a server that writes to a client through a named   *)
(* FIFO.  Each program is a script of system calls.  A server makes a FIFO *)
(* of its own; who has opened a FIFO keeps it when its name is taken away. *)
(***************************************************************************)
EXTENDS Integers, FiniteSets, Sequences

CONSTANTS Runs,        \* bound: runs of the server, one after the other
          Visitors     \* the clients, or the child; each runs once

ConstantsOK == Runs \in Nat \ {0} /\ IsFiniteSet(Visitors) /\ Visitors \cap (0 .. Runs) = {}

Servers  == 1 .. Runs          \* also the FIFO each of them makes
Programs == Servers \cup Visitors
Ends     == {"read", "write"}

WriterChild == <<"read", "close_read">>    \* mutant: the child keeps its copy of the write end

PipeParent == <<"fork", "close_read", "write", "close_write", "wait">>
PipeChild  == <<"close_write", "read", "close_read">>
FifoServer == <<"mkfifo", "open_write", "write", "close_write", "unlink">>
FifoClient == <<"open_read", "read", "close_read">>

VARIABLES
  isfifo,   \* the program is that of 12-channels/2; never changes
  prog,    \* where each program is in its script, its FIFO or pipe, and its ends
  fifo,    \* the FIFO with the name, or 0
  full,    \* the FIFOs, or pipes, with a message in them
  print,   \* what each client printed: its message, or nothing at the end of the pipe
  whole    \* history: no program was killed
pipeVars == <<isfifo, prog, fifo, full, print, whole>>

Script(p) == IF isfifo THEN IF p \in Servers THEN FifoServer ELSE FifoClient
                      ELSE IF p \in Servers THEN PipeParent ELSE PipeChild

Init ==
  /\ isfifo \in BOOLEAN
  /\ prog = [p \in Programs |->
               IF p = 1 /\ ~isfifo THEN [at |-> "run", k |-> 1, of |-> 1, ends |-> Ends]
                                  ELSE [at |-> "new", k |-> 1, of |-> 0, ends |-> {}]]
  /\ fifo = 0 /\ full = {}
  /\ print = [v \in Visitors |-> "no"]
  /\ whole = TRUE

Doing(p, call) == prog[p].at = "run" /\ Script(p)[prog[p].k] = call
Have(end, f)   == {p \in Programs : prog[p].of = f /\ end \in prog[p].ends}

After(p, r)   == IF r.k = Len(Script(p)) THEN [r EXCEPT !.at = "done", !.ends = {}]
                                         ELSE [r EXCEPT !.at = "run", !.k = @ + 1]
GoesOn(p)     == prog' = [prog EXCEPT ![p] = After(p, @)]
Leaves(p, how) == prog' = [prog EXCEPT ![p] = [@ EXCEPT !.at = how, !.ends = {}]]
-------------------------------------------------------------------------------
\* A server of 12-channels/2 starts when the one before it has ended, a client at
\* any time.
Start(p) ==
  /\ isfifo /\ prog[p].at = "new"
  /\ \A s \in Servers : p \in Servers /\ s < p => prog[s].at \notin {"new", "run", "waiting"}
  /\ prog' = [prog EXCEPT ![p].at = "run"]
  /\ UNCHANGED <<isfifo, fifo, full, print, whole>>

\* The child has the ends of the pipe its parent has.
Fork(p) ==
  /\ Doing(p, "fork")
  /\ \E v \in Visitors :
       prog' = [prog EXCEPT ![p] = After(p, @), ![v] = [@ EXCEPT !.at = "run", !.of = prog[p].of, !.ends = prog[p].ends]]
  /\ UNCHANGED <<isfifo, fifo, full, print, whole>>

ForkFails(p) == Doing(p, "fork") /\ Leaves(p, "failed") /\ UNCHANGED <<isfifo, fifo, full, print, whole>>

\* mkfifo fails if the name is there: a server that was killed left it.
Mkfifo(p) ==
  /\ Doing(p, "mkfifo")
  /\ IF fifo = 0 THEN GoesOn(p) /\ fifo' = p ELSE Leaves(p, "failed") /\ UNCHANGED fifo
  /\ UNCHANGED <<isfifo, full, print, whole>>

OpenAtOnce(p, call, end, other) ==    \* mutant: O_NONBLOCK, nobody waits for the other side
  LET mine == [prog[p] EXCEPT !.of = fifo, !.ends = {end}]
  IN  /\ Doing(p, call)
      /\ IF fifo = 0 THEN Leaves(p, "failed") ELSE prog' = [prog EXCEPT ![p] = After(p, mine)]
      /\ UNCHANGED <<isfifo, fifo, full, print, whole>>

\* open of one end waits until somebody opens the other, and ends all such waits.
OpenEnd(p, call, end, other) ==
  LET ready == Have(other, fifo)
      mine  == [prog[p] EXCEPT !.of = fifo, !.ends = {end}]
  IN  /\ Doing(p, call)
      /\ IF fifo = 0 THEN Leaves(p, "failed")
         ELSE prog' = [q \in Programs |->
                         CASE q = p -> IF ready = {} THEN [mine EXCEPT !.at = "waiting"] ELSE After(p, mine)
                           [] q \in ready /\ prog[q].at = "waiting" -> After(q, prog[q])
                           [] OTHER -> prog[q]]
      /\ UNCHANGED <<isfifo, fifo, full, print, whole>>
Open(p) == OpenEnd(p, "open_read", "read", "write") \/ OpenEnd(p, "open_write", "write", "read")

\* write: without a reader SIGPIPE ends the program.
Write(p) ==
  /\ Doing(p, "write")
  /\ IF Have("read", prog[p].of) = {}
     THEN Leaves(p, "failed") /\ UNCHANGED full
     ELSE GoesOn(p) /\ full' = full \cup {prog[p].of}
  /\ UNCHANGED <<isfifo, fifo, print, whole>>

\* read: the client of the FIFO reads once, the child of 1.c until the end.
Read(p) ==
  /\ Doing(p, "read") /\ prog[p].of \in full
  /\ full' = full \ {prog[p].of}
  /\ print' = [print EXCEPT ![p] = "message"]
  /\ IF isfifo THEN GoesOn(p) ELSE UNCHANGED prog
  /\ UNCHANGED <<isfifo, fifo, whole>>

ReadEnd(p) ==
  /\ Doing(p, "read") /\ prog[p].of \notin full /\ Have("write", prog[p].of) = {}
  /\ print' = [print EXCEPT ![p] = IF @ = "no" THEN "nothing" ELSE @]
  /\ GoesOn(p)
  /\ UNCHANGED <<isfifo, fifo, full, whole>>

CloseEnd(p, call, end) ==
  LET left == [prog[p] EXCEPT !.ends = @ \ {end}]
  IN  /\ Doing(p, call)
      /\ prog' = [prog EXCEPT ![p] = After(p, left)]
      /\ UNCHANGED <<isfifo, fifo, full, print, whole>>
Close(p) == CloseEnd(p, "close_read", "read") \/ CloseEnd(p, "close_write", "write")

Unlink(p) == Doing(p, "unlink") /\ GoesOn(p) /\ fifo' = 0 /\ UNCHANGED <<isfifo, full, print, whole>>

Wait(p) ==
  /\ Doing(p, "wait") /\ \A v \in Visitors : prog[v].at # "run"
  /\ GoesOn(p)
  /\ UNCHANGED <<isfifo, fifo, full, print, whole>>

\* A signal (bound: one program is killed); the name stays.
Kill(p) ==
  /\ prog[p].at \in {"run", "waiting"} /\ whole /\ whole' = FALSE
  /\ Leaves(p, "killed")
  /\ UNCHANGED <<isfifo, fifo, full, print>>

CallStep(p) == Fork(p) \/ Mkfifo(p) \/ Open(p) \/ Write(p) \/ Read(p) \/ ReadEnd(p) \/ Close(p) \/ Unlink(p) \/ Wait(p)

Next == \E p \in Programs : Start(p) \/ CallStep(p) \/ ForkFails(p) \/ Kill(p)

\* Some program that does not wait goes on; as none runs for ever, all do.
Fairness == WF_pipeVars(\E p \in Programs : CallStep(p))
FairSpec == Init /\ [][Next]_pipeVars /\ Fairness
-------------------------------------------------------------------------------
\* The type invariant; a program that has an end open has done so of a FIFO that
\* was made.
TypeOK ==
  /\ isfifo \in BOOLEAN /\ whole \in BOOLEAN /\ fifo \in Servers \cup {0} /\ full \subseteq Servers
  /\ \A p \in Programs :
       /\ prog[p].at \in {"new", "run", "waiting", "done", "failed", "killed"}
       /\ prog[p].k \in DOMAIN Script(p) /\ prog[p].ends \subseteq Ends
       /\ prog[p].ends # {} => prog[p].of \in Servers
  /\ print \in [Visitors -> {"no", "message", "nothing"}]

\* A message is printed once, and whoever finds the end of the pipe instead finds it
\* because somebody else has the message, unless a program was killed.  Nobody waits
\* in open with the other side there: a client that still does when its server went
\* through came after the close and before the unlink (2-server.c 31 and 36) or
\* after the server failed.
PassedOn ==
  /\ \A v \in Visitors :
       LET Others == {w \in Visitors \ {v} : prog[w].of = prog[v].of /\ print[w] = "message"}
       IN  /\ print[v] = "message" => Others = {}
           /\ print[v] = "nothing" /\ whole => Others # {}
  /\ \A v \in Visitors :
       prog[v].at = "waiting" =>
         \/ prog[prog[v].of].at \in {"failed", "killed", "done"}
         \/ Doing(prog[v].of, "open_write")
         \/ Doing(prog[v].of, "unlink")

\* The child of 1.c ends, and its parent with it; a client or a server of 2 ends or
\* waits in open for a partner.
AllThrough == \A p \in Programs : prog[p].at # "run"
AllPass    == []<>AllThrough
===============================================================================
