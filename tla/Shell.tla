--------------------------------- MODULE Shell ---------------------------------
(***************************************************************************)
(* The shells of the repository: "12-channels/3.c", which runs pipelines,  *)
(* and "10-process management/3.c", which runs single commands.  A process *)
(* is the shell or the child that runs the i-th command of the line; what  *)
(* a child holds of the pipes is what fork, dup2 and close make of it.     *)
(*                                                                         *)
(* The commands are the user's: cat copies its input until the end, head   *)
(* copies one block, yes writes for ever, bad cannot be executed.          *)
(***************************************************************************)
EXTENDS Integers, FiniteSets, SequencesExt

CONSTANTS MaxCommands,  \* bound: commands of a line; the code allows 63
          MaxLines,     \* bound: lines the user types
          PipeSize      \* bound: blocks a pipe holds

ConstantsOK == MaxCommands \in Nat \ {0} /\ MaxLines \in Nat /\ PipeSize \in Nat \ {0}

Children == 1 .. MaxCommands
SHELL    == 0
Pipes    == 1 .. MaxCommands - 1       \* pipe j leads from child j to child j + 1
Ends     == Pipes \X {"read", "write"}
Kinds    == {"cat", "head", "yes", "bad"}
TERMINAL == MaxCommands

VARIABLES
  pipes,     \* the shell is the one of 12-channels; never changes
  pc,        \* where the shell is
  line,      \* the commands of its line
  i,         \* its loop counter
  lines,     \* lines read so far
  held,      \* the ends in pipefds that each process has open
  stdio,     \* the pipes behind its standard input and output, or the terminal
  child,     \* where child c is
  eof,       \* history: the child saw the end of its input
  bytes      \* blocks in each pipe
vars == <<pipes, pc, line, i, lines, held, stdio, child, eof, bytes>>

NoStdio == [in |-> TERMINAL, out |-> TERMINAL]
Alive   == {c \in Children : child[c] \notin {"none", "zombie", "reaped"}}

Init ==
  /\ pipes \in BOOLEAN
  /\ pc = "prompt" /\ line = <<>> /\ i = 0 /\ lines = 0
  /\ held = [p \in {SHELL} \cup Children |-> {}]
  /\ stdio = [p \in {SHELL} \cup Children |-> NoStdio]
  /\ child = [c \in Children |-> "none"]
  /\ eof = {} /\ bytes = [j \in Pipes |-> 0]

\* The processes that have an end of pipe j open.
Readers(j) == {p \in {SHELL} \cup Alive : <<j, "read">> \in held[p] \/ stdio[p].in = j}
Writers(j) == {p \in {SHELL} \cup Alive : <<j, "write">> \in held[p] \/ stdio[p].out = j}
-------------------------------------------------------------------------------
(***************************************************************************)
(* The shell.                                                              *)
(***************************************************************************)
PipesOf(l) == {e \in Ends : e[1] < Len(l)}

\* A line of commands between bars; without pipes, the line is one command.
ReadLine ==
  /\ pc = "prompt" /\ lines < MaxLines
  /\ \E n \in 1 .. (IF pipes THEN MaxCommands ELSE 1) : line' \in [1 .. n -> Kinds]
  /\ lines' = lines + 1 /\ pc' = "pipe" /\ i' = 0
  /\ child' = [c \in Children |-> "none"] /\ eof' = {}
  /\ UNCHANGED <<pipes, held, stdio, bytes>>

\* At the end of the input 12-channels leaves its loop; 10-process management
\* does not look at the result of fgets and runs what is left in the buffer.
EndOfInput ==
  /\ pc = "prompt"
  /\ pc' = IF pipes \/ line = <<>> THEN "gone" ELSE "pipe"
  /\ i' = 0 /\ child' = [c \in Children |-> "none"] /\ eof' = {}
  /\ UNCHANGED <<pipes, line, lines, held, stdio, bytes>>

Exit == pc = "prompt" /\ pc' = "gone" /\ UNCHANGED <<pipes, line, i, lines, held, stdio, child, eof, bytes>>

\* The loop over pipe().
MakePipes ==
  /\ pc = "pipe" /\ pc' = "fork"
  /\ held' = [held EXCEPT ![SHELL] = PipesOf(line)]
  /\ bytes' = [j \in Pipes |-> 0]
  /\ UNCHANGED <<pipes, line, i, lines, stdio, child, eof>>

Fork ==
  /\ pc = "fork" /\ i < Len(line)
  /\ i' = i + 1
  /\ child' = [child EXCEPT ![i + 1] = "dup"]
  /\ held' = [held EXCEPT ![i + 1] = held[SHELL]]
  /\ stdio' = [stdio EXCEPT ![i + 1] = NoStdio]
  /\ UNCHANGED <<pipes, pc, line, lines, eof, bytes>>

\* fork or pipe fails: both shells exit, but for a single command of 12-channels.
ForkFails ==
  /\ (pc = "fork" /\ i < Len(line)) \/ (pc = "pipe" /\ Len(line) > 1)
  /\ pc' = IF pipes /\ Len(line) = 1 THEN "prompt" ELSE "gone"
  /\ held' = [held EXCEPT ![SHELL] = {}]
  /\ UNCHANGED <<pipes, line, i, lines, stdio, child, eof, bytes>>

CloseEnds(ends) ==
  /\ pc = "fork" /\ i = Len(line)
  /\ pc' = "wait" /\ i' = 0
  /\ held' = [held EXCEPT ![SHELL] = @ \ ends]
  /\ UNCHANGED <<pipes, line, lines, stdio, child, eof, bytes>>

CloseReadEnds == CloseEnds(Pipes \X {"read"})   \* mutant: the write ends stay open

\* The parent closes all its ends and begins to wait.
CloseAll == CloseEnds(Ends)

\* wait(NULL), once for each command; it blocks while all children run.
Wait ==
  /\ pc = "wait" /\ i < Len(line)
  /\ \E c \in Children : child[c] = "zombie" /\ child' = [child EXCEPT ![c] = "reaped"]
  /\ i' = i + 1
  /\ pc' = IF i + 1 = Len(line) THEN "prompt" ELSE "wait"
  /\ UNCHANGED <<pipes, line, lines, held, stdio, eof, bytes>>

ShellStep == MakePipes \/ Fork \/ CloseAll \/ Wait
-------------------------------------------------------------------------------
(***************************************************************************)
(* A child.                                                                *)
(***************************************************************************)
Becomes(c, from, to) == child[c] = from /\ child' = [child EXCEPT ![c] = to]

\* dup2 of the pipe before onto 0 and of the pipe after onto 1.
Dup2(c) ==
  /\ Becomes(c, "dup", "close")
  /\ stdio' = [stdio EXCEPT ![c] = [in  |-> IF c > 1 THEN c - 1 ELSE TERMINAL,
                                    out |-> IF c < Len(line) THEN c ELSE TERMINAL]]
  /\ UNCHANGED <<pipes, pc, line, i, lines, held, eof, bytes>>

ChildClose(c, ends) ==
  /\ Becomes(c, "close", "exec")
  /\ held' = [held EXCEPT ![c] = @ \ ends]
  /\ UNCHANGED <<pipes, pc, line, i, lines, stdio, eof, bytes>>

CloseOwnEnds(c) ==   \* mutant: only the ends it has copied
  ChildClose(c, {<<stdio[c].in, "read">>, <<stdio[c].out, "write">>})

CloseInChild(c) == ChildClose(c, Ends)

\* execvp; a command that cannot be executed ends at once.
execute_command(c) ==
  /\ Becomes(c, "exec", CASE line[c] = "yes" -> "write"
                          [] line[c] = "bad" -> "zombie"
                          [] OTHER           -> "read")
  /\ UNCHANGED <<pipes, pc, line, i, lines, held, stdio, eof, bytes>>

\* read returns a block, if there is one.
Read(c) ==
  /\ Becomes(c, "read", "write")
  /\ stdio[c].in # TERMINAL => bytes[stdio[c].in] > 0
  /\ bytes' = [j \in Pipes |-> IF j = stdio[c].in THEN bytes[j] - 1 ELSE bytes[j]]
  /\ UNCHANGED <<pipes, pc, line, i, lines, held, stdio, eof>>

\* read returns 0: the pipe is empty and nobody can write to it any more.
ReadEnd(c) ==
  /\ Becomes(c, "read", "zombie")
  /\ stdio[c].in # TERMINAL => bytes[stdio[c].in] = 0 /\ Writers(stdio[c].in) = {}
  /\ eof' = eof \cup {c}
  /\ UNCHANGED <<pipes, pc, line, i, lines, held, stdio, bytes>>

\* write waits for room; without a reader SIGPIPE ends the command.
Write(c) ==
  LET j == stdio[c].out IN
  /\ IF j # TERMINAL /\ Readers(j) = {}
     THEN Becomes(c, "write", "zombie")
     ELSE Becomes(c, "write", CASE line[c] = "cat"  -> "read"
                                [] line[c] = "yes"  -> "write"
                                [] OTHER            -> "zombie")
  /\ j # TERMINAL /\ Readers(j) # {} => bytes[j] < PipeSize
  /\ bytes' = [k \in Pipes |-> IF k = j /\ Readers(j) # {} THEN bytes[k] + 1 ELSE bytes[k]]
  /\ UNCHANGED <<pipes, pc, line, i, lines, held, stdio, eof>>

ChildStep(c) == Dup2(c) \/ CloseInChild(c) \/ execute_command(c) \/ Read(c) \/ ReadEnd(c) \/ Write(c)
-------------------------------------------------------------------------------
Next == ReadLine \/ EndOfInput \/ Exit \/ ForkFails \/ ShellStep
        \/ \E c \in Children : ChildStep(c)

\* The shell and the children go on; nobody has to type, and what a command reads
\* from the terminal ends some time.
Fairness == WF_vars(ShellStep) /\ \A c \in Children : WF_vars(ChildStep(c)) /\ SF_vars(ReadEnd(c))

FairSpec == Init /\ [][Next]_vars /\ Fairness
-------------------------------------------------------------------------------
(***************************************************************************)
(* Properties.                                                             *)
(***************************************************************************)
\* The type invariant; a child has ends open only until it has closed them.
TypeOK ==
  /\ pipes \in BOOLEAN /\ pc \in {"prompt", "pipe", "fork", "wait", "gone"}
  /\ line \in BoundedSeq(Kinds, MaxCommands) /\ i \in 0 .. MaxCommands /\ lines \in 0 .. MaxLines
  /\ \A c \in Children :
       /\ child[c] \in {"none", "dup", "close", "exec", "read", "write", "zombie", "reaped"}
       /\ held[c] # {} /\ c \in Alive => child[c] \in {"dup", "close"}
  /\ \A p \in {SHELL} \cup Children : held[p] \subseteq Ends /\ {stdio[p].in, stdio[p].out} \subseteq Pipes \cup {TERMINAL}
  /\ eof \subseteq Children /\ bytes \in [Pipes -> 0 .. PipeSize]

\* A command sees the end of its input only when the command before it has ended
\* and everything that one wrote has been read: no end of a pipe is closed too
\* early (12-channels/3.c 39-74).
EofMeansDone ==
  \A c \in eof : c > 1 => child[c - 1] \in {"zombie", "reaped"} /\ bytes[c - 1] = 0

\* The shell prompts again only when it has waited for every child of the line
\* ("waiting for the end of all child processes", 12-channels/3.c 76-79).
NobodyLeft == pc = "prompt" => \A c \in Children : child[c] \in {"none", "reaped"}

\* A line whose endless commands have somebody behind them that stops reading comes
\* to an end, also when a fork fails half way: no process keeps an end of a pipe
\* open that makes a reader wait for input or a writer for room (3.c 59-74).
LineOver ==
  LET Stops == \A k \in DOMAIN line : line[k] = "yes" =>
                 \E l \in DOMAIN line : l > k /\ line[l] \in {"head", "bad"}
  IN  Stops => pc \in {"prompt", "gone"} /\ Alive = {}
LineEnds == []<>LineOver
===============================================================================
