----------------------------- MODULE Programs_proofs -----------------------------
(***************************************************************************)
(* Proofs about the small programs that MCPrograms runs, for every value of*)
(* their constants.  A behaviour takes the steps of one program, so each   *)
(* program has an inductive invariant of its own.                          *)
(***************************************************************************)
EXTENDS MCPrograms, SequenceFacts, FiniteSetTheorems

(***************************************************************************)
(* The shells of "10-process management/3.c" and "12-channels/3.c".        *)
(***************************************************************************)
\* The standard input and output of command c once dup2 has replaced them.
Ready(c)  == [in  |-> IF c > 1 THEN c - 1 ELSE Sh!TERMINAL,
              out |-> IF c < Len(line) THEN c ELSE Sh!TERMINAL]
Running   == {"exec", "read", "write"}
ShellProcesses == {Sh!SHELL} \cup Sh!Children

\* The type invariant of the shells, as function sets.
ShellTypes ==
  /\ MaxCommands \in Nat \ {0} /\ PipeSize \in Nat
  /\ pipes \in BOOLEAN /\ pc \in {"prompt", "pipe", "fork", "wait", "gone"}
  /\ line \in Seq(Sh!Kinds) /\ Len(line) <= MaxCommands /\ i \in 0 .. MaxCommands /\ lines \in 0 .. MaxLines
  /\ child \in [Sh!Children -> {"none", "dup", "close", "exec", "read", "write", "zombie", "reaped"}]
  /\ held \in [ShellProcesses -> SUBSET Sh!Ends]
  /\ stdio \in [ShellProcesses -> [in : Sh!Pipes \cup {Sh!TERMINAL}, out : Sh!Pipes \cup {Sh!TERMINAL}]]
  /\ eof \subseteq Sh!Children /\ bytes \in [Sh!Pipes -> 0 .. PipeSize]

\* The children are forked in the order of the commands.
InARow == \A c \in Sh!Children :
            child[c] # "none" => c <= Len(line) /\ (c > 1 => child[c - 1] # "none")

\* A child has all ends of the pipes until it closes them, and then those of its command.
EndsRight == \A c \in Sh!Children :
  /\ child[c] \in {"dup", "close"} => held[c] = Sh!PipesOf(line)
  /\ child[c] \in Running => held[c] = {}
  /\ child[c] \in {"close"} \cup Running => stdio[c] = Ready(c)
  /\ child[c] = "dup" => stdio[c] = Sh!NoStdio

\* What the shell knows of its children at each place of its loop.
NoneYet  == \A c \in Sh!Children : child[c] = "none"
AtPrompt == \A c \in Sh!Children : child[c] \in {"none", "reaped"}
AtPipe   == Len(line) > 0 /\ i = 0 /\ eof = {} /\ NoneYet
AtFork   == /\ Len(line) > 0 /\ i <= Len(line) /\ held[Sh!SHELL] = Sh!PipesOf(line)
            /\ \A c \in Sh!Children : (child[c] = "none" <=> c > i) /\ child[c] # "reaped"
AtWait   == /\ i < Len(line)
            /\ \A c \in Sh!Children : child[c] = "none" <=> c > Len(line)
            /\ Cardinality({c \in Sh!Children : child[c] = "reaped"}) = i
Stages   == /\ pc = "prompt" => AtPrompt
            /\ pc = "pipe" => AtPipe
            /\ pc = "fork" => AtFork
            /\ pc = "wait" => AtWait

\* The inductive invariant of the shells.
ShellInv == ShellTypes /\ InARow /\ EndsRight /\ Stages /\ Sh!EofMeansDone

USE DEF NoneYet, AtPrompt, AtPipe, AtFork, ShellProcesses, Sh!Children, Sh!SHELL, Sh!TERMINAL, Sh!Pipes, Sh!Ends, Sh!Kinds

\* An interval from 1 has as many elements as its end says.
LEMMA Counted == ASSUME NEW n \in Nat PROVE IsFiniteSet(1 .. n) /\ Cardinality(1 .. n) = n
<1>1. 1 \in Int /\ n \in Int
  OBVIOUS
<1> QED BY <1>1, FS_Interval

\* What the assumption on the constants says of the shells.
LEMMA ShellConstants == /\ MaxCommands \in Nat \ {0} /\ MaxLines \in Nat /\ PipeSize \in Nat \ {0}
BY ProgramsAssumption DEF Sh!ConstantsOK

\* The invariant holds when the shell starts.
LEMMA ShellStarts == Sh!Init => ShellInv
<1> SUFFICES ASSUME Sh!Init PROVE ShellInv
  OBVIOUS
<1>1. ShellTypes
  BY ShellConstants DEF Sh!Init, ShellTypes, Sh!NoStdio
<1>2. InARow /\ EndsRight /\ Stages /\ Sh!EofMeansDone
  BY ShellConstants DEF Sh!Init, InARow, EndsRight, Stages, Sh!EofMeansDone, Running
<1> QED BY <1>1, <1>2 DEF ShellInv

\* The steps of the shell keep the invariant: a line is read, the input ends,
LEMMA LinesRead == ASSUME ShellInv, Sh!ReadLine PROVE ShellInv'
<1>0. ShellTypes /\ Stages
  BY DEF ShellInv
<1>1. PICK n \in 1 .. MaxCommands : line' \in [1 .. n -> Sh!Kinds]
  BY ShellConstants DEF Sh!ReadLine
<1>2. line' \in Seq(Sh!Kinds) /\ Len(line') = n
  BY <1>1
<1>3. ShellTypes'
  BY <1>0, <1>1, <1>2, ShellConstants DEF Sh!ReadLine, ShellTypes
<1>4. InARow' /\ EndsRight' /\ Stages' /\ Sh!EofMeansDone'
  BY <1>0, <1>1, <1>2 DEF Sh!ReadLine, InARow, EndsRight, Stages, Sh!EofMeansDone, Running
<1> QED BY <1>3, <1>4 DEF ShellInv

\* end of file at the prompt,
LEMMA InputEnds == ASSUME ShellInv, Sh!EndOfInput PROVE ShellInv'
<1>0. ShellTypes /\ Stages
  BY DEF ShellInv
<1>1. line # <<>> => Len(line) > 0
  BY <1>0 DEF ShellTypes
<1>3. ShellTypes'
  BY <1>0, ShellConstants DEF Sh!EndOfInput, ShellTypes
<1>4. InARow' /\ EndsRight' /\ Stages' /\ Sh!EofMeansDone'
  BY <1>0, <1>1 DEF Sh!EndOfInput, InARow, EndsRight, Stages, Sh!EofMeansDone, Running, ShellTypes
<1> QED BY <1>3, <1>4 DEF ShellInv

\* the shell exits,
LEMMA ShellExits == ASSUME ShellInv, Sh!Exit PROVE ShellInv'
BY DEF ShellInv, ShellTypes, InARow, EndsRight, Stages, Sh!EofMeansDone, Sh!Exit, Ready, Sh!Alive

\* the pipes are made,
LEMMA PipesMade == ASSUME ShellInv, Sh!MakePipes PROVE ShellInv'
<1>0. ShellTypes /\ Stages
  BY DEF ShellInv
<1>3. ShellTypes'
  BY <1>0, ShellConstants DEF Sh!MakePipes, ShellTypes, Sh!PipesOf
<1>4. InARow' /\ EndsRight' /\ Stages' /\ Sh!EofMeansDone'
  BY <1>0 DEF Sh!MakePipes, InARow, EndsRight, Stages, Sh!EofMeansDone, Running, ShellTypes, Sh!PipesOf
<1> QED BY <1>3, <1>4 DEF ShellInv

\* a child is forked,
LEMMA ChildForked == ASSUME ShellInv, Sh!Fork PROVE ShellInv'
<1>0. ShellTypes /\ Stages /\ InARow /\ EndsRight /\ Sh!EofMeansDone
  BY DEF ShellInv
<1>1. i + 1 \in Sh!Children /\ i + 1 # Sh!SHELL
  BY <1>0, ShellConstants DEF Sh!Fork, ShellTypes
<1>3. ShellTypes'
  BY <1>0, <1>1, ShellConstants DEF Sh!Fork, ShellTypes, Sh!NoStdio
<1>4. InARow'
  <2> SUFFICES ASSUME NEW c \in Sh!Children, child'[c] # "none"
               PROVE  c <= Len(line) /\ (c > 1 => child'[c - 1] # "none")
    BY DEF InARow, Sh!Fork
  <2>1. c <= i + 1
    BY <1>0, <1>1 DEF Sh!Fork, Stages, ShellTypes
  <2>2. c <= Len(line)
    BY <1>0, <2>1 DEF Sh!Fork, ShellTypes
  <2>3. c > 1 => c - 1 \in Sh!Children /\ c - 1 <= i
    BY <2>1, <1>0 DEF ShellTypes
  <2> QED BY <1>0, <1>1, <2>2, <2>3 DEF Sh!Fork, Stages, ShellTypes
<1>6. EndsRight'
  <2> SUFFICES ASSUME NEW c \in Sh!Children PROVE EndsRight!(c)'
    BY DEF EndsRight
  <2>1. CASE c = i + 1
    BY <1>0, <1>1, <2>1 DEF Sh!Fork, Stages, ShellTypes, Sh!NoStdio, Running, Sh!PipesOf
  <2>2. CASE c # i + 1
    BY <1>0, <1>1, <2>2 DEF Sh!Fork, EndsRight, ShellTypes, Running, Ready, Sh!PipesOf
  <2> QED BY <2>1, <2>2
<1>5. Stages' /\ Sh!EofMeansDone'
  BY <1>0, <1>1 DEF Sh!Fork, Stages, Sh!EofMeansDone, ShellTypes, Sh!PipesOf
<1> QED BY <1>3, <1>4, <1>5, <1>6 DEF ShellInv

\* a fork fails,
LEMMA ShellForkFailed == ASSUME ShellInv, Sh!ForkFails PROVE ShellInv'
<1>0. ShellTypes /\ Stages /\ InARow /\ EndsRight /\ Sh!EofMeansDone
  BY DEF ShellInv
<1>3. ShellTypes'
  BY <1>0, ShellConstants DEF Sh!ForkFails, ShellTypes
<1>4. InARow' /\ EndsRight'
  BY <1>0 DEF Sh!ForkFails, InARow, EndsRight, Stages, Running, ShellTypes, Sh!PipesOf, Ready
<1>5. Sh!EofMeansDone'
  BY <1>0 DEF Sh!ForkFails, Sh!EofMeansDone
<1>6. Stages'
  <2>1. CASE pc = "fork" /\ i < Len(line)
    <3>1. pc' = IF pipes /\ Len(line) = 1 THEN "prompt" ELSE "gone"
      BY DEF Sh!ForkFails
    <3>2. Len(line) = 1 => i = 0
      BY <1>0, <2>1 DEF ShellTypes
    <3>3. pc' = "prompt" => AtPrompt'
      BY <1>0, <2>1, <3>1, <3>2 DEF Sh!ForkFails, Stages, ShellTypes
    <3> QED BY <3>1, <3>3 DEF Stages
  <2>2. CASE pc = "pipe" /\ Len(line) > 1
    BY <1>0, <2>2 DEF Sh!ForkFails, Stages, ShellTypes
  <2> QED BY <2>1, <2>2 DEF Sh!ForkFails
<1> QED BY <1>3, <1>4, <1>5, <1>6 DEF ShellInv

\* the shell closes its ends of the pipes,
LEMMA EndsClosed == ASSUME ShellInv, Sh!CloseAll PROVE ShellInv'
<1>0. ShellTypes /\ Stages /\ InARow /\ EndsRight /\ Sh!EofMeansDone
  BY DEF ShellInv
<1>3. ShellTypes'
  BY <1>0, ShellConstants DEF Sh!CloseAll, Sh!CloseEnds, ShellTypes
<1>4. InARow' /\ EndsRight'
  BY <1>0 DEF Sh!CloseAll, Sh!CloseEnds, InARow, EndsRight, Stages, AtWait, Running, ShellTypes, Sh!PipesOf, Ready
<1>5. {c \in Sh!Children : child[c] = "reaped"} = {}
  BY <1>0 DEF Sh!CloseAll, Sh!CloseEnds, Stages, AtWait
<1>6. Stages' /\ Sh!EofMeansDone'
  BY <1>0, <1>5, FS_EmptySet DEF Sh!CloseAll, Sh!CloseEnds, Stages, AtWait, Sh!EofMeansDone, ShellTypes, Sh!PipesOf
<1> QED BY <1>3, <1>4, <1>6 DEF ShellInv

\* and a child that ended is awaited.
LEMMA ChildAwaited == ASSUME ShellInv, Sh!Wait PROVE ShellInv'
<1>0. ShellTypes /\ Stages /\ InARow /\ EndsRight /\ Sh!EofMeansDone
  BY DEF ShellInv
<1>1. PICK c \in Sh!Children : child[c] = "zombie" /\ child' = [child EXCEPT ![c] = "reaped"]
  BY DEF Sh!Wait
<1>3. ShellTypes'
  BY <1>0, <1>1, ShellConstants DEF Sh!Wait, ShellTypes
<1>4. InARow' /\ EndsRight'
  BY <1>0, <1>1 DEF Sh!Wait, InARow, EndsRight, Stages, AtWait, Running, ShellTypes, Sh!PipesOf, Ready
<1> DEFINE R == {d \in Sh!Children : child[d] = "reaped"}
<1>5. R' = R \cup {c} /\ c \notin R /\ IsFiniteSet(R) /\ Cardinality(R') = Cardinality(R) + 1
  <2>1. R' = R \cup {c} /\ c \notin R
    BY <1>0, <1>1 DEF ShellTypes
  <2>2. IsFiniteSet(R)
    <3>1. IsFiniteSet(1 .. MaxCommands)
      BY ShellConstants, FS_Interval
    <3> QED BY <3>1, FS_Subset
  <2> QED BY <2>1, <2>2, FS_AddElement
<1>6. ASSUME i + 1 = Len(line) PROVE \A d \in Sh!Children : child'[d] \in {"none", "reaped"}
  <2> DEFINE All == 1 .. Len(line)
  <2>1. Cardinality(R') = Len(line)
    BY <1>0, <1>5, <1>6 DEF Stages, AtWait, Sh!Wait
  <2>2. IsFiniteSet(All) /\ Cardinality(All) = Len(line)
    <3>1. Len(line) \in Nat
      BY <1>0 DEF ShellTypes
    <3> QED BY <3>1, Counted
  <2>3. R' \subseteq All
    BY <1>0, <1>5, <1>1 DEF InARow
  <2>4. R' = All
    BY <2>1, <2>2, <2>3, FS_Subset
  <2> SUFFICES ASSUME NEW d \in Sh!Children PROVE child'[d] \in {"none", "reaped"}
    OBVIOUS
  <2>5. CASE d \in All
    BY <2>4, <2>5, <1>1 
  <2>6. CASE d \notin All
    <3>1. d > Len(line) /\ d # c
      BY <2>4, <2>6, <1>5, <1>0 DEF ShellTypes
    <3> QED BY <3>1, <1>0, <1>1 DEF ShellTypes, InARow
  <2> QED BY <2>5, <2>6
<1>7. Stages' /\ Sh!EofMeansDone'
  BY <1>0, <1>1, <1>5, <1>6 DEF Sh!Wait, Stages, AtWait, Sh!EofMeansDone, ShellTypes, Sh!PipesOf
<1> QED BY <1>3, <1>4, <1>7 DEF ShellInv

\* A step of a child leaves what the shell knows as it was.
LEMMA StagesKept ==
  ASSUME ShellInv, NEW c \in Sh!Children, NEW to, Sh!Becomes(c, child[c], to),
         child[c] \notin {"none", "zombie", "reaped"},
         to \in {"dup", "close", "exec", "read", "write", "zombie"},
         UNCHANGED <<pc, line, i>>, held'[Sh!SHELL] = held[Sh!SHELL]
  PROVE  Stages' /\ InARow'
<1>0. ShellTypes /\ Stages /\ InARow
  BY DEF ShellInv
<1>1. /\ child'[c] = to /\ to \notin {"none", "reaped"}
      /\ \A d \in Sh!Children \ {c} : child'[d] = child[d]
  BY <1>0 DEF ShellTypes, Sh!Becomes
<1>2. pc \notin {"prompt", "pipe"}
  BY <1>0 DEF Stages
<1>3. InARow'
  <2>1. \A d \in Sh!Children : child'[d] # "none" <=> child[d] # "none"
    BY <1>1
  <2>2. \A d \in Sh!Children : d > 1 => d - 1 \in Sh!Children
    BY <1>0 DEF ShellTypes
  <2> QED BY <1>0, <2>1, <2>2 DEF InARow
<1>4. pc = "fork" => AtFork'
  BY <1>0, <1>1 DEF Stages, Sh!PipesOf
<1>5. pc = "wait" => AtWait'
  <2>1. {d \in Sh!Children : child'[d] = "reaped"} = {d \in Sh!Children : child[d] = "reaped"}
    BY <1>1
  <2>2. pc = "wait" => \A d \in Sh!Children : child'[d] = "none" <=> d > Len(line)
    BY <1>0, <1>1 DEF Stages, AtWait
  <2> QED BY <2>1, <2>2, <1>0 DEF Stages, AtWait
<1> QED BY <1>2, <1>3, <1>4, <1>5 DEF Stages

\* The steps of a child keep the invariant: dup2,
LEMMA InputReplaced == ASSUME ShellInv, NEW c \in Sh!Children, Sh!Dup2(c) PROVE ShellInv'
<1>0. ShellTypes /\ EndsRight /\ Sh!EofMeansDone /\ InARow
  BY DEF ShellInv
<1>1. c <= Len(line)
  BY <1>0 DEF InARow, Sh!Dup2, Sh!Becomes
<1>2. Ready(c) \in [in : Sh!Pipes \cup {Sh!TERMINAL}, out : Sh!Pipes \cup {Sh!TERMINAL}]
  BY <1>0, <1>1 DEF ShellTypes, Ready
<1>3. ShellTypes'
  BY <1>0, <1>2 DEF ShellTypes, Sh!Dup2, Ready, Sh!Becomes
<1>4. EndsRight'
  BY <1>0 DEF EndsRight, Sh!Dup2, Sh!Becomes, ShellTypes, Ready, Running, Sh!PipesOf
<1>5. Sh!EofMeansDone'
  BY <1>0 DEF Sh!EofMeansDone, Sh!Dup2, Sh!Becomes, ShellTypes
<1>6. Stages' /\ InARow'
  BY StagesKept DEF Sh!Dup2, Sh!Becomes
<1> QED BY <1>3, <1>4, <1>5, <1>6 DEF ShellInv

\* the close of all ends,
LEMMA ChildClosed == ASSUME ShellInv, NEW c \in Sh!Children, Sh!CloseInChild(c) PROVE ShellInv'
<1>0. ShellTypes /\ EndsRight /\ Sh!EofMeansDone
  BY DEF ShellInv
<1>3. ShellTypes'
  BY <1>0 DEF ShellTypes, Sh!CloseInChild, Sh!ChildClose, Sh!Becomes
<1>4. EndsRight'
  BY <1>0 DEF EndsRight, Sh!CloseInChild, Sh!ChildClose, Sh!Becomes, ShellTypes, Ready, Running, Sh!PipesOf
<1>5. Sh!EofMeansDone'
  BY <1>0 DEF Sh!EofMeansDone, Sh!CloseInChild, Sh!ChildClose, Sh!Becomes, ShellTypes
<1>6. Stages' /\ InARow'
  <2>1. held'[Sh!SHELL] = held[Sh!SHELL] /\ child[c] = "close" /\ Sh!Becomes(c, child[c], "exec")
    BY <1>0 DEF ShellTypes, Sh!CloseInChild, Sh!ChildClose, Sh!Becomes
  <2> QED BY <2>1, StagesKept DEF Sh!CloseInChild, Sh!ChildClose
<1> QED BY <1>3, <1>4, <1>5, <1>6 DEF ShellInv

\* exec,
LEMMA CommandExecuted == ASSUME ShellInv, NEW c \in Sh!Children, Sh!execute_command(c) PROVE ShellInv'
<1>0. ShellTypes /\ EndsRight /\ Sh!EofMeansDone
  BY DEF ShellInv
<1>1. PICK to \in {"read", "write", "zombie"} : Sh!Becomes(c, "exec", to)
  BY DEF Sh!execute_command
<1>3. ShellTypes'
  BY <1>0, <1>1 DEF ShellTypes, Sh!execute_command, Sh!Becomes
<1>4. EndsRight'
  BY <1>0, <1>1 DEF EndsRight, Sh!execute_command, Sh!Becomes, ShellTypes, Ready, Running, Sh!PipesOf
<1>5. Sh!EofMeansDone'
  BY <1>0, <1>1 DEF Sh!EofMeansDone, Sh!execute_command, Sh!Becomes, ShellTypes
<1>6. Stages' /\ InARow'
  BY <1>1, StagesKept DEF Sh!execute_command, Sh!Becomes
<1> QED BY <1>3, <1>4, <1>5, <1>6 DEF ShellInv

\* a read of data,
LEMMA BlockRead == ASSUME ShellInv, NEW c \in Sh!Children, Sh!Read(c) PROVE ShellInv'
<1>0. ShellTypes /\ EndsRight /\ Sh!EofMeansDone
  BY DEF ShellInv
<1>3. ShellTypes'
  BY <1>0, SMTT(30) DEF ShellTypes, Sh!Read, Sh!Becomes
<1>4. EndsRight'
  BY <1>0 DEF EndsRight, Sh!Read, Sh!Becomes, ShellTypes, Ready, Running, Sh!PipesOf
<1>5. Sh!EofMeansDone'
  BY <1>0 DEF Sh!EofMeansDone, Sh!Read, Sh!Becomes, ShellTypes
<1>6. Stages' /\ InARow'
  BY StagesKept DEF Sh!Read, Sh!Becomes
<1> QED BY <1>3, <1>4, <1>5, <1>6 DEF ShellInv

\* a read of the end of the pipe, whose writers have then all ended,
LEMMA EndRead == ASSUME ShellInv, NEW c \in Sh!Children, Sh!ReadEnd(c) PROVE ShellInv'
<1>0. ShellTypes /\ EndsRight /\ Sh!EofMeansDone /\ InARow
  BY DEF ShellInv
<1>3. ShellTypes'
  BY <1>0 DEF ShellTypes, Sh!ReadEnd, Sh!Becomes
<1>4. EndsRight'
  BY <1>0 DEF EndsRight, Sh!ReadEnd, Sh!Becomes, ShellTypes, Ready, Running, Sh!PipesOf
<1>1. ASSUME c > 1 PROVE child[c - 1] \in {"zombie", "reaped"} /\ bytes[c - 1] = 0
  <2> DEFINE j == c - 1
  <2>1. j \in Sh!Children /\ j \in Sh!Pipes /\ j # MaxCommands /\ stdio[c].in = j /\ child[j] # "none" /\ j < Len(line)
    <3>1. j \in Sh!Children /\ j \in Sh!Pipes /\ j # MaxCommands
      BY <1>0, <1>1 DEF ShellTypes
    <3>2. child[c] = "read" /\ stdio[c].in = j
      <4>1. child[c] = "read" /\ stdio[c] = Ready(c)
        BY <1>0 DEF EndsRight, Sh!ReadEnd, Sh!Becomes, Running
      <4> QED BY <4>1, <1>1 DEF Ready
    <3>3. child[j] # "none" /\ c <= Len(line)
      BY <1>0, <1>1, <3>2 DEF InARow
    <3> QED BY <3>1, <3>2, <3>3, <1>0 DEF ShellTypes
  <2>2. bytes[j] = 0 /\ Sh!Writers(j) = {}
    BY <2>1 DEF Sh!ReadEnd
  <2>3. ASSUME j \in Sh!Alive PROVE FALSE
    <3>1. <<j, "write">> \notin held[j] /\ stdio[j].out # j
      BY <2>2, <2>3, <2>1 DEF Sh!Writers
    <3>2. <<j, "write">> \in Sh!PipesOf(line)
      BY <2>1 DEF Sh!PipesOf
    <3>3. child[j] \notin {"dup", "close"}
      BY <3>1, <3>2, <1>0, <2>1 DEF EndsRight
    <3>4. child[j] \in Running
      <4>1. child[j] \in {"none", "dup", "close", "exec", "read", "write", "zombie", "reaped"}
        BY <2>1, <1>0 DEF ShellTypes
      <4> QED BY <4>1, <2>3, <3>3 DEF Sh!Alive, Running
    <3>5. stdio[j].out = j
      <4>1. stdio[j] = Ready(j)
        BY <3>4, <2>1, <1>0 DEF EndsRight
      <4> QED BY <4>1, <2>1 DEF Ready
    <3> QED BY <3>1, <3>5
  <2> QED BY <2>1, <2>2, <2>3, <1>0 DEF Sh!Alive, ShellTypes
<1>5. Sh!EofMeansDone'
  BY <1>0, <1>1 DEF Sh!EofMeansDone, Sh!ReadEnd, Sh!Becomes, ShellTypes
<1>6. Stages' /\ InARow'
  BY StagesKept DEF Sh!ReadEnd, Sh!Becomes
<1> QED BY <1>3, <1>4, <1>5, <1>6 DEF ShellInv

\* and a write.
LEMMA BlockWritten == ASSUME ShellInv, NEW c \in Sh!Children, Sh!Write(c) PROVE ShellInv'
<1>0. ShellTypes /\ EndsRight /\ Sh!EofMeansDone /\ InARow
  BY DEF ShellInv
<1>1. PICK to \in {"read", "write", "zombie"} : Sh!Becomes(c, "write", to)
  BY DEF Sh!Write
<1> DEFINE out == stdio[c].out
<1>2. \A k \in Sh!Pipes : /\ bytes'[k] \in 0 .. PipeSize
                          /\ bytes'[k] # bytes[k] => k = c
  <2>1. bytes' = [k \in Sh!Pipes |-> IF k = out /\ Sh!Readers(out) # {} THEN bytes[k] + 1 ELSE bytes[k]]
    BY DEF Sh!Write
  <2>2. out # MaxCommands /\ Sh!Readers(out) # {} => bytes[out] < PipeSize
    BY DEF Sh!Write
  <2>3. out \in {c, MaxCommands}
    <3>1. stdio[c] = Ready(c)
      BY <1>0, <1>1 DEF EndsRight, Running, Sh!Becomes
    <3> QED BY <3>1 DEF Ready
  <2> HIDE DEF out
  <2> QED BY <2>1, <2>2, <2>3, <1>0 DEF ShellTypes
<1>3. ShellTypes'
  BY <1>0, <1>1, <1>2 DEF ShellTypes, Sh!Write, Sh!Becomes
<1>4. EndsRight'
  BY <1>0, <1>1 DEF EndsRight, Sh!Write, Sh!Becomes, ShellTypes, Ready, Running, Sh!PipesOf
<1>5. Sh!EofMeansDone'
  <2> SUFFICES ASSUME NEW e \in eof, e > 1
               PROVE  child'[e - 1] \in {"zombie", "reaped"} /\ bytes'[e - 1] = 0
    BY DEF Sh!EofMeansDone, Sh!Write
  <2>1. child[e - 1] \in {"zombie", "reaped"} /\ bytes[e - 1] = 0
    BY <1>0 DEF Sh!EofMeansDone
  <2>2. e - 1 \in Sh!Pipes /\ e - 1 \in Sh!Children /\ e - 1 # c
    BY <1>0, <1>1, <2>1 DEF ShellTypes, Sh!Becomes
  <2> QED BY <2>1, <2>2, <1>1, <1>2, <1>0 DEF ShellTypes, Sh!Becomes
<1>6. Stages' /\ InARow'
  BY <1>1, StagesKept DEF Sh!Write, Sh!Becomes
<1> QED BY <1>3, <1>4, <1>5, <1>6 DEF ShellInv

\* Every step of a shell keeps the invariant.
LEMMA ShellKept == ASSUME ShellInv, [Sh!Next]_shVars PROVE ShellInv'
<1>1. CASE UNCHANGED shVars
  BY <1>1 DEF shVars, ShellInv, ShellTypes, EndsRight, Stages, AtWait, InARow, Sh!EofMeansDone, Ready, Running, Sh!PipesOf, Sh!NoStdio
<1>2. CASE Sh!Next
  <2>1. \A c \in Sh!Children : Sh!ChildStep(c) => ShellInv'
    BY InputReplaced, ChildClosed, CommandExecuted, BlockRead, EndRead, BlockWritten DEF Sh!ChildStep
  <2>2. Sh!ShellStep => ShellInv'
    BY PipesMade, ChildForked, EndsClosed, ChildAwaited DEF Sh!ShellStep
  <2> QED BY <1>2, <2>1, <2>2, LinesRead, InputEnds, ShellExits, ShellForkFailed DEF Sh!Next
<1> QED BY <1>1, <1>2

\* What the runs check of the shells follows from it.
LEMMA ShellTypeOK == ShellInv => Sh!TypeOK /\ Sh!EofMeansDone /\ Sh!NobodyLeft
<1> SUFFICES ASSUME ShellInv PROVE Sh!TypeOK /\ Sh!NobodyLeft
  BY DEF ShellInv
<1>0. ShellTypes /\ EndsRight /\ Stages /\ InARow
  BY DEF ShellInv
<1>1. line \in Sh!BoundedSeq(Sh!Kinds, MaxCommands)
  <2>1. Len(line) \in 0 .. MaxCommands /\ line \in [1 .. Len(line) -> Sh!Kinds]
    BY <1>0 DEF ShellTypes
  <2> QED BY <2>1 DEF Sh!BoundedSeq, Sh!SeqOf
<1>2. \A p \in ShellProcesses : held[p] \subseteq Sh!Ends /\ {stdio[p].in, stdio[p].out} \subseteq Sh!Pipes \cup {Sh!TERMINAL}
  BY <1>0 DEF ShellTypes
<1>3. ASSUME NEW c \in Sh!Children, held[c] # {}, c \in Sh!Alive PROVE child[c] \in {"dup", "close"}
  <2>1. child[c] \in {"none", "dup", "close", "exec", "read", "write", "zombie", "reaped"}
    BY <1>0 DEF ShellTypes
  <2>2. child[c] \notin Running
    BY <1>0, <1>3 DEF EndsRight
  <2> QED BY <1>3, <2>1, <2>2 DEF Running, Sh!Alive
<1>4. i \in 0 .. MaxCommands
  BY <1>0 DEF ShellTypes
<1>5. Sh!NobodyLeft
  BY <1>0 DEF Sh!NobodyLeft, Stages
<1>6. \A c \in Sh!Children :
        /\ child[c] \in {"none", "dup", "close", "exec", "read", "write", "zombie", "reaped"}
        /\ held[c] # {} /\ c \in Sh!Alive => child[c] \in {"dup", "close"}
  BY <1>0, <1>3 DEF ShellTypes
<1>7. /\ pipes \in BOOLEAN /\ pc \in {"prompt", "pipe", "fork", "wait", "gone"} /\ lines \in 0 .. MaxLines
      /\ eof \subseteq Sh!Children /\ bytes \in [Sh!Pipes -> 0 .. PipeSize]
  BY <1>0 DEF ShellTypes
<1> QED BY <1>1, <1>2, <1>4, <1>5, <1>6, <1>7 DEF Sh!TypeOK

HIDE DEF NoneYet, AtPrompt, AtPipe, AtFork, ShellProcesses, Sh!Children, Sh!SHELL, Sh!TERMINAL, Sh!Pipes,
         Sh!Ends, Sh!Kinds

(***************************************************************************)
(* The process trees of "10-process management".                           *)
(***************************************************************************)
\* The processes of the program, by the names of the comments in 2.c.
Main   == <<>>
First  == <<1>>
Second == <<2>>
Third  == <<1, 1>>
Fourth == <<1, 2>>
Fifth  == <<2, 1>>
Family == {Main, First, Second, Third, Fourth, Fifth}

\* They are six different processes.
LEMMA FamilyNames ==
  /\ Family \subseteq Tree!Processes
  /\ Main \notin {First, Second, Third, Fourth, Fifth}
  /\ First \notin {Second, Third, Fourth, Fifth} /\ Second \notin {Third, Fourth, Fifth}
  /\ Third \notin {Fourth, Fifth} /\ Fourth # Fifth
<1>1. Family \subseteq Tree!Processes
  BY DEF Family, Main, First, Second, Third, Fourth, Fifth, Tree!Processes, Tree!BoundedSeq, Tree!SeqOf
<1> QED BY <1>1 DEF Main, First, Second, Third, Fourth, Fifth

\* The parent of a child is the process that forked it.
LEMMA FrontOfAppend ==
  ASSUME NEW M, NEW q \in Seq(M), NEW e \in M
  PROVE  Tree!Front(Append(q, e)) = q
<1> DEFINE r == Append(q, e)
<1>1. r \in Seq(M) /\ Len(r) = Len(q) + 1 /\ Len(q) \in Nat /\ \A k \in 1 .. Len(q) : r[k] = q[k]
  BY AppendProperties, LenProperties
<1> HIDE DEF r
<1>2. \A k \in 1 .. Len(q) : r[k] \in M
  BY <1>1, ElementOfSeq
<1>3. /\ SubSeq(r, 1, Len(q)) \in Seq(M) /\ Len(SubSeq(r, 1, Len(q))) = Len(q)
      /\ \A k \in 1 .. Len(q) : SubSeq(r, 1, Len(q))[k] = r[k]
  BY <1>1, <1>2, SubSeqProperties
<1>4. SubSeq(r, 1, Len(q)) = q
  BY <1>1, <1>3, SeqEqual
<1>5. Len(r) - 1 = Len(q)
  BY <1>1
<1> QED BY <1>4, <1>5 DEF r, Tree!Front

\* Who is whose child.
LEMMA FamilyTies ==
  /\ Append(Main, 1) = First /\ Append(Main, 2) = Second
  /\ Append(First, 1) = Third /\ Append(First, 2) = Fourth /\ Append(Second, 1) = Fifth
  /\ Tree!Front(First) = Main /\ Tree!Front(Second) = Main
  /\ Tree!Front(Third) = First /\ Tree!Front(Fourth) = First /\ Tree!Front(Fifth) = Second
<1> DEFINE W == Seq({1, 2})
<1>1. Main \in W /\ First \in W /\ Second \in W /\ Third \in W /\ Fourth \in W /\ Fifth \in W
  BY DEF Main, First, Second, Third, Fourth, Fifth
<1>2. ASSUME NEW q \in W, NEW e \in {1, 2}, NEW r \in W, Len(r) = Len(q) + 1,
             \A k \in 1 .. Len(q) : r[k] = q[k], r[Len(q) + 1] = e
      PROVE  Append(q, e) = r
  <2>1. /\ Append(q, e) \in W /\ Len(Append(q, e)) = Len(r) /\ Len(q) \in Nat
        /\ \A k \in 1 .. Len(q) : Append(q, e)[k] = q[k]
        /\ Append(q, e)[Len(q) + 1] = e
    BY <1>2, AppendProperties, LenProperties
  <2>2. \A k \in 1 .. Len(r) : Append(q, e)[k] = r[k]
    BY <1>2, <2>1
  <2> QED BY <2>1, <2>2, SeqEqual
<1>3. Append(Main, 1) = First /\ Append(Main, 2) = Second
  BY <1>1, <1>2 DEF Main, First, Second
<1>4. /\ Len(First) = 1 /\ Len(Second) = 1 /\ Len(Third) = 2 /\ Len(Fourth) = 2 /\ Len(Fifth) = 2
      /\ First[1] = 1 /\ Second[1] = 2
      /\ Third[1] = 1 /\ Third[2] = 1 /\ Fourth[1] = 1 /\ Fourth[2] = 2 /\ Fifth[1] = 2 /\ Fifth[2] = 1
  BY DEF First, Second, Third, Fourth, Fifth
<1>5. Append(First, 1) = Third /\ Append(First, 2) = Fourth /\ Append(Second, 1) = Fifth
  <2>1. Append(First, 1) = Third
    <3>1. /\ Len(Third) = Len(First) + 1 /\ \A k \in 1 .. Len(First) : Third[k] = First[k]
          /\ Third[Len(First) + 1] = 1
      BY <1>4
    <3> QED BY <3>1, <1>1, <1>2
  <2>2. Append(First, 2) = Fourth
    <3>1. /\ Len(Fourth) = Len(First) + 1 /\ \A k \in 1 .. Len(First) : Fourth[k] = First[k]
          /\ Fourth[Len(First) + 1] = 2
      BY <1>4
    <3> QED BY <3>1, <1>1, <1>2
  <2>3. Append(Second, 1) = Fifth
    <3>1. /\ Len(Fifth) = Len(Second) + 1 /\ \A k \in 1 .. Len(Second) : Fifth[k] = Second[k]
          /\ Fifth[Len(Second) + 1] = 1
      BY <1>4
    <3> QED BY <3>1, <1>1, <1>2
  <2> QED BY <2>1, <2>2, <2>3
<1>6. \A q \in W, e \in {1, 2} : Tree!Front(Append(q, e)) = q
  BY FrontOfAppend
<1>7. 1 \in {1, 2} /\ 2 \in {1, 2}
  OBVIOUS
<1> HIDE DEF W
<1> QED BY <1>1, <1>3, <1>5, <1>6, <1>7

\* Where a process can be, and its record.
TreePlaces  == {"none", "main", "main2", "create", "wait", "last", "exit", "zombie", "reaped"}
Leaves  == {"none", "exit", "zombie", "reaped"}
TreeRecords == [at : TreePlaces, i : 0 .. 2, n : 0 .. 2, back : {"exit", "last"}]

\* The type invariant; no process outside the family is ever forked.
TreeTypes ==
  /\ tree \in BOOLEAN /\ short \in BOOLEAN
  /\ proc \in [Tree!Processes -> TreeRecords]
  /\ \A p \in Tree!Processes : proc[p].i <= proc[p].n
  /\ \A p \in Tree!Processes \ Family : proc[p].at = "none"
  /\ proc[Third].at \in Leaves /\ proc[Fourth].at \in Leaves /\ proc[Fifth].at \in Leaves \cup {"last"}

\* main has forked whom its place says, and ends after a wait.
MainRow ==
  /\ proc[Main].at \in {"main", "main2", "last", "exit", "zombie"}
  /\ proc[Main].at = "main" => proc[First].at = "none" /\ proc[Second].at = "none"
  /\ proc[Main].at = "main2" => tree /\ proc[First].at # "none" /\ proc[Second].at = "none"
  /\ proc[Main].at \in {"last", "exit", "zombie"} /\ ~short =>
       proc[First].at # "none" /\ (tree => proc[Second].at # "none")
  /\ proc[Main].at \in {"exit", "zombie"} /\ ~short =>
       proc[First].at = "reaped" \/ (tree /\ proc[Second].at = "reaped")

\* Process 1 has forked as many children as its loop counter says, and then has
\* reaped as many.
FirstRow ==
  /\ proc[First].at \in Leaves \cup (IF tree THEN {"create", "wait"} ELSE {})
  /\ ~tree \/ proc[First].at = "none" => proc[Third].at = "none" /\ proc[Fourth].at = "none"
  /\ proc[First].at = "create" =>
        /\ proc[First].n = 2 /\ proc[First].back = "exit"
        /\ proc[Third].at # "none" <=> proc[First].i >= 1
        /\ proc[Fourth].at # "none" <=> proc[First].i >= 2
        /\ proc[Third].at # "reaped" /\ proc[Fourth].at # "reaped"
  /\ proc[First].at = "wait" =>
        /\ proc[First].n = 2 /\ proc[First].back = "exit"
        /\ proc[Third].at # "none" /\ proc[Fourth].at # "none"
       /\ \/ proc[First].i = 0 /\ proc[Third].at # "reaped" /\ proc[Fourth].at # "reaped"
          \/ proc[First].i = 1 /\ (proc[Third].at = "reaped" <=> proc[Fourth].at # "reaped")
  /\ proc[First].at \in {"exit", "zombie", "reaped"} /\ tree /\ ~short =>
       proc[Third].at = "reaped" /\ proc[Fourth].at = "reaped"

\* So has process 2, with its one child.
SecondRow ==
  /\ proc[Second].at \in Leaves \cup {"create", "wait", "last"}
  /\ ~tree => proc[Second].at = "none"
  /\ proc[Second].at = "none" => proc[Fifth].at = "none"
  /\ proc[Second].at = "create" =>
        /\ proc[Second].n = 1 /\ proc[Second].back = "last"
        /\ proc[Fifth].at # "none" <=> proc[Second].i = 1
        /\ proc[Fifth].at # "reaped"
  /\ proc[Second].at = "wait" =>
        /\ proc[Second].i = 0 /\ proc[Second].n = 1 /\ proc[Second].back = "last"
        /\ proc[Fifth].at \notin {"none", "reaped"}
  /\ proc[Second].at \in {"last", "exit", "zombie", "reaped"} /\ ~short => proc[Fifth].at = "reaped"

\* The inductive invariant of the process trees.
TreeInv == TreeTypes /\ MainRow /\ FirstRow /\ SecondRow

\* It holds when main starts.
LEMMA TreeStarts == Tree!Init => TreeInv
<1> SUFFICES ASSUME Tree!Init PROVE TreeInv
  OBVIOUS
<1>0. proc = [p \in Tree!Processes |-> Tree!At(IF p = Main THEN "main" ELSE "none")]
  BY DEF Tree!Init, Main
<1>1. \A p \in Tree!Processes : proc[p] = IF p = Main THEN Tree!At("main") ELSE Tree!At("none")
  BY <1>0
<1>2. /\ Tree!At("main") \in TreeRecords /\ Tree!At("none") \in TreeRecords
      /\ Tree!At("main").at = "main" /\ Tree!At("none").at = "none"
      /\ Tree!At("main").i = 0 /\ Tree!At("none").i = 0 /\ Tree!At("main").n = 0 /\ Tree!At("none").n = 0
  BY DEF Tree!At, TreeRecords, TreePlaces
<1>3. /\ proc \in [Tree!Processes -> TreeRecords]
      /\ \A p \in Tree!Processes : proc[p].i = 0 /\ proc[p].n = 0
      /\ \A p \in Tree!Processes : proc[p].at = IF p = Main THEN "main" ELSE "none"
  <2>1. \A p \in Tree!Processes : proc[p] \in TreeRecords
    BY <1>1, <1>2
  <2>2. proc \in [Tree!Processes -> TreeRecords]
    BY <1>0, <2>1
  <2>3. \A p \in Tree!Processes : proc[p].i = 0 /\ proc[p].n = 0
    BY <1>1, <1>2
  <2>4. \A p \in Tree!Processes : proc[p].at = IF p = Main THEN "main" ELSE "none"
    BY <1>1, <1>2
  <2> QED BY <2>2, <2>3, <2>4
<1>4. TreeTypes
  <2>1. tree \in BOOLEAN /\ short \in BOOLEAN
    BY DEF Tree!Init
  <2>2. \A p \in Tree!Processes : proc[p].i <= proc[p].n
    BY <1>3
  <2>3. \A p \in Tree!Processes \ Family : proc[p].at = "none"
    BY <1>3, FamilyNames DEF Family
  <2>4. proc[Third].at = "none" /\ proc[Fourth].at = "none" /\ proc[Fifth].at = "none"
    BY <1>3, FamilyNames DEF Family
  <2> QED BY <1>3, <2>1, <2>2, <2>3, <2>4 DEF TreeTypes, Leaves
<1>5. MainRow /\ FirstRow /\ SecondRow
  BY <1>3, FamilyNames DEF MainRow, FirstRow, SecondRow, Leaves, Family
<1> QED BY <1>4, <1>5 DEF TreeInv

\* The children of each process that are there.
LEMMA KidsOf == ASSUME TreeInv
  PROVE /\ Tree!Kids(Main) = {q \in {First, Second} : proc[q].at \notin {"none", "reaped"}}
        /\ Tree!Kids(First) = {q \in {Third, Fourth} : proc[q].at \notin {"none", "reaped"}}
        /\ Tree!Kids(Second) = {q \in {Fifth} : proc[q].at \notin {"none", "reaped"}}
        /\ Tree!Kids(Fifth) = {}
<1>1. \A q \in Tree!Processes : proc[q].at \notin {"none", "reaped"} => q \in Family
  BY DEF TreeInv, TreeTypes
<1>2. \A p : Tree!Kids(p) = {q \in Family \ {Main} : Tree!Front(q) = p /\ proc[q].at \notin {"none", "reaped"}}
  BY <1>1, FamilyNames DEF Tree!Kids, Main
<1>3. Family \ {Main} = {First, Second, Third, Fourth, Fifth}
  BY FamilyNames DEF Family
<1> QED BY <1>2, <1>3, FamilyNames, FamilyTies, SMTT(30)

\* Who can be where.
LEMMA OfTheFamily == ASSUME TreeInv, NEW p \in Tree!Processes
  PROVE /\ proc[p].at \in {"main", "main2"} => p = Main
        /\ proc[p].at = "create" => p \in {First, Second}
        /\ proc[p].at = "wait" => p \in {First, Second}
        /\ proc[p].at = "last" => p \in {Main, Second, Fifth}
        /\ proc[p].at # "none" => p \in Family
BY FamilyNames DEF TreeInv, TreeTypes, MainRow, FirstRow, SecondRow, Leaves, Family

\* The records a process gets.
LEMMA PlaceFields ==
  /\ \A place \in TreePlaces :
       /\ Tree!At(place) \in TreeRecords /\ Tree!At(place).at = place
       /\ Tree!At(place).i = 0 /\ Tree!At(place).n = 0 /\ Tree!At(place).back = "exit"
  /\ \A n \in 0 .. 2, back \in {"exit", "last"} :
       /\ Tree!Call(n, back) \in TreeRecords /\ Tree!Call(n, back).at = "create"
       /\ Tree!Call(n, back).i = 0 /\ Tree!Call(n, back).n = n /\ Tree!Call(n, back).back = back
BY DEF Tree!At, Tree!Call, TreeRecords, TreePlaces

\* A step that changes the records of two processes of the family, or of one.
LEMMA TwoMoved ==
  ASSUME TreeInv, NEW p \in Family, NEW q \in Family \ {p}, NEW a \in TreeRecords, NEW b \in TreeRecords,
         a.i <= a.n, b.i <= b.n, proc' = [proc EXCEPT ![p] = a, ![q] = b]
  PROVE  /\ proc' \in [Tree!Processes -> TreeRecords] /\ proc'[p] = a /\ proc'[q] = b
         /\ \A r \in Tree!Processes \ {p, q} : proc'[r] = proc[r]
         /\ \A r \in Tree!Processes : proc'[r].i <= proc'[r].n
         /\ \A r \in Tree!Processes \ Family : proc'[r].at = "none"
<1>1. p \in Tree!Processes /\ q \in Tree!Processes /\ p # q
  BY FamilyNames
<1>2. proc \in [Tree!Processes -> TreeRecords]
  BY DEF TreeInv, TreeTypes
<1>3. /\ proc' \in [Tree!Processes -> TreeRecords] /\ proc'[p] = a /\ proc'[q] = b
      /\ \A r \in Tree!Processes \ {p, q} : proc'[r] = proc[r]
  BY <1>1, <1>2
<1>4. \A r \in Tree!Processes : proc'[r].i <= proc'[r].n
  BY <1>1, <1>3 DEF TreeInv, TreeTypes
<1>5. \A r \in Tree!Processes \ Family : proc'[r].at = "none"
  BY <1>1, <1>3 DEF TreeInv, TreeTypes
<1> QED BY <1>3, <1>4, <1>5

LEMMA OneMoved ==
  ASSUME TreeInv, NEW p \in Family, NEW a \in TreeRecords, a.i <= a.n, proc' = [proc EXCEPT ![p] = a]
  PROVE  /\ proc' \in [Tree!Processes -> TreeRecords] /\ proc'[p] = a
         /\ \A r \in Tree!Processes \ {p} : proc'[r] = proc[r]
         /\ \A r \in Tree!Processes : proc'[r].i <= proc'[r].n
         /\ \A r \in Tree!Processes \ Family : proc'[r].at = "none"
<1>1. p \in Tree!Processes
  BY FamilyNames
<1>2. proc \in [Tree!Processes -> TreeRecords]
  BY DEF TreeInv, TreeTypes
<1>3. /\ proc' \in [Tree!Processes -> TreeRecords] /\ proc'[p] = a
      /\ \A r \in Tree!Processes \ {p} : proc'[r] = proc[r]
  BY <1>1, <1>2
<1>4. \A r \in Tree!Processes : proc'[r].i <= proc'[r].n
  BY <1>1, <1>3 DEF TreeInv, TreeTypes
<1>5. \A r \in Tree!Processes \ Family : proc'[r].at = "none"
  BY <1>1, <1>3 DEF TreeInv, TreeTypes
<1> QED BY <1>3, <1>4, <1>5

\* The steps of a process keep the invariant: main forks process 1 and process 2,
LEMMA FirstForked == ASSUME TreeInv, NEW p \in Tree!Processes, Tree!ForkFirst(p) PROVE TreeInv'
<1>0. TreeTypes /\ MainRow /\ FirstRow /\ SecondRow
  BY DEF TreeInv
<1>1. p = Main /\ proc[Main].at = "main"
  BY OfTheFamily DEF Tree!ForkFirst
<1> DEFINE a == Tree!At(IF tree THEN "main2" ELSE "last")
           b == IF tree THEN Tree!Call(2, "exit") ELSE Tree!At("exit")
<1>2. proc' = [proc EXCEPT ![Main] = a, ![First] = b] /\ tree' = tree /\ short' = short
  BY <1>1, FamilyTies DEF Tree!ForkFirst, Tree!Forks
<1>3. /\ a \in TreeRecords /\ a.i = 0 /\ a.n = 0 /\ a.at = (IF tree THEN "main2" ELSE "last")
      /\ b \in TreeRecords /\ b.i = 0 /\ b.n = (IF tree THEN 2 ELSE 0) /\ b.back = "exit"
      /\ b.at = (IF tree THEN "create" ELSE "exit")
  BY PlaceFields DEF TreePlaces
<1> HIDE DEF a, b
<1>4. Main \in Family /\ First \in Family \ {Main} /\ a.i <= a.n /\ b.i <= b.n
  BY <1>3, FamilyNames DEF Family
<1>5. /\ proc' \in [Tree!Processes -> TreeRecords] /\ proc'[Main] = a /\ proc'[First] = b
      /\ \A r \in Tree!Processes \ {Main, First} : proc'[r] = proc[r]
      /\ \A r \in Tree!Processes : proc'[r].i <= proc'[r].n
      /\ \A r \in Tree!Processes \ Family : proc'[r].at = "none"
  BY <1>2, <1>3, <1>4, TwoMoved
<1>6. /\ proc'[Second] = proc[Second] /\ proc'[Third] = proc[Third] /\ proc'[Fourth] = proc[Fourth]
      /\ proc'[Fifth] = proc[Fifth]
  BY <1>5, FamilyNames DEF Family
<1>7. TreeTypes'
  BY <1>0, <1>2, <1>5, <1>6 DEF TreeTypes
<1>8. MainRow' /\ FirstRow' /\ SecondRow'
  BY <1>0, <1>1, <1>2, <1>3, <1>5, <1>6 DEF MainRow, FirstRow, SecondRow, Leaves
<1> QED BY <1>7, <1>8 DEF TreeInv

LEMMA SecondForked == ASSUME TreeInv, NEW p \in Tree!Processes, Tree!ForkSecond(p) PROVE TreeInv'
<1>0. TreeTypes /\ MainRow /\ FirstRow /\ SecondRow
  BY DEF TreeInv
<1>1. p = Main /\ proc[Main].at = "main2"
  BY OfTheFamily DEF Tree!ForkSecond
<1> DEFINE a == Tree!At("last")
           b == Tree!Call(1, "last")
<1>2. proc' = [proc EXCEPT ![Main] = a, ![Second] = b] /\ tree' = tree /\ short' = short
  BY <1>1, FamilyTies DEF Tree!ForkSecond, Tree!Forks
<1>3. /\ a \in TreeRecords /\ a.i = 0 /\ a.n = 0 /\ a.at = "last"
      /\ b \in TreeRecords /\ b.i = 0 /\ b.n = 1 /\ b.back = "last" /\ b.at = "create"
  BY PlaceFields DEF TreePlaces
<1> HIDE DEF a, b
<1>4. Main \in Family /\ Second \in Family \ {Main} /\ a.i <= a.n /\ b.i <= b.n
  BY <1>3, FamilyNames DEF Family
<1>5. /\ proc' \in [Tree!Processes -> TreeRecords] /\ proc'[Main] = a /\ proc'[Second] = b
      /\ \A r \in Tree!Processes \ {Main, Second} : proc'[r] = proc[r]
      /\ \A r \in Tree!Processes : proc'[r].i <= proc'[r].n
      /\ \A r \in Tree!Processes \ Family : proc'[r].at = "none"
  BY <1>2, <1>3, <1>4, TwoMoved
<1>6. /\ proc'[First] = proc[First] /\ proc'[Third] = proc[Third] /\ proc'[Fourth] = proc[Fourth]
      /\ proc'[Fifth] = proc[Fifth]
  BY <1>5, FamilyNames DEF Family
<1>7. TreeTypes'
  BY <1>0, <1>2, <1>5, <1>6 DEF TreeTypes
<1>8. MainRow' /\ FirstRow' /\ SecondRow'
  BY <1>0, <1>1, <1>2, <1>3, <1>5, <1>6 DEF MainRow, FirstRow, SecondRow, Leaves
<1> QED BY <1>7, <1>8 DEF TreeInv

\* create_process forks a child,
LEMMA LoopForked == ASSUME TreeInv, NEW p \in Tree!Processes, Tree!create_process(p) PROVE TreeInv'
<1>0. TreeTypes /\ MainRow /\ FirstRow /\ SecondRow /\ proc[p] \in TreeRecords
  BY DEF TreeInv, TreeTypes
<1> DEFINE a == [proc[p] EXCEPT !.i = @ + 1]
           b == Tree!At(proc[p].back)
<1>1. /\ proc[p].at = "create" /\ proc[p].i < proc[p].n /\ tree' = tree /\ short' = short
      /\ proc' = [proc EXCEPT ![p] = a, ![Append(p, proc[p].i + 1)] = b]
  BY DEF Tree!create_process, Tree!ForkInLoop, Tree!Forks
<1>2. /\ a \in TreeRecords /\ a.i = proc[p].i + 1 /\ a.n = proc[p].n /\ a.at = "create" /\ a.back = proc[p].back
  BY <1>0, <1>1 DEF TreeRecords
<1>3. b \in TreeRecords /\ b.i = 0 /\ b.n = 0 /\ b.at = proc[p].back /\ proc[p].back \in TreePlaces
  BY <1>0, PlaceFields DEF TreePlaces, TreeRecords
<1> HIDE DEF a, b
<1>4. a.i <= a.n /\ b.i <= b.n
  BY <1>0, <1>1, <1>2, <1>3 DEF TreeRecords
<1>5. CASE p = First
  <2>1. proc[First].n = 2 /\ proc[First].back = "exit" /\ proc[First].i \in {0, 1} /\ tree
    BY <1>0, <1>1, <1>5 DEF FirstRow, Leaves, TreeRecords
  <2>2. CASE proc[First].i = 0
    <3>1. proc' = [proc EXCEPT ![First] = a, ![Third] = b] /\ First \in Family /\ Third \in Family \ {First}
      <4>1. proc[p].i + 1 = 1
        BY <1>5, <2>2
      <4>2. Append(p, proc[p].i + 1) = Third
        BY <1>5, <4>1, FamilyTies
      <4>3. First \in Family /\ Third \in Family \ {First}
        BY FamilyNames DEF Family
      <4> QED BY <1>1, <1>5, <4>2, <4>3
    <3>2. /\ proc' \in [Tree!Processes -> TreeRecords] /\ proc'[First] = a /\ proc'[Third] = b
          /\ \A r \in Tree!Processes \ {First, Third} : proc'[r] = proc[r]
          /\ \A r \in Tree!Processes : proc'[r].i <= proc'[r].n
          /\ \A r \in Tree!Processes \ Family : proc'[r].at = "none"
      BY <1>2, <1>3, <1>4, <3>1, TwoMoved
    <3>3. /\ proc'[Main] = proc[Main] /\ proc'[Second] = proc[Second] /\ proc'[Fourth] = proc[Fourth]
          /\ proc'[Fifth] = proc[Fifth]
      BY <3>2, FamilyNames DEF Family
    <3>4. TreeTypes'
      BY <1>0, <1>1, <1>3, <1>5, <2>1, <3>2, <3>3 DEF TreeTypes, Leaves
    <3>5. MainRow' /\ FirstRow' /\ SecondRow'
      BY <1>0, <1>1, <1>2, <1>3, <1>5, <2>1, <2>2, <3>2, <3>3 DEF MainRow, FirstRow, SecondRow, Leaves
    <3> QED BY <3>4, <3>5 DEF TreeInv
  <2>3. CASE proc[First].i = 1
    <3>1. proc' = [proc EXCEPT ![First] = a, ![Fourth] = b] /\ First \in Family /\ Fourth \in Family \ {First}
      <4>1. proc[p].i + 1 = 2
        BY <1>5, <2>3
      <4>2. Append(p, proc[p].i + 1) = Fourth
        BY <1>5, <4>1, FamilyTies
      <4>3. First \in Family /\ Fourth \in Family \ {First}
        BY FamilyNames DEF Family
      <4> QED BY <1>1, <1>5, <4>2, <4>3
    <3>2. /\ proc' \in [Tree!Processes -> TreeRecords] /\ proc'[First] = a /\ proc'[Fourth] = b
          /\ \A r \in Tree!Processes \ {First, Fourth} : proc'[r] = proc[r]
          /\ \A r \in Tree!Processes : proc'[r].i <= proc'[r].n
          /\ \A r \in Tree!Processes \ Family : proc'[r].at = "none"
      BY <1>2, <1>3, <1>4, <3>1, TwoMoved
    <3>3. /\ proc'[Main] = proc[Main] /\ proc'[Second] = proc[Second] /\ proc'[Third] = proc[Third]
          /\ proc'[Fifth] = proc[Fifth]
      BY <3>2, FamilyNames DEF Family
    <3>4. TreeTypes'
      BY <1>0, <1>1, <1>3, <1>5, <2>1, <3>2, <3>3 DEF TreeTypes, Leaves
    <3>5. MainRow' /\ FirstRow' /\ SecondRow'
      BY <1>0, <1>1, <1>2, <1>3, <1>5, <2>1, <2>3, <3>2, <3>3 DEF MainRow, FirstRow, SecondRow, Leaves
    <3> QED BY <3>4, <3>5 DEF TreeInv
  <2> QED BY <2>1, <2>2, <2>3
<1>6. CASE p = Second
  <2>1. proc[Second].n = 1 /\ proc[Second].back = "last" /\ proc[Second].i = 0 /\ tree
    BY <1>0, <1>1, <1>6 DEF SecondRow, Leaves, TreeRecords
  <2>2. proc' = [proc EXCEPT ![Second] = a, ![Fifth] = b] /\ Second \in Family /\ Fifth \in Family \ {Second}
    <3>1. proc[p].i + 1 = 1
      BY <1>6, <2>1
    <3>2. Append(p, proc[p].i + 1) = Fifth
      BY <1>6, <3>1, FamilyTies
    <3>3. Second \in Family /\ Fifth \in Family \ {Second}
      BY FamilyNames DEF Family
    <3> QED BY <1>1, <1>6, <3>2, <3>3
  <2>3. /\ proc' \in [Tree!Processes -> TreeRecords] /\ proc'[Second] = a /\ proc'[Fifth] = b
        /\ \A r \in Tree!Processes \ {Second, Fifth} : proc'[r] = proc[r]
        /\ \A r \in Tree!Processes : proc'[r].i <= proc'[r].n
        /\ \A r \in Tree!Processes \ Family : proc'[r].at = "none"
    BY <1>2, <1>3, <1>4, <2>2, TwoMoved
  <2>4. /\ proc'[Main] = proc[Main] /\ proc'[First] = proc[First] /\ proc'[Third] = proc[Third]
        /\ proc'[Fourth] = proc[Fourth]
    BY <2>3, FamilyNames DEF Family
  <2>5. TreeTypes'
    BY <1>0, <1>1, <1>3, <1>6, <2>1, <2>3, <2>4 DEF TreeTypes, Leaves
  <2>6. MainRow' /\ FirstRow' /\ SecondRow'
    BY <1>0, <1>1, <1>2, <1>3, <1>6, <2>1, <2>3, <2>4 DEF MainRow, FirstRow, SecondRow, Leaves
  <2> QED BY <2>5, <2>6 DEF TreeInv
<1> QED BY <1>1, <1>5, <1>6, OfTheFamily

\* its loop ends,
LEMMA LoopLeft == ASSUME TreeInv, NEW p \in Tree!Processes, Tree!AllForked(p) PROVE TreeInv'
<1>0. TreeTypes /\ MainRow /\ FirstRow /\ SecondRow /\ proc[p] \in TreeRecords
  BY DEF TreeInv, TreeTypes
<1> DEFINE b == [proc[p] EXCEPT !.at = "wait"]
           a == [b EXCEPT !.i = 0]
<1>1. /\ proc[p].at = "create" /\ proc[p].i = proc[p].n /\ tree' = tree /\ short' = short
      /\ proc' = [proc EXCEPT ![p] = a]
  BY <1>0 DEF Tree!AllForked, TreeTypes
<1>2. a \in TreeRecords /\ a.i = 0 /\ a.n = proc[p].n /\ a.at = "wait" /\ a.back = proc[p].back /\ a.i <= a.n
  <2>1. b \in TreeRecords /\ b.n = proc[p].n /\ b.at = "wait" /\ b.back = proc[p].back
    BY <1>0 DEF TreeRecords, TreePlaces
  <2> HIDE DEF b
  <2>2. a \in TreeRecords /\ a.i = 0 /\ a.n = b.n /\ a.at = b.at /\ a.back = b.back
    BY <2>1 DEF TreeRecords
  <2>3. proc[p].n \in 0 .. 2
    BY <1>0 DEF TreeRecords
  <2> HIDE DEF a
  <2> QED BY <2>1, <2>2, <2>3
<1> HIDE DEF a
<1>3. CASE p = First
  <2>1. proc' = [proc EXCEPT ![First] = a] /\ First \in Family
    BY <1>3, <1>1, FamilyNames DEF Family
  <2>2. /\ proc' \in [Tree!Processes -> TreeRecords] /\ proc'[First] = a
        /\ \A r \in Tree!Processes \ {First} : proc'[r] = proc[r]
        /\ \A r \in Tree!Processes : proc'[r].i <= proc'[r].n
        /\ \A r \in Tree!Processes \ Family : proc'[r].at = "none"
    BY <1>2, <2>1, OneMoved
  <2>3. /\ proc'[Main] = proc[Main] /\ proc'[Second] = proc[Second] /\ proc'[Third] = proc[Third]
        /\ proc'[Fourth] = proc[Fourth] /\ proc'[Fifth] = proc[Fifth]
    BY <2>2, FamilyNames DEF Family
  <2>4. TreeTypes'
    BY <1>0, <1>3, <1>1, <1>2, <2>2, <2>3 DEF TreeTypes, Leaves
  <2>5. MainRow' /\ FirstRow' /\ SecondRow'
    BY <1>0, <1>3, <1>1, <1>2, <2>2, <2>3 DEF MainRow, FirstRow, SecondRow, Leaves
  <2> QED BY <2>4, <2>5 DEF TreeInv
<1>4. CASE p = Second
  <2>1. proc' = [proc EXCEPT ![Second] = a] /\ Second \in Family
    BY <1>4, <1>1, FamilyNames DEF Family
  <2>2. /\ proc' \in [Tree!Processes -> TreeRecords] /\ proc'[Second] = a
        /\ \A r \in Tree!Processes \ {Second} : proc'[r] = proc[r]
        /\ \A r \in Tree!Processes : proc'[r].i <= proc'[r].n
        /\ \A r \in Tree!Processes \ Family : proc'[r].at = "none"
    BY <1>2, <2>1, OneMoved
  <2>3. /\ proc'[Main] = proc[Main] /\ proc'[First] = proc[First] /\ proc'[Third] = proc[Third]
        /\ proc'[Fourth] = proc[Fourth] /\ proc'[Fifth] = proc[Fifth]
    BY <2>2, FamilyNames DEF Family
  <2>4. TreeTypes'
    BY <1>0, <1>4, <1>1, <1>2, <2>2, <2>3 DEF TreeTypes, Leaves
  <2>5. MainRow' /\ FirstRow' /\ SecondRow'
    BY <1>0, <1>4, <1>1, <1>2, <2>2, <2>3 DEF MainRow, FirstRow, SecondRow, Leaves
  <2> QED BY <2>4, <2>5 DEF TreeInv
<1> QED BY <1>1, <1>3, <1>4, OfTheFamily

\* a fork fails,
LEMMA TreeForkFailed == ASSUME TreeInv, NEW p \in Tree!Processes, Tree!ForkFails(p) PROVE TreeInv'
<1>0. TreeTypes /\ MainRow /\ FirstRow /\ SecondRow /\ proc[p] \in TreeRecords
  BY DEF TreeInv, TreeTypes
<1> DEFINE a == [proc[p] EXCEPT !.at = IF proc[p].at = "create" THEN proc[p].back ELSE "exit"]
<1>1. /\ proc[p].at \in {"main", "main2", "create"} /\ tree' = tree /\ short' = TRUE
      /\ proc' = [proc EXCEPT ![p] = a]
  BY <1>0 DEF Tree!ForkFails, TreeTypes
<1>2. /\ a \in TreeRecords /\ a.i = proc[p].i /\ a.n = proc[p].n /\ a.back = proc[p].back
      /\ a.at = (IF proc[p].at = "create" THEN proc[p].back ELSE "exit") /\ a.i <= a.n
  BY <1>0 DEF TreeRecords, TreePlaces, TreeTypes
<1> HIDE DEF a
<1>3. CASE p = Main
  <2>1. proc' = [proc EXCEPT ![Main] = a] /\ Main \in Family
    BY <1>3, <1>1, FamilyNames DEF Family
  <2>2. /\ proc' \in [Tree!Processes -> TreeRecords] /\ proc'[Main] = a
        /\ \A r \in Tree!Processes \ {Main} : proc'[r] = proc[r]
        /\ \A r \in Tree!Processes : proc'[r].i <= proc'[r].n
        /\ \A r \in Tree!Processes \ Family : proc'[r].at = "none"
    BY <1>2, <2>1, OneMoved
  <2>3. /\ proc'[First] = proc[First] /\ proc'[Second] = proc[Second] /\ proc'[Third] = proc[Third]
        /\ proc'[Fourth] = proc[Fourth] /\ proc'[Fifth] = proc[Fifth]
    BY <2>2, FamilyNames DEF Family
  <2>4. TreeTypes'
    BY <1>0, <1>3, <1>1, <1>2, <2>2, <2>3 DEF TreeTypes, Leaves
  <2>5. MainRow' /\ FirstRow' /\ SecondRow'
    BY <1>0, <1>3, <1>1, <1>2, <2>2, <2>3 DEF MainRow, FirstRow, SecondRow, Leaves
  <2> QED BY <2>4, <2>5 DEF TreeInv
<1>4. CASE p = First
  <2>1. proc' = [proc EXCEPT ![First] = a] /\ First \in Family
    BY <1>4, <1>1, FamilyNames DEF Family
  <2>2. /\ proc' \in [Tree!Processes -> TreeRecords] /\ proc'[First] = a
        /\ \A r \in Tree!Processes \ {First} : proc'[r] = proc[r]
        /\ \A r \in Tree!Processes : proc'[r].i <= proc'[r].n
        /\ \A r \in Tree!Processes \ Family : proc'[r].at = "none"
    BY <1>2, <2>1, OneMoved
  <2>3. /\ proc'[Main] = proc[Main] /\ proc'[Second] = proc[Second] /\ proc'[Third] = proc[Third]
        /\ proc'[Fourth] = proc[Fourth] /\ proc'[Fifth] = proc[Fifth]
    BY <2>2, FamilyNames DEF Family
  <2>4. TreeTypes'
    BY <1>0, <1>4, <1>1, <1>2, <2>2, <2>3 DEF TreeTypes, Leaves
  <2>5. MainRow' /\ FirstRow' /\ SecondRow'
    BY <1>0, <1>4, <1>1, <1>2, <2>2, <2>3 DEF MainRow, FirstRow, SecondRow, Leaves
  <2> QED BY <2>4, <2>5 DEF TreeInv
<1>5. CASE p = Second
  <2>1. proc' = [proc EXCEPT ![Second] = a] /\ Second \in Family
    BY <1>5, <1>1, FamilyNames DEF Family
  <2>2. /\ proc' \in [Tree!Processes -> TreeRecords] /\ proc'[Second] = a
        /\ \A r \in Tree!Processes \ {Second} : proc'[r] = proc[r]
        /\ \A r \in Tree!Processes : proc'[r].i <= proc'[r].n
        /\ \A r \in Tree!Processes \ Family : proc'[r].at = "none"
    BY <1>2, <2>1, OneMoved
  <2>3. /\ proc'[Main] = proc[Main] /\ proc'[First] = proc[First] /\ proc'[Third] = proc[Third]
        /\ proc'[Fourth] = proc[Fourth] /\ proc'[Fifth] = proc[Fifth]
    BY <2>2, FamilyNames DEF Family
  <2>4. TreeTypes'
    BY <1>0, <1>5, <1>1, <1>2, <2>2, <2>3 DEF TreeTypes, Leaves
  <2>5. MainRow' /\ FirstRow' /\ SecondRow'
    BY <1>0, <1>5, <1>1, <1>2, <2>2, <2>3 DEF MainRow, FirstRow, SecondRow, Leaves
  <2> QED BY <2>4, <2>5 DEF TreeInv
<1> QED BY <1>1, <1>3, <1>4, <1>5, OfTheFamily

\* a process exits,
LEMMA TreeExits == ASSUME TreeInv, NEW p \in Tree!Processes, Tree!Exit(p) PROVE TreeInv'
<1>0. TreeTypes /\ MainRow /\ FirstRow /\ SecondRow /\ proc[p] \in TreeRecords
  BY DEF TreeInv, TreeTypes
<1> DEFINE a == [proc[p] EXCEPT !.at = "zombie"]
<1>1. /\ proc[p].at = "exit" /\ tree' = tree /\ short' = short
      /\ proc' = [proc EXCEPT ![p] = a]
  BY <1>0 DEF Tree!Exit, TreeTypes
<1>2. /\ a \in TreeRecords /\ a.i = proc[p].i /\ a.n = proc[p].n /\ a.back = proc[p].back
      /\ a.at = "zombie" /\ a.i <= a.n
  BY <1>0 DEF TreeRecords, TreePlaces, TreeTypes
<1> HIDE DEF a
<1>3. CASE p = Main
  <2>1. proc' = [proc EXCEPT ![Main] = a] /\ Main \in Family
    BY <1>3, <1>1, FamilyNames DEF Family
  <2>2. /\ proc' \in [Tree!Processes -> TreeRecords] /\ proc'[Main] = a
        /\ \A r \in Tree!Processes \ {Main} : proc'[r] = proc[r]
        /\ \A r \in Tree!Processes : proc'[r].i <= proc'[r].n
        /\ \A r \in Tree!Processes \ Family : proc'[r].at = "none"
    BY <1>2, <2>1, OneMoved
  <2>3. /\ proc'[First] = proc[First] /\ proc'[Second] = proc[Second] /\ proc'[Third] = proc[Third]
        /\ proc'[Fourth] = proc[Fourth] /\ proc'[Fifth] = proc[Fifth]
    BY <2>2, FamilyNames DEF Family
  <2>4. TreeTypes'
    BY <1>0, <1>3, <1>1, <1>2, <2>2, <2>3 DEF TreeTypes, Leaves
  <2>5. MainRow' /\ FirstRow' /\ SecondRow'
    BY <1>0, <1>3, <1>1, <1>2, <2>2, <2>3 DEF MainRow, FirstRow, SecondRow, Leaves
  <2> QED BY <2>4, <2>5 DEF TreeInv
<1>4. CASE p = First
  <2>1. proc' = [proc EXCEPT ![First] = a] /\ First \in Family
    BY <1>4, <1>1, FamilyNames DEF Family
  <2>2. /\ proc' \in [Tree!Processes -> TreeRecords] /\ proc'[First] = a
        /\ \A r \in Tree!Processes \ {First} : proc'[r] = proc[r]
        /\ \A r \in Tree!Processes : proc'[r].i <= proc'[r].n
        /\ \A r \in Tree!Processes \ Family : proc'[r].at = "none"
    BY <1>2, <2>1, OneMoved
  <2>3. /\ proc'[Main] = proc[Main] /\ proc'[Second] = proc[Second] /\ proc'[Third] = proc[Third]
        /\ proc'[Fourth] = proc[Fourth] /\ proc'[Fifth] = proc[Fifth]
    BY <2>2, FamilyNames DEF Family
  <2>4. TreeTypes'
    BY <1>0, <1>4, <1>1, <1>2, <2>2, <2>3 DEF TreeTypes, Leaves
  <2>5. MainRow' /\ FirstRow' /\ SecondRow'
    BY <1>0, <1>4, <1>1, <1>2, <2>2, <2>3 DEF MainRow, FirstRow, SecondRow, Leaves
  <2> QED BY <2>4, <2>5 DEF TreeInv
<1>5. CASE p = Second
  <2>1. proc' = [proc EXCEPT ![Second] = a] /\ Second \in Family
    BY <1>5, <1>1, FamilyNames DEF Family
  <2>2. /\ proc' \in [Tree!Processes -> TreeRecords] /\ proc'[Second] = a
        /\ \A r \in Tree!Processes \ {Second} : proc'[r] = proc[r]
        /\ \A r \in Tree!Processes : proc'[r].i <= proc'[r].n
        /\ \A r \in Tree!Processes \ Family : proc'[r].at = "none"
    BY <1>2, <2>1, OneMoved
  <2>3. /\ proc'[Main] = proc[Main] /\ proc'[First] = proc[First] /\ proc'[Third] = proc[Third]
        /\ proc'[Fourth] = proc[Fourth] /\ proc'[Fifth] = proc[Fifth]
    BY <2>2, FamilyNames DEF Family
  <2>4. TreeTypes'
    BY <1>0, <1>5, <1>1, <1>2, <2>2, <2>3 DEF TreeTypes, Leaves
  <2>5. MainRow' /\ FirstRow' /\ SecondRow'
    BY <1>0, <1>5, <1>1, <1>2, <2>2, <2>3 DEF MainRow, FirstRow, SecondRow, Leaves
  <2> QED BY <2>4, <2>5 DEF TreeInv
<1>6. CASE p = Third
  <2>1. proc' = [proc EXCEPT ![Third] = a] /\ Third \in Family
    BY <1>6, <1>1, FamilyNames DEF Family
  <2>2. /\ proc' \in [Tree!Processes -> TreeRecords] /\ proc'[Third] = a
        /\ \A r \in Tree!Processes \ {Third} : proc'[r] = proc[r]
        /\ \A r \in Tree!Processes : proc'[r].i <= proc'[r].n
        /\ \A r \in Tree!Processes \ Family : proc'[r].at = "none"
    BY <1>2, <2>1, OneMoved
  <2>3. /\ proc'[Main] = proc[Main] /\ proc'[First] = proc[First] /\ proc'[Second] = proc[Second]
        /\ proc'[Fourth] = proc[Fourth] /\ proc'[Fifth] = proc[Fifth]
    BY <2>2, FamilyNames DEF Family
  <2>4. TreeTypes'
    BY <1>0, <1>6, <1>1, <1>2, <2>2, <2>3 DEF TreeTypes, Leaves
  <2>5. MainRow' /\ FirstRow' /\ SecondRow'
    BY <1>0, <1>6, <1>1, <1>2, <2>2, <2>3 DEF MainRow, FirstRow, SecondRow, Leaves
  <2> QED BY <2>4, <2>5 DEF TreeInv
<1>7. CASE p = Fourth
  <2>1. proc' = [proc EXCEPT ![Fourth] = a] /\ Fourth \in Family
    BY <1>7, <1>1, FamilyNames DEF Family
  <2>2. /\ proc' \in [Tree!Processes -> TreeRecords] /\ proc'[Fourth] = a
        /\ \A r \in Tree!Processes \ {Fourth} : proc'[r] = proc[r]
        /\ \A r \in Tree!Processes : proc'[r].i <= proc'[r].n
        /\ \A r \in Tree!Processes \ Family : proc'[r].at = "none"
    BY <1>2, <2>1, OneMoved
  <2>3. /\ proc'[Main] = proc[Main] /\ proc'[First] = proc[First] /\ proc'[Second] = proc[Second]
        /\ proc'[Third] = proc[Third] /\ proc'[Fifth] = proc[Fifth]
    BY <2>2, FamilyNames DEF Family
  <2>4. TreeTypes'
    BY <1>0, <1>7, <1>1, <1>2, <2>2, <2>3 DEF TreeTypes, Leaves
  <2>5. MainRow' /\ FirstRow' /\ SecondRow'
    BY <1>0, <1>7, <1>1, <1>2, <2>2, <2>3 DEF MainRow, FirstRow, SecondRow, Leaves
  <2> QED BY <2>4, <2>5 DEF TreeInv
<1>8. CASE p = Fifth
  <2>1. proc' = [proc EXCEPT ![Fifth] = a] /\ Fifth \in Family
    BY <1>8, <1>1, FamilyNames DEF Family
  <2>2. /\ proc' \in [Tree!Processes -> TreeRecords] /\ proc'[Fifth] = a
        /\ \A r \in Tree!Processes \ {Fifth} : proc'[r] = proc[r]
        /\ \A r \in Tree!Processes : proc'[r].i <= proc'[r].n
        /\ \A r \in Tree!Processes \ Family : proc'[r].at = "none"
    BY <1>2, <2>1, OneMoved
  <2>3. /\ proc'[Main] = proc[Main] /\ proc'[First] = proc[First] /\ proc'[Second] = proc[Second]
        /\ proc'[Third] = proc[Third] /\ proc'[Fourth] = proc[Fourth]
    BY <2>2, FamilyNames DEF Family
  <2>4. TreeTypes'
    BY <1>0, <1>8, <1>1, <1>2, <2>2, <2>3 DEF TreeTypes, Leaves
  <2>5. MainRow' /\ FirstRow' /\ SecondRow'
    BY <1>0, <1>8, <1>1, <1>2, <2>2, <2>3 DEF MainRow, FirstRow, SecondRow, Leaves
  <2> QED BY <2>4, <2>5 DEF TreeInv
<1> QED BY <1>1, <1>3, <1>4, <1>5, <1>6, <1>7, <1>8, OfTheFamily DEF Family

\* and wait: what becomes of a process that waits,
LEMMA AfterWaiting == ASSUME TreeInv, NEW p \in Tree!Processes, proc[p].at \in {"wait", "last"}
  PROVE  /\ Tree!AfterWait(p) \in TreeRecords /\ Tree!AfterWait(p).i <= Tree!AfterWait(p).n
         /\ proc[p].at = "last" => Tree!AfterWait(p).at = "exit"
         /\ proc[p].at = "wait" /\ proc[p].i + 1 < proc[p].n =>
              /\ Tree!AfterWait(p).at = "wait" /\ Tree!AfterWait(p).i = proc[p].i + 1
              /\ Tree!AfterWait(p).n = proc[p].n /\ Tree!AfterWait(p).back = proc[p].back
         /\ proc[p].at = "wait" /\ ~(proc[p].i + 1 < proc[p].n) => Tree!AfterWait(p).at = proc[p].back
<1>0. proc[p] \in TreeRecords /\ proc[p].i \in 0 .. 2 /\ proc[p].n \in 0 .. 2 /\ proc[p].back \in {"exit", "last"}
  BY DEF TreeInv, TreeTypes, TreeRecords
<1> DEFINE a == [proc[p] EXCEPT !.i = @ + 1]
<1>1. CASE proc[p].at = "wait" /\ proc[p].i + 1 < proc[p].n
  <2>1. Tree!AfterWait(p) = a
    BY <1>1 DEF Tree!AfterWait
  <2>2. a.at = "wait" /\ a.i = proc[p].i + 1 /\ a.n = proc[p].n /\ a.back = proc[p].back
    BY <1>0, <1>1 DEF TreeRecords
  <2>3. proc[p].i + 1 \in 0 .. 2
    BY <1>0, <1>1
  <2>4. a \in TreeRecords
    BY <1>0, <2>3 DEF TreeRecords
  <2> HIDE DEF a
  <2> QED BY <1>0, <1>1, <2>1, <2>2, <2>3, <2>4
<1>2. CASE proc[p].at = "wait" /\ ~(proc[p].i + 1 < proc[p].n)
  <2>1. Tree!AfterWait(p) = Tree!At(proc[p].back) /\ proc[p].back \in TreePlaces
    BY <1>0, <1>2 DEF Tree!AfterWait, TreePlaces
  <2> QED BY <1>2, <2>1, PlaceFields
<1>3. CASE proc[p].at = "last"
  <2>1. Tree!AfterWait(p) = Tree!At("exit") /\ "exit" \in TreePlaces
    BY <1>3 DEF Tree!AfterWait, TreePlaces
  <2> QED BY <1>3, <2>1, PlaceFields
<1> QED BY <1>1, <1>2, <1>3

\* A child is reaped: its parent goes on as a says.
LEMMA ReapedOne ==
  ASSUME TreeInv, NEW p \in Tree!Processes, proc[p].at \in {"wait", "last"}, NEW q \in Tree!Kids(p),
         proc[q].at = "zombie", NEW a \in TreeRecords, NEW b \in TreeRecords, a.i <= a.n, b.i <= b.n,
         b.at = "reaped", tree' = tree, short' = short,
         proc[p].at = "last" => a.at = "exit",
         proc[p].at = "wait" /\ proc[p].i + 1 < proc[p].n =>
           a.at = "wait" /\ a.i = proc[p].i + 1 /\ a.n = proc[p].n /\ a.back = proc[p].back,
         proc[p].at = "wait" /\ ~(proc[p].i + 1 < proc[p].n) => a.at = proc[p].back,
         q # p => proc' = [proc EXCEPT ![p] = a, ![q] = b]
  PROVE  TreeInv'
<1>0. TreeTypes /\ MainRow /\ FirstRow /\ SecondRow
  BY DEF TreeInv
<1>1. q \in Tree!Processes
  BY DEF Tree!Kids
<1>5. CASE p = Main /\ q = First
  <2>0. p = Main /\ q = First /\ q # p /\ proc' = [proc EXCEPT ![Main] = a, ![First] = b]
    BY <1>5, FamilyNames
  <2>a. proc[Main].at = "last" /\ a.at = "exit"
    BY <1>0, <2>0 DEF MainRow
  <2>b. proc[First].at = "zombie"
    BY <2>0
  <2>1. proc' = [proc EXCEPT ![Main] = a, ![First] = b] /\ Main \in Family /\ First \in Family \ {Main}
    BY <2>0, FamilyNames DEF Family
  <2>2. /\ proc' \in [Tree!Processes -> TreeRecords] /\ proc'[Main] = a /\ proc'[First] = b
        /\ \A r \in Tree!Processes \ {Main, First} : proc'[r] = proc[r]
        /\ \A r \in Tree!Processes : proc'[r].i <= proc'[r].n
        /\ \A r \in Tree!Processes \ Family : proc'[r].at = "none"
    BY <2>1, TwoMoved
  <2>3. /\ proc'[Second] = proc[Second] /\ proc'[Third] = proc[Third]
        /\ proc'[Fourth] = proc[Fourth] /\ proc'[Fifth] = proc[Fifth]
    BY <2>2, FamilyNames DEF Family
  <2>4. TreeTypes'
    BY <1>0, <2>a, <2>b, <2>2, <2>3 DEF TreeTypes, Leaves
  <2>5. MainRow' /\ FirstRow' /\ SecondRow'
    BY <1>0, <2>a, <2>b, <2>2, <2>3 DEF MainRow, FirstRow, SecondRow, Leaves
  <2> QED BY <2>4, <2>5 DEF TreeInv
<1>6. CASE p = Main /\ q = Second
  <2>0. p = Main /\ q = Second /\ q # p /\ proc' = [proc EXCEPT ![Main] = a, ![Second] = b]
    BY <1>6, FamilyNames
  <2>a. proc[Main].at = "last" /\ a.at = "exit"
    BY <1>0, <2>0 DEF MainRow
  <2>b. proc[Second].at = "zombie"
    BY <2>0
  <2>1. proc' = [proc EXCEPT ![Main] = a, ![Second] = b] /\ Main \in Family /\ Second \in Family \ {Main}
    BY <2>0, FamilyNames DEF Family
  <2>2. /\ proc' \in [Tree!Processes -> TreeRecords] /\ proc'[Main] = a /\ proc'[Second] = b
        /\ \A r \in Tree!Processes \ {Main, Second} : proc'[r] = proc[r]
        /\ \A r \in Tree!Processes : proc'[r].i <= proc'[r].n
        /\ \A r \in Tree!Processes \ Family : proc'[r].at = "none"
    BY <2>1, TwoMoved
  <2>3. /\ proc'[First] = proc[First] /\ proc'[Third] = proc[Third]
        /\ proc'[Fourth] = proc[Fourth] /\ proc'[Fifth] = proc[Fifth]
    BY <2>2, FamilyNames DEF Family
  <2>4. TreeTypes'
    BY <1>0, <2>a, <2>b, <2>2, <2>3 DEF TreeTypes, Leaves
  <2>5. MainRow' /\ FirstRow' /\ SecondRow'
    BY <1>0, <2>a, <2>b, <2>2, <2>3 DEF MainRow, FirstRow, SecondRow, Leaves
  <2> QED BY <2>4, <2>5 DEF TreeInv
<1>7. CASE p = First /\ q = Third
  <2>0. p = First /\ q = Third /\ q # p /\ proc' = [proc EXCEPT ![First] = a, ![Third] = b]
    BY <1>7, FamilyNames
  <2>a. /\ proc[First].at = "wait" /\ proc[First].n = 2 /\ proc[First].back = "exit" /\ proc[First].i \in {0, 1}
        /\ proc[First].i = 0 => a.at = "wait" /\ a.i = 1 /\ a.n = 2 /\ a.back = "exit"
        /\ proc[First].i = 1 => a.at = "exit"
    BY <1>0, <2>0 DEF FirstRow, Leaves
  <2>b. proc[Third].at = "zombie"
    BY <2>0
  <2>1. proc' = [proc EXCEPT ![First] = a, ![Third] = b] /\ First \in Family /\ Third \in Family \ {First}
    BY <2>0, FamilyNames DEF Family
  <2>2. /\ proc' \in [Tree!Processes -> TreeRecords] /\ proc'[First] = a /\ proc'[Third] = b
        /\ \A r \in Tree!Processes \ {First, Third} : proc'[r] = proc[r]
        /\ \A r \in Tree!Processes : proc'[r].i <= proc'[r].n
        /\ \A r \in Tree!Processes \ Family : proc'[r].at = "none"
    BY <2>1, TwoMoved
  <2>3. /\ proc'[Main] = proc[Main] /\ proc'[Second] = proc[Second]
        /\ proc'[Fourth] = proc[Fourth] /\ proc'[Fifth] = proc[Fifth]
    BY <2>2, FamilyNames DEF Family
  <2>4. TreeTypes'
    BY <1>0, <2>a, <2>b, <2>2, <2>3 DEF TreeTypes, Leaves
  <2>5. MainRow' /\ FirstRow' /\ SecondRow'
    BY <1>0, <2>a, <2>b, <2>2, <2>3 DEF MainRow, FirstRow, SecondRow, Leaves
  <2> QED BY <2>4, <2>5 DEF TreeInv
<1>8. CASE p = First /\ q = Fourth
  <2>0. p = First /\ q = Fourth /\ q # p /\ proc' = [proc EXCEPT ![First] = a, ![Fourth] = b]
    BY <1>8, FamilyNames
  <2>a. /\ proc[First].at = "wait" /\ proc[First].n = 2 /\ proc[First].back = "exit" /\ proc[First].i \in {0, 1}
        /\ proc[First].i = 0 => a.at = "wait" /\ a.i = 1 /\ a.n = 2 /\ a.back = "exit"
        /\ proc[First].i = 1 => a.at = "exit"
    BY <1>0, <2>0 DEF FirstRow, Leaves
  <2>b. proc[Fourth].at = "zombie"
    BY <2>0
  <2>1. proc' = [proc EXCEPT ![First] = a, ![Fourth] = b] /\ First \in Family /\ Fourth \in Family \ {First}
    BY <2>0, FamilyNames DEF Family
  <2>2. /\ proc' \in [Tree!Processes -> TreeRecords] /\ proc'[First] = a /\ proc'[Fourth] = b
        /\ \A r \in Tree!Processes \ {First, Fourth} : proc'[r] = proc[r]
        /\ \A r \in Tree!Processes : proc'[r].i <= proc'[r].n
        /\ \A r \in Tree!Processes \ Family : proc'[r].at = "none"
    BY <2>1, TwoMoved
  <2>3. /\ proc'[Main] = proc[Main] /\ proc'[Second] = proc[Second]
        /\ proc'[Third] = proc[Third] /\ proc'[Fifth] = proc[Fifth]
    BY <2>2, FamilyNames DEF Family
  <2>4. TreeTypes'
    BY <1>0, <2>a, <2>b, <2>2, <2>3 DEF TreeTypes, Leaves
  <2>5. MainRow' /\ FirstRow' /\ SecondRow'
    BY <1>0, <2>a, <2>b, <2>2, <2>3 DEF MainRow, FirstRow, SecondRow, Leaves
  <2> QED BY <2>4, <2>5 DEF TreeInv
<1>9. CASE p = Second /\ q = Fifth
  <2>0. p = Second /\ q = Fifth /\ q # p /\ proc' = [proc EXCEPT ![Second] = a, ![Fifth] = b]
    BY <1>9, FamilyNames
  <2>a. /\ proc[Second].at \in {"wait", "last"}
        /\ a.at = (IF proc[Second].at = "wait" THEN "last" ELSE "exit")
    BY <1>0, <2>0 DEF SecondRow, Leaves
  <2>b. proc[Fifth].at = "zombie"
    BY <2>0
  <2>1. proc' = [proc EXCEPT ![Second] = a, ![Fifth] = b] /\ Second \in Family /\ Fifth \in Family \ {Second}
    BY <2>0, FamilyNames DEF Family
  <2>2. /\ proc' \in [Tree!Processes -> TreeRecords] /\ proc'[Second] = a /\ proc'[Fifth] = b
        /\ \A r \in Tree!Processes \ {Second, Fifth} : proc'[r] = proc[r]
        /\ \A r \in Tree!Processes : proc'[r].i <= proc'[r].n
        /\ \A r \in Tree!Processes \ Family : proc'[r].at = "none"
    BY <2>1, TwoMoved
  <2>3. /\ proc'[Main] = proc[Main] /\ proc'[First] = proc[First]
        /\ proc'[Third] = proc[Third] /\ proc'[Fourth] = proc[Fourth]
    BY <2>2, FamilyNames DEF Family
  <2>4. TreeTypes'
    BY <1>0, <2>a, <2>b, <2>2, <2>3 DEF TreeTypes, Leaves
  <2>5. MainRow' /\ FirstRow' /\ SecondRow'
    BY <1>0, <2>a, <2>b, <2>2, <2>3 DEF MainRow, FirstRow, SecondRow, Leaves
  <2> QED BY <2>4, <2>5 DEF TreeInv
<1>10. \/ p = Main /\ q \in {First, Second}
       \/ p = First /\ q \in {Third, Fourth}
       \/ p = Second /\ q = Fifth
  <2>1. p \in {Main, First, Second, Fifth}
    BY OfTheFamily
  <2> QED BY <2>1, KidsOf
<1> QED BY <1>5, <1>6, <1>7, <1>8, <1>9, <1>10

\* a wait that takes a child,
LEMMA ChildReaped ==
  ASSUME TreeInv, NEW p \in Tree!Processes, proc[p].at \in {"wait", "last"}, NEW q \in Tree!Kids(p),
         proc[q].at = "zombie", proc' = [proc EXCEPT ![q].at = "reaped", ![p] = Tree!AfterWait(p)],
         UNCHANGED <<tree, short>>
  PROVE  TreeInv'
<1> DEFINE b == [proc[q] EXCEPT !.at = "reaped"]
<1>1. q \in Tree!Processes /\ proc[q] \in TreeRecords /\ proc[q].i <= proc[q].n /\ DOMAIN proc = Tree!Processes
  BY DEF TreeInv, TreeTypes, Tree!Kids
<1>2. q # p => proc' = [proc EXCEPT ![p] = Tree!AfterWait(p), ![q] = b]
  BY <1>1
<1>3. b \in TreeRecords /\ b.at = "reaped" /\ b.i <= b.n
  BY <1>1 DEF TreeRecords, TreePlaces
<1> DEFINE a == Tree!AfterWait(p)
<1>4. /\ a \in TreeRecords /\ a.i <= a.n
      /\ proc[p].at = "last" => a.at = "exit"
      /\ proc[p].at = "wait" /\ proc[p].i + 1 < proc[p].n =>
           a.at = "wait" /\ a.i = proc[p].i + 1 /\ a.n = proc[p].n /\ a.back = proc[p].back
      /\ proc[p].at = "wait" /\ ~(proc[p].i + 1 < proc[p].n) => a.at = proc[p].back
  BY AfterWaiting
<1>5. q # p => proc' = [proc EXCEPT ![p] = a, ![q] = b]
  BY <1>2
<1>6. tree' = tree /\ short' = short
  OBVIOUS
<1> HIDE DEF a, b
<1> QED BY <1>3, <1>4, <1>5, <1>6, ReapedOne, ZenonT(90)

\* and a wait that finds none.
LEMMA NobodyToReap ==
  ASSUME TreeInv, NEW p \in Tree!Processes, proc[p].at \in {"wait", "last"}, Tree!Kids(p) = {},
         proc' = [proc EXCEPT ![p] = Tree!AfterWait(p)], UNCHANGED <<tree, short>>
  PROVE  TreeInv'
<1>0. TreeTypes /\ MainRow /\ FirstRow /\ SecondRow
  BY DEF TreeInv
<1> DEFINE a == Tree!AfterWait(p)
<1>1. tree' = tree /\ short' = short /\ proc[p].at \in {"wait", "last"} /\ proc' = [proc EXCEPT ![p] = a]
  OBVIOUS
<1>4. a \in TreeRecords /\ a.i <= a.n
  BY AfterWaiting
<1>a. /\ proc[p].at = "last" => a.at = "exit"
      /\ proc[p].at = "wait" /\ ~(proc[p].i + 1 < proc[p].n) => a.at = proc[p].back
  BY AfterWaiting
<1>b. tree' = tree /\ short' = short
  BY <1>1
<1> HIDE DEF a
<1>5. /\ p = Main => proc[First].at \in {"none", "reaped"} /\ proc[Second].at \in {"none", "reaped"}
      /\ p = First => proc[Third].at \in {"none", "reaped"} /\ proc[Fourth].at \in {"none", "reaped"}
      /\ p = Second => proc[Fifth].at \in {"none", "reaped"}
  BY KidsOf
<1>6. p # First
  BY <1>0, <1>1, <1>5 DEF FirstRow, Leaves
<1>7. CASE p = Main
  <2>0. p = Main /\ proc' = [proc EXCEPT ![Main] = a]
    BY <1>1, <1>7
  <2>a. proc[Main].at = "last" /\ a.at = "exit"
    BY <1>0, <1>1, <1>a, <2>0 DEF MainRow
  <2>1. proc' = [proc EXCEPT ![Main] = a] /\ Main \in Family
    BY <2>0, FamilyNames DEF Family
  <2>2. /\ proc' \in [Tree!Processes -> TreeRecords] /\ proc'[Main] = a
        /\ \A r \in Tree!Processes \ {Main} : proc'[r] = proc[r]
        /\ \A r \in Tree!Processes : proc'[r].i <= proc'[r].n
        /\ \A r \in Tree!Processes \ Family : proc'[r].at = "none"
    BY <1>4, <2>1, OneMoved
  <2>3. /\ proc'[First] = proc[First] /\ proc'[Second] = proc[Second] /\ proc'[Third] = proc[Third]
        /\ proc'[Fourth] = proc[Fourth] /\ proc'[Fifth] = proc[Fifth]
    BY <2>2, FamilyNames DEF Family
  <2>4. TreeTypes'
    BY <1>0, <1>1, <2>a, <1>4, <2>2, <2>3 DEF TreeTypes, Leaves
  <2>5. MainRow' /\ FirstRow' /\ SecondRow'
    BY <1>0, <1>b, <1>5, <2>0, <2>a, <1>4, <2>2, <2>3 DEF MainRow, FirstRow, SecondRow, Leaves
  <2> QED BY <2>4, <2>5 DEF TreeInv
<1>8. CASE p = Second
  <2>0. p = Second /\ proc' = [proc EXCEPT ![Second] = a]
    BY <1>1, <1>8
  <2>a. /\ proc[Second].at \in {"wait", "last"}
        /\ a.at = (IF proc[Second].at = "wait" THEN "last" ELSE "exit")
    BY <1>0, <1>1, <1>a, <2>0 DEF SecondRow, Leaves
  <2>1. proc' = [proc EXCEPT ![Second] = a] /\ Second \in Family
    BY <2>0, FamilyNames DEF Family
  <2>2. /\ proc' \in [Tree!Processes -> TreeRecords] /\ proc'[Second] = a
        /\ \A r \in Tree!Processes \ {Second} : proc'[r] = proc[r]
        /\ \A r \in Tree!Processes : proc'[r].i <= proc'[r].n
        /\ \A r \in Tree!Processes \ Family : proc'[r].at = "none"
    BY <1>4, <2>1, OneMoved
  <2>3. /\ proc'[Main] = proc[Main] /\ proc'[First] = proc[First] /\ proc'[Third] = proc[Third]
        /\ proc'[Fourth] = proc[Fourth] /\ proc'[Fifth] = proc[Fifth]
    BY <2>2, FamilyNames DEF Family
  <2>4. TreeTypes'
    BY <1>0, <1>1, <2>a, <1>4, <2>2, <2>3 DEF TreeTypes, Leaves
  <2>5. MainRow' /\ FirstRow' /\ SecondRow'
    BY <1>0, <1>b, <1>5, <2>0, <2>a, <1>4, <2>2, <2>3 DEF MainRow, FirstRow, SecondRow, Leaves
  <2> QED BY <2>4, <2>5 DEF TreeInv
<1>9. CASE p = Fifth
  <2>0. p = Fifth /\ proc' = [proc EXCEPT ![Fifth] = a]
    BY <1>1, <1>9
  <2>a. proc[Fifth].at = "last" /\ a.at = "exit"
    BY <1>0, <1>1, <1>a, <2>0 DEF TreeTypes, Leaves
  <2>1. proc' = [proc EXCEPT ![Fifth] = a] /\ Fifth \in Family
    BY <2>0, FamilyNames DEF Family
  <2>2. /\ proc' \in [Tree!Processes -> TreeRecords] /\ proc'[Fifth] = a
        /\ \A r \in Tree!Processes \ {Fifth} : proc'[r] = proc[r]
        /\ \A r \in Tree!Processes : proc'[r].i <= proc'[r].n
        /\ \A r \in Tree!Processes \ Family : proc'[r].at = "none"
    BY <1>4, <2>1, OneMoved
  <2>3. /\ proc'[Main] = proc[Main] /\ proc'[First] = proc[First] /\ proc'[Second] = proc[Second]
        /\ proc'[Third] = proc[Third] /\ proc'[Fourth] = proc[Fourth]
    BY <2>2, FamilyNames DEF Family
  <2>4. TreeTypes'
    BY <1>0, <1>1, <2>a, <1>4, <2>2, <2>3 DEF TreeTypes, Leaves
  <2>5. MainRow' /\ FirstRow' /\ SecondRow'
    BY <1>0, <1>b, <1>5, <2>0, <2>a, <1>4, <2>2, <2>3 DEF MainRow, FirstRow, SecondRow, Leaves
  <2> QED BY <2>4, <2>5 DEF TreeInv
<1> QED BY <1>1, <1>6, <1>7, <1>8, <1>9, OfTheFamily

LEMMA TreeWaits == ASSUME TreeInv, NEW p \in Tree!Processes, Tree!wait(p) PROVE TreeInv'
BY ChildReaped, NobodyToReap DEF Tree!wait

\* Every step of the process trees keeps their invariant.
LEMMA TreeKept == TreeInv /\ [Tree!Next]_treeVars => TreeInv'
<1>1. ASSUME TreeInv, Tree!Next PROVE TreeInv'
  <2>1. PICK p \in Tree!Processes : Tree!Step(p)
    BY <1>1 DEF Tree!Next
  <2> QED BY <1>1, <2>1, FirstForked, SecondForked, LoopForked, TreeForkFailed, LoopLeft, TreeWaits, TreeExits DEF Tree!Step
<1>2. ASSUME TreeInv, UNCHANGED treeVars PROVE TreeInv'
  BY <1>2 DEF treeVars, TreeInv, TreeTypes, MainRow, FirstRow, SecondRow
<1> QED BY <1>1, <1>2

\* What the runs check of the process trees follows from their invariant.
LEMMA TreeSafe == TreeInv => Tree!TypeOK /\ Tree!TreeShape /\ Tree!OneLeftBehind
<1> SUFFICES ASSUME TreeInv PROVE Tree!TypeOK /\ Tree!TreeShape /\ Tree!OneLeftBehind
  OBVIOUS
<1>0. TreeTypes /\ MainRow /\ FirstRow /\ SecondRow
  BY DEF TreeInv
<1>1. /\ tree \in BOOLEAN /\ short \in BOOLEAN
      /\ \A p \in Tree!Processes : /\ proc[p].at \in TreePlaces /\ proc[p].i \in 0 .. proc[p].n
                                   /\ proc[p].back \in {"exit", "last"}
      /\ \A p \in Tree!Processes : proc[p].at # "none" => p \in Family
  BY <1>0 DEF TreeTypes, TreeRecords
<1>2. /\ proc[Main].at # "none"
      /\ proc[Third].at # "none" \/ proc[Fourth].at # "none" => tree /\ proc[First].at # "none"
      /\ proc[Fifth].at # "none" => tree /\ proc[Second].at # "none"
      /\ proc[Second].at # "none" => tree
  BY <1>0 DEF MainRow, FirstRow, SecondRow, TreeTypes, Leaves
<1>3. ASSUME NEW p \in Tree!Processes, p # Main, proc[p].at # "none" PROVE proc[Tree!Front(p)].at # "none"
  <2>1. p \in {First, Second, Third, Fourth, Fifth}
    BY <1>1, <1>3 DEF Family
  <2> QED BY <1>2, <1>3, <2>1, FamilyTies
<1>4. Tree!TypeOK
  BY <1>1, <1>3 DEF Tree!TypeOK, TreePlaces, Main
<1>5. Tree!TreeShape
  <2> DEFINE Forked == {p \in Tree!Processes : proc[p].at # "none"}
             Named  == IF tree THEN Family ELSE {Main, First}
  <2>1. Forked \subseteq Named
    BY <1>1, <1>2 DEF Family
  <2>2. ASSUME \A p \in Forked : Tree!Ended(p), ~short PROVE Named \subseteq Forked
    <3>1. /\ proc[Main].at \in {"zombie", "reaped"}
          /\ proc[First].at \in {"none", "zombie", "reaped"} /\ proc[Second].at \in {"none", "zombie", "reaped"}
      BY <1>2, <2>2, FamilyNames DEF Tree!Ended, Family
    <3>2. proc[First].at # "none" /\ (tree => proc[Second].at # "none")
      BY <1>0, <2>2, <3>1 DEF MainRow
    <3>3. tree => proc[Third].at # "none" /\ proc[Fourth].at # "none" /\ proc[Fifth].at # "none"
      BY <1>0, <2>2, <3>1, <3>2 DEF FirstRow, SecondRow
    <3> QED BY <1>2, <3>2, <3>3, FamilyNames DEF Family
  <2>3. Forked = {p \in Tree!Processes : proc[p].at # "none"}
        /\ Named = IF tree THEN {<<>>, <<1>>, <<2>>, <<1, 1>>, <<1, 2>>, <<2, 1>>} ELSE {<<>>, <<1>>}
    BY DEF Family, Main, First, Second, Third, Fourth, Fifth
  <2> HIDE DEF Forked, Named
  <2>4. Forked \subseteq Named /\ ((\A p \in Forked : Tree!Ended(p)) /\ ~short => Forked = Named)
    BY <2>1, <2>2
  <2> QED BY <2>3, <2>4 DEF Tree!TreeShape
<1>6. Tree!OneLeftBehind
  <2> DEFINE Left == {p \in Tree!Processes :
                        p # Main /\ proc[p].at \notin {"none", "reaped"} /\ Tree!Ended(Tree!Front(p))}
  <2>1. ASSUME ~short PROVE Left \subseteq {First, Second} /\ (First \in Left => Second \notin Left) /\ (~tree => Left = {})
    <3>1. proc[First].at \in {"zombie", "reaped"} /\ tree => proc[Third].at = "reaped" /\ proc[Fourth].at = "reaped"
      BY <1>0, <2>1 DEF FirstRow
    <3>2. proc[Second].at \in {"zombie", "reaped"} => proc[Fifth].at = "reaped"
      BY <1>0, <2>1 DEF SecondRow
    <3>3. Third \notin Left /\ Fourth \notin Left /\ Fifth \notin Left
      BY <1>2, <3>1, <3>2, FamilyTies, FamilyNames DEF Tree!Ended, Family
    <3>4. Left \subseteq {First, Second}
      BY <1>1, <3>3 DEF Family
    <3>5. proc[Main].at = "zombie" => proc[First].at = "reaped" \/ (tree /\ proc[Second].at = "reaped")
      BY <1>0, <2>1 DEF MainRow
    <3>6. proc[Main].at \notin {"reaped"}
      BY <1>0 DEF MainRow
    <3>7. (First \in Left \/ Second \in Left) => proc[Main].at = "zombie"
      BY <3>6, FamilyTies DEF Tree!Ended
    <3>8. (First \in Left => proc[First].at # "reaped") /\ (Second \in Left => proc[Second].at # "reaped" /\ tree)
      BY <1>2
    <3> HIDE DEF Left
    <3> QED BY <3>4, <3>5, <3>7, <3>8
  <2>2. Left = {p \in Tree!Processes : p # <<>> /\ proc[p].at \notin {"none", "reaped"} /\ Tree!Ended(Tree!Front(p))}
    BY DEF Main
  <2> HIDE DEF Left
  <2>3. ASSUME ~short PROVE Tree!Cardinality(Left) <= (IF tree THEN 1 ELSE 0)
    <3>1. Left = {} \/ (tree /\ \E x : Left = {x})
      BY <1>1, <2>1, <2>3
    <3>2. Tree!Cardinality(Left) = Cardinality(Left)
      BY DEF Cardinality, Tree!Cardinality
    <3>3. Cardinality({}) = 0 /\ \A x : Cardinality({x}) = 1
      BY FS_EmptySet, FS_Singleton
    <3>4. CASE Left = {}
      <4>1. Tree!Cardinality(Left) = 0
        BY <3>2, <3>3, <3>4
      <4> QED BY <4>1
    <3>5. CASE tree /\ \E x : Left = {x}
      <4>1. Tree!Cardinality(Left) = 1
        BY <3>2, <3>3, <3>5
      <4> QED BY <3>5, <4>1
    <3> QED BY <3>1, <3>4, <3>5
  <2>4. ~short => Left \subseteq {<<1>>, <<2>>} /\ Tree!Cardinality(Left) <= (IF tree THEN 1 ELSE 0)
    BY <2>1, <2>3 DEF First, Second
  <2> QED BY <2>2, <2>4 DEF Tree!OneLeftBehind
<1> QED BY <1>4, <1>5, <1>6

(***************************************************************************)
(* The shops of "11-streams/1.c".                                          *)
(***************************************************************************)
\* SumFunction is defined by recursion on the subsets of the domain: what it is for t,
\* if s says what it is for smaller sets, and the function that is its own step.
SumStep(fun, s, t) == IF t = {} THEN 0
                      ELSE LET x == CHOOSE x \in t : TRUE IN fun[x] + s[t \ {x}]
SumOver(fun, S) == CHOOSE s : s = [t \in SUBSET S |-> SumStep(fun, s, t)]

\* The sum of a function is that function at its domain.
LEMMA SumIsOver == ASSUME NEW fun PROVE Market!SumFunction(fun) = SumOver(fun, DOMAIN fun)[DOMAIN fun]
BY DEF Market!SumFunction, Market!SumFunctionOnSet, Market!FoldFunctionOnSet, Market!MapThenFoldSet, SumOver, SumStep

\* There is such a function over a finite set: by its smallest cardinality without one.
LEMMA SumsExist ==
  ASSUME NEW S, IsFiniteSet(S), NEW fun \in [S -> Int]
  PROVE  /\ SumOver(fun, S) \in [SUBSET S -> Int]
         /\ \A t \in SUBSET S : SumOver(fun, S)[t] = SumStep(fun, SumOver(fun, S), t)
<1> DEFINE D(n)  == {t \in SUBSET S : Cardinality(t) <= n}
           So(n) == \E s \in [D(n) -> Int] : \A t \in D(n) : s[t] = SumStep(fun, s, t)
           N     == Cardinality(S)
           Bad   == {n \in 0 .. N : ~So(n)}
<1>1. /\ N \in Nat
      /\ \A t \in SUBSET S : IsFiniteSet(t) /\ Cardinality(t) \in 0 .. N /\ (Cardinality(t) = 0 <=> t = {})
      /\ \A t \in SUBSET S : t # {} => LET x == CHOOSE x \in t : TRUE
                                       IN  x \in S /\ t \ {x} \in SUBSET S /\ Cardinality(t \ {x}) = Cardinality(t) - 1
  <2>1. N \in Nat
    BY FS_CardinalityType
  <2>2. \A t \in SUBSET S : IsFiniteSet(t) /\ Cardinality(t) \in Nat /\ Cardinality(t) <= N
    BY FS_Subset, FS_CardinalityType
  <2>3. \A t \in SUBSET S : Cardinality(t) = 0 <=> t = {}
    BY <2>2, FS_EmptySet
  <2>4. ASSUME NEW t \in SUBSET S, t # {}
        PROVE  LET x == CHOOSE x \in t : TRUE
               IN  x \in S /\ t \ {x} \in SUBSET S /\ Cardinality(t \ {x}) = Cardinality(t) - 1
    <3> DEFINE x == CHOOSE x \in t : TRUE
    <3>1. x \in t
      BY <2>4
    <3> HIDE DEF x
    <3>2. Cardinality(t \ {x}) = Cardinality(t) - 1
      BY <2>2, <3>1, FS_RemoveElement
    <3> QED BY <3>1, <3>2 DEF x
  <2> QED BY <2>1, <2>2, <2>3, <2>4
<1> DEFINE c(t) == CHOOSE x \in t : TRUE
<1>2. \A t \in SUBSET S : t # {} => c(t) \in S /\ t \ {c(t)} \in SUBSET S /\ Cardinality(t \ {c(t)}) = Cardinality(t) - 1
  BY <1>1
<1>3. \A s, t : SumStep(fun, s, t) = IF t = {} THEN 0 ELSE fun[c(t)] + s[t \ {c(t)}]
  BY DEF SumStep
<1> HIDE DEF N, c
<1>4. So(0)
  <2> DEFINE s == [t \in D(0) |-> 0]
  <2>1. D(0) = {{}}
    BY <1>1
  <2>2. s \in [D(0) -> Int] /\ \A t \in D(0) : s[t] = SumStep(fun, s, t)
    BY <2>1, <1>3
  <2> QED BY <2>2
<1>5. ASSUME NEW n \in Nat, So(n) PROVE So(n + 1)
  <2>1. PICK s \in [D(n) -> Int] : \A t \in D(n) : s[t] = SumStep(fun, s, t)
    BY <1>5
  <2> DEFINE r == [t \in D(n + 1) |-> IF t = {} THEN 0 ELSE fun[c(t)] + s[t \ {c(t)}]]
  <2>2. \A t \in D(n + 1) : t # {} => t \ {c(t)} \in D(n) /\ c(t) \in S
    BY <1>1, <1>2
  <2>3. D(n) \subseteq D(n + 1)
    BY <1>1
  <2>4. \A t \in D(n) : r[t] = s[t]
    BY <1>3, <2>1, <2>3
  <2>5. r \in [D(n + 1) -> Int]
    BY <2>2
  <2>6. \A t \in D(n + 1) : r[t] = IF t = {} THEN 0 ELSE fun[c(t)] + s[t \ {c(t)}]
    OBVIOUS
  <2> HIDE DEF r, D
  <2>7. \A t \in D(n + 1) : r[t] = SumStep(fun, r, t)
    BY <1>3, <2>2, <2>4, <2>6
  <2> QED BY <2>5, <2>7
<1>6. So(N)
  <2>1. ASSUME Bad # {} PROVE FALSE
    <3>1. PICK m \in Bad : \A k \in Bad : m <= k
      BY <1>1, <2>1, LeastNat
    <3>2. m \in 0 .. N /\ m # 0 /\ ~So(m)
      BY <1>4
    <3> HIDE DEF So
    <3>3. m - 1 \in Nat /\ So(m - 1)
      BY <1>1, <3>1, <3>2
    <3>4. So((m - 1) + 1)
      BY <1>5, <3>3
    <3>5. (m - 1) + 1 = m
      BY <3>2
    <3> QED BY <3>2, <3>4, <3>5
  <2> HIDE DEF So
  <2> QED BY <2>1, <1>1
<1>7. D(N) = SUBSET S
  BY <1>1
<1>8. PICK s \in [SUBSET S -> Int] : \A t \in SUBSET S : s[t] = SumStep(fun, s, t)
  BY <1>6, <1>7
<1>9. s = [t \in SUBSET S |-> SumStep(fun, s, t)]
  BY <1>8
<1>10. SumOver(fun, S) = [t \in SUBSET S |-> SumStep(fun, SumOver(fun, S), t)]
  BY <1>9 DEF SumOver
<1> DEFINE o == SumOver(fun, S)
<1>11. DOMAIN o = SUBSET S /\ \A t \in SUBSET S : o[t] = SumStep(fun, o, t)
  BY <1>10
<1> HIDE DEF o
<1>12. \A t \in SUBSET S : o[t] \in Int
  <2> DEFINE Odd == {Cardinality(t) : t \in {u \in SUBSET S : o[u] \notin Int}}
  <2>1. ASSUME Odd # {} PROVE FALSE
    <3>1. Odd \in SUBSET (0 .. N)
      BY <1>1
    <3>2. PICK m \in Odd : \A k \in Odd : m <= k
      BY <1>1, <2>1, <3>1, LeastNat
    <3>3. PICK t \in SUBSET S : o[t] \notin Int /\ m = Cardinality(t)
      OBVIOUS
    <3>4. t # {}
      BY <1>3, <1>11, <3>3
    <3>5. o[t \ {c(t)}] \in Int
      <4>1. t \ {c(t)} \in SUBSET S /\ Cardinality(t \ {c(t)}) = m - 1 /\ m \in 0 .. N
        BY <1>1, <1>2, <3>3, <3>4
      <4>2. m - 1 \notin Odd
        BY <3>2, <4>1
      <4> QED BY <4>1, <4>2
    <3>6. o[t] = fun[c(t)] + o[t \ {c(t)}] /\ fun[c(t)] \in Int
      BY <1>2, <1>3, <1>11, <3>4
    <3> QED BY <3>3, <3>5, <3>6
  <2> QED BY <2>1
<1>13. o = [t \in SUBSET S |-> o[t]]
  BY <1>10, <1>11 DEF o
<1>14. o \in [SUBSET S -> Int]
  BY <1>12, <1>13
<1> QED BY <1>11, <1>14 DEF o

\* A sum moves with the one value that changes: by the smallest subset for which it does
\* not.
LEMMA SumMoves ==
  ASSUME NEW S, IsFiniteSet(S), NEW f \in [S -> Int], NEW g \in [S -> Int], NEW x \in S,
         \A y \in S \ {x} : f[y] = g[y]
  PROVE  /\ Market!SumFunction(f) \in Int /\ Market!SumFunction(g) \in Int
         /\ Market!SumFunction(g) = Market!SumFunction(f) + g[x] - f[x]
<1> DEFINE sf == SumOver(f, S)
           sg == SumOver(g, S)
           d  == g[x] - f[x]
           c(t) == CHOOSE y \in t : TRUE
           N  == Cardinality(S)
           Bad == {t \in SUBSET S : sg[t] # sf[t] + (IF x \in t THEN d ELSE 0)}
           Odd == {Cardinality(t) : t \in Bad}
<1>1. /\ sf \in [SUBSET S -> Int] /\ sg \in [SUBSET S -> Int]
      /\ \A t \in SUBSET S : /\ sf[t] = IF t = {} THEN 0 ELSE f[c(t)] + sf[t \ {c(t)}]
                             /\ sg[t] = IF t = {} THEN 0 ELSE g[c(t)] + sg[t \ {c(t)}]
  BY SumsExist DEF SumStep
<1>2. /\ N \in Nat
      /\ \A t \in SUBSET S : Cardinality(t) \in 0 .. N
      /\ \A t \in SUBSET S : t # {} => c(t) \in t /\ Cardinality(t \ {c(t)}) = Cardinality(t) - 1
  <2>1. \A t \in SUBSET S : IsFiniteSet(t) /\ Cardinality(t) \in Nat /\ Cardinality(t) <= N /\ N \in Nat
    BY FS_Subset, FS_CardinalityType
  <2>2. \A t \in SUBSET S : t # {} => c(t) \in t
    OBVIOUS
  <2> HIDE DEF c
  <2>3. \A t \in SUBSET S : t # {} => Cardinality(t \ {c(t)}) = Cardinality(t) - 1
    BY <2>1, <2>2, FS_RemoveElement
  <2> QED BY <2>1, <2>2, <2>3
<1>3. d \in Int
  OBVIOUS
<1> HIDE DEF sf, sg, c, N
<1>4. ASSUME Odd # {} PROVE FALSE
  <2>1. Odd \in SUBSET (0 .. N)
    BY <1>2
  <2>2. PICK m \in Odd : \A k \in Odd : m <= k
    BY <1>2, <1>4, <2>1, LeastNat
  <2>3. PICK t \in Bad : m = Cardinality(t)
    OBVIOUS
  <2>4. t \in SUBSET S /\ sg[t] # sf[t] + (IF x \in t THEN d ELSE 0)
    OBVIOUS
  <2>5. t # {}
    <3>1. sf[{}] = 0 /\ sg[{}] = 0
      BY <1>1
    <3>2. ASSUME t = {} PROVE FALSE
      <4>1. x \notin t /\ sf[t] = 0 /\ sg[t] = 0
        BY <3>1, <3>2
      <4>2. sf[t] + (IF x \in t THEN d ELSE 0) = 0
        BY <4>1
      <4> QED BY <2>4, <4>1, <4>2
    <3> QED BY <3>2
  <2>6. c(t) \in t /\ t \ {c(t)} \in SUBSET S /\ Cardinality(t \ {c(t)}) = m - 1 /\ m \in 0 .. N
    BY <1>2, <2>3, <2>4, <2>5
  <2> DEFINE u == t \ {c(t)}
  <2>7. u \notin Bad
    BY <2>2, <2>6
  <2>8. sg[u] = sf[u] + (IF x \in u THEN d ELSE 0) /\ u \in SUBSET S
    BY <2>6, <2>7
  <2>9. sf[t] = f[c(t)] + sf[u] /\ sg[t] = g[c(t)] + sg[u] /\ sf[u] \in Int /\ sg[u] \in Int
    BY <1>1, <2>4, <2>5, <2>8
  <2>10. f[c(t)] \in Int /\ g[c(t)] \in Int /\ (c(t) # x => f[c(t)] = g[c(t)]) /\ (x \in t <=> c(t) = x \/ x \in u)
    BY <2>4, <2>6
  <2>11. c(t) = x => x \notin u /\ g[c(t)] = f[c(t)] + d
    BY <1>3
  <2> HIDE DEF u, d
  <2>12. CASE c(t) = x
    BY <1>3, <2>4, <2>8, <2>9, <2>10, <2>11, <2>12
  <2>13. CASE c(t) # x
    BY <1>3, <2>4, <2>8, <2>9, <2>10, <2>13
  <2> QED BY <2>12, <2>13
<1>5. sg[S] = sf[S] + d /\ sf[S] \in Int /\ sg[S] \in Int
  BY <1>1, <1>4
<1>6. Market!SumFunction(f) = sf[S] /\ Market!SumFunction(g) = sg[S]
  BY SumIsOver DEF sf, sg
<1> QED BY <1>5, <1>6

\* The sum of naturals is one.
LEMMA SumOfNats ==
  ASSUME NEW S, IsFiniteSet(S), NEW f \in [S -> Nat]
  PROVE  Market!SumFunction(f) \in Nat
<1> DEFINE o == SumOver(f, S)
           c(t) == CHOOSE x \in t : TRUE
           N == Cardinality(S)
           Odd == {Cardinality(t) : t \in {u \in SUBSET S : o[u] \notin Nat}}
<1>1. \A t \in SUBSET S : o[t] = IF t = {} THEN 0 ELSE f[c(t)] + o[t \ {c(t)}]
  <2>1. f \in [S -> Int]
    OBVIOUS
  <2> QED BY <2>1, SumsExist DEF SumStep
<1>2. /\ N \in Nat
      /\ \A t \in SUBSET S : Cardinality(t) \in 0 .. N
      /\ \A t \in SUBSET S : t # {} => c(t) \in t /\ Cardinality(t \ {c(t)}) = Cardinality(t) - 1
  <2>1. \A t \in SUBSET S : IsFiniteSet(t) /\ Cardinality(t) \in Nat /\ Cardinality(t) <= N /\ N \in Nat
    BY FS_Subset, FS_CardinalityType
  <2>2. \A t \in SUBSET S : t # {} => c(t) \in t
    OBVIOUS
  <2> HIDE DEF c
  <2>3. \A t \in SUBSET S : t # {} => Cardinality(t \ {c(t)}) = Cardinality(t) - 1
    BY <2>1, <2>2, FS_RemoveElement
  <2> QED BY <2>1, <2>2, <2>3
<1> HIDE DEF o, c, N
<1>3. ASSUME Odd # {} PROVE FALSE
  <2>1. Odd \in SUBSET (0 .. N)
    BY <1>2
  <2>2. PICK m \in Odd : \A k \in Odd : m <= k
    BY <1>2, <1>3, <2>1, LeastNat
  <2>3. PICK t \in SUBSET S : o[t] \notin Nat /\ m = Cardinality(t)
    OBVIOUS
  <2>4. t # {}
    <3>1. o[{}] = 0
      BY <1>1
    <3> HIDE DEF Odd
    <3> QED BY <2>3, <3>1
  <2>5. c(t) \in S /\ t \ {c(t)} \in SUBSET S /\ Cardinality(t \ {c(t)}) = m - 1 /\ m \in 0 .. N
    BY <1>2, <2>3, <2>4
  <2>6. m - 1 \notin Odd
    BY <2>2, <2>5
  <2>7. o[t \ {c(t)}] \in Nat
    BY <2>5, <2>6
  <2> HIDE DEF Odd
  <2>8. o[t] = f[c(t)] + o[t \ {c(t)}] /\ f[c(t)] \in Nat
    BY <1>1, <2>4, <2>5
  <2> QED BY <2>3, <2>7, <2>8
<1>4. o[S] \in Nat
  BY <1>3
<1> QED BY <1>4, SumIsOver DEF o

\* A finite set of integers has a greatest element: the one with the fewest above it.
LEMMA Greatest ==
  ASSUME NEW S \in SUBSET Int, IsFiniteSet(S), S # {}
  PROVE  \E x \in S : \A y \in S : x >= y
<1> DEFINE above(x) == {y \in S : y > x}
           all == {above(x) : x \in S}
<1>1. IsWellFoundedOn(StrictSubsetOrdering(S), FiniteSubsetsOf(S))
  BY FS_StrictSubsetOrderingWellFounded
<1>2. all \subseteq FiniteSubsetsOf(S) /\ all # {}
  <2>1. \A x \in S : above(x) \subseteq S /\ IsFiniteSet(above(x))
    BY FS_Subset
  <2> QED BY <2>1 DEF FiniteSubsetsOf
<1>3. PICK d \in all : \A e \in all : ~ (<<e, d>> \in StrictSubsetOrdering(S))
  BY <1>1, <1>2, WFMin
<1>4. PICK x \in S : d = above(x)
  OBVIOUS
<1>5. ASSUME NEW y \in S, y > x PROVE FALSE
  <2>1. above(y) \subseteq above(x) /\ y \in above(x) /\ y \notin above(y)
    <3>1. ASSUME NEW z \in S, z > y PROVE z > x
      <4>1. x \in Int /\ y \in Int /\ z \in Int
        OBVIOUS
      <4> QED BY <1>5, <3>1, <4>1
    <3>2. ~(y > y)
      <4>1. y \in Int
        OBVIOUS
      <4> QED BY <4>1
    <3> QED BY <1>5, <3>1, <3>2
  <2>2. <<above(y), d>> \in StrictSubsetOrdering(S)
    BY <1>4, <2>1 DEF StrictSubsetOrdering
  <2> QED BY <1>3, <2>2
<1>6. \A y \in S : x >= y
  <2> SUFFICES ASSUME NEW y \in S PROVE x >= y
    OBVIOUS
  <2>1. x \in Int /\ y \in Int
    OBVIOUS
  <2> QED BY <1>5, <2>1
<1> QED BY <1>6

\* The type invariant of the shops, as function sets.
ShopTypes ==
  /\ Market!Max(Goods) \in Nat
  /\ shops \in [Market!Shop -> 0 .. Market!Max(Goods)]
  /\ wanted \in [Market!Customers -> Requests] /\ request \in [Market!Customers -> Nat]
  /\ \A c \in Market!Customers : request[c] <= wanted[c]
  /\ customer \in [Market!Customers -> {"shop", "choose", "buy", "leave", "done"}]
  /\ seen \in [Market!Customers -> Market!Shop \X (0 .. Market!Max(Goods))]
  /\ loader \in 0 .. NUM_SHOPS /\ mutex_shops \in Market!Customers \cup {Market!LOADER, Market!Nobody}
  /\ joined \in 0 .. NUM_CUSTOMERS /\ delivered \in Nat

\* Who is between lock and unlock has the mutex, so what a customer has read of a shop
\* is what the shop still has when it writes.
Locked ==
  /\ loader < NUM_SHOPS <=> mutex_shops = Market!LOADER
  /\ \A c \in Market!Customers : customer[c] \in {"choose", "buy", "leave"} <=> mutex_shops = c
  /\ \A c \in Market!Customers : customer[c] = "buy" => seen[c][2] = shops[seen[c][1]]

\* The books of the shops, which a purchase and a delivery both keep.
Balance == delivered + Market!SumFunction(request) = Market!SumFunction(shops) + Market!SumFunction(wanted)

\* The inductive invariant of the shops.
ShopInv == ShopTypes /\ Locked /\ Balance

\* What the assumption on the constants says of the shops.
LEMMA ShopConstants ==
  /\ NUM_SHOPS \in Nat \ {0} /\ NUM_CUSTOMERS \in Nat \ {0}
  /\ Requests \subseteq Nat \ {0} /\ Goods \subseteq Nat \ {0} /\ IsFiniteSet(Goods)
  /\ Market!Shop = 0 .. NUM_SHOPS - 1 /\ Market!Customers = 0 .. NUM_CUSTOMERS - 1
  /\ IsFiniteSet(Market!Shop) /\ IsFiniteSet(Market!Customers)
  /\ Market!LOADER = NUM_CUSTOMERS /\ Market!Nobody = NUM_CUSTOMERS + 1
  /\ {Market!LOADER, Market!Nobody} \cap Market!Customers = {} /\ Market!LOADER # Market!Nobody
  /\ \A g \in Goods : g \in 0 .. Market!Max(Goods)
  /\ Goods # {} => Market!Max(Goods) \in Nat
<1>1. /\ NUM_SHOPS \in Nat \ {0} /\ NUM_CUSTOMERS \in Nat \ {0}
      /\ Requests \subseteq Nat \ {0} /\ Goods \subseteq Nat \ {0} /\ IsFiniteSet(Goods)
  BY ProgramsAssumption DEF Market!ConstantsOK, IsFiniteSet, Market!IsFiniteSet
<1>2. /\ Market!Shop = 0 .. NUM_SHOPS - 1 /\ Market!Customers = 0 .. NUM_CUSTOMERS - 1
      /\ Market!LOADER = NUM_CUSTOMERS /\ Market!Nobody = NUM_CUSTOMERS + 1
  BY DEF Market!Shop, Market!Customers, Market!LOADER, Market!Nobody
<1>3. IsFiniteSet(Market!Shop) /\ IsFiniteSet(Market!Customers)
  BY <1>1, <1>2, FS_Interval
<1>4. (\A g \in Goods : g \in 0 .. Market!Max(Goods)) /\ (Goods # {} => Market!Max(Goods) \in Nat)
  <2>1. Goods # {} => Market!Max(Goods) \in Goods /\ \A g \in Goods : Market!Max(Goods) >= g
    <3>1. Goods \in SUBSET Int
      BY <1>1
    <3>2. Goods # {} => \E x \in Goods : \A y \in Goods : x >= y
      BY <1>1, <3>1, Greatest
    <3>3. Market!Max(Goods) = CHOOSE x \in Goods : \A y \in Goods : x >= y
      BY DEF Market!Max
    <3>4. SUFFICES ASSUME Goods # {} PROVE Market!Max(Goods) \in Goods /\ \A g \in Goods : Market!Max(Goods) >= g
      OBVIOUS
    <3> DEFINE P(x) == \A y \in Goods : x >= y
    <3>5. Market!Max(Goods) = CHOOSE x \in Goods : P(x)
      BY <3>3
    <3>6. \E x \in Goods : P(x)
      BY <3>2, <3>4
    <3> HIDE DEF P
    <3>7. Market!Max(Goods) \in Goods /\ P(Market!Max(Goods))
      BY <3>5, <3>6
    <3> QED BY <3>7 DEF P
  <2>2. ASSUME NEW g \in Goods PROVE g \in 0 .. Market!Max(Goods)
    <3>1. Market!Max(Goods) \in Nat /\ g \in Nat /\ Market!Max(Goods) >= g
      BY <1>1, <2>1
    <3> QED BY <3>1
  <2>3. Goods # {} => Market!Max(Goods) \in Nat
    BY <1>1, <2>1
  <2> QED BY <2>2, <2>3
<1>5. {Market!LOADER, Market!Nobody} \cap Market!Customers = {} /\ Market!LOADER # Market!Nobody
  BY <1>1, <1>2
<1> QED BY <1>1, <1>2, <1>3, <1>4, <1>5

USE DEF Market!Take, Market!Lock, Market!Unlock

\* The invariant holds when the shops open.
LEMMA ShopsOpen == Market!Init => ShopInv
<1> SUFFICES ASSUME Market!Init PROVE ShopInv
  OBVIOUS
<1>1. /\ shops \in [Market!Shop -> Goods] /\ delivered = Market!SumFunction(shops)
      /\ request \in [Market!Customers -> Requests] /\ wanted = request
      /\ customer = [c \in Market!Customers |-> "shop"] /\ seen = [c \in Market!Customers |-> <<0, 0>>]
      /\ loader = NUM_SHOPS /\ mutex_shops = Market!Nobody /\ joined = 0
  BY DEF Market!Init
<1>2. shops \in [Market!Shop -> Nat] /\ request \in [Market!Customers -> Nat]
  BY <1>1, ShopConstants
<1>3. Market!SumFunction(shops) \in Nat /\ Market!SumFunction(request) \in Nat
  BY <1>2, ShopConstants, SumOfNats
<1>4. shops \in [Market!Shop -> 0 .. Market!Max(Goods)]
  BY <1>1, ShopConstants
<1>5. Market!Max(Goods) \in Nat /\ <<0, 0>> \in Market!Shop \X (0 .. Market!Max(Goods))
  <2>1. 0 \in Market!Shop /\ shops[0] \in Goods
    BY <1>1, ShopConstants
  <2>2. Market!Max(Goods) \in Nat
    BY <2>1, ShopConstants
  <2> QED BY <2>1, <2>2
<1>6. ShopTypes
  BY <1>1, <1>2, <1>3, <1>4, <1>5, ShopConstants DEF ShopTypes
<1>7. Locked
  BY <1>1, ShopConstants DEF Locked
<1>8. Balance
  BY <1>1, <1>3 DEF Balance
<1> QED BY <1>6, <1>7, <1>8 DEF ShopInv

\* Every step keeps it: a customer takes the lock,
LEMMA CustomerEnters == ASSUME ShopInv, NEW c \in Market!Customers, Market!Enter(c) PROVE ShopInv'
BY ShopConstants DEF ShopInv, ShopTypes, Locked, Balance, Market!Enter

\* chooses a shop,
LEMMA ShopChosen == ASSUME ShopInv, NEW c \in Market!Customers, NEW s \in Market!Shop, Market!Choose(c, s) PROVE ShopInv'
<1>1. ShopTypes /\ Locked /\ Balance
  BY DEF ShopInv
<1>2. <<s, shops[s]>> \in Market!Shop \X (0 .. Market!Max(Goods))
  BY <1>1 DEF ShopTypes
<1>3. ShopTypes'
  BY <1>1, <1>2 DEF ShopTypes, Market!Choose
<1>4. Locked'
  <2>1. seen'[c] = <<s, shops[s]>> /\ \A d \in Market!Customers \ {c} : seen'[d] = seen[d]
    BY <1>1 DEF ShopTypes, Market!Choose
  <2>2. seen'[c][1] = s /\ seen'[c][2] = shops[s]
    BY <2>1
  <2> QED BY <1>1, <2>1, <2>2 DEF Locked, ShopTypes, Market!Choose
<1> QED BY <1>1, <1>3, <1>4 DEF ShopInv, Balance, Market!Choose

\* gives the lock back,
LEMMA CustomerLeaves == ASSUME ShopInv, NEW c \in Market!Customers, Market!LeaveShop(c) PROVE ShopInv'
<1>1. ShopTypes /\ Locked /\ Balance
  BY DEF ShopInv
<1>2. mutex_shops = c /\ mutex_shops' = Market!Nobody /\ customer' = [customer EXCEPT ![c] = "shop"]
  BY DEF Market!LeaveShop
<1>3. ShopTypes'
  BY <1>1 DEF ShopTypes, Market!LeaveShop
<1>4. Locked'
  BY <1>1, <1>2, ShopConstants, SMTT(30) DEF Locked, ShopTypes, Market!LeaveShop
<1> QED BY <1>1, <1>3, <1>4 DEF ShopInv, Balance, Market!LeaveShop

\* and has all it wants;
LEMMA CustomerFinishes == ASSUME ShopInv, NEW c \in Market!Customers, Market!Finish(c) PROVE ShopInv'
BY ShopConstants DEF ShopInv, ShopTypes, Locked, Balance, Market!Finish

\* the loader takes the lock,
LEMMA LoaderEnters == ASSUME ShopInv, Market!LoaderEnter PROVE ShopInv'
<1>1. ShopTypes /\ Locked /\ Balance
  BY DEF ShopInv
<1>2. mutex_shops = Market!Nobody /\ mutex_shops' = Market!LOADER /\ loader' = 0
  BY DEF Market!LoaderEnter
<1>3. ShopTypes'
  <2>1. mutex_shops' \in Market!Customers \cup {Market!LOADER, Market!Nobody} /\ loader' \in 0 .. NUM_SHOPS
    BY <1>2, ShopConstants
  <2>2. UNCHANGED <<shops, request, customer, seen, joined, wanted, delivered>>
    BY DEF Market!LoaderEnter
  <2> QED BY <1>1, <2>1, <2>2 DEF ShopTypes
<1>4. Locked'
  BY <1>1, <1>2, ShopConstants DEF Locked, ShopTypes, Market!LoaderEnter
<1> QED BY <1>1, <1>3, <1>4 DEF ShopInv, Balance, Market!LoaderEnter

\* main joins a customer,
LEMMA CustomerJoined == ASSUME ShopInv, Market!MainThere, Market!Join PROVE ShopInv'
<1>1. joined \in 0 .. NUM_CUSTOMERS /\ joined < NUM_CUSTOMERS /\ joined' = joined + 1
  BY DEF ShopInv, ShopTypes, Market!Join, Market!MainThere
<1>2. joined' \in 0 .. NUM_CUSTOMERS
  BY <1>1, ShopConstants
<1> QED BY <1>2, ShopConstants DEF ShopInv, ShopTypes, Locked, Balance, Market!Join

\* a customer buys, which moves goods from the shop to the customer,
LEMMA GoodsBought == ASSUME ShopInv, NEW c \in Market!Customers, Market!Buy(c) PROVE ShopInv'
<1>0. ShopTypes /\ Locked /\ Balance
  BY DEF ShopInv
<1> DEFINE shop  == seen[c][1]
           taken == IF request[c] > seen[c][2] THEN seen[c][2] ELSE request[c]
<1>1. /\ customer[c] = "buy" /\ shops' = [shops EXCEPT ![shop] = seen[c][2] - taken]
      /\ request' = [request EXCEPT ![c] = @ - taken] /\ customer' = [customer EXCEPT ![c] = "leave"]
      /\ UNCHANGED <<seen, loader, mutex_shops, joined, wanted, delivered>>
  BY DEF Market!Buy
<1>2. /\ Market!Max(Goods) \in Nat /\ shop \in Market!Shop /\ seen[c][2] \in 0 .. Market!Max(Goods) /\ seen[c][2] = shops[shop]
      /\ request[c] \in Nat /\ seen[c][2] \in Nat
  <2>1. seen[c] \in Market!Shop \X (0 .. Market!Max(Goods))
    BY <1>0 DEF ShopTypes
  <2>2. seen[c][1] \in Market!Shop /\ seen[c][2] \in 0 .. Market!Max(Goods)
    BY <2>1
  <2>3. request[c] \in Nat
    BY <1>0 DEF ShopTypes
  <2>4. seen[c][2] = shops[seen[c][1]]
    BY <1>0, <1>1 DEF Locked
  <2>5. Market!Max(Goods) \in Nat
    BY <1>0 DEF ShopTypes
  <2> QED BY <2>2, <2>3, <2>4, <2>5
<1>3. taken \in Nat /\ taken <= request[c] /\ taken <= seen[c][2]
  BY <1>2
<1> HIDE DEF shop, taken
<1>4. /\ seen[c][2] - taken \in 0 .. Market!Max(Goods) /\ request[c] - taken \in Nat
      /\ request[c] - taken <= request[c]
  BY <1>2, <1>3
<1>5. /\ shops' \in [Market!Shop -> 0 .. Market!Max(Goods)] /\ shops'[shop] = shops[shop] - taken
      /\ \A s \in Market!Shop \ {shop} : shops[s] = shops'[s]
      /\ request' \in [Market!Customers -> Nat] /\ request'[c] = request[c] - taken
      /\ \A d \in Market!Customers \ {c} : request[d] = request'[d]
  <2>1. shops \in [Market!Shop -> 0 .. Market!Max(Goods)] /\ request \in [Market!Customers -> Nat]
    BY <1>0 DEF ShopTypes
  <2> QED BY <1>1, <1>2, <1>4, <2>1
<1>6. ShopTypes'
  <2>1. ASSUME NEW d \in Market!Customers PROVE request'[d] <= wanted[d]
    <3>1. request[d] <= wanted[d] /\ request[d] \in Nat /\ wanted[d] \in Nat
      BY <1>0, ShopConstants DEF ShopTypes
    <3>2. CASE d = c
      BY <1>4, <1>3, <1>5, <3>1, <3>2
    <3>3. CASE d # c
      BY <1>5, <3>1, <3>3
    <3> QED BY <3>2, <3>3
  <2> QED BY <1>0, <1>1, <1>5, <2>1 DEF ShopTypes
<1>7. Locked'
  BY <1>0, <1>1 DEF Locked, ShopTypes
<1>8. Balance'
  <2>1. /\ shops \in [Market!Shop -> Int] /\ shops' \in [Market!Shop -> Int]
        /\ request \in [Market!Customers -> Int] /\ request' \in [Market!Customers -> Int]
        /\ wanted \in [Market!Customers -> Nat] /\ delivered \in Nat
    <3>1. shops \in [Market!Shop -> 0 .. Market!Max(Goods)] /\ 0 .. Market!Max(Goods) \subseteq Int
      BY <1>0 DEF ShopTypes
    <3>2. request \in [Market!Customers -> Nat] /\ delivered \in Nat
      BY <1>0 DEF ShopTypes
    <3>3. wanted \in [Market!Customers -> Requests] /\ Requests \subseteq Nat
      BY <1>0, ShopConstants DEF ShopTypes
    <3>4. shops \in [Market!Shop -> Int] /\ shops' \in [Market!Shop -> Int]
      BY <1>5, <3>1
    <3>5. request \in [Market!Customers -> Int] /\ request' \in [Market!Customers -> Int]
      BY <1>5, <3>2
    <3>6. wanted \in [Market!Customers -> Nat]
      BY <3>3
    <3> QED BY <3>2, <3>4, <3>5, <3>6
  <2>2. /\ Market!SumFunction(shops) \in Int
        /\ Market!SumFunction(shops') = Market!SumFunction(shops) + shops'[shop] - shops[shop]
    <3> DEFINE S == Market!Shop  before == shops  after == shops'
    <3>1. /\ IsFiniteSet(S) /\ before \in [S -> Int] /\ after \in [S -> Int] /\ shop \in S
          /\ \A y \in S \ {shop} : before[y] = after[y]
      BY <1>2, <1>5, <2>1, ShopConstants
    <3> HIDE DEF S, before, after
    <3>2. /\ Market!SumFunction(before) \in Int
          /\ Market!SumFunction(after) = Market!SumFunction(before) + after[shop] - before[shop]
      BY <3>1, SumMoves
    <3> QED BY <3>2 DEF before, after
  <2>3. /\ Market!SumFunction(request) \in Int
        /\ Market!SumFunction(request') = Market!SumFunction(request) + request'[c] - request[c]
    <3> DEFINE S == Market!Customers  before == request  after == request'
    <3>1. /\ IsFiniteSet(S) /\ before \in [S -> Int] /\ after \in [S -> Int] /\ c \in S
          /\ \A y \in S \ {c} : before[y] = after[y]
      BY <1>5, <2>1, ShopConstants
    <3> HIDE DEF S, before, after
    <3>2. /\ Market!SumFunction(before) \in Int
          /\ Market!SumFunction(after) = Market!SumFunction(before) + after[c] - before[c]
      BY <3>1, SumMoves
    <3> QED BY <3>2 DEF before, after
  <2>4. shops'[shop] - shops[shop] = request'[c] - request[c] /\ shops'[shop] - shops[shop] \in Int
    BY <1>2, <1>3, <1>5
  <2>5. Market!SumFunction(wanted) \in Nat
    BY <2>1, SumOfNats, ShopConstants
  <2>6. /\ Market!SumFunction(shops') = Market!SumFunction(shops) + (shops'[shop] - shops[shop])
        /\ Market!SumFunction(request') = Market!SumFunction(request) + (shops'[shop] - shops[shop])
    BY <1>2, <1>3, <1>5, <2>1, <2>2, <2>3, <2>4
  <2>7. wanted' = wanted /\ delivered' = delivered
    BY <1>1
  <2> QED BY <1>0, <2>1, <2>2, <2>3, <2>4, <2>5, <2>6, <2>7 DEF Balance
<1> QED BY <1>6, <1>7, <1>8 DEF ShopInv

\* and the loader fills an empty shop.
LEMMA ShopRestocked == ASSUME ShopInv, Market!RestockShop PROVE ShopInv'
<1>0. ShopTypes /\ Locked /\ Balance
  BY DEF ShopInv
<1> DEFINE empty == shops[loader] = 0
<1>1. PICK g \in Goods :
        /\ shops' = [shops EXCEPT ![loader] = IF empty THEN g ELSE @]
        /\ delivered' = IF empty THEN delivered + g ELSE delivered
  BY DEF Market!RestockShop
<1>2. /\ loader < NUM_SHOPS /\ loader' = loader + 1 /\ UNCHANGED <<request, customer, seen, joined, wanted>>
      /\ IF loader + 1 = NUM_SHOPS THEN mutex_shops' = Market!Nobody ELSE mutex_shops' = mutex_shops
  BY DEF Market!RestockShop
<1>3. loader \in Market!Shop /\ g \in Nat /\ g \in 0 .. Market!Max(Goods) /\ mutex_shops = Market!LOADER
  BY <1>0, <1>2, ShopConstants DEF ShopTypes, Locked
<1>4. /\ shops' \in [Market!Shop -> 0 .. Market!Max(Goods)]
      /\ \A s \in Market!Shop \ {loader} : shops[s] = shops'[s]
      /\ shops'[loader] = IF empty THEN g ELSE shops[loader]
  <2>1. shops \in [Market!Shop -> 0 .. Market!Max(Goods)]
    BY <1>0 DEF ShopTypes
  <2> HIDE DEF empty
  <2> QED BY <1>1, <1>3, <2>1
<1>5. delivered' \in Nat /\ delivered' = delivered + (shops'[loader] - shops[loader])
  <2>1. delivered \in Nat /\ shops[loader] \in Nat
    BY <1>0, <1>3, ShopConstants DEF ShopTypes
  <2> QED BY <1>1, <1>3, <1>4, <2>1
<1>6. ShopTypes'
  <2>1. loader' \in 0 .. NUM_SHOPS
    BY <1>2, <1>3, ShopConstants
  <2>2. mutex_shops' \in Market!Customers \cup {Market!LOADER, Market!Nobody}
    BY <1>2, <1>3
  <2> QED BY <1>0, <1>2, <1>4, <1>5, <2>1, <2>2 DEF ShopTypes
<1>7. Locked'
  <2>1. loader \in 0 .. NUM_SHOPS - 1 /\ NUM_SHOPS \in Nat
    BY <1>3, ShopConstants
  <2>2. loader' < NUM_SHOPS <=> mutex_shops' = Market!LOADER
    BY <1>2, <1>3, <2>1, ShopConstants
  <2>3. \A c \in Market!Customers : customer[c] \notin {"choose", "buy", "leave"}
    BY <1>0, <1>3, ShopConstants DEF Locked
  <2>4. \A c \in Market!Customers : mutex_shops' # c
    BY <1>2, <1>3, ShopConstants
  <2>5. customer' = customer
    BY <1>2
  <2> HIDE DEF empty
  <2> QED BY <2>2, <2>3, <2>4, <2>5 DEF Locked
<1>8. Balance'
  <2>1. /\ shops \in [Market!Shop -> Int] /\ shops' \in [Market!Shop -> Int] /\ delivered \in Nat
        /\ request \in [Market!Customers -> Nat] /\ wanted \in [Market!Customers -> Nat]
    <3>1. shops \in [Market!Shop -> 0 .. Market!Max(Goods)] /\ 0 .. Market!Max(Goods) \subseteq Int
      BY <1>0 DEF ShopTypes
    <3>2. request \in [Market!Customers -> Nat] /\ delivered \in Nat
      BY <1>0 DEF ShopTypes
    <3>3. wanted \in [Market!Customers -> Requests] /\ Requests \subseteq Nat
      BY <1>0, ShopConstants DEF ShopTypes
    <3> HIDE DEF empty
    <3>4. shops \in [Market!Shop -> Int] /\ shops' \in [Market!Shop -> Int]
      BY <1>4, <3>1
    <3>5. wanted \in [Market!Customers -> Nat]
      BY <3>3
    <3> QED BY <3>2, <3>4, <3>5
  <2>2. /\ Market!SumFunction(shops) \in Int
        /\ Market!SumFunction(shops') = Market!SumFunction(shops) + shops'[loader] - shops[loader]
    <3> DEFINE S == Market!Shop  before == shops  after == shops'
    <3> HIDE DEF empty
    <3>1. /\ IsFiniteSet(S) /\ before \in [S -> Int] /\ after \in [S -> Int] /\ loader \in S
          /\ \A y \in S \ {loader} : before[y] = after[y]
      BY <1>3, <1>4, <2>1, ShopConstants
    <3> HIDE DEF S, before, after
    <3>2. /\ Market!SumFunction(before) \in Int
          /\ Market!SumFunction(after) = Market!SumFunction(before) + after[loader] - before[loader]
      BY <3>1, SumMoves
    <3> QED BY <3>2 DEF before, after
  <2>3. Market!SumFunction(request) \in Nat /\ Market!SumFunction(wanted) \in Nat
    BY <2>1, SumOfNats, ShopConstants
  <2>4. shops'[loader] \in Int /\ shops[loader] \in Int
    BY <1>3, <2>1
  <2>5. wanted' = wanted /\ request' = request
    BY <1>2
  <2> QED BY <1>0, <1>5, <2>1, <2>2, <2>3, <2>4, <2>5 DEF Balance
<1> QED BY <1>6, <1>7, <1>8 DEF ShopInv

\* Every step of the shops keeps the invariant.
LEMMA ShopsKept == ShopInv /\ [Market!Next]_shopVars => ShopInv'
<1>1. ASSUME ShopInv, Market!Next PROVE ShopInv'
  <2>1. CASE Market!MainThere /\ Market!Join
    BY <1>1, <2>1, CustomerJoined
  <2>2. CASE \E c \in Market!Customers : Market!CustomerStep(c)
    BY <1>1, <2>2, CustomerEnters, ShopChosen, GoodsBought, CustomerLeaves, CustomerFinishes DEF Market!CustomerStep
  <2> QED BY <1>1, <2>1, <2>2, LoaderEnters, ShopRestocked DEF Market!Next
<1>2. ASSUME ShopInv, UNCHANGED shopVars PROVE ShopInv'
  BY <1>2 DEF shopVars, ShopInv, ShopTypes, Locked, Balance
<1> QED BY <1>1, <1>2

\* What the runs check of the shops follows from it.
LEMMA ShopsSafe == ShopInv => Market!TypeOK /\ Market!GoodsAddUp
<1> SUFFICES ASSUME ShopInv PROVE Market!TypeOK /\ Market!GoodsAddUp
  OBVIOUS
<1>0. ShopTypes /\ Locked /\ Balance
  BY DEF ShopInv
<1>1. Market!TypeOK
  BY <1>0, ShopConstants DEF ShopTypes, Locked, Market!TypeOK
<1>2. Market!GoodsAddUp
  BY <1>0 DEF Balance, Market!GoodsAddUp
<1> QED BY <1>1, <1>2

HIDE DEF Market!Take, Market!Lock, Market!Unlock

(***************************************************************************)
(* The file browser of "09-virtual file system".                           *)
(***************************************************************************)
\* The list of files: in the order of qsort, with ".." in it.
Listed(f) ==
  /\ f \in Seq(Panels!Files) /\ Len(f) \in 1 .. MAX_FILES
  /\ \A j, k \in DOMAIN f : j < k => Panels!compareFileInfo(f[j], f[k])
  /\ \E k \in DOMAIN f : f[k].name = PARENT

\* The inductive invariant of the cursors: the property itself, with the types it needs.
CursorsRight ==
  /\ Len(files) \in Nat /\ LINES \in Heights /\ shrunk \in BOOLEAN /\ current_list \in Panels!Panels
  /\ highlight \in [Panels!Panels -> Nat] /\ top \in [Panels!Panels -> Nat]
  /\ Panels!CursorInView

\* The inductive invariant of the file browser.
BrowserInv == Listed(files) /\ app \in {"open", "closed", "failed"} /\ CursorsRight

\* What the assumption on the constants says of the file browser.
LEMMA BrowserConstants ==
  /\ Heights \subseteq Nat /\ \A h \in Heights : h > 2
  /\ IsFiniteSet(FileNames) /\ FileNames \cup {PARENT} \subseteq Nat /\ MAX_FILES \in Nat /\ Panels!Panels = {1, 2}
BY ProgramsAssumption DEF Panels!ConstantsOK, Panels!Panels, Panels!IsFiniteSet, IsFiniteSet

\* Every list scanDirectory makes is in order and has "..".
LEMMA ListingsRight == \A f \in Panels!Listings : Listed(f) /\ Len(f) \in Nat /\ Len(f) > 0
<1> DEFINE Of(kinds) == {[name |-> n, is_directory |-> kinds[n]] : n \in DOMAIN kinds}
           Parent == [name |-> PARENT, is_directory |-> TRUE]
<1> SUFFICES ASSUME NEW f \in Panels!Listings
             PROVE  Listed(f) /\ Len(f) \in Nat /\ Len(f) > 0
  OBVIOUS
<1>a. PICK R \in {D \in SUBSET FileNames : Panels!Cardinality(D) < MAX_FILES} :
        \E kinds \in [R -> BOOLEAN] : f \in Panels!Sorted({Parent} \cup Of(kinds))
  BY DEF Panels!Listings
<1>b. PICK S \in SUBSET FileNames : S = R /\ Panels!Cardinality(S) < MAX_FILES
  BY <1>a
<1>c. PICK kinds \in [S -> BOOLEAN] : f \in Panels!Sorted({Parent} \cup Of(kinds))
  BY <1>a, <1>b
<1>d. Cardinality(S) < MAX_FILES
  <2>1. Panels!Cardinality(S) = Cardinality(S)
    BY DEF Panels!Cardinality, Cardinality
  <2> QED BY <1>b, <2>1
<1> DEFINE T == {Parent} \cup Of(kinds)
<1>1. T \subseteq Panels!Files /\ Parent \in T
  <2>1. Parent \in Panels!Files
    BY DEF Panels!Files
  <2>2. ASSUME NEW n \in S PROVE [name |-> n, is_directory |-> kinds[n]] \in Panels!Files
    BY DEF Panels!Files
  <2>3. Of(kinds) \subseteq Panels!Files
    BY <2>2
  <2> QED BY <2>1, <2>3
<1>2. /\ IsFiniteSet(T) /\ Cardinality(T) \in Nat /\ Cardinality(T) > 0
      /\ Cardinality(T) <= MAX_FILES
  <2>1. IsFiniteSet(S) /\ MAX_FILES \in Nat /\ Cardinality(S) < MAX_FILES
    BY <1>d, BrowserConstants, FS_Subset
  <2>2. IsFiniteSet(Of(kinds)) /\ Cardinality(Of(kinds)) <= Cardinality(S)
    <3> DEFINE g == [n \in S |-> [name |-> n, is_directory |-> kinds[n]]]
    <3>1. Of(kinds) = {g[n] : n \in S}
      OBVIOUS
    <3>2. g \in Surjection(S, Of(kinds))
      BY <3>1 DEF Surjection
    <3> QED BY <2>1, <3>2, FS_Surjection
  <2>3. IsFiniteSet(T) /\ Cardinality(T) <= Cardinality(Of(kinds)) + 1
    <3>1. T = Of(kinds) \cup {Parent}
      OBVIOUS
    <3>2. /\ IsFiniteSet(Of(kinds) \cup {Parent})
          /\ Cardinality(Of(kinds) \cup {Parent}) \in {Cardinality(Of(kinds)), Cardinality(Of(kinds)) + 1}
      <4>1. IsFiniteSet(Of(kinds))
        BY <2>2
      <4> HIDE DEF Of, Parent
      <4> QED BY <4>1, FS_AddElement
    <3>3. Cardinality(Of(kinds)) \in Nat
      BY <2>2, FS_CardinalityType
    <3> HIDE DEF T, Of
    <3> QED BY <3>1, <3>2, <3>3
  <2>4. Cardinality(T) \in Nat /\ Cardinality(S) \in Nat /\ Cardinality(Of(kinds)) \in Nat
    BY <2>1, <2>2, <2>3, FS_CardinalityType
  <2>5. Cardinality(T) # 0
    BY <1>1, <2>3, FS_EmptySet
  <2> HIDE DEF T, Of
  <2> QED BY <2>1, <2>2, <2>3, <2>4, <2>5
<1> HIDE DEF T
<1>3. f \in Panels!TupleOf(T, Panels!Cardinality(T)) /\ \A j, k \in DOMAIN f : j < k => Panels!compareFileInfo(f[j], f[k])
  BY <1>c DEF Panels!Sorted, T
<1>4. f \in [1 .. Cardinality(T) -> T] /\ \A j, k \in 1 .. Cardinality(T) : j # k => f[j] # f[k]
  <2>1. Panels!Cardinality(T) = Cardinality(T)
    BY DEF Panels!Cardinality, Cardinality
  <2>2. f \in [1 .. Cardinality(T) -> T]
    BY <1>3, <2>1 DEF Panels!TupleOf
  <2>3. ASSUME NEW j \in 1 .. Cardinality(T), NEW k \in 1 .. Cardinality(T), j < k PROVE f[j] # f[k]
    <3>1. Panels!compareFileInfo(f[j], f[k]) /\ f[k] \in Panels!Files
      BY <1>1, <1>3, <2>2, <2>3
    <3>2. f[k].name \in Nat
      BY <3>1, BrowserConstants DEF Panels!Files
    <3> QED BY <3>1, <3>2 DEF Panels!compareFileInfo
  <2>4. \A j, k \in 1 .. Cardinality(T) : j # k => j < k \/ k < j
    BY <1>2
  <2> QED BY <2>2, <2>3, <2>4
<1>5. \E k \in 1 .. Cardinality(T) : f[k] = Parent
  <2>1. SUFFICES ASSUME \A k \in 1 .. Cardinality(T) : f[k] # Parent PROVE FALSE
    OBVIOUS
  <2>2. IsFiniteSet(1 .. Cardinality(T)) /\ Cardinality(1 .. Cardinality(T)) = Cardinality(T)
    BY <1>2, FS_Interval
  <2>3. IsFiniteSet(T \ {Parent}) /\ Cardinality(T \ {Parent}) = Cardinality(T) - 1
    <3>1. IsFiniteSet(T) /\ Parent \in T
      BY <1>1, <1>2
    <3> HIDE DEF Parent
    <3> QED BY <3>1, FS_RemoveElement
  <2>4. f \in [1 .. Cardinality(T) -> T \ {Parent}]
    BY <1>4, <2>1
  <2>5. Cardinality(T \ {Parent}) < Cardinality(1 .. Cardinality(T))
    BY <1>2, <2>2, <2>3
  <2>6. \E j, k \in 1 .. Cardinality(T) : j # k /\ f[j] = f[k]
    <3> DEFINE D == 1 .. Cardinality(T)
               U == T \ {Parent}
    <3>1. IsFiniteSet(D) /\ IsFiniteSet(U) /\ Cardinality(U) < Cardinality(D) /\ f \in [D -> U]
      BY <2>2, <2>3, <2>4, <2>5
    <3>2. \E j, k \in D : j # k /\ f[j] = f[k]
      <4> HIDE DEF D, U
      <4> QED BY <3>1, FS_PigeonHole
    <3> QED BY <3>2
  <2> QED BY <1>4, <2>6
<1>6. f \in Seq(Panels!Files) /\ Len(f) = Cardinality(T) /\ DOMAIN f = 1 .. Cardinality(T)
  BY <1>1, <1>2, <1>4
<1>7. MAX_FILES \in Nat
  BY BrowserConstants
<1>8. Len(f) \in 1 .. MAX_FILES
  BY <1>2, <1>6, <1>7
<1> QED BY <1>3, <1>5, <1>6, <1>7, <1>8 DEF Listed

\* The cursors are right at the start
LEMMA CursorsStart == Panels!Init => CursorsRight
<1> SUFFICES ASSUME Panels!Init PROVE CursorsRight
  OBVIOUS
<1>1. /\ files \in Panels!Listings /\ LINES \in Heights /\ shrunk = FALSE /\ current_list = 1
      /\ highlight = [l \in Panels!Panels |-> 0] /\ top = [l \in Panels!Panels |-> 0]
  BY DEF Panels!Init
<1>2. Len(files) \in Nat /\ Len(files) > 0
  BY <1>1, ListingsRight
<1>3. LINES \in Nat /\ LINES > 2
  BY <1>1, BrowserConstants
<1>4. \A n \in Panels!Panels : highlight[n] = 0 /\ top[n] = 0
  BY <1>1
<1>5. Panels!CursorInView
  BY <1>2, <1>3, <1>4 DEF Panels!CursorInView, Panels!n_files
<1> QED BY <1>1, <1>2, <1>5, BrowserConstants DEF CursorsRight

\* and after every step.
LEMMA CursorsKept == CursorsRight /\ [Panels!Next]_fileVars => CursorsRight'
<1> SUFFICES ASSUME CursorsRight, [Panels!Next]_fileVars PROVE CursorsRight'
  OBVIOUS
<1>1. /\ Len(files) \in Nat /\ LINES \in Heights /\ LINES \in Nat /\ LINES > 2
      /\ shrunk \in BOOLEAN /\ current_list \in Panels!Panels
      /\ highlight \in [Panels!Panels -> Nat] /\ top \in [Panels!Panels -> Nat]
  BY BrowserConstants DEF CursorsRight
<1>2. \A l \in Panels!Panels :
        /\ highlight[l] < Len(files) /\ top[l] <= highlight[l]
        /\ ~shrunk => highlight[l] < top[l] + LINES - 2
  BY DEF CursorsRight, Panels!CursorInView, Panels!n_files
<1>3. CASE UNCHANGED fileVars
  BY <1>3 DEF fileVars, CursorsRight, Panels!CursorInView, Panels!n_files
<1>4. SUFFICES ASSUME Panels!Next PROVE CursorsRight'
  BY <1>3
<1> DEFINE l == current_list
<1>5. CASE Panels!KeyUp(l)
  <2>1. /\ highlight[l] > 0 /\ highlight' = [highlight EXCEPT ![l] = highlight[l] - 1]
        /\ top' = [top EXCEPT ![l] = IF highlight[l] - 1 < top[l] THEN top[l] - 1 ELSE top[l]]
        /\ files' = files /\ current_list' = current_list /\ LINES' = LINES /\ shrunk' = shrunk
    BY <1>5 DEF Panels!KeyUp
  <2>2. highlight[l] \in Nat /\ top[l] \in Nat /\ top[l] <= highlight[l]
    BY <1>1, <1>2
  <2>3. highlight' \in [Panels!Panels -> Nat] /\ top' \in [Panels!Panels -> Nat]
    BY <1>1, <2>1, <2>2
  <2>4. \A n \in Panels!Panels :
        /\ highlight'[n] < Len(files) /\ top'[n] <= highlight'[n]
        /\ ~shrunk => highlight'[n] < top'[n] + LINES - 2
    BY <1>1, <1>2, <2>1, <2>2
  <2> QED BY <1>1, <2>1, <2>3, <2>4 DEF CursorsRight, Panels!CursorInView, Panels!n_files
<1>6. CASE Panels!KeyDown(l)
  <2>1. /\ highlight[l] < Len(files) - 1 /\ highlight' = [highlight EXCEPT ![l] = highlight[l] + 1]
        /\ top' = [top EXCEPT ![l] = IF highlight[l] + 1 >= top[l] + LINES - 2 THEN top[l] + 1 ELSE top[l]]
        /\ files' = files /\ current_list' = current_list /\ LINES' = LINES /\ shrunk' = shrunk
    BY <1>6 DEF Panels!KeyDown, Panels!n_files
  <2>2. highlight[l] \in Nat /\ top[l] \in Nat /\ top[l] <= highlight[l]
    BY <1>1, <1>2
  <2>3. highlight' \in [Panels!Panels -> Nat] /\ top' \in [Panels!Panels -> Nat]
    BY <1>1, <2>1, <2>2
  <2>4. \A n \in Panels!Panels :
        /\ highlight'[n] < Len(files) /\ top'[n] <= highlight'[n]
        /\ ~shrunk => highlight'[n] < top'[n] + LINES - 2
    BY <1>1, <1>2, <2>1, <2>2
  <2> QED BY <1>1, <2>1, <2>3, <2>4 DEF CursorsRight, Panels!CursorInView, Panels!n_files
<1>7. CASE Panels!Tab
  BY <1>1, <1>2, <1>7, BrowserConstants DEF Panels!Tab, CursorsRight, Panels!CursorInView, Panels!n_files
<1>8. CASE Panels!Enter(l)
  <2>1. /\ files' \in Panels!Listings /\ shrunk' = FALSE /\ current_list' = current_list /\ LINES' = LINES
        /\ highlight' = [n \in Panels!Panels |-> 0] /\ top' = [n \in Panels!Panels |-> 0]
    BY <1>8 DEF Panels!Enter, Panels!Reset, Panels!ResetBoth
  <2>2. Len(files') \in Nat /\ Len(files') > 0
    BY <2>1, ListingsRight
  <2>3. \A n \in Panels!Panels : highlight'[n] = 0 /\ top'[n] = 0
    BY <2>1
  <2>4. Panels!CursorInView'
    BY <1>1, <2>1, <2>2, <2>3 DEF Panels!CursorInView, Panels!n_files
  <2> QED BY <1>1, <2>1, <2>2, <2>4 DEF CursorsRight
<1>9. CASE Panels!EnterFails(l) \/ Panels!Escape
  BY <1>1, <1>2, <1>9 DEF Panels!EnterFails, Panels!Escape, CursorsRight, Panels!CursorInView, Panels!n_files
<1>10. CASE Panels!Resize
  <2>1. /\ LINES' \in Heights /\ shrunk' = (shrunk \/ LINES' < LINES) /\ UNCHANGED <<files, highlight, top, current_list>>
    BY <1>10 DEF Panels!Resize
  <2>2. LINES' \in Nat
    BY <2>1, BrowserConstants
  <2>3. \A n \in Panels!Panels : ~shrunk' => highlight[n] < top[n] + LINES' - 2
    <3> SUFFICES ASSUME NEW n \in Panels!Panels, ~shrunk' PROVE highlight[n] < top[n] + LINES' - 2
      OBVIOUS
    <3>1. highlight[n] \in Nat /\ top[n] \in Nat /\ ~shrunk /\ ~(LINES' < LINES) /\ highlight[n] < top[n] + LINES - 2
      BY <1>1, <1>2, <2>1
    <3> QED BY <1>1, <2>2, <3>1
  <2> QED BY <1>1, <1>2, <2>1, <2>3 DEF CursorsRight, Panels!CursorInView, Panels!n_files
<1> QED BY <1>4, <1>5, <1>6, <1>7, <1>8, <1>9, <1>10 DEF Panels!Next

\* The invariant holds when the browser starts,
LEMMA BrowserOpens == Panels!Init => BrowserInv
<1> SUFFICES ASSUME Panels!Init PROVE BrowserInv
  OBVIOUS
<1>1. files \in Panels!Listings /\ app = "open"
  BY DEF Panels!Init
<1>2. Listed(files)
  BY <1>1, ListingsRight
<1>3. CursorsRight
  BY CursorsStart
<1> QED BY <1>1, <1>2, <1>3 DEF BrowserInv

\* and after every step.
LEMMA BrowserKept == BrowserInv /\ [Panels!Next]_fileVars => BrowserInv'
<1> SUFFICES ASSUME BrowserInv, [Panels!Next]_fileVars PROVE BrowserInv'
  OBVIOUS
<1>1. Listed(files) /\ app \in {"open", "closed", "failed"} /\ CursorsRight
  BY DEF BrowserInv
<1>2. CursorsRight'
  BY <1>1, CursorsKept
<1>3. app' \in {"open", "closed", "failed"} /\ (files' = files \/ files' \in Panels!Listings)
  BY <1>1 DEF fileVars, Panels!Next, Panels!KeyUp, Panels!KeyDown, Panels!Tab, Panels!Enter, Panels!EnterFails, Panels!Escape, Panels!Resize
<1>4. Listed(files')
  <2>1. CASE files' = files
    BY <1>1, <2>1
  <2>2. CASE files' \in Panels!Listings
    BY <2>2, ListingsRight
  <2> QED BY <1>3, <2>1, <2>2
<1>5. Listed(files)'
  BY <1>4 DEF Listed
<1> QED BY <1>2, <1>3, <1>5 DEF BrowserInv

\* What the runs check of the file browser follows from it.
LEMMA BrowserSafe == BrowserInv => Panels!TypeOK /\ Panels!CursorInView
BY DEF BrowserInv, Listed, CursorsRight, Panels!TypeOK, Panels!n_files

(***************************************************************************)
(* The broadcast server of "16-sockets/3".                                 *)
(***************************************************************************)
\* The texts, the records of the server and of a connection.
CastTexts == Clients \X Nat
SelectRecords == [at : {"select", "accept", "scan", "send", "gone"}, ready : SUBSET (Cast!Fds \cup {Cast!server_fd}),
                  i : Nat, j : Nat, buffer : Seq(CastTexts)]
NetRecords == [up : Seq(CastTexts), down : Seq(CastTexts), atServer : Cast!States, atClient : Cast!States]

\* The type invariant of the broadcast server, as function sets.
CastTypes ==
  /\ srv \in SelectRecords /\ slots \in Seq(Cast!Fds \cup {0}) /\ backlog \in Seq(Clients)
  /\ owner \in [Cast!Fds -> SUBSET Clients] /\ user \in [Clients -> {"out", "typing", "reading", "gone"}]
  /\ net \in [Clients -> NetRecords] /\ said \in [Clients -> Nat]

\* A descriptor is that of one connection, and a connection has one descriptor;
Owners ==
  /\ \A d \in Cast!Fds : owner[d] = {} \/ \E u \in Clients : owner[d] = {u}
  /\ \A d, e \in Cast!Fds, u \in Clients : u \in owner[d] /\ u \in owner[e] => d = e

\* none while it waits in the backlog, where it is once.
InBacklog ==
  /\ IsInjective(backlog)
  /\ \A u \in Clients : Contains(backlog, u) => user[u] # "out" /\ \A d \in Cast!Fds : u \notin owner[d]
  /\ \A u \in Clients, d \in Cast!Fds : u \in owner[d] => user[u] # "out"

\* The descriptors in the table are open, each is in one place.
OnePlace ==
  /\ \A k \in DOMAIN slots : slots[k] # 0 => owner[slots[k]] # {}
  /\ \A k, l \in DOMAIN slots : slots[k] = slots[l] /\ slots[k] # 0 => k = l

\* What there is to read from descriptor d: a text, an end or an error.
HasInput(d) == \E u \in Clients : owner[d] = {u} /\ (net[u].up # <<>> \/ net[u].atServer # "open")
Inputs == {d \in Cast!Fds : HasInput(d)}

\* Whatever select found ready has input still, from place k of the table on;
ReadyFrom(k) == \A n \in DOMAIN slots : n >= k /\ slots[n] \in srv.ready => slots[n] \in Inputs

\* behind place i if that has been read.  So it is with all of it before an accept, whose
\* new descriptor is therefore none of those.
InScan ==
  /\ srv.at = "accept" => backlog # <<>> /\ \A d \in Cast!Fds : d \in srv.ready => d \in Inputs
  /\ srv.at = "scan" => srv.i \in DOMAIN slots /\ slots[srv.i] \in srv.ready /\ ReadyFrom(srv.i)
  /\ srv.at = "send" => /\ srv.i \in DOMAIN slots /\ ReadyFrom(srv.i + 1)
                        /\ srv.j \in DOMAIN slots /\ slots[srv.j] # 0

\* The inductive invariant of the broadcast server.
CastInv == CastTypes /\ Owners /\ InBacklog /\ OnePlace /\ InScan

\* What the assumption on the constants says of the descriptors.
LEMMA CastConstants ==
  /\ IsFiniteSet(Clients) /\ Cardinality(Clients) \in Nat
  /\ Cast!server_fd = 3 /\ Cast!Fds = 4 .. 3 + Cardinality(Clients) /\ 0 \notin Cast!Fds /\ 3 \notin Cast!Fds
  /\ Cast!Fds \subseteq Nat /\ \A d \in Cast!Fds : d > 0
  /\ Cast!NoClient = {} /\ Cast!States = {"none", "open", "fin", "rst", "dead"}
<1>1. IsFiniteSet(Clients)
  BY ProgramsAssumption DEF Cast!ConstantsOK, Cast!IsFiniteSet, IsFiniteSet
<1>2. Cardinality(Clients) \in Nat
  BY <1>1, FS_CardinalityType
<1>3. Cast!Cardinality(Clients) = Cardinality(Clients)
  BY DEF Cast!Cardinality, Cardinality
<1>4. Cast!server_fd = 3 /\ Cast!Fds = 4 .. 3 + Cardinality(Clients)
  BY <1>2, <1>3 DEF Cast!server_fd, Cast!Fds
<1> QED BY <1>1, <1>2, <1>4 DEF Cast!NoClient, Cast!States

\* Readable, by the client behind the descriptor.
LEMMA ReadableMeans ==
  ASSUME NEW d \in Cast!Fds, Owners
  PROVE  /\ \A u \in Clients : owner[d] = {u} => Cast!Of(d) = u
         /\ Cast!Readable(d) <=> HasInput(d)
<1>1. \A u \in Clients : owner[d] = {u} => Cast!Of(d) = u
  BY DEF Cast!Of
<1>2. d \in Cast!Open <=> \E u \in Clients : owner[d] = {u}
  BY CastConstants DEF Cast!Open, Owners
<1> QED BY <1>1, <1>2 DEF Cast!Readable, HasInput

\* The least number of a set.
LEMMA Lowest ==
  ASSUME NEW n \in Nat, NEW T \in SUBSET (0 .. n), T # {}
  PROVE  Cast!Min(T) \in T /\ \A y \in T : Cast!Min(T) <= y
BY LeastNat DEF Cast!Min

\* Where the scan goes on.
LEMMA ScanGoesOn ==
  ASSUME NEW r \in SelectRecords, NEW k \in Nat \ {0}, NEW table \in Seq(Cast!Fds \cup {0})
  PROVE  LET s == Cast!ScanFrom(r, k, table) IN
         /\ s \in SelectRecords /\ s.at \in {"select", "scan"}
         /\ s.at = "scan" => /\ s.ready = r.ready /\ s.i \in DOMAIN table /\ s.i >= k /\ table[s.i] \in s.ready
<1> DEFINE n == Cast!NextReady(k, table, r.ready)
           T == {m \in k .. Len(table) : table[m] \in r.ready} \cup {Len(table) + 1}
<1>1. Len(table) \in Nat /\ DOMAIN table = 1 .. Len(table)
  OBVIOUS
<1>2. n \in T
  <2> DEFINE N == Len(table) + 1
  <2>1. N \in Nat /\ T \in SUBSET (0 .. N) /\ T # {}
    BY <1>1
  <2>2. n = Cast!Min(T)
    BY DEF Cast!NextReady
  <2> HIDE DEF T, n, N
  <2> QED BY <2>1, <2>2, Lowest
<1>3. CASE n > Len(table)
  <2>1. Cast!ScanFrom(r, k, table) = [r EXCEPT !.at = "select", !.ready = {}, !.i = 1, !.j = 1]
    BY <1>3 DEF Cast!ScanFrom
  <2>2. [r EXCEPT !.at = "select", !.ready = {}, !.i = 1, !.j = 1] \in SelectRecords
    BY DEF SelectRecords
  <2> QED BY <2>1, <2>2 DEF SelectRecords
<1>4. CASE ~(n > Len(table))
  <2>1. n \in k .. Len(table) /\ table[n] \in r.ready
    BY <1>1, <1>2, <1>4
  <2>2. Cast!ScanFrom(r, k, table) = [r EXCEPT !.at = "scan", !.i = n, !.j = 1]
    BY <1>4 DEF Cast!ScanFrom
  <2> HIDE DEF n, T
  <2>3. [r EXCEPT !.at = "scan", !.i = n, !.j = 1] \in SelectRecords
    <3>1. n \in Nat
      BY <1>1, <2>1
    <3> QED BY <3>1 DEF SelectRecords
  <2> QED BY <1>1, <2>1, <2>2, <2>3 DEF SelectRecords
<1> QED BY <1>3, <1>4

\* The invariant holds before anybody connects.
LEMMA CastOpens == Cast!Init => CastInv
<1> SUFFICES ASSUME Cast!Init PROVE CastInv
  OBVIOUS
<1>1. /\ srv = [at |-> "select", ready |-> {}, i |-> 1, j |-> 1, buffer |-> <<>>] /\ slots = <<>> /\ backlog = <<>>
      /\ owner = [d \in Cast!Fds |-> {}] /\ user = [u \in Clients |-> "out"] /\ said = [u \in Clients |-> 0]
      /\ net = [u \in Clients |-> [up |-> <<>>, down |-> <<>>, atServer |-> "none", atClient |-> "none"]]
  BY CastConstants DEF Cast!Init
<1>2. CastTypes
  <2>1. srv \in SelectRecords
    BY <1>1 DEF SelectRecords
  <2>2. net \in [Clients -> NetRecords]
    BY <1>1, CastConstants DEF NetRecords
  <2> QED BY <1>1, <2>1, <2>2 DEF CastTypes
<1>3. Owners
  BY <1>1 DEF Owners
<1>4. InBacklog
  BY <1>1 DEF InBacklog, IsInjective, Contains
<1>5. OnePlace /\ InScan
  BY <1>1 DEF OnePlace, InScan
<1> QED BY <1>2, <1>3, <1>4, <1>5 DEF CastInv

\* What the runs check of NeverBlocks follows from it.
LEMMA CastSafe == CastInv => Cast!NeverBlocks
<1> SUFFICES ASSUME CastInv, Cast!Scanning PROVE Cast!Readable(Cast!Current)
  BY DEF Cast!NeverBlocks
<1>1. srv.at = "scan" /\ CastTypes /\ Owners /\ OnePlace /\ InScan
  BY DEF CastInv, Cast!Scanning
<1>2. srv.i \in DOMAIN slots /\ slots[srv.i] \in srv.ready /\ ReadyFrom(srv.i) /\ srv.i \in Nat
  BY <1>1 DEF InScan, CastTypes, SelectRecords
<1>3. slots[srv.i] \in Inputs
  BY <1>2 DEF ReadyFrom
<1>4. slots[srv.i] \in Cast!Fds /\ HasInput(slots[srv.i])
  BY <1>3 DEF Inputs
<1> QED BY <1>1, <1>4, ReadableMeans DEF Cast!Current

\* What is there to read stays, but for the server that reads it.
LEMMA InputKept ==
  ASSUME NEW d \in Cast!Fds, HasInput(d), owner'[d] = owner[d],
         \A u \in Clients : u \in owner[d] => /\ net[u].up # <<>> => net'[u].up # <<>>
                                              /\ net[u].atServer # "open" => net'[u].atServer # "open"
  PROVE  HasInput(d)'
<1>1. PICK u \in Clients : owner[d] = {u} /\ (net[u].up # <<>> \/ net[u].atServer # "open")
  BY DEF HasInput
<1>2. u \in owner[d]
  BY <1>1
<1>3. net'[u].up # <<>> \/ net'[u].atServer # "open"
  BY <1>1, <1>2
<1> QED BY <1>1, <1>3 DEF HasInput

\* A step of a client keeps the invariant:
LEMMA UserActs ==
  ASSUME CastInv, NEW u \in Clients, NEW r \in NetRecords, net' = [net EXCEPT ![u] = r],
         NEW to \in {"typing", "reading", "gone"}, user' = [user EXCEPT ![u] = to],
         said' \in [Clients -> Nat], UNCHANGED <<srv, slots, owner>>,
         backlog' = backlog \/ (backlog' = Append(backlog, u) /\ user[u] = "out"),
         user[u] # "out" => /\ net[u].up # <<>> => r.up # <<>>
                            /\ net[u].atServer # "open" => r.atServer # "open"
  PROVE  CastInv'
<1>1. CastTypes /\ Owners /\ InBacklog /\ OnePlace /\ InScan
  BY DEF CastInv
<1>2. /\ net' \in [Clients -> NetRecords] /\ net'[u] = r /\ \A w \in Clients \ {u} : net'[w] = net[w]
      /\ user' \in [Clients -> {"out", "typing", "reading", "gone"}] /\ user'[u] # "out"
      /\ \A w \in Clients \ {u} : user'[w] = user[w]
  BY <1>1 DEF CastTypes
<1>3. /\ backlog \in Seq(Clients) /\ backlog' \in Seq(Clients)
      /\ backlog # <<>> => backlog' # <<>>
      /\ \A w : Contains(backlog', w) => Contains(backlog, w) \/ (w = u /\ user[u] = "out")
      /\ IsInjective(backlog')
  <2>1. backlog \in Seq(Clients) /\ IsInjective(backlog)
    BY <1>1 DEF CastTypes, InBacklog
  <2>2. CASE backlog' = backlog
    BY <2>1, <2>2
  <2>3. CASE backlog' = Append(backlog, u) /\ user[u] = "out"
    <3>1. ~Contains(backlog, u)
      BY <1>1, <2>3 DEF InBacklog
    <3> QED BY <2>1, <2>3, <3>1, JoinProperties
  <2> QED BY <2>2, <2>3
<1>4. CastTypes'
  BY <1>1, <1>2, <1>3 DEF CastTypes
<1>5. Owners' /\ OnePlace'
  BY <1>1 DEF Owners, OnePlace
<1>6. InBacklog'
  <2>1. ASSUME NEW w \in Clients, Contains(backlog', w)
        PROVE  user'[w] # "out" /\ \A d \in Cast!Fds : w \notin owner'[d]
    BY <1>1, <1>2, <1>3, <2>1 DEF InBacklog
  <2>2. ASSUME NEW w \in Clients, NEW d \in Cast!Fds, w \in owner'[d] PROVE user'[w] # "out"
    BY <1>1, <1>2, <2>2 DEF InBacklog
  <2> QED BY <1>3, <2>1, <2>2 DEF InBacklog
<1>7. Inputs \subseteq Inputs'
  <2> SUFFICES ASSUME NEW d \in Cast!Fds, HasInput(d) PROVE HasInput(d)'
    BY DEF Inputs
  <2>1. ASSUME NEW w \in Clients, w \in owner[d]
        PROVE  /\ net[w].up # <<>> => net'[w].up # <<>>
               /\ net[w].atServer # "open" => net'[w].atServer # "open"
    <3>1. user[w] # "out"
      BY <1>1, <2>1 DEF InBacklog
    <3>2. CASE w = u
      BY <1>2, <3>1, <3>2
    <3>3. CASE w # u
      BY <1>2, <3>3
    <3> QED BY <3>2, <3>3
  <2>2. owner'[d] = owner[d]
    OBVIOUS
  <2> QED BY <2>1, <2>2, InputKept
<1>8. InScan'
  BY <1>1, <1>3, <1>7 DEF InScan, ReadyFrom
<1> QED BY <1>4, <1>5, <1>6, <1>8 DEF CastInv

\* it connects,
LEMMA UserConnects == ASSUME CastInv, NEW u \in Clients, Cast!Connect(u) PROVE CastInv'
<1> DEFINE r == [[net[u] EXCEPT !.atServer = "open"] EXCEPT !.atClient = "open"]
<1>1. CastTypes /\ net[u] \in NetRecords
  BY DEF CastInv, CastTypes
<1>2. r \in NetRecords
  BY <1>1, CastConstants DEF NetRecords
<1>3. net' = [net EXCEPT ![u].atServer = "open", ![u].atClient = "open"]
  BY DEF Cast!Connect
<1>4. net' = [net EXCEPT ![u] = r]
  BY <1>1, <1>3 DEF CastTypes
<1>5. /\ user[u] = "out" /\ user' = [user EXCEPT ![u] = "typing"] /\ backlog' = Append(backlog, u)
      /\ UNCHANGED <<srv, slots, owner, said>>
  BY DEF Cast!Connect
<1>6. said' \in [Clients -> Nat]
  BY <1>1, <1>5 DEF CastTypes
<1> HIDE DEF r
<1> QED BY <1>2, <1>4, <1>5, <1>6, UserActs

\* types a line,
LEMMA UserTypes == ASSUME CastInv, NEW u \in Clients, Cast!TypeLine(u) PROVE CastInv'
<1> DEFINE open == net[u].atClient = "open"
           text == IF open THEN Append(net[u].up, <<u, said[u] + 1>>) ELSE net[u].up
           end == IF open THEN "open" ELSE "dead"
           r == [[net[u] EXCEPT !.up = text] EXCEPT !.atClient = end]
<1>1. CastTypes /\ net[u] \in NetRecords /\ said[u] \in Nat
  BY DEF CastInv, CastTypes
<1>2. text \in Seq(CastTexts) /\ (net[u].up # <<>> => text # <<>>) /\ end \in Cast!States
  <2>1. net[u].up \in Seq(CastTexts)
    BY <1>1 DEF NetRecords
  <2>3. <<u, said[u] + 1>> \in CastTexts
    <3>1. said[u] + 1 \in Nat
      BY <1>1
    <3>2. \A m \in Nat : <<u, m>> \in CastTexts
      BY DEF CastTexts
    <3> QED BY <3>1, <3>2
  <2>2. ASSUME NEW e \in CastTexts, NEW q \in Seq(CastTexts) PROVE Append(q, e) \in Seq(CastTexts) /\ Append(q, e) # <<>>
    <3> HIDE DEF text
    <3> DEFINE more == Append(q, e)
    <3>1. more \in Seq(CastTexts) /\ Len(more) = Len(q) + 1 /\ Len(q) \in Nat
      OBVIOUS
    <3>2. Len(more) # 0
      BY <3>1
    <3>3. Len(<<>>) = 0
      OBVIOUS
    <3> QED BY <3>1, <3>2, <3>3
  <2> QED BY <2>1, <2>2, <2>3, CastConstants
<1>3. /\ user[u] = "typing" /\ user' = [user EXCEPT ![u] = IF net[u].atClient = "dead" THEN "gone" ELSE "reading"]
      /\ UNCHANGED <<srv, slots, owner, backlog>> /\ said' = [said EXCEPT ![u] = said[u] + 1]
  BY DEF Cast!TypeLine
<1>4. net' = [net EXCEPT ![u].up = text, ![u].atClient = end]
  BY <1>1 DEF Cast!TypeLine, CastTypes, Cast!AfterSend
<1> HIDE DEF text, end
<1>5. r \in NetRecords /\ r.up = text /\ r.atServer = net[u].atServer
  BY <1>1, <1>2 DEF NetRecords
<1>6. net' = [net EXCEPT ![u] = r]
  BY <1>1, <1>4 DEF CastTypes
<1>7. said' \in [Clients -> Nat]
  BY <1>1, <1>3 DEF CastTypes
<1>8. PICK to \in {"typing", "reading", "gone"} : user' = [user EXCEPT ![u] = to]
  BY <1>3
<1> HIDE DEF r
<1> QED BY <1>2, <1>3, <1>5, <1>6, <1>7, <1>8, UserActs

\* hears what there is,
LEMMA UserHears == ASSUME CastInv, NEW u \in Clients, Cast!Hear(u) PROVE CastInv'
<1> DEFINE end == IF net[u].down = <<>> /\ net[u].atClient = "rst" THEN "dead" ELSE net[u].atClient
           r == [[net[u] EXCEPT !.down = <<>>] EXCEPT !.atClient = end]
<1>1. CastTypes /\ net[u] \in NetRecords
  BY DEF CastInv, CastTypes
<1>2. end \in Cast!States
  BY <1>1, CastConstants DEF NetRecords
<1>3. net' = [net EXCEPT ![u].down = <<>>, ![u].atClient = end]
  BY <1>1 DEF Cast!Hear, CastTypes
<1>4. user[u] = "reading" /\ user' = [user EXCEPT ![u] = "typing"] /\ UNCHANGED <<srv, slots, owner, backlog, said>>
  BY DEF Cast!Hear
<1> HIDE DEF end
<1>5. r \in NetRecords /\ r.up = net[u].up /\ r.atServer = net[u].atServer
  <2>1. <<>> \in Seq(CastTexts)
    OBVIOUS
  <2> QED BY <1>1, <1>2, <2>1 DEF NetRecords
<1>6. net' = [net EXCEPT ![u] = r]
  BY <1>1, <1>3 DEF CastTypes
<1>7. said' \in [Clients -> Nat]
  BY <1>1, <1>4 DEF CastTypes
<1> HIDE DEF r
<1> QED BY <1>4, <1>5, <1>6, <1>7, UserActs

\* and is killed.
LEMMA UserDies == ASSUME CastInv, NEW u \in Clients, Cast!Die(u) PROVE CastInv'
<1> DEFINE end == CASE net[u].atServer # "open" -> net[u].atServer [] net[u].down = <<>> -> "fin" [] OTHER -> "rst"
           r == [[net[u] EXCEPT !.down = <<>>] EXCEPT !.atServer = end]
<1>1. CastTypes /\ net[u] \in NetRecords
  BY DEF CastInv, CastTypes
<1>2. end \in Cast!States /\ (net[u].atServer # "open" => end # "open")
  BY <1>1, CastConstants DEF NetRecords
<1>3. net' = [net EXCEPT ![u].down = <<>>, ![u].atServer = end]
  BY <1>1 DEF Cast!Die, CastTypes
<1>4. user[u] # "out" /\ user' = [user EXCEPT ![u] = "gone"] /\ UNCHANGED <<srv, slots, owner, backlog, said>>
  BY DEF Cast!Die
<1> HIDE DEF end
<1>5. r \in NetRecords /\ r.up = net[u].up /\ r.atServer = end
  <2>1. <<>> \in Seq(CastTexts)
    OBVIOUS
  <2> QED BY <1>1, <1>2, <2>1 DEF NetRecords
<1>6. net' = [net EXCEPT ![u] = r]
  BY <1>1, <1>3 DEF CastTypes
<1>7. said' \in [Clients -> Nat]
  BY <1>1, <1>4 DEF CastTypes
<1> HIDE DEF r
<1> QED BY <1>2, <1>4, <1>5, <1>6, <1>7, UserActs

\* After a step of the server the scan goes on,
LEMMA ThenScans ==
  ASSUME NEW r \in SelectRecords, NEW k \in Nat \ {0}, NEW table \in Seq(Cast!Fds \cup {0}), slots' = table,
         srv' = Cast!ScanFrom(r, k, table),
         \A n \in DOMAIN table : n >= k /\ table[n] \in r.ready => table[n] \in Inputs'
  PROVE  srv' \in SelectRecords /\ InScan'
<1>1. /\ srv' \in SelectRecords /\ srv'.at \in {"select", "scan"}
      /\ srv'.at = "scan" => /\ srv'.ready = r.ready /\ srv'.i \in DOMAIN table /\ srv'.i >= k
                             /\ table[srv'.i] \in srv'.ready
  BY ScanGoesOn
<1>2. CASE srv'.at = "select"
  BY <1>1, <1>2 DEF InScan
<1>3. CASE srv'.at = "scan"
  <2>1. DOMAIN table = 1 .. Len(table) /\ Len(table) \in Nat
    OBVIOUS
  <2>2. ASSUME NEW n \in DOMAIN table, n >= srv'.i, table[n] \in srv'.ready PROVE table[n] \in Inputs'
    <3>1. n >= k
      BY <1>1, <1>3, <2>1, <2>2
    <3> QED BY <1>1, <1>3, <2>2, <3>1
  <2>3. ReadyFrom(srv.i)'
    BY <2>2 DEF ReadyFrom
  <2> QED BY <1>1, <1>3, <2>3 DEF InScan
<1> QED BY <1>1, <1>2, <1>3

\* or the loop of sends does.
LEMMA ThenSends ==
  ASSUME slots \in Seq(Cast!Fds \cup {0}), UNCHANGED slots, NEW r \in SelectRecords, r.i = srv.i, srv.i \in DOMAIN slots,
         NEW k \in Nat \ {0}, srv' = Cast!SendFrom(r, k),
         \A n \in DOMAIN slots : n >= srv.i + 1 /\ slots[n] \in r.ready => slots[n] \in Inputs'
  PROVE  srv' \in SelectRecords /\ InScan'
<1>1. Len(slots) \in Nat /\ DOMAIN slots = 1 .. Len(slots) /\ srv.i \in Nat \ {0} /\ srv.i + 1 \in Nat \ {0}
  OBVIOUS
<1>2. CASE Cast!Targets(k) = {}
  <2>1. srv' = Cast!ScanFrom(r, srv.i + 1, slots)
    BY <1>2 DEF Cast!SendFrom
  <2> QED BY <1>1, <2>1, ThenScans
<1>3. CASE Cast!Targets(k) # {}
  <2> DEFINE n == Cast!Min(Cast!Targets(k))
  <2>1. Cast!Targets(k) \in SUBSET (0 .. Len(slots))
    BY <1>1 DEF Cast!Targets
  <2>2. n \in Cast!Targets(k)
    BY <1>1, <1>3, <2>1, Lowest
  <2>3. n \in k .. Len(slots) /\ slots[n] > 0
    BY <2>2 DEF Cast!Targets
  <2>4. srv' = [r EXCEPT !.at = "send", !.j = n]
    BY <1>3 DEF Cast!SendFrom
  <2> HIDE DEF n
  <2>5. n \in DOMAIN slots /\ n \in Nat /\ slots[n] # 0
    BY <1>1, <2>3, CastConstants
  <2>6. srv' \in SelectRecords /\ srv'.at = "send" /\ srv'.i = srv.i /\ srv'.j = n /\ srv'.ready = r.ready
    BY <2>4, <2>5 DEF SelectRecords
  <2>7. ReadyFrom(srv.i + 1)'
    BY <2>6 DEF ReadyFrom
  <2> QED BY <2>5, <2>6, <2>7 DEF InScan
<1> QED BY <1>2, <1>3

\* The steps of the server keep the invariant: select,
LEMMA Selects == ASSUME CastInv, Cast!Select PROVE CastInv'
<1> DEFINE ready == {d \in Cast!ToSet(slots) : Cast!Readable(d)} \cup (IF backlog = <<>> THEN {} ELSE {Cast!server_fd})
           r == [srv EXCEPT !.ready = ready]
<1>1. CastTypes /\ Owners /\ InBacklog /\ OnePlace
  BY DEF CastInv
<1>2. /\ srv' = IF Cast!server_fd \in ready THEN [r EXCEPT !.at = "accept"] ELSE Cast!ScanFrom(r, 1, slots)
      /\ UNCHANGED <<slots, owner, backlog, user, net, said>>
  BY DEF Cast!Select
<1>3. \A d \in Cast!Fds : d \in ready => d \in Inputs
  BY <1>1, CastConstants, ReadableMeans DEF Inputs
<1>4. ready \in SUBSET (Cast!Fds \cup {Cast!server_fd})
  BY DEF Cast!Readable, Cast!Open
<1>5. Cast!server_fd \in ready => backlog # <<>>
  BY CastConstants DEF Cast!Readable, Cast!Open
<1> HIDE DEF ready
<1>6. r \in SelectRecords /\ r.ready = ready
  BY <1>1, <1>4 DEF CastTypes, SelectRecords
<1>7. Inputs' = Inputs
  BY <1>2 DEF Inputs, HasInput
<1> HIDE DEF r
<1>8. srv' \in SelectRecords /\ InScan'
  <2>1. CASE Cast!server_fd \in ready
    <3>1. srv' = [r EXCEPT !.at = "accept"]
      BY <1>2, <2>1
    <3>2. srv' \in SelectRecords /\ srv'.at = "accept" /\ srv'.ready = ready
      BY <1>6, <3>1 DEF SelectRecords
    <3> QED BY <1>2, <1>3, <1>5, <1>7, <2>1, <3>2 DEF InScan
  <2>2. CASE Cast!server_fd \notin ready
    <3>1. slots \in Seq(Cast!Fds \cup {0})
      BY <1>1 DEF CastTypes
    <3>2. ASSUME NEW n \in DOMAIN slots, n >= 1 /\ slots[n] \in r.ready PROVE slots[n] \in Inputs'
      BY <1>3, <1>4, <1>6, <1>7, <2>2, <3>2
    <3>3. srv' = Cast!ScanFrom(r, 1, slots) /\ slots' = slots
      BY <1>2, <2>2
    <3> QED BY <1>6, <3>1, <3>2, <3>3, ThenScans
  <2> QED BY <2>1, <2>2
<1>9. Owners' /\ InBacklog' /\ OnePlace'
  BY <1>1, <1>2 DEF Owners, InBacklog, OnePlace
<1>10. CastTypes'
  BY <1>1, <1>2, <1>8 DEF CastTypes
<1> QED BY <1>8, <1>9, <1>10 DEF CastInv

\* There is a free descriptor for who waits in the backlog.
LEMMA FreePlace ==
  ASSUME CastInv, NEW u \in Clients, \A d \in Cast!Fds : u \notin owner[d]
  PROVE  Cast!Min(Cast!Fds \ Cast!Open) \in Cast!Fds \ Cast!Open
<1> DEFINE N == Cardinality(Clients)
           Free == Cast!Fds \ Cast!Open
<1>1. Free # {}
  <2> SUFFICES ASSUME Free = {} PROVE FALSE
    OBVIOUS
  <2> DEFINE g == [d \in Cast!Fds |-> CHOOSE w \in Clients : owner[d] = {w}]
             Rest == Clients \ {u}
             Numbers4 == Cast!Fds
  <2>1. \A d \in Cast!Fds : owner[d] # {}
    BY CastConstants DEF Cast!Open
  <2>2. \A d \in Cast!Fds : g[d] \in Rest /\ owner[d] = {g[d]}
    <3> TAKE d \in Cast!Fds
    <3>1. \E w \in Clients : owner[d] = {w}
      BY <2>1 DEF CastInv, Owners
    <3>2. g[d] \in Clients /\ owner[d] = {g[d]}
      BY <3>1
    <3> QED BY <3>2
  <2>3. g \in [Cast!Fds -> Rest]
    BY <2>2
  <2>4. IsFiniteSet(Numbers4) /\ Cardinality(Numbers4) = N
    <3>1. N \in Nat /\ Numbers4 = 4 .. 3 + N
      BY CastConstants
    <3> HIDE DEF N, Numbers4
    <3> DEFINE M == 3 + N
    <3>2. 4 \in Int /\ M \in Int /\ ~(4 > M) => M - 4 + 1 = N
      BY <3>1
    <3>3. 4 > M => N = 0
      BY <3>1
    <3>4. Numbers4 = 4 .. M
      BY <3>1
    <3>5. M \in Int
      BY <3>1
    <3> HIDE DEF M
    <3>6. IsFiniteSet(4 .. M) /\ Cardinality(4 .. M) = IF 4 > M THEN 0 ELSE M - 4 + 1
      BY <3>5, FS_Interval
    <3> QED BY <3>2, <3>3, <3>4, <3>5, <3>6
  <2>5. IsFiniteSet(Rest) /\ Cardinality(Rest) = N - 1 /\ N \in Nat
    BY CastConstants, FS_RemoveElement
  <2>6. g \in [Numbers4 -> Rest] /\ Cardinality(Rest) < Cardinality(Numbers4)
    BY <2>3, <2>4, <2>5
  <2> HIDE DEF g, Rest, Numbers4, N
  <2>7. \E x, y \in Numbers4 : x # y /\ g[x] = g[y]
    BY <2>4, <2>5, <2>6, FS_PigeonHole
  <2>8. \A x, y \in Numbers4 : g[x] = g[y] => x = y
    <3> TAKE x, y \in Numbers4
    <3> HAVE g[x] = g[y]
    <3>1. x \in Cast!Fds /\ y \in Cast!Fds /\ owner[x] = {g[x]} /\ owner[y] = {g[x]} /\ g[x] \in Clients
      BY <2>2 DEF Numbers4, Rest
    <3> QED BY <3>1 DEF CastInv, Owners
  <2> QED BY <2>7, <2>8
<1>2. N \in Nat /\ Free \in SUBSET (0 .. 3 + N) /\ 3 + N \in Nat
  BY CastConstants
<1> HIDE DEF Free, N
<1>3. Cast!Min(Free) \in Free
  BY <1>1, <1>2, Lowest
<1> QED BY <1>3 DEF Free

\* accept,
LEMMA Accepts == ASSUME CastInv, Cast!Accept PROVE CastInv'
<1> DEFINE u == Head(backlog)
           d == Cast!Min(Cast!Fds \ Cast!Open)
           table == Append(slots, d)
<1>1. CastTypes /\ Owners /\ InBacklog /\ OnePlace /\ InScan
  BY DEF CastInv
<1>2. /\ srv.at = "accept" /\ owner' = [owner EXCEPT ![d] = {u}] /\ slots' = table /\ srv' = Cast!ScanFrom(srv, 1, table)
      /\ backlog' = Tail(backlog) /\ UNCHANGED <<user, net, said>>
  BY DEF Cast!Accept
<1>3. backlog \in Seq(Clients) /\ backlog # <<>> /\ IsInjective(backlog)
  BY <1>1, <1>2 DEF InScan, CastTypes, InBacklog
<1>4. /\ u \in Clients /\ Contains(backlog, u) /\ Tail(backlog) \in Seq(Clients) /\ IsInjective(Tail(backlog))
      /\ \A w : Contains(Tail(backlog), w) <=> Contains(backlog, w) /\ w # u
  BY <1>3, LeaveProperties
<1> HIDE DEF u
<1>5. user[u] # "out" /\ \A e \in Cast!Fds : u \notin owner[e]
  BY <1>1, <1>4 DEF InBacklog
<1>6. d \in Cast!Fds \ Cast!Open
  BY <1>4, <1>5, FreePlace
<1> HIDE DEF d
<1>7. d \in Cast!Fds /\ owner[d] = {} /\ d # 0 /\ d \notin Inputs
  BY <1>6, CastConstants DEF Cast!Open, Inputs, HasInput
<1>8. /\ owner \in [Cast!Fds -> SUBSET Clients] /\ owner' \in [Cast!Fds -> SUBSET Clients] /\ owner'[d] = {u}
      /\ \A e \in Cast!Fds \ {d} : owner'[e] = owner[e]
  BY <1>1, <1>2, <1>4, <1>7 DEF CastTypes
<1>9. /\ slots \in Seq(Cast!Fds \cup {0}) /\ table \in Seq(Cast!Fds \cup {0}) /\ Len(slots) + 1 \notin DOMAIN slots
      /\ DOMAIN table = DOMAIN slots \cup {Len(slots) + 1} /\ table[Len(slots) + 1] = d
      /\ \A k \in DOMAIN slots : table[k] = slots[k] /\ slots[k] \in Cast!Fds \cup {0}
  <2>1. slots \in Seq(Cast!Fds \cup {0}) /\ d \in Cast!Fds \cup {0}
    BY <1>1, <1>7 DEF CastTypes
  <2>2. \A k \in DOMAIN slots : slots[k] \in Cast!Fds \cup {0}
    BY <2>1
  <2> QED BY <2>1, <2>2, JoinedTo
<1> HIDE DEF table
<1>10. Inputs \subseteq Inputs'
  <2> SUFFICES ASSUME NEW e \in Cast!Fds, HasInput(e) PROVE HasInput(e)'
    BY DEF Inputs
  <2>1. e # d
    BY <1>7 DEF HasInput
  <2> QED BY <1>2, <1>8, <2>1, InputKept
<1>11. \A k \in DOMAIN slots : slots[k] # d
  BY <1>1, <1>7 DEF OnePlace
<1>12. OnePlace'
  <2>1. ASSUME NEW k \in DOMAIN table, table[k] # 0 PROVE owner'[table[k]] # {}
    <3>1. CASE k \in DOMAIN slots
      <4>1. table[k] = slots[k] /\ slots[k] \in Cast!Fds \ {d}
        BY <1>9, <1>11, <2>1, <3>1
      <4> QED BY <1>1, <1>8, <2>1, <3>1, <4>1 DEF OnePlace
    <3>2. CASE k = Len(slots) + 1
      BY <1>8, <1>9, <3>2
    <3> QED BY <1>9, <3>1, <3>2
  <2>2. ASSUME NEW k \in DOMAIN table, NEW l \in DOMAIN table, table[k] = table[l], table[k] # 0 PROVE k = l
    BY <1>1, <1>9, <1>11, <2>2 DEF OnePlace
  <2> QED BY <1>2, <2>1, <2>2 DEF OnePlace
<1>13. Owners'
  <2>1. ASSUME NEW e \in Cast!Fds PROVE owner'[e] = {} \/ \E w \in Clients : owner'[e] = {w}
    BY <1>1, <1>4, <1>8, <2>1 DEF Owners
  <2>2. ASSUME NEW e \in Cast!Fds, NEW f \in Cast!Fds, NEW w \in Clients, w \in owner'[e], w \in owner'[f] PROVE e = f
    <3>1. CASE w = u
      BY <1>5, <1>8, <2>2, <3>1
    <3>2. CASE w # u
      <4>1. e # d /\ f # d
        BY <1>8, <2>2, <3>2
      <4> QED BY <1>1, <1>8, <2>2, <4>1 DEF Owners
    <3> QED BY <3>1, <3>2
  <2> QED BY <2>1, <2>2 DEF Owners
<1>14. InBacklog'
  <2>1. ASSUME NEW w \in Clients, Contains(backlog', w) PROVE user'[w] # "out" /\ \A e \in Cast!Fds : w \notin owner'[e]
    <3>1. w # u /\ Contains(backlog, w)
      BY <1>2, <1>4, <2>1
    <3>2. user[w] # "out" /\ \A e \in Cast!Fds : w \notin owner[e]
      BY <1>1, <3>1 DEF InBacklog
    <3> QED BY <1>2, <1>8, <3>1, <3>2
  <2>2. ASSUME NEW w \in Clients, NEW e \in Cast!Fds, w \in owner'[e] PROVE user'[w] # "out"
    <3>1. CASE e = d
      BY <1>2, <1>5, <1>8, <2>2, <3>1
    <3>2. CASE e # d
      BY <1>1, <1>2, <1>8, <2>2, <3>2 DEF InBacklog
    <3> QED BY <3>1, <3>2
  <2> QED BY <1>2, <1>4, <2>1, <2>2 DEF InBacklog
<1>15. srv \in SelectRecords /\ \A e \in Cast!Fds : e \in srv.ready => e \in Inputs
  BY <1>1, <1>2 DEF CastTypes, InScan
<1>16. srv' \in SelectRecords /\ InScan'
  <2>1. ASSUME NEW n \in DOMAIN table, n >= 1 /\ table[n] \in srv.ready PROVE table[n] \in Inputs'
    <3>1. srv.ready \in SUBSET (Cast!Fds \cup {Cast!server_fd})
      BY <1>15 DEF SelectRecords
    <3>2. table[n] \in Cast!Fds
      BY <1>9, <2>1, <3>1, CastConstants
    <3> QED BY <1>10, <1>15, <2>1, <3>2
  <2> QED BY <1>2, <1>9, <1>15, <2>1, ThenScans
<1>17. CastTypes'
  BY <1>1, <1>2, <1>4, <1>8, <1>9, <1>16 DEF CastTypes
<1> QED BY <1>12, <1>13, <1>14, <1>16, <1>17 DEF CastInv

\* The socket the scan is at, and its client.
LEMMA AtCurrent ==
  ASSUME CastInv, srv.at = "scan", Cast!Current \in Cast!Open
  PROVE  /\ Cast!Current = slots[srv.i] /\ srv.i \in DOMAIN slots /\ ReadyFrom(srv.i) /\ Cast!Current \in Cast!Fds
         /\ slots \in Seq(Cast!Fds \cup {0}) /\ DOMAIN slots = 1 .. Len(slots) /\ Len(slots) \in Nat
         /\ Cast!Of(Cast!Current) \in Clients /\ owner[Cast!Current] = {Cast!Of(Cast!Current)}
<1>1. CastTypes /\ Owners /\ InBacklog /\ OnePlace /\ InScan
  BY DEF CastInv
<1>2. /\ Cast!Current = slots[srv.i] /\ srv.i \in DOMAIN slots /\ ReadyFrom(srv.i) /\ Cast!Current \in Cast!Fds
      /\ slots \in Seq(Cast!Fds \cup {0}) /\ DOMAIN slots = 1 .. Len(slots) /\ Len(slots) \in Nat
  BY <1>1 DEF InScan, Cast!Current, Cast!Open, CastTypes
<1>3. PICK w \in Clients : owner[Cast!Current] = {w}
  BY <1>1, CastConstants DEF Cast!Open, Owners
<1> QED BY <1>1, <1>2, <1>3, ReadableMeans

\* a read of a text,
LEMMA ReadsText == ASSUME CastInv, Cast!ReadText PROVE CastInv'
<1> DEFINE d == Cast!Current
           u == Cast!Of(d)
           r == [srv EXCEPT !.buffer = net[u].up]
<1>1. CastTypes /\ Owners /\ InBacklog /\ OnePlace /\ InScan
  BY DEF CastInv
<1>2. /\ srv.at = "scan" /\ d \in Cast!Open /\ srv' = Cast!SendFrom(r, 1) /\ net' = [net EXCEPT ![u].up = <<>>]
      /\ UNCHANGED <<slots, owner, backlog, user, said>>
  BY DEF Cast!ReadText, Cast!Scanning
<1>3. /\ d = slots[srv.i] /\ srv.i \in DOMAIN slots /\ ReadyFrom(srv.i) /\ d \in Cast!Fds /\ u \in Clients /\ owner[d] = {u}
      /\ slots \in Seq(Cast!Fds \cup {0}) /\ DOMAIN slots = 1 .. Len(slots) /\ Len(slots) \in Nat
  BY <1>2, AtCurrent
<1> HIDE DEF u, d
<1>5. net[u] \in NetRecords /\ net \in [Clients -> NetRecords] /\ srv \in SelectRecords
  BY <1>1, <1>3 DEF CastTypes
<1>6. r \in SelectRecords /\ r.i = srv.i /\ r.ready = srv.ready
  <2>1. net[u].up \in Seq(CastTexts)
    BY <1>5 DEF NetRecords
  <2> QED BY <1>5, <2>1 DEF SelectRecords
<1> HIDE DEF r
<1>7. net' \in [Clients -> NetRecords] /\ \A w \in Clients \ {u} : net'[w] = net[w]
  <2> DEFINE s == [net[u] EXCEPT !.up = <<>>]
  <2>1. <<>> \in Seq(CastTexts)
    OBVIOUS
  <2>2. s \in NetRecords
    BY <1>5, <2>1 DEF NetRecords
  <2>3. net' = [net EXCEPT ![u] = s]
    BY <1>2, <1>3, <1>5
  <2> HIDE DEF s
  <2> QED BY <1>3, <1>5, <2>2, <2>3
<1>8. ASSUME NEW e \in Inputs, e # d PROVE e \in Inputs'
  <2>1. e \in Cast!Fds /\ HasInput(e)
    BY <1>8 DEF Inputs
  <2>2. \A w \in Clients : w \in owner[e] => net'[w] = net[w]
    BY <1>1, <1>3, <1>7, <1>8, <2>1 DEF Owners
  <2>3. HasInput(e)'
    BY <1>2, <2>1, <2>2, InputKept
  <2> QED BY <2>1, <2>3 DEF Inputs
<1>9. ASSUME NEW n \in DOMAIN slots, n >= srv.i + 1 /\ slots[n] \in srv.ready PROVE slots[n] \in Inputs'
  <2>1. n >= srv.i /\ n # srv.i
    BY <1>3, <1>9
  <2>2. slots[n] \in Inputs
    BY <1>3, <1>9, <2>1 DEF ReadyFrom
  <2>3. slots[n] # d
    BY <1>1, <1>3, <2>1, CastConstants DEF OnePlace
  <2> QED BY <1>8, <2>2, <2>3
<1>10. srv' \in SelectRecords /\ InScan'
  <2>1. 1 \in Nat \ {0} /\ \A n \in DOMAIN slots : n >= srv.i + 1 /\ slots[n] \in r.ready => slots[n] \in Inputs'
    BY <1>6, <1>9
  <2> QED BY <1>2, <1>3, <1>6, <2>1, ThenSends
<1>11. Owners' /\ InBacklog' /\ OnePlace'
  BY <1>1, <1>2 DEF Owners, InBacklog, OnePlace
<1>12. CastTypes'
  BY <1>1, <1>2, <1>7, <1>10 DEF CastTypes
<1> QED BY <1>10, <1>11, <1>12 DEF CastInv

\* What ReadError and SendText have in common: one connection changes, and its input stays.
LEMMA GoesOnSending ==
  ASSUME CastInv, NEW u \in Clients, NEW s \in NetRecords, net' = [net EXCEPT ![u] = s], s.up = net[u].up,
         net[u].atServer # "open" => s.atServer # "open",
         UNCHANGED <<slots, owner, backlog, user, said>>,
         srv.i \in DOMAIN slots, ReadyFrom(srv.i + 1), NEW k \in Nat \ {0}, srv' = Cast!SendFrom(srv, k)
  PROVE  CastInv'
<1>1. CastTypes /\ Owners /\ InBacklog /\ OnePlace
  BY DEF CastInv
<1>2. /\ net' \in [Clients -> NetRecords] /\ net'[u] = s /\ \A w \in Clients \ {u} : net'[w] = net[w]
      /\ srv \in SelectRecords /\ slots \in Seq(Cast!Fds \cup {0}) /\ slots' = slots
  BY <1>1 DEF CastTypes
<1>3. Inputs \subseteq Inputs'
  <2> SUFFICES ASSUME NEW e \in Cast!Fds, HasInput(e) PROVE HasInput(e)'
    BY DEF Inputs
  <2>1. ASSUME NEW w \in Clients
        PROVE  /\ net[w].up # <<>> => net'[w].up # <<>>
               /\ net[w].atServer # "open" => net'[w].atServer # "open"
    <3>1. CASE w = u
      BY <1>2, <3>1
    <3>2. CASE w # u
      BY <1>2, <3>2
    <3> QED BY <3>1, <3>2
  <2>2. owner'[e] = owner[e]
    OBVIOUS
  <2> QED BY <2>1, <2>2, InputKept
<1>4. \A n \in DOMAIN slots : n >= srv.i + 1 /\ slots[n] \in srv.ready => slots[n] \in Inputs'
  BY <1>3 DEF ReadyFrom
<1>5. srv' \in SelectRecords /\ InScan'
  BY <1>2, <1>4, ThenSends
<1>6. Owners' /\ InBacklog' /\ OnePlace'
  BY <1>1 DEF Owners, InBacklog, OnePlace
<1>7. CastTypes'
  BY <1>1, <1>2, <1>5 DEF CastTypes
<1> QED BY <1>5, <1>6, <1>7 DEF CastInv

\* a read that fails,
LEMMA ReadsError == ASSUME CastInv, Cast!ReadError PROVE CastInv'
<1> DEFINE u == Cast!Of(Cast!Current)
           s == [net[u] EXCEPT !.atServer = "dead"]
<1>1. CastTypes
  BY DEF CastInv
<1>2. /\ srv.at = "scan" /\ Cast!Current \in Cast!Open /\ srv' = Cast!SendFrom(srv, 1) /\ net[u].atServer = "rst"
      /\ net' = [net EXCEPT ![u].atServer = "dead"] /\ UNCHANGED <<slots, owner, backlog, user, said>>
  BY DEF Cast!ReadError, Cast!Scanning
<1>3. /\ u \in Clients /\ srv.i \in DOMAIN slots /\ srv.i \in Nat /\ ReadyFrom(srv.i)
      /\ DOMAIN slots = 1 .. Len(slots) /\ Len(slots) \in Nat
  BY <1>2, AtCurrent
<1> HIDE DEF u
<1>4. net \in [Clients -> NetRecords] /\ net[u] \in NetRecords
  BY <1>1, <1>3 DEF CastTypes
<1>5. net' = [net EXCEPT ![u] = s]
  BY <1>2, <1>3, <1>4
<1>6. s \in NetRecords /\ s.up = net[u].up /\ s.atServer # "open"
  <2>1. "dead" \in Cast!States
    BY CastConstants
  <2>2. s \in NetRecords
    BY <1>4, <2>1 DEF NetRecords
  <2>3. s.up = net[u].up
    BY <1>4 DEF NetRecords
  <2>4. s.atServer # "open"
    BY <1>4 DEF NetRecords
  <2> HIDE DEF s
  <2> QED BY <2>2, <2>3, <2>4
<1>7. ReadyFrom(srv.i + 1)
  <2> SUFFICES ASSUME NEW n \in DOMAIN slots, n >= srv.i + 1, slots[n] \in srv.ready PROVE slots[n] \in Inputs
    BY DEF ReadyFrom
  <2>1. n >= srv.i
    BY <1>3
  <2> QED BY <1>3, <2>1 DEF ReadyFrom
<1> HIDE DEF s
<1>8. 1 \in Nat \ {0} /\ UNCHANGED <<slots, owner, backlog, user, said>> /\ (net[u].atServer # "open" => s.atServer # "open")
  BY <1>2, <1>6
<1> QED BY <1>2, <1>3, <1>5, <1>6, <1>7, <1>8, GoesOnSending

\* a read of the end,
LEMMA ReadsEnd == ASSUME CastInv, Cast!ReadEnd PROVE CastInv'
<1> DEFINE d == Cast!Current
           p == srv.i
           u == Cast!Of(d)
           table == [slots EXCEPT ![p] = 0]
<1>1. CastTypes /\ Owners /\ InBacklog /\ OnePlace
  BY DEF CastInv
<1>2. /\ srv.at = "scan" /\ d \in Cast!Open /\ owner' = [owner EXCEPT ![d] = {}] /\ slots' = table
      /\ srv' = Cast!ScanFrom(srv, p + 1, table) /\ UNCHANGED <<backlog, user, net, said>>
  BY CastConstants DEF Cast!ReadEnd, Cast!Scanning
<1>3. /\ d = slots[p] /\ p \in DOMAIN slots /\ ReadyFrom(p) /\ d \in Cast!Fds /\ u \in Clients /\ owner[d] = {u}
      /\ slots \in Seq(Cast!Fds \cup {0}) /\ DOMAIN slots = 1 .. Len(slots) /\ Len(slots) \in Nat
  BY <1>2, AtCurrent
<1> HIDE DEF d, u
<1>4. /\ table \in Seq(Cast!Fds \cup {0}) /\ DOMAIN table = DOMAIN slots /\ table[p] = 0
      /\ \A n \in DOMAIN slots \ {p} : table[n] = slots[n]
  BY <1>3
<1>5. srv \in SelectRecords /\ p \in Nat /\ srv.ready \in SUBSET (Cast!Fds \cup {Cast!server_fd})
  BY <1>1, <1>3 DEF CastTypes, SelectRecords
<1> HIDE DEF table, p
<1>6. /\ owner' \in [Cast!Fds -> SUBSET Clients] /\ owner'[d] = {} /\ d # 0
      /\ \A e \in Cast!Fds \ {d} : owner'[e] = owner[e]
  BY <1>1, <1>2, <1>3, CastConstants DEF CastTypes
<1>7. \A n \in DOMAIN slots \ {p} : slots[n] # d
  BY <1>1, <1>3, <1>6 DEF OnePlace
<1>8. ASSUME NEW e \in Inputs, e # d PROVE e \in Inputs'
  <2>1. e \in Cast!Fds /\ HasInput(e)
    BY <1>8 DEF Inputs
  <2>2. owner'[e] = owner[e]
    BY <1>6, <1>8, <2>1
  <2>3. HasInput(e)'
    BY <1>2, <2>1, <2>2, InputKept
  <2> QED BY <2>1, <2>3 DEF Inputs
<1>9. ASSUME NEW n \in DOMAIN table, n >= p + 1 /\ table[n] \in srv.ready PROVE table[n] \in Inputs'
  <2>1. n \in DOMAIN slots \ {p} /\ n >= p
    BY <1>3, <1>4, <1>5, <1>9
  <2>2. table[n] = slots[n] /\ slots[n] # d
    BY <1>4, <1>7, <2>1
  <2>3. slots[n] \in Inputs
    BY <1>3, <1>9, <2>1, <2>2 DEF ReadyFrom
  <2> QED BY <1>8, <2>2, <2>3
<1>10. srv' \in SelectRecords /\ InScan'
  BY <1>2, <1>4, <1>5, <1>9, ThenScans
<1>11. Owners'
  <2>1. ASSUME NEW e \in Cast!Fds PROVE owner'[e] = {} \/ \E w \in Clients : owner'[e] = {w}
    BY <1>1, <1>6, <2>1 DEF Owners
  <2>2. ASSUME NEW e \in Cast!Fds, NEW f \in Cast!Fds, NEW w \in Clients, w \in owner'[e], w \in owner'[f] PROVE e = f
    <3>1. e # d /\ f # d
      BY <1>6, <2>2
    <3> QED BY <1>1, <1>6, <2>2, <3>1 DEF Owners
  <2> QED BY <2>1, <2>2 DEF Owners
<1>12. \A e \in Cast!Fds : owner'[e] \subseteq owner[e]
  <2> TAKE e \in Cast!Fds
  <2>1. CASE e = d
    BY <1>6, <2>1
  <2>2. CASE e # d
    BY <1>6, <2>2
  <2> QED BY <2>1, <2>2
<1>13. InBacklog'
  <2>1. /\ IsInjective(backlog)
        /\ \A w \in Clients : Contains(backlog, w) => user[w] # "out" /\ \A e \in Cast!Fds : w \notin owner[e]
        /\ \A w \in Clients, e \in Cast!Fds : w \in owner[e] => user[w] # "out"
    BY <1>1 DEF InBacklog
  <2>2. \A w \in Clients : Contains(backlog, w) => user[w] # "out" /\ \A e \in Cast!Fds : w \notin owner'[e]
    BY <1>12, <2>1
  <2>3. \A w \in Clients, e \in Cast!Fds : w \in owner'[e] => user[w] # "out"
    BY <1>12, <2>1
  <2> QED BY <1>2, <2>1, <2>2, <2>3 DEF InBacklog
<1>14. OnePlace'
  <2>1. ASSUME NEW n \in DOMAIN table, table[n] # 0 PROVE n \in DOMAIN slots \ {p} /\ table[n] = slots[n] /\ table[n] # d
    BY <1>4, <1>7, <2>1
  <2>2. ASSUME NEW n \in DOMAIN table, table[n] # 0 PROVE owner'[table[n]] # {}
    <3>1. table[n] \in Cast!Fds
      BY <1>4, <2>2
    <3>2. owner[slots[n]] # {}
      BY <1>1, <2>1, <2>2 DEF OnePlace
    <3> QED BY <1>6, <2>1, <2>2, <3>1, <3>2
  <2>3. ASSUME NEW k \in DOMAIN table, NEW l \in DOMAIN table, table[k] = table[l], table[k] # 0 PROVE k = l
    BY <1>1, <2>1, <2>3 DEF OnePlace
  <2> QED BY <1>2, <2>2, <2>3 DEF OnePlace
<1>15. CastTypes'
  BY <1>1, <1>2, <1>4, <1>6, <1>10 DEF CastTypes
<1> QED BY <1>10, <1>11, <1>13, <1>14, <1>15 DEF CastInv

\* and a send, which may end the server.
LEMMA Sends == ASSUME CastInv, Cast!Send PROVE CastInv'
<1> DEFINE d == slots[srv.j]
           u == Cast!Of(d)
<1>1. CastTypes /\ Owners /\ InBacklog /\ OnePlace /\ InScan
  BY DEF CastInv
<1>2. srv.at = "send" /\ (Cast!SendText(d) \/ Cast!Killed(d))
  BY DEF Cast!Send
<1>3. /\ srv.i \in DOMAIN slots /\ ReadyFrom(srv.i + 1) /\ srv.j \in DOMAIN slots /\ d # 0
      /\ srv \in SelectRecords /\ slots \in Seq(Cast!Fds \cup {0}) /\ net \in [Clients -> NetRecords]
  BY <1>1, <1>2 DEF InScan, CastTypes
<1>4. d \in Cast!Fds /\ owner[d] # {} /\ srv.j + 1 \in Nat \ {0}
  BY <1>1, <1>3 DEF OnePlace
<1>5. u \in Clients
  BY <1>1, <1>4, ReadableMeans DEF Owners
<1> HIDE DEF u, d
<1>6. net[u] \in NetRecords
  BY <1>3, <1>5
<1>7. CASE Cast!SendText(d)
  <2> DEFINE s == IF net[u].atServer = "open" THEN [net[u] EXCEPT !.down = net[u].down \o srv.buffer]
                                             ELSE [net[u] EXCEPT !.atServer = "dead"]
  <2>1. /\ srv' = Cast!SendFrom(srv, srv.j + 1) /\ UNCHANGED <<slots, owner, backlog, user, said>>
        /\ net[u].atServer = "open" => net' = [net EXCEPT ![u].down = net[u].down \o srv.buffer]
        /\ net[u].atServer # "open" => net' = [net EXCEPT ![u].atServer = "dead"]
    BY <1>3, <1>5, <1>7 DEF Cast!SendText, Cast!AfterSend, u
  <2>2. net' = [net EXCEPT ![u] = s]
    BY <1>3, <1>5, <2>1
  <2>3. s \in NetRecords /\ s.up = net[u].up /\ (net[u].atServer # "open" => s.atServer # "open")
    <3>1. CASE net[u].atServer = "open"
      <4> DEFINE more == net[u].down \o srv.buffer
      <4>1. net[u].down \in Seq(CastTexts) /\ srv.buffer \in Seq(CastTexts)
        BY <1>3, <1>6 DEF NetRecords, SelectRecords
      <4>2. more \in Seq(CastTexts)
        BY <4>1
      <4>3. s = [net[u] EXCEPT !.down = more]
        BY <3>1
      <4> HIDE DEF more, s
      <4> QED BY <1>6, <3>1, <4>2, <4>3 DEF NetRecords
    <3>2. CASE net[u].atServer # "open"
      <4>1. s = [net[u] EXCEPT !.atServer = "dead"]
        BY <3>2
      <4> HIDE DEF s
      <4> QED BY <1>6, <4>1, CastConstants DEF NetRecords
    <3> QED BY <3>1, <3>2
  <2> HIDE DEF s
  <2> QED BY <1>3, <1>4, <1>5, <2>1, <2>2, <2>3, GoesOnSending
<1>8. CASE Cast!Killed(d)
  <2>1. /\ srv' = [srv EXCEPT !.at = "gone"] /\ UNCHANGED <<slots, owner, backlog, user, said>>
        /\ net' = [w \in Clients |->
                    IF net[w].atServer # "open" THEN net[w]
                    ELSE [net[w] EXCEPT !.atClient = IF net[w].up = <<>> /\ w \notin Cast!ToSet(backlog) THEN "fin" ELSE "rst"]]
    BY <1>8 DEF Cast!Killed
  <2>2. srv' \in SelectRecords /\ srv'.at = "gone"
    BY <1>3, <2>1 DEF SelectRecords
  <2>3. net' \in [Clients -> NetRecords]
    <3>1. ASSUME NEW w \in Clients PROVE net'[w] \in NetRecords
      <4>1. net[w] \in NetRecords
        BY <1>3
      <4>2. \A end \in {"fin", "rst"} : [net[w] EXCEPT !.atClient = end] \in NetRecords
        BY <4>1, CastConstants DEF NetRecords
      <4>3. net'[w] = net[w] \/ net'[w] = [net[w] EXCEPT !.atClient = "fin"] \/ net'[w] = [net[w] EXCEPT !.atClient = "rst"]
        BY <2>1
      <4> QED BY <4>1, <4>2, <4>3
    <3> QED BY <2>1, <3>1
  <2>4. InScan'
    BY <2>2 DEF InScan
  <2>5. Owners' /\ InBacklog' /\ OnePlace'
    BY <1>1, <2>1 DEF Owners, InBacklog, OnePlace
  <2>6. CastTypes'
    BY <1>1, <2>1, <2>2, <2>3 DEF CastTypes
  <2> QED BY <2>4, <2>5, <2>6 DEF CastInv
<1> QED BY <1>2, <1>7, <1>8

\* Every step of the broadcast server and its clients keeps the invariant.
LEMMA CastKept == CastInv /\ [Cast!Next]_castVars => CastInv'
<1> SUFFICES ASSUME CastInv, [Cast!Next]_castVars PROVE CastInv'
  OBVIOUS
<1>1. CASE UNCHANGED castVars
  <2>1. UNCHANGED <<srv, slots, owner, backlog, user, net, said>>
    BY <1>1 DEF castVars
  <2>2. ReadyFrom(srv.i)' = ReadyFrom(srv.i) /\ ReadyFrom(srv.i + 1)' = ReadyFrom(srv.i + 1) /\ Inputs' = Inputs
    BY <2>1 DEF ReadyFrom, Inputs, HasInput
  <2>3. CastTypes' /\ Owners' /\ InBacklog' /\ OnePlace'
    BY <2>1 DEF CastInv, CastTypes, Owners, InBacklog, OnePlace
  <2>4. InScan'
    BY <2>1, <2>2 DEF CastInv, InScan
  <2> QED BY <2>3, <2>4 DEF CastInv
<1>2. CASE Cast!Next
  BY <1>2, Selects, Accepts, ReadsText, ReadsError, ReadsEnd, Sends, UserConnects, UserTypes, UserHears, UserDies
     DEF Cast!Next, Cast!ServerStep
<1> QED BY <1>1, <1>2

(***************************************************************************)
(* What the broadcast server sends, and to whom.                           *)
(***************************************************************************)
\* The history of the broadcast server, as function sets.
LogRecords == [from : Clients, text : Seq(CastTexts)]
LogTypes ==
  /\ log \in Seq(LogRecords) /\ since \in [Clients -> Nat] /\ told \in [Clients -> Seq(Seq(CastTexts))]
  /\ resets \in BOOLEAN /\ \A u \in Clients : since[u] <= Len(log)

\* Every open descriptor is in the table, and nobody is sent anything before the accept.
InTable == \A d \in Cast!Fds : owner[d] # {} => \E k \in DOMAIN slots : slots[k] = d
Unheard == \A u \in Clients : user[u] = "out" \/ Contains(backlog, u) => told[u] = <<>>

\* The loop of sends sends the last text of the log; it has not come to descriptor d yet.
Behind(d) == srv.at = "send" /\ d # slots[srv.i] /\ \E k \in DOMAIN slots : slots[k] = d /\ k >= srv.j
Sending == srv.at = "send" =>
  /\ Len(log) > 0 /\ srv.buffer = log[Len(log)].text /\ owner[slots[srv.i]] = {log[Len(log)].from}
  /\ slots[srv.i] \in Cast!Fds /\ slots[srv.j] # slots[srv.i]

\* What is meant for client u up to place n of the log, and that it was sent all that: Due
\* and SentTo of Broadcast.
Meant(u, n) == {m \in since[u] + 1 .. n : log[m].from # u}
Sent(u, n)  == /\ Len(told[u]) = Cardinality(Meant(u, n))
               /\ \A m \in Meant(u, n) : told[u][Cardinality(Meant(u, m))] = log[m].text

\* Who is connected was sent everything, but for the last text if the loop is before it.
CaughtUp == \A d \in Cast!Fds, u \in Clients : owner[d] = {u} /\ net[u].atServer = "open" /\ srv.at # "gone" =>
  IF Behind(d) THEN since[u] < Len(log) /\ Sent(u, Len(log) - 1) ELSE Sent(u, Len(log))

\* The lines on their way to the server are their author's, one of each;
SaidIn(q) == {q[n] : n \in DOMAIN q}
Written == \A u \in Clients : IsInjective(net[u].up) /\ \A l \in SaidIn(net[u].up) : l[1] = u /\ l[2] <= said[u]

\* so are those in the log, which are in one text and on their way no more,
Logged == ~resets =>
  /\ \A n \in DOMAIN log : IsInjective(log[n].text) /\ \A l \in SaidIn(log[n].text) : l[1] = log[n].from /\ l[2] <= said[l[1]]
  /\ \A n, m \in DOMAIN log : n # m => SaidIn(log[n].text) \cap SaidIn(log[m].text) = {}
  /\ \A n \in DOMAIN log, u \in Clients : SaidIn(log[n].text) \cap SaidIn(net[u].up) = {}

\* and a client is sent texts of others out of the log, and no line twice.
Told == ~resets => \A u \in Clients :
  /\ \A k \in DOMAIN told[u] : \E n \in DOMAIN log : log[n].from # u /\ told[u][k] = log[n].text
  /\ \A k, l \in DOMAIN told[u] : k # l => SaidIn(told[u][k]) \cap SaidIn(told[u][l]) = {}
Unseen == ~resets => \A d \in Cast!Fds, u \in Clients : Behind(d) /\ owner[d] = {u} =>
  \A k \in DOMAIN told[u] : SaidIn(told[u][k]) \cap SaidIn(srv.buffer) = {}

\* The inductive invariant of what the broadcast server sends.
SayInv == LogTypes /\ InTable /\ Unheard /\ Sending /\ CaughtUp /\ Written /\ Logged /\ Told /\ Unseen

\* It holds before anybody connects.
LEMMA NobodySays == Cast!Init => SayInv
<1> SUFFICES ASSUME Cast!Init PROVE SayInv
  OBVIOUS
<1>1. /\ srv.at = "select" /\ slots = <<>> /\ backlog = <<>> /\ owner = [d \in Cast!Fds |-> {}] /\ user = [u \in Clients |-> "out"]
      /\ net = [u \in Clients |-> [up |-> <<>>, down |-> <<>>, atServer |-> "none", atClient |-> "none"]]
      /\ said = [u \in Clients |-> 0] /\ log = <<>> /\ since = [u \in Clients |-> 0] /\ told = [u \in Clients |-> <<>>] /\ resets = FALSE
  BY CastConstants DEF Cast!Init
<1>2. LogTypes
  <2>1. <<>> \in Seq(LogRecords) /\ <<>> \in Seq(Seq(CastTexts)) /\ Len(<<>>) = 0
    OBVIOUS
  <2>2. \A u \in Clients : since[u] <= Len(log)
    BY <1>1, <2>1
  <2>3. since \in [Clients -> Nat]
    BY <1>1
  <2>4. told \in [Clients -> Seq(Seq(CastTexts))]
    BY <1>1, <2>1
  <2> QED BY <1>1, <2>1, <2>2, <2>3, <2>4 DEF LogTypes
<1>3. InTable /\ Unheard /\ Sending
  BY <1>1 DEF InTable, Unheard, Sending
<1>4. CaughtUp
  BY <1>1 DEF CaughtUp
<1>5. Written /\ Logged
  BY <1>1 DEF Written, Logged, SaidIn, IsInjective
<1>6. Told /\ Unseen
  BY <1>1 DEF Told, Unseen, Behind
<1> QED BY <1>2, <1>3, <1>4, <1>5, <1>6 DEF SayInv

\* What is meant for a client is finite, and a text has its place among it;
LEMMA MeantSize ==
  ASSUME LogTypes, NEW u \in Clients, NEW n \in Nat
  PROVE  /\ IsFiniteSet(Meant(u, n)) /\ Cardinality(Meant(u, n)) \in Nat /\ Meant(u, n) \subseteq 1 .. n
         /\ \A m \in Meant(u, n) : Cardinality(Meant(u, m)) \in 1 .. Cardinality(Meant(u, n))
<1>1. since[u] \in Nat
  BY DEF LogTypes
<1>2. ASSUME NEW m \in Nat PROVE IsFiniteSet(Meant(u, m)) /\ Cardinality(Meant(u, m)) \in Nat /\ Meant(u, m) \subseteq 1 .. m
  <2>1. Meant(u, m) \subseteq 1 .. m
    BY <1>1 DEF Meant
  <2>2. IsFiniteSet(1 .. m)
    BY Counted
  <2> QED BY <2>1, <2>2, FS_Subset, FS_CardinalityType
<1>3. ASSUME NEW m \in Meant(u, n) PROVE Cardinality(Meant(u, m)) \in 1 .. Cardinality(Meant(u, n))
  <2>1. m \in Nat /\ m <= n
    BY <1>2
  <2>2. Meant(u, m) \subseteq Meant(u, n) /\ m \in Meant(u, m)
    BY <1>1, <2>1 DEF Meant
  <2>3. Cardinality(Meant(u, m)) <= Cardinality(Meant(u, n)) /\ Cardinality(Meant(u, m)) # 0
    BY <1>2, <2>1, <2>2, FS_Subset, FS_EmptySet
  <2> QED BY <1>2, <2>1, <2>3
<1> QED BY <1>2, <1>3

\* the texts up to place n of the log stay what they are,
LEMMA SentKept ==
  ASSUME LogTypes, NEW u \in Clients, NEW n \in Nat, n <= Len(log), Sent(u, n), NEW e,
         log' = log \/ log' = Append(log, e), since'[u] = since[u], told'[u] = told[u]
  PROVE  Sent(u, n)'
<1>1. log \in Seq(LogRecords) /\ Len(log) \in Nat /\ DOMAIN log = 1 .. Len(log) /\ since[u] \in Nat
  BY DEF LogTypes
<1>2. \A m \in 1 .. n : log'[m] = log[m]
  BY <1>1
<1>3. ASSUME NEW m \in Nat, m <= n PROVE Meant(u, m)' = Meant(u, m)
  BY <1>1, <1>2, <1>3 DEF Meant
<1>4. ASSUME NEW m \in Meant(u, n)' PROVE told'[u][Cardinality(Meant(u, m)')] = log'[m].text
  <2>1. m \in Meant(u, n) /\ m \in 1 .. n
    BY <1>3, <1>4, MeantSize
  <2> QED BY <1>2, <1>3, <2>1 DEF Sent
<1> QED BY <1>3, <1>4 DEF Sent

\* its own text is not meant for a client,
LEMMA SentOwn ==
  ASSUME LogTypes', NEW u \in Clients, NEW n \in Nat, Sent(u, n)', log'[n + 1].from = u
  PROVE  Sent(u, n + 1)'
<1>1. since'[u] \in Nat
  BY DEF LogTypes
<1>2. Meant(u, n + 1)' = Meant(u, n)'
  BY <1>1 DEF Meant
<1> QED BY <1>2 DEF Sent

\* but one of somebody else is, and is sent.
LEMMA SentMore ==
  ASSUME LogTypes, NEW u \in Clients, NEW n \in Nat, n + 1 <= Len(log), since[u] <= n, log[n + 1].from # u, Sent(u, n),
         log' = log, since'[u] = since[u], told'[u] = Append(told[u], log[n + 1].text)
  PROVE  Sent(u, n + 1)'
<1>1. since[u] \in Nat /\ told[u] \in Seq(Seq(CastTexts)) /\ log \in Seq(LogRecords) /\ DOMAIN log = 1 .. Len(log) /\ Len(log) \in Nat
  BY DEF LogTypes
<1>2. \A m : Meant(u, m)' = Meant(u, m)
  BY DEF Meant
<1>3. Meant(u, n + 1) = Meant(u, n) \cup {n + 1}
  BY <1>1 DEF Meant
<1>4. n + 1 \notin Meant(u, n)
  BY MeantSize
<1>5. Cardinality(Meant(u, n + 1)) = Cardinality(Meant(u, n)) + 1 /\ Cardinality(Meant(u, n)) \in Nat
  <2> DEFINE S == Meant(u, n)
             x == n + 1
  <2>1. IsFiniteSet(S) /\ x \notin S /\ Cardinality(S) \in Nat
    BY <1>4, MeantSize
  <2> HIDE DEF S, x
  <2>2. Cardinality(S \cup {x}) = Cardinality(S) + 1
    BY <2>1, FS_AddElement
  <2> QED BY <1>3, <2>1, <2>2 DEF S, x
<1> DEFINE t == log[n + 1].text
<1>6. t \in Seq(CastTexts)
  <2>1. log[n + 1] \in LogRecords
    BY <1>1
  <2> QED BY <2>1 DEF LogRecords
<1> HIDE DEF t
<1>7. /\ Len(told'[u]) = Len(told[u]) + 1 /\ told'[u][Len(told[u]) + 1] = t
      /\ \A k \in 1 .. Len(told[u]) : told'[u][k] = told[u][k]
  <2>1. told'[u] = Append(told[u], t)
    BY DEF t
  <2> QED BY <1>1, <1>6, <2>1
<1>8. Len(told[u]) = Cardinality(Meant(u, n)) /\ \A m \in Meant(u, n) : told[u][Cardinality(Meant(u, m))] = log[m].text
  BY DEF Sent
<1>9. ASSUME NEW m \in Meant(u, n + 1) PROVE told'[u][Cardinality(Meant(u, m))] = log[m].text
  <2>1. CASE m = n + 1
    BY <1>5, <1>7, <1>8, <2>1 DEF t
  <2>2. CASE m # n + 1
    <3>1. m \in Meant(u, n)
      BY <1>3, <2>2
    <3>2. Cardinality(Meant(u, m)) \in 1 .. Cardinality(Meant(u, n))
      BY <3>1, MeantSize
    <3> QED BY <1>7, <1>8, <3>1, <3>2
  <2> QED BY <2>1, <2>2
<1> QED BY <1>2, <1>5, <1>7, <1>8, <1>9 DEF Sent

\* Whoever has just been accepted was sent nothing, and nothing is meant for it yet.
LEMMA SentNothing ==
  ASSUME NEW u \in Clients, log' \in Seq(LogRecords), told'[u] = <<>>, since'[u] = Len(log')
  PROVE  Sent(u, Len(log))'
<1>1. Meant(u, Len(log))' = {}
  BY DEF Meant
<1> QED BY <1>1, FS_EmptySet DEF Sent

\* Steps that send and log nothing keep what was sent,
LEMMA QuietStep ==
  ASSUME SayInv, UNCHANGED <<log, told, since, resets>>,
         srv'.at # "gone" => srv.at # "gone" /\ \A d \in Cast!Fds : Behind(d) => Behind(d)',
         \A d \in Cast!Fds : Behind(d)' => Behind(d) /\ srv'.buffer = srv.buffer,
         \A d \in Cast!Fds, u \in Clients : owner'[d] = {u} =>
           owner[d] = {u} /\ (net'[u].atServer = "open" => net[u].atServer = "open")
  PROVE  LogTypes' /\ CaughtUp' /\ Told' /\ Unseen'
<1>1. LogTypes /\ CaughtUp /\ Told /\ Unseen
  BY DEF SayInv
<1>2. \A u, n : Sent(u, n)' <=> Sent(u, n)
  BY DEF Sent, Meant
<1>3. CaughtUp'
  <2> SUFFICES ASSUME NEW d \in Cast!Fds, NEW u \in Clients, owner'[d] = {u}, net'[u].atServer = "open", srv'.at # "gone"
               PROVE IF Behind(d)' THEN since'[u] < Len(log') /\ Sent(u, Len(log) - 1)' ELSE Sent(u, Len(log))'
    BY DEF CaughtUp
  <2>1. /\ owner[d] = {u} /\ net[u].atServer = "open" /\ srv.at # "gone" /\ (Behind(d)' <=> Behind(d))
    OBVIOUS
  <2>2. IF Behind(d) THEN since[u] < Len(log) /\ Sent(u, Len(log) - 1) ELSE Sent(u, Len(log))
    BY <1>1, <2>1 DEF CaughtUp
  <2>3. Sent(u, Len(log) - 1)' <=> Sent(u, Len(log) - 1)
    BY DEF Sent, Meant
  <2>4. Sent(u, Len(log))' <=> Sent(u, Len(log))
    BY DEF Sent, Meant
  <2> QED BY <2>1, <2>2, <2>3, <2>4
<1>4. Unseen'
  BY <1>1 DEF Unseen
<1>5. LogTypes' /\ Told'
  BY <1>1 DEF LogTypes, Told
<1> QED BY <1>3, <1>4, <1>5

\* and those that read and type nothing keep the lines.
LEMMA LinesKept ==
  ASSUME Written, Logged, UNCHANGED <<log, said, resets>>, \A u \in Clients : net'[u].up = net[u].up
  PROVE  Written' /\ Logged'
<1>1. Written'
  BY DEF Written
<1>2. Logged'
  BY DEF Logged
<1> QED BY <1>1, <1>2

\* A step of a client that types nothing keeps the invariant,
LEMMA UserIsQuiet ==
  ASSUME CastInv, SayInv, NEW u \in Clients, UNCHANGED <<srv, slots, owner, said, log, told, since, resets>>,
         NEW to \in {"typing", "reading", "gone"}, user' = [user EXCEPT ![u] = to],
         backlog' = backlog \/ (backlog' = Append(backlog, u) /\ user[u] = "out"),
         \A w \in Clients : net'[w].up = net[w].up,
         \A w \in Clients : w # u \/ user[u] # "out" => (net'[w].atServer = "open" => net[w].atServer = "open")
  PROVE  SayInv'
<1>1. SayInv /\ CastTypes /\ InBacklog
  BY DEF CastInv
<1>2. \A d \in Cast!Fds : Behind(d)' <=> Behind(d)
  BY DEF Behind
<1>3. ASSUME NEW d \in Cast!Fds, NEW w \in Clients, owner'[d] = {w}
      PROVE  owner[d] = {w} /\ (net'[w].atServer = "open" => net[w].atServer = "open")
  <2>1. user[w] # "out"
    BY <1>1, <1>3 DEF InBacklog
  <2> QED BY <1>3, <2>1
<1>4. LogTypes' /\ CaughtUp' /\ Told' /\ Unseen'
  BY <1>2, <1>3, QuietStep
<1>5. Written' /\ Logged'
  BY LinesKept DEF SayInv
<1>6. InTable' /\ Sending'
  BY DEF SayInv, InTable, Sending
<1>7. Unheard'
  <2> SUFFICES ASSUME NEW w \in Clients, user'[w] = "out" \/ Contains(backlog', w) PROVE told'[w] = <<>>
    BY DEF Unheard
  <2>1. backlog \in Seq(Clients) /\ user \in [Clients -> {"out", "typing", "reading", "gone"}]
    BY <1>1 DEF CastTypes
  <2>2. user'[w] = "out" => user[w] = "out"
    <3>1. user'[u] = to /\ to # "out" /\ \A x \in Clients \ {u} : user'[x] = user[x]
      BY <2>1
    <3> QED BY <3>1
  <2>3. Contains(backlog', w) => Contains(backlog, w) \/ (w = u /\ user[u] = "out")
    <3>1. CASE backlog' = backlog
      BY <3>1
    <3>2. CASE backlog' = Append(backlog, u) /\ user[u] = "out"
      BY <2>1, <3>2, JoinProperties
    <3> QED BY <3>1, <3>2
  <2> QED BY <1>1, <2>2, <2>3 DEF SayInv, Unheard
<1> QED BY <1>4, <1>5, <1>6, <1>7 DEF SayInv

LEMMA SomeoneQuiet == ASSUME CastInv, SayInv, NEW u \in Clients, Cast!Connect(u) \/ Cast!Hear(u) \/ Cast!Die(u) PROVE SayInv'
<1>1. net \in [Clients -> NetRecords] /\ net[u] \in NetRecords
  BY DEF CastInv, CastTypes
<1>2. CASE Cast!Connect(u)
  <2>1. /\ user[u] = "out" /\ user' = [user EXCEPT ![u] = "typing"] /\ backlog' = Append(backlog, u)
        /\ UNCHANGED <<srv, slots, owner, said, log, told, since, resets>>
        /\ net' = [net EXCEPT ![u].atServer = "open", ![u].atClient = "open"]
    BY <1>2 DEF Cast!Connect
  <2>2. \A w \in Clients : net'[w].up = net[w].up /\ (w # u => net'[w].atServer = net[w].atServer)
    BY <1>1, <2>1 DEF NetRecords
  <2> QED BY <2>1, <2>2, UserIsQuiet
<1>3. CASE Cast!Hear(u)
  <2>1. /\ user' = [user EXCEPT ![u] = "typing"] /\ backlog' = backlog
        /\ UNCHANGED <<srv, slots, owner, said, log, told, since, resets>>
        /\ net' = [net EXCEPT ![u].down = <<>>,
                              ![u].atClient = IF net[u].down = <<>> /\ net[u].atClient = "rst" THEN "dead" ELSE net[u].atClient]
    BY <1>1, <1>3 DEF Cast!Hear, NetRecords
  <2>2. \A w \in Clients : net'[w].up = net[w].up /\ net'[w].atServer = net[w].atServer
    BY <1>1, <2>1 DEF NetRecords
  <2> QED BY <2>1, <2>2, UserIsQuiet
<1>4. CASE Cast!Die(u)
  <2> DEFINE end == CASE net[u].atServer # "open" -> net[u].atServer [] net[u].down = <<>> -> "fin" [] OTHER -> "rst"
  <2>1. /\ user' = [user EXCEPT ![u] = "gone"] /\ backlog' = backlog
        /\ UNCHANGED <<srv, slots, owner, said, log, told, since, resets>>
        /\ net' = [net EXCEPT ![u].down = <<>>, ![u].atServer = end]
    BY <1>1, <1>4 DEF Cast!Die, NetRecords
  <2>2. end # "open"
    OBVIOUS
  <2> HIDE DEF end
  <2>3. \A w \in Clients : net'[w].up = net[w].up /\ (net'[w].atServer = "open" => net[w].atServer = "open")
    BY <1>1, <2>1, <2>2 DEF NetRecords
  <2> QED BY <2>1, <2>3, UserIsQuiet
<1> QED BY <1>2, <1>3, <1>4

\* and so does a line, which is new.
LEMMA SomeoneTypes == ASSUME CastInv, SayInv, NEW u \in Clients, Cast!TypeLine(u) PROVE SayInv'
<1> DEFINE text == <<u, said[u] + 1>>
<1>1. net \in [Clients -> NetRecords] /\ net[u] \in NetRecords /\ said \in [Clients -> Nat] /\ user \in [Clients -> {"out", "typing", "reading", "gone"}]
  BY DEF CastInv, CastTypes
<1>2. /\ user' = [user EXCEPT ![u] = IF net[u].atClient = "dead" THEN "gone" ELSE "reading"]
      /\ UNCHANGED <<srv, slots, owner, backlog, log, told, since, resets>> /\ said' = [said EXCEPT ![u] = said[u] + 1]
      /\ net' = [net EXCEPT ![u].up = IF net[u].atClient = "open" THEN Append(net[u].up, text) ELSE net[u].up,
                            ![u].atClient = Cast!AfterSend(net[u].atClient)]
  BY <1>1 DEF Cast!TypeLine, NetRecords
<1>3. text[1] = u /\ text[2] = said[u] + 1 /\ said[u] \in Nat /\ said'[u] = said[u] + 1 /\ \A w \in Clients \ {u} : said'[w] = said[w]
  BY <1>1, <1>2
<1> HIDE DEF text
<1>4. /\ \A w \in Clients : net'[w].atServer = net[w].atServer
      /\ \A w \in Clients \ {u} : net'[w].up = net[w].up
      /\ net'[u].up = net[u].up \/ net'[u].up = Append(net[u].up, text)
  BY <1>1, <1>2 DEF NetRecords
<1>5. LogTypes /\ InTable /\ Unheard /\ Sending /\ Written /\ Logged
  BY DEF SayInv
<1>6. LogTypes' /\ CaughtUp' /\ Told' /\ Unseen'
  <2>1. \A d \in Cast!Fds : Behind(d)' <=> Behind(d)
    BY <1>2 DEF Behind
  <2> QED BY <1>2, <1>4, <2>1, QuietStep
<1>7. InTable' /\ Sending'
  BY <1>2, <1>5 DEF InTable, Sending
<1>8. Unheard'
  BY <1>1, <1>2, <1>5 DEF Unheard
<1>9. /\ \A w \in Clients : said[w] <= said'[w] /\ said[w] \in Nat /\ said'[w] \in Nat
      /\ net[u].up \in Seq(CastTexts)
  <2>1. ASSUME NEW w \in Clients PROVE said[w] <= said'[w] /\ said[w] \in Nat /\ said'[w] \in Nat
    <3>1. CASE w = u
      BY <1>3, <3>1
    <3>2. CASE w # u
      BY <1>1, <1>3, <3>2
    <3> QED BY <3>1, <3>2
  <2>2. net[u].up \in Seq(CastTexts)
    BY <1>1 DEF NetRecords
  <2> QED BY <2>1, <2>2
<1>10. SaidIn(net[u].up)' \subseteq SaidIn(net[u].up) \cup {text} /\ \A w \in Clients \ {u} : SaidIn(net[w].up)' = SaidIn(net[w].up)
  BY <1>4, <1>9, SMTT(30) DEF SaidIn
<1>11. \A l \in SaidIn(net[u].up) : l # text
  <2> SUFFICES ASSUME NEW l \in SaidIn(net[u].up), l[2] = said[u] + 1 PROVE FALSE
    BY <1>3
  <2> QED BY <1>3, <1>5 DEF Written
<1>12. Written'
  <2> SUFFICES ASSUME NEW w \in Clients
               PROVE IsInjective(net'[w].up) /\ \A l \in SaidIn(net[w].up)' : l[1] = w /\ l[2] <= said'[w]
    BY DEF Written
  <2>1. IsInjective(net[w].up) /\ \A l \in SaidIn(net[w].up) : l[1] = w /\ l[2] <= said[w] /\ l[2] \in Nat
    <3>1. net[w].up \in Seq(CastTexts)
      BY <1>1 DEF NetRecords
    <3>2. \A l \in SaidIn(net[w].up) : l[2] \in Nat
      BY <3>1 DEF SaidIn, CastTexts
    <3> QED BY <1>5, <3>2 DEF Written
  <2>2. IsInjective(net'[w].up)
    <3>1. CASE net'[w].up = net[w].up
      BY <2>1, <3>1
    <3>2. CASE net'[w].up # net[w].up
      <4>1. w = u /\ net'[u].up = Append(net[u].up, text)
        BY <1>4, <3>2
      <4>2. ~Contains(net[u].up, text)
        BY <1>9, <1>11 DEF SaidIn, Contains
      <4>3. text \in CastTexts
        BY <1>3 DEF CastTexts, text
      <4> QED BY <1>9, <2>1, <4>1, <4>2, <4>3, JoinProperties
    <3> QED BY <3>1, <3>2
  <2>3. ASSUME NEW l \in SaidIn(net[w].up)' PROVE l[1] = w /\ l[2] <= said'[w]
    <3>1. CASE l \in SaidIn(net[w].up)
      BY <1>9, <2>1, <3>1
    <3>2. CASE l \notin SaidIn(net[w].up)
      <4>1. w = u /\ l = text
        BY <1>10, <2>3, <3>2
      <4> QED BY <1>3, <1>9, <4>1
    <3> QED BY <3>1, <3>2
  <2> QED BY <2>2, <2>3
<1>13. Logged'
  <2> SUFFICES ASSUME ~resets PROVE
                 /\ \A n \in DOMAIN log : IsInjective(log[n].text) /\ \A l \in SaidIn(log[n].text) : l[1] = log[n].from /\ l[2] <= said'[l[1]]
                 /\ \A n, m \in DOMAIN log : n # m => SaidIn(log[n].text) \cap SaidIn(log[m].text) = {}
                 /\ \A n \in DOMAIN log, w \in Clients : SaidIn(log[n].text) \cap SaidIn(net[w].up)' = {}
    BY <1>2 DEF Logged
  <2>1. /\ \A n \in DOMAIN log : IsInjective(log[n].text) /\ \A l \in SaidIn(log[n].text) : l[1] = log[n].from /\ l[2] <= said[l[1]]
        /\ \A n, m \in DOMAIN log : n # m => SaidIn(log[n].text) \cap SaidIn(log[m].text) = {}
        /\ \A n \in DOMAIN log, w \in Clients : SaidIn(log[n].text) \cap SaidIn(net[w].up) = {}
    BY <1>5 DEF Logged
  <2>2. ASSUME NEW n \in DOMAIN log, NEW l \in SaidIn(log[n].text) PROVE l[1] \in Clients /\ l[2] \in Nat /\ l # text
    <3>1. log[n].from \in Clients /\ log[n].text \in Seq(CastTexts)
      <4>1. log[n] \in LogRecords
        BY <1>5 DEF LogTypes
      <4> QED BY <4>1 DEF LogRecords
    <3>2. l \in CastTexts
      BY <3>1 DEF SaidIn
    <3>3. l[1] \in Clients /\ l[2] \in Nat /\ l[2] <= said[l[1]]
      BY <2>1, <3>2 DEF CastTexts
    <3> QED BY <1>3, <3>3
  <2>3. \A n \in DOMAIN log : \A l \in SaidIn(log[n].text) : l[2] <= said'[l[1]]
    BY <1>9, <2>1, <2>2
  <2>4. ASSUME NEW n \in DOMAIN log, NEW w \in Clients PROVE SaidIn(log[n].text) \cap SaidIn(net[w].up)' = {}
    BY <1>10, <2>1, <2>2
  <2> QED BY <2>1, <2>3, <2>4
<1> QED BY <1>6, <1>7, <1>8, <1>12, <1>13 DEF SayInv

\* The scan and its end are not the loop of sends.
LEMMA ScanAt == ASSUME srv \in SelectRecords, NEW x, NEW k, NEW table
                PROVE  /\ Cast!ScanFrom([srv EXCEPT !.ready = x], k, table).at \in {"select", "scan"}
                       /\ Cast!ScanFrom(srv, k, table).at \in {"select", "scan"}
BY DEF Cast!ScanFrom, SelectRecords

\* The steps of the server that send and log nothing: select,
LEMMA SelectIsQuiet == ASSUME CastInv, SayInv, Cast!Select PROVE SayInv'
<1>1. srv \in SelectRecords /\ srv.at = "select" /\ UNCHANGED <<slots, owner, backlog, user, net, said, log, since, told, resets>>
  BY DEF CastInv, CastTypes, Cast!Select
<1>2. srv'.at \in {"select", "accept", "scan"}
  BY <1>1, ScanAt, ZenonT(60) DEF Cast!Select, SelectRecords
<1>3. \A d : ~Behind(d) /\ ~Behind(d)'
  BY <1>1, <1>2 DEF Behind
<1>4. LogTypes' /\ CaughtUp' /\ Told' /\ Unseen'
  BY <1>1, <1>3, QuietStep
<1>5. Written' /\ Logged'
  BY <1>1, LinesKept DEF SayInv
<1>6. InTable' /\ Unheard' /\ Sending'
  BY <1>1, <1>2 DEF SayInv, InTable, Unheard, Sending
<1> QED BY <1>4, <1>5, <1>6 DEF SayInv

\* a read of the end,
LEMMA EndIsQuiet == ASSUME CastInv, SayInv, Cast!ReadEnd PROVE SayInv'
<1> DEFINE d == Cast!Current
<1>1. CastTypes /\ srv \in SelectRecords /\ srv.at = "scan" /\ d \in Cast!Open
      /\ owner' = [owner EXCEPT ![d] = {}] /\ slots' = [slots EXCEPT ![srv.i] = 0]
      /\ UNCHANGED <<backlog, user, net, said, log, since, told, resets>>
  BY CastConstants DEF CastInv, CastTypes, Cast!ReadEnd, Cast!Scanning
<1>2. srv'.at \in {"select", "scan"}
  BY <1>1, ScanAt DEF Cast!ReadEnd
<1>3. d = slots[srv.i] /\ d \in Cast!Fds /\ srv.i \in DOMAIN slots /\ slots \in Seq(Cast!Fds \cup {0}) /\ owner \in [Cast!Fds -> SUBSET Clients]
  BY <1>1, AtCurrent DEF CastTypes
<1> HIDE DEF d
<1>4. \A e : ~Behind(e) /\ ~Behind(e)'
  BY <1>1, <1>2 DEF Behind
<1>5. /\ owner'[d] = {} /\ \A e \in Cast!Fds \ {d} : owner'[e] = owner[e]
      /\ DOMAIN slots' = DOMAIN slots /\ \A n \in DOMAIN slots : slots[n] # d => slots'[n] = slots[n]
  BY <1>1, <1>3
<1>6. LogTypes' /\ CaughtUp' /\ Told' /\ Unseen'
  <2>1. \A e \in Cast!Fds, u \in Clients : owner'[e] = {u} => owner[e] = {u} /\ (net'[u].atServer = "open" => net[u].atServer = "open")
    BY <1>1, <1>5
  <2> QED BY <1>1, <1>4, <2>1, QuietStep
<1>7. Written' /\ Logged'
  BY <1>1, LinesKept DEF SayInv
<1>8. Unheard' /\ Sending'
  BY <1>1, <1>2 DEF SayInv, Unheard, Sending
<1>9. InTable'
  BY <1>5 DEF SayInv, InTable
<1> QED BY <1>6, <1>7, <1>8, <1>9 DEF SayInv

\* and the send that ends the server.
LEMMA KillIsQuiet == ASSUME CastInv, SayInv, NEW d, Cast!Killed(d) PROVE SayInv'
<1>1. srv \in SelectRecords /\ net \in [Clients -> NetRecords]
      /\ srv' = [srv EXCEPT !.at = "gone"] /\ UNCHANGED <<slots, owner, backlog, user, said, log, since, told, resets>>
      /\ net' = [w \in Clients |->
                  IF net[w].atServer # "open" THEN net[w]
                  ELSE [net[w] EXCEPT !.atClient = IF net[w].up = <<>> /\ w \notin Cast!ToSet(backlog) THEN "fin" ELSE "rst"]]
  BY DEF CastInv, CastTypes, Cast!Killed
<1>2. srv'.at = "gone"
  BY <1>1 DEF SelectRecords
<1>3. \A w \in Clients : net'[w].up = net[w].up /\ net'[w].atServer = net[w].atServer
  BY <1>1 DEF NetRecords
<1>4. \A e : ~Behind(e)'
  BY <1>2 DEF Behind
<1>5. LogTypes' /\ CaughtUp' /\ Told' /\ Unseen'
  BY <1>1, <1>2, <1>3, <1>4, QuietStep
<1>6. Written' /\ Logged'
  BY <1>1, <1>3, LinesKept DEF SayInv
<1>7. InTable' /\ Unheard' /\ Sending'
  BY <1>1, <1>2 DEF SayInv, InTable, Unheard, Sending
<1> QED BY <1>5, <1>6, <1>7 DEF SayInv

\* Whom accept lets in has nothing to be sent yet.
LEMMA AcceptIsNew == ASSUME CastInv, SayInv, Cast!Accept PROVE SayInv'
<1> DEFINE u == Head(backlog)
           d == Cast!Min(Cast!Fds \ Cast!Open)
<1>1. CastTypes /\ InBacklog /\ InScan /\ LogTypes /\ InTable /\ Unheard /\ CaughtUp /\ Written /\ Logged /\ Told
  BY DEF CastInv, SayInv
<1>2. /\ srv.at = "accept" /\ owner' = [owner EXCEPT ![d] = {u}] /\ slots' = Append(slots, d)
      /\ backlog' = Tail(backlog) /\ since' = [since EXCEPT ![u] = Len(log)] /\ UNCHANGED <<user, net, said, log, told, resets>>
  BY DEF Cast!Accept
<1>3. srv'.at \in {"select", "scan"}
  BY <1>1, ScanAt DEF Cast!Accept, CastTypes
<1>4. backlog \in Seq(Clients) /\ backlog # <<>> /\ IsInjective(backlog)
  BY <1>1, <1>2 DEF InScan, CastTypes, InBacklog
<1>5. /\ u \in Clients /\ Contains(backlog, u)
      /\ \A w : Contains(Tail(backlog), w) <=> Contains(backlog, w) /\ w # u
  BY <1>4, LeaveProperties
<1> HIDE DEF u
<1>6. user[u] # "out" /\ \A e \in Cast!Fds : u \notin owner[e]
  BY <1>1, <1>5 DEF InBacklog
<1>7. d \in Cast!Fds
  BY <1>5, <1>6, FreePlace
<1> HIDE DEF d
<1>8. /\ owner'[d] = {u} /\ \A e \in Cast!Fds \ {d} : owner'[e] = owner[e]
      /\ since' \in [Clients -> Nat] /\ since'[u] = Len(log) /\ \A w \in Clients \ {u} : since'[w] = since[w]
      /\ log \in Seq(LogRecords) /\ Len(log) \in Nat
  BY <1>1, <1>2, <1>5, <1>7 DEF CastTypes, LogTypes
<1>9. LogTypes'
  <2>1. \A w \in Clients : since'[w] <= Len(log')
    <3> TAKE w \in Clients
    <3>1. CASE w = u
      BY <1>2, <1>8, <3>1
    <3>2. CASE w # u
      BY <1>1, <1>2, <1>8, <3>2 DEF LogTypes
    <3> QED BY <3>1, <3>2
  <2> QED BY <1>1, <1>2, <1>8, <2>1 DEF LogTypes
<1>10. told'[u] = <<>>
  BY <1>1, <1>2, <1>5 DEF Unheard
<1>11. \A e : ~Behind(e) /\ ~Behind(e)'
  BY <1>2, <1>3 DEF Behind
<1>12. CaughtUp'
  <2> SUFFICES ASSUME NEW e \in Cast!Fds, NEW w \in Clients, owner'[e] = {w}, net'[w].atServer = "open" PROVE Sent(w, Len(log))'
    BY <1>11 DEF CaughtUp
  <2>1. CASE w = u
    BY <1>2, <1>8, <1>10, <2>1, SentNothing
  <2>2. CASE w # u
    <3>1. e # d /\ owner[e] = {w}
      BY <1>8, <2>2
    <3>2. Sent(w, Len(log))
      BY <1>1, <1>2, <1>11, <3>1 DEF CaughtUp
    <3>3. Sent(w, Len(log))'
      <4> DEFINE n == Len(log)
      <4>1. n \in Nat /\ n <= Len(log) /\ Sent(w, n)
        BY <1>8, <3>2
      <4>2. n' = n
        BY <1>2
      <4> HIDE DEF n
      <4>3. since'[w] = since[w] /\ told'[w] = told[w] /\ log' = log
        BY <1>2, <1>8, <2>2
      <4>4. Sent(w, n) = Sent(w, n) /\ (\A m : Meant(w, m)' = Meant(w, m))
        BY <4>3 DEF Meant
      <4> QED BY <4>1, <4>2, <4>3, <4>4 DEF Sent, n
    <3> QED BY <3>3
  <2> QED BY <2>1, <2>2
<1>13. Written' /\ Logged'
  BY <1>1, <1>2, LinesKept
<1>14. Told' /\ Unseen'
  BY <1>1, <1>2, <1>11 DEF Told, Unseen
<1>15. InTable'
  <2> SUFFICES ASSUME NEW e \in Cast!Fds, owner'[e] # {} PROVE \E k \in DOMAIN slots' : slots'[k] = e
    BY DEF InTable
  <2>1. /\ DOMAIN slots' = DOMAIN slots \cup {Len(slots) + 1} /\ slots'[Len(slots) + 1] = d
        /\ \A k \in DOMAIN slots : slots'[k] = slots[k]
    BY <1>1, <1>2, <1>7, JoinedTo DEF CastTypes
  <2>2. CASE e = d
    BY <2>1, <2>2
  <2>3. CASE e # d
    BY <1>1, <1>8, <2>1, <2>3 DEF InTable
  <2> QED BY <2>2, <2>3
<1>16. Unheard' /\ Sending'
  BY <1>1, <1>2, <1>3, <1>5 DEF Unheard, Sending
<1> QED BY <1>9, <1>12, <1>13, <1>14, <1>15, <1>16 DEF SayInv

\* Where the loop of sends goes on from place k, and whom it has not come to yet.
LEMMA SendsFrom ==
  ASSUME slots \in Seq(Cast!Fds \cup {0}), UNCHANGED slots, NEW r \in SelectRecords, r.i = srv.i, srv.i \in DOMAIN slots,
         NEW k \in Nat \ {0}, srv' = Cast!SendFrom(r, k)
  PROVE  /\ srv'.at \in {"select", "scan", "send"}
         /\ srv'.at = "send" => /\ srv'.i = srv.i /\ srv'.buffer = r.buffer
                                /\ slots[srv'.j] # slots[srv.i]
         /\ \A d \in Cast!Fds : Behind(d)' <=> d # slots[srv.i] /\ \E n \in DOMAIN slots : slots[n] = d /\ n >= k
<1>1. Len(slots) \in Nat /\ DOMAIN slots = 1 .. Len(slots) /\ srv.i + 1 \in Nat \ {0}
  OBVIOUS
<1>2. \A n \in DOMAIN slots : slots[n] > 0 <=> slots[n] \in Cast!Fds
  BY CastConstants
<1>3. \A n : n \in Cast!Targets(k) <=> n \in DOMAIN slots /\ n >= k /\ slots[n] # slots[srv.i] /\ slots[n] \in Cast!Fds
  BY <1>1, <1>2 DEF Cast!Targets, Cast!Current
<1>4. CASE Cast!Targets(k) = {}
  <2>1. srv'.at \in {"select", "scan"}
    BY <1>1, <1>4, ScanGoesOn DEF Cast!SendFrom
  <2>2. \A d : ~Behind(d)'
    BY <2>1 DEF Behind
  <2> QED BY <1>3, <1>4, <2>1, <2>2
<1>5. CASE Cast!Targets(k) # {}
  <2> DEFINE m == Cast!Min(Cast!Targets(k))
  <2>1. Cast!Targets(k) \in SUBSET (0 .. Len(slots))
    BY <1>1, <1>3
  <2>2. m \in Cast!Targets(k) /\ \A n \in Cast!Targets(k) : m <= n
    BY <1>1, <1>5, <2>1, Lowest
  <2>3. srv' = [r EXCEPT !.at = "send", !.j = m]
    BY <1>5 DEF Cast!SendFrom
  <2> HIDE DEF m
  <2>4. m \in DOMAIN slots /\ m \in Nat /\ m >= k /\ slots[m] # slots[srv.i]
    BY <1>1, <1>3, <2>2
  <2>5. srv'.at = "send" /\ srv'.i = srv.i /\ srv'.j = m /\ srv'.buffer = r.buffer
    BY <2>3, <2>4 DEF SelectRecords
  <2>6. ASSUME NEW d \in Cast!Fds PROVE Behind(d)' <=> d # slots[srv.i] /\ \E n \in DOMAIN slots : slots[n] = d /\ n >= k
    <3>1. Behind(d)' <=> d # slots[srv.i] /\ \E n \in DOMAIN slots : slots[n] = d /\ n >= m
      BY <2>5 DEF Behind
    <3>2. \A n \in DOMAIN slots : slots[n] = d /\ d # slots[srv.i] => (n >= k <=> n >= m)
      BY <1>1, <1>3, <2>2, <2>4
    <3> QED BY <3>1, <3>2
  <2> QED BY <2>4, <2>5, <2>6
<1> QED BY <1>4, <1>5

\* A read, of a text or of none, makes the others wait for what the buffer holds now.
LEMMA ReadIsLogged ==
  ASSUME CastInv, SayInv, srv.at = "scan", Cast!Current \in Cast!Open, NEW u \in Clients, u = Cast!Of(Cast!Current),
         NEW t \in Seq(CastTexts), log' = Append(log, [from |-> u, text |-> t]),
         UNCHANGED <<slots, owner, backlog, user, since, told>>, resets' \in BOOLEAN,
         NEW r \in SelectRecords, r.i = srv.i, r.buffer = t, srv' = Cast!SendFrom(r, 1),
         \A w \in Clients : net'[w].atServer = "open" => net[w].atServer = "open"
  PROVE  /\ LogTypes' /\ InTable' /\ Unheard' /\ Sending' /\ CaughtUp'
         /\ DOMAIN log' = DOMAIN log \cup {Len(log) + 1} /\ Len(log) + 1 \notin DOMAIN log
         /\ \A n \in DOMAIN log : log'[n] = log[n]
         /\ log'[Len(log) + 1].from = u /\ log'[Len(log) + 1].text = t
         /\ \A d : Behind(d)' => srv'.buffer = t
<1> DEFINE d == Cast!Current
           N == Len(log)
           e == [from |-> u, text |-> t]
<1>1. LogTypes /\ InTable /\ Unheard /\ CaughtUp /\ Owners
  BY DEF CastInv, SayInv
<1>2. /\ d = slots[srv.i] /\ srv.i \in DOMAIN slots /\ d \in Cast!Fds /\ slots \in Seq(Cast!Fds \cup {0})
      /\ DOMAIN slots = 1 .. Len(slots) /\ owner[d] = {u}
  BY AtCurrent
<1> HIDE DEF d
<1>3. /\ srv'.at \in {"select", "scan", "send"}
      /\ srv'.at = "send" => srv'.i = srv.i /\ srv'.buffer = t /\ slots[srv'.j] # slots[srv.i]
      /\ \A f \in Cast!Fds : Behind(f)' <=> f # slots[srv.i] /\ \E n \in DOMAIN slots : slots[n] = f /\ n >= 1
  <2>1. 1 \in Nat \ {0} /\ slots' = slots
    OBVIOUS
  <2> QED BY <1>2, <2>1, SendsFrom
<1>4. log \in Seq(LogRecords) /\ N \in Nat /\ DOMAIN log = 1 .. N /\ e \in LogRecords /\ e.from = u /\ e.text = t
  BY <1>1 DEF LogTypes, LogRecords
<1> HIDE DEF e
<1>5. /\ log' \in Seq(LogRecords) /\ Len(log') = N + 1 /\ DOMAIN log' = 1 .. N + 1 /\ log'[N + 1] = e
      /\ \A n \in 1 .. N : log'[n] = log[n]
  <2>1. log' = Append(log, e)
    BY DEF e
  <2> QED BY <1>4, <2>1
<1>6. LogTypes'
  <2>1. \A w \in Clients : since[w] \in Nat /\ since[w] <= N
    BY <1>1 DEF LogTypes
  <2>2. \A w \in Clients : since'[w] <= Len(log')
    BY <1>4, <1>5, <2>1
  <2> QED BY <1>1, <1>5, <2>2 DEF LogTypes
<1>7. InTable' /\ Unheard'
  BY <1>1 DEF InTable, Unheard
<1>8. Sending'
  BY <1>2, <1>3, <1>4, <1>5 DEF Sending
<1>9. CaughtUp'
  <2> SUFFICES ASSUME NEW f \in Cast!Fds, NEW w \in Clients, owner'[f] = {w}, net'[w].atServer = "open", srv'.at # "gone"
               PROVE IF Behind(f)' THEN since'[w] < Len(log') /\ Sent(w, Len(log) - 1)' ELSE Sent(w, Len(log))'
    BY DEF CaughtUp
  <2>1. owner[f] = {w} /\ net[w].atServer = "open"
    OBVIOUS
  <2>2. ~Behind(f)
    BY DEF Behind
  <2>3. Sent(w, N) /\ since[w] \in Nat /\ since[w] <= N
    BY <1>1, <2>1, <2>2 DEF CaughtUp, LogTypes
  <2>4. PICK n \in Nat : n = N
    BY <1>4
  <2>5. Sent(w, n)'
    <3>1. log' = Append(log, e) /\ Sent(w, n) /\ n <= Len(log) /\ since'[w] = since[w] /\ told'[w] = told[w]
      BY <1>4, <2>3, <2>4 DEF e
    <3> QED BY <1>1, <3>1, SentKept
  <2>6. CASE f = d
    <3>1. ~Behind(f)'
      BY <1>2, <1>3, <2>6
    <3>2. w = u
      BY <1>2, <2>1, <2>6
    <3>3. Sent(w, n + 1)'
      BY <1>4, <1>5, <1>6, <2>4, <2>5, <3>2, SentOwn
    <3>4. Sent(w, Len(log))'
      BY <1>5, <2>4, <3>3 DEF Sent, Meant
    <3> QED BY <3>1, <3>4
  <2>7. CASE f # d
    <3>1. \E k \in DOMAIN slots : slots[k] = f /\ k >= 1
      <4>1. owner[f] # {}
        BY <2>1
      <4>2. PICK k \in DOMAIN slots : slots[k] = f
        BY <1>1, <4>1 DEF InTable
      <4>3. k >= 1
        BY <1>2
      <4> QED BY <4>2, <4>3
    <3>2. Behind(f)'
      BY <1>2, <1>3, <2>7, <3>1
    <3>3. since'[w] < Len(log') /\ Len(log') - 1 = n
      BY <1>4, <1>5, <2>3, <2>4
    <3>4. Sent(w, Len(log) - 1)'
      BY <2>5, <3>3 DEF Sent, Meant
    <3> QED BY <3>2, <3>3, <3>4
  <2> QED BY <2>6, <2>7
<1>10. \A f : Behind(f)' => srv'.buffer = t
  BY <1>3 DEF Behind
<1> QED BY <1>4, <1>5, <1>6, <1>7, <1>8, <1>9, <1>10

\* A read of a text: its lines are nobody's yet, so whoever waits for them has not seen them.
LEMMA TextIsLogged == ASSUME CastInv, SayInv, Cast!ReadText PROVE SayInv'
<1> DEFINE u == Cast!Of(Cast!Current)
           t == net[u].up
           r == [srv EXCEPT !.buffer = t]
           N == Len(log)
<1>1. CastTypes /\ LogTypes /\ Written /\ Logged /\ Told
  BY DEF CastInv, SayInv
<1>2. /\ srv.at = "scan" /\ Cast!Current \in Cast!Open /\ srv' = Cast!SendFrom(r, 1) /\ net' = [net EXCEPT ![u].up = <<>>]
      /\ log' = Append(log, [from |-> u, text |-> t])
      /\ UNCHANGED <<slots, owner, backlog, user, said, since, told, resets>>
  BY DEF Cast!ReadText, Cast!Scanning
<1>3. u \in Clients
  BY <1>2, AtCurrent
<1>4. u = Cast!Of(Cast!Current)
  OBVIOUS
<1> HIDE DEF u
<1>5. net[u] \in NetRecords /\ net \in [Clients -> NetRecords] /\ srv \in SelectRecords
  BY <1>1, <1>3 DEF CastTypes
<1>6. t \in Seq(CastTexts)
  BY <1>5 DEF NetRecords
<1>7. \A w \in Clients : net'[w].atServer = net[w].atServer /\ net'[w].up = IF w = u THEN <<>> ELSE net[w].up
  BY <1>2, <1>3, <1>5 DEF NetRecords
<1>8. t = net[u].up
  OBVIOUS
<1> HIDE DEF t
<1>9. r \in SelectRecords /\ r.i = srv.i /\ r.buffer = t
  BY <1>5, <1>6 DEF SelectRecords
<1> HIDE DEF r
<1>10. /\ LogTypes' /\ InTable' /\ Unheard' /\ Sending' /\ CaughtUp'
       /\ DOMAIN log' = DOMAIN log \cup {N + 1} /\ N + 1 \notin DOMAIN log
       /\ \A n \in DOMAIN log : log'[n] = log[n]
       /\ log'[N + 1].from = u /\ log'[N + 1].text = t
       /\ \A d : Behind(d)' => srv'.buffer = t
  <2>1. resets' \in BOOLEAN
    BY <1>1, <1>2 DEF LogTypes
  <2> QED BY <1>2, <1>3, <1>4, <1>6, <1>7, <1>9, <2>1, ReadIsLogged
<1> HIDE DEF N
<1>11. IsInjective(t) /\ \A l \in SaidIn(t) : l[1] = u /\ l[2] <= said[u]
  BY <1>1, <1>3, <1>8 DEF Written
<1>12. SaidIn(<<>>) = {} /\ IsInjective(<<>>)
  BY DEF SaidIn, IsInjective
<1>13. Written'
  <2> SUFFICES ASSUME NEW w \in Clients PROVE IsInjective(net'[w].up) /\ \A l \in SaidIn(net[w].up)' : l[1] = w /\ l[2] <= said'[w]
    BY DEF Written
  <2>1. CASE w = u
    <3>1. net'[w].up = <<>>
      BY <1>7, <2>1
    <3> QED BY <1>12, <3>1 DEF SaidIn
  <2>2. CASE w # u
    <3>1. net'[w].up = net[w].up
      BY <1>7, <2>2
    <3> QED BY <1>1, <1>2, <3>1 DEF Written, SaidIn
  <2> QED BY <2>1, <2>2
<1>14. Logged' /\ Told' /\ Unseen'
  <2>1. CASE resets
    BY <1>2, <2>1 DEF Logged, Told, Unseen
  <2>2. CASE ~resets
    <3>1. /\ \A n \in DOMAIN log : IsInjective(log[n].text) /\ \A l \in SaidIn(log[n].text) : l[1] = log[n].from /\ l[2] <= said[l[1]]
          /\ \A n, m \in DOMAIN log : n # m => SaidIn(log[n].text) \cap SaidIn(log[m].text) = {}
          /\ \A n \in DOMAIN log, w \in Clients : SaidIn(log[n].text) \cap SaidIn(net[w].up) = {}
      BY <1>1, <2>2 DEF Logged
    <3>2. \A n \in DOMAIN log : SaidIn(log[n].text) \cap SaidIn(t) = {}
      BY <1>3, <1>8, <3>1
    <3>3. ASSUME NEW n \in DOMAIN log'
          PROVE  IsInjective(log'[n].text) /\ \A l \in SaidIn(log'[n].text) : l[1] = log'[n].from /\ l[2] <= said'[l[1]]
      <4>1. CASE n \in DOMAIN log
        BY <1>2, <1>10, <3>1, <4>1
      <4>2. CASE n = N + 1
        BY <1>2, <1>10, <1>11, <4>2
      <4> QED BY <1>10, <4>1, <4>2
    <3>4. ASSUME NEW n \in DOMAIN log', NEW m \in DOMAIN log', n # m
          PROVE  SaidIn(log'[n].text) \cap SaidIn(log'[m].text) = {}
      <4>1. CASE n \in DOMAIN log /\ m \in DOMAIN log
        BY <1>10, <3>1, <3>4, <4>1
      <4>2. CASE n = N + 1 /\ m \in DOMAIN log
        BY <1>10, <3>2, <4>2
      <4>3. CASE n \in DOMAIN log /\ m = N + 1
        BY <1>10, <3>2, <4>3
      <4> QED BY <1>10, <3>4, <4>1, <4>2, <4>3
    <3>5. ASSUME NEW n \in DOMAIN log', NEW w \in Clients
          PROVE  SaidIn(log'[n].text) \cap SaidIn(net'[w].up) = {}
      <4>1. CASE w = u
        <5>1. net'[w].up = <<>>
          BY <1>7, <4>1
        <5> QED BY <1>12, <5>1
      <4>2. CASE w # u
        <5>1. net'[w].up = net[w].up
          BY <1>7, <4>2
        <5>2. CASE n \in DOMAIN log
          BY <1>10, <3>1, <5>1, <5>2
        <5>3. CASE n = N + 1
          <6>1. \A l \in SaidIn(net[w].up) : l[1] = w
            BY <1>1 DEF Written
          <6> QED BY <1>10, <1>11, <4>2, <5>1, <5>3, <6>1
        <5> QED BY <1>10, <5>2, <5>3
      <4> QED BY <4>1, <4>2
    <3>6. Logged'
      BY <3>3, <3>4, <3>5 DEF Logged, SaidIn
    <3>7. /\ \A w \in Clients : \A k \in DOMAIN told[w] : \E n \in DOMAIN log : log[n].from # w /\ told[w][k] = log[n].text
          /\ \A w \in Clients : \A k, l \in DOMAIN told[w] : k # l => SaidIn(told[w][k]) \cap SaidIn(told[w][l]) = {}
      BY <1>1, <2>2 DEF Told
    <3>8. Told'
      <4>1. ASSUME NEW w \in Clients, NEW k \in DOMAIN told[w]
            PROVE  \E n \in DOMAIN log' : log'[n].from # w /\ told[w][k] = log'[n].text
        BY <1>10, <3>7
      <4>2. told' = told
        BY <1>2
      <4>3. \A w \in Clients : \A k \in DOMAIN told'[w] : \E n \in DOMAIN log' : log'[n].from # w /\ told'[w][k] = log'[n].text
        BY <4>1, <4>2
      <4>4. \A w \in Clients : \A k, l \in DOMAIN told'[w] : k # l => SaidIn(told'[w][k]) \cap SaidIn(told'[w][l]) = {}
        BY <3>7, <4>2
      <4> QED BY <4>3, <4>4 DEF Told, SaidIn
    <3>9. Unseen'
      <4> SUFFICES ASSUME NEW d \in Cast!Fds, NEW w \in Clients, Behind(d)', NEW k \in DOMAIN told'[w]
                   PROVE  SaidIn(told'[w][k]) \cap SaidIn(srv'.buffer) = {}
        BY DEF Unseen, SaidIn
      <4>2. told' = told
        BY <1>2
      <4>1. srv'.buffer = t
        BY <1>10
      <4> QED BY <3>2, <3>7, <4>1, <4>2
    <3> QED BY <3>6, <3>8, <3>9
  <2> QED BY <2>1, <2>2
<1> QED BY <1>10, <1>13, <1>14 DEF SayInv

\* A read that fails: what is in the buffer is taken for a text, and resets tells.
LEMMA ErrorIsLogged == ASSUME CastInv, SayInv, Cast!ReadError PROVE SayInv'
<1> DEFINE u == Cast!Of(Cast!Current)
<1>1. CastTypes /\ Written
  BY DEF CastInv, SayInv
<1>2. /\ srv.at = "scan" /\ Cast!Current \in Cast!Open /\ srv' = Cast!SendFrom(srv, 1)
      /\ net' = [net EXCEPT ![u].atServer = "dead"] /\ log' = Append(log, [from |-> u, text |-> srv.buffer]) /\ resets' = TRUE
      /\ UNCHANGED <<slots, owner, backlog, user, said, since, told>>
  BY DEF Cast!ReadError, Cast!Scanning
<1>3. u \in Clients
  BY <1>2, AtCurrent
<1>4. u = Cast!Of(Cast!Current)
  OBVIOUS
<1> HIDE DEF u
<1>5. net[u] \in NetRecords /\ net \in [Clients -> NetRecords] /\ srv \in SelectRecords /\ srv.buffer \in Seq(CastTexts)
  BY <1>1, <1>3 DEF CastTypes, SelectRecords
<1>6. \A w \in Clients : net'[w].up = net[w].up /\ (net'[w].atServer = "open" => net[w].atServer = "open")
  BY <1>2, <1>3, <1>5 DEF NetRecords
<1>7. LogTypes' /\ InTable' /\ Unheard' /\ Sending' /\ CaughtUp'
  <2>1. resets' \in BOOLEAN
    BY <1>2
  <2> QED BY <1>2, <1>3, <1>4, <1>5, <1>6, <2>1, ReadIsLogged
<1>8. Written'
  BY <1>1, <1>2, <1>6 DEF Written, SaidIn
<1>9. Logged' /\ Told' /\ Unseen'
  BY <1>2 DEF Logged, Told, Unseen
<1> QED BY <1>7, <1>8, <1>9 DEF SayInv

\* A send: who is sent the text waits for it no more.
LEMMA TextIsSent == ASSUME CastInv, SayInv, srv.at = "send", Cast!SendText(slots[srv.j]) PROVE SayInv'
<1> DEFINE N == Len(log)
<1>1. CastTypes /\ Owners /\ OnePlace /\ InScan /\ LogTypes /\ InTable /\ Unheard /\ Sending /\ CaughtUp /\ Written /\ Logged /\ Told /\ Unseen
  BY DEF CastInv, SayInv
<1>2. /\ srv.i \in DOMAIN slots /\ srv.j \in DOMAIN slots /\ slots[srv.j] # 0 /\ DOMAIN slots = 1 .. Len(slots) /\ Len(slots) \in Nat
      /\ srv \in SelectRecords /\ slots \in Seq(Cast!Fds \cup {0}) /\ net \in [Clients -> NetRecords]
  BY <1>1 DEF InScan, CastTypes
<1>3. PICK d \in Cast!Fds : d = slots[srv.j]
  BY <1>2
<1>4. PICK u \in Clients : owner[d] = {u} /\ Cast!Of(d) = u
  <2>1. owner[d] # {}
    BY <1>1, <1>2, <1>3 DEF OnePlace
  <2> QED BY <1>1, <2>1, ReadableMeans DEF Owners
<1>5. /\ srv' = Cast!SendFrom(srv, srv.j + 1) /\ UNCHANGED <<slots, owner, backlog, user, said, log, since, resets>>
      /\ net[u].atServer = "open" => /\ net' = [net EXCEPT ![u].down = net[u].down \o srv.buffer]
                                     /\ told' = [told EXCEPT ![u] = Append(told[u], srv.buffer)]
      /\ net[u].atServer # "open" => net' = [net EXCEPT ![u].atServer = "dead"] /\ told' = told
  BY <1>2, <1>3, <1>4 DEF Cast!SendText, Cast!AfterSend, LogTypes
<1>6. srv.j + 1 \in Nat \ {0}
  BY <1>2
<1>7. /\ N \in Nat /\ N > 0 /\ srv.buffer = log[N].text /\ owner[slots[srv.i]] = {log[N].from}
      /\ slots[srv.i] \in Cast!Fds /\ d # slots[srv.i] /\ log \in Seq(LogRecords) /\ DOMAIN log = 1 .. N
  BY <1>1, <1>3 DEF Sending, LogTypes
<1>8. /\ log[N].from \in Clients /\ srv.buffer \in Seq(CastTexts) /\ log[N].from # u
  <2>1. log[N] \in LogRecords
    BY <1>7
  <2>2. log[N].from \in Clients /\ log[N].text \in Seq(CastTexts)
    BY <2>1 DEF LogRecords
  <2> QED BY <1>1, <1>3, <1>4, <1>7, <2>2 DEF Owners
<1> HIDE DEF N
<1>9. /\ srv'.at \in {"select", "scan", "send"}
      /\ srv'.at = "send" => srv'.i = srv.i /\ srv'.buffer = srv.buffer /\ slots[srv'.j] # slots[srv.i]
      /\ \A e \in Cast!Fds : Behind(e)' <=> e # slots[srv.i] /\ \E n \in DOMAIN slots : slots[n] = e /\ n >= srv.j + 1
  <2>1. slots' = slots
    BY <1>5
  <2> QED BY <1>2, <1>5, <1>6, <2>1, SendsFrom
<1>10. Behind(d) /\ ~Behind(d)'
  <2>1. Behind(d)
    BY <1>2, <1>3, <1>7 DEF Behind
  <2>2. ASSUME NEW n \in DOMAIN slots, slots[n] = d, n >= srv.j + 1 PROVE FALSE
    <3>1. n = srv.j
      BY <1>1, <1>2, <1>3, <2>2 DEF OnePlace
    <3> QED BY <1>2, <2>2, <3>1
  <2> QED BY <1>9, <2>1, <2>2
<1>11. ASSUME NEW e \in Cast!Fds, e # d PROVE Behind(e)' <=> Behind(e)
  <2>1. ASSUME NEW n \in DOMAIN slots, slots[n] = e PROVE n >= srv.j + 1 <=> n >= srv.j
    BY <1>2, <1>3, <1>11, <2>1
  <2> QED BY <1>9, <2>1 DEF Behind
<1>12. told \in [Clients -> Seq(Seq(CastTexts))] /\ told[u] \in Seq(Seq(CastTexts))
  BY <1>1, <1>4 DEF LogTypes
<1>13. /\ \A w \in Clients : net'[w].up = net[w].up /\ (net'[w].atServer = "open" => net[w].atServer = "open")
       /\ \A w \in Clients \ {u} : told'[w] = told[w]
       /\ \/ told' = told /\ net'[u].atServer # "open"
          \/ told'[u] = Append(told[u], srv.buffer) /\ told' \in [Clients -> Seq(Seq(CastTexts))] /\ net[u].atServer = "open"
  <2>1. CASE net[u].atServer = "open"
    <3>1. \A w \in Clients : net'[w].up = net[w].up /\ net'[w].atServer = net[w].atServer
      BY <1>2, <1>4, <1>5, <2>1 DEF NetRecords
    <3>2. Append(told[u], srv.buffer) \in Seq(Seq(CastTexts))
      BY <1>8, <1>12
    <3>3. told' \in [Clients -> Seq(Seq(CastTexts))] /\ told'[u] = Append(told[u], srv.buffer) /\ \A w \in Clients \ {u} : told'[w] = told[w]
      BY <1>4, <1>5, <1>12, <2>1, <3>2, ZenonT(60)
    <3> QED BY <2>1, <3>1, <3>3
  <2>2. CASE net[u].atServer # "open"
    <3>1. net[u] \in NetRecords
      BY <1>2
    <3>2. net'[u] = [net[u] EXCEPT !.atServer = "dead"] /\ \A w \in Clients \ {u} : net'[w] = net[w]
      BY <1>2, <1>5, <2>2
    <3>3. net'[u].up = net[u].up /\ net'[u].atServer = "dead"
      BY <3>1, <3>2 DEF NetRecords
    <3> QED BY <1>5, <2>2, <3>2, <3>3
  <2> QED BY <2>1, <2>2
<1>14. LogTypes'
  BY <1>1, <1>5, <1>12, <1>13 DEF LogTypes
<1>15. InTable' /\ Sending'
  BY <1>1, <1>5, <1>7, <1>9 DEF InTable, Sending, N
<1>16. Unheard'
  <2>1. user[u] # "out" /\ ~Contains(backlog, u)
    BY <1>3, <1>4 DEF CastInv, InBacklog
  <2> QED BY <1>1, <1>5, <1>13, <2>1 DEF Unheard
<1>17. Written' /\ Logged'
  BY <1>1, <1>5, <1>13, LinesKept
<1>18. CaughtUp'
  <2> SUFFICES ASSUME NEW e \in Cast!Fds, NEW w \in Clients, owner'[e] = {w}, net'[w].atServer = "open", srv'.at # "gone"
               PROVE IF Behind(e)' THEN since'[w] < Len(log') /\ Sent(w, Len(log) - 1)' ELSE Sent(w, Len(log))'
    BY DEF CaughtUp
  <2>1. owner[e] = {w} /\ net[w].atServer = "open" /\ since'[w] = since[w] /\ log' = log
    BY <1>5, <1>13
  <2>2. IF Behind(e) THEN since[w] < N /\ Sent(w, N - 1) ELSE Sent(w, N)
    BY <1>1, <2>1 DEF CaughtUp, N
  <2>3. Len(log') = N /\ N - 1 \in Nat /\ since[w] \in Nat
    BY <1>1, <1>7, <2>1 DEF N, LogTypes
  <2>4. PICK n \in Nat, m \in Nat : n = N /\ m = N - 1 /\ n <= Len(log) /\ m <= Len(log)
    <3>1. N <= Len(log) /\ N - 1 <= Len(log)
      BY <1>7 DEF N
    <3> QED BY <1>7, <2>3, <3>1
  <2>5. CASE e = d
    <3>1. w = u
      BY <1>4, <2>1, <2>5
    <3>2. told'[u] = Append(told[u], log[m + 1].text) /\ m + 1 = n
      BY <1>7, <1>13, <2>3, <2>4, <3>1
    <3>3. Sent(u, m) /\ since[u] <= m /\ log[m + 1].from # u
      BY <1>7, <1>8, <1>10, <2>2, <2>3, <2>4, <2>5, <3>1
    <3>4. Sent(u, m + 1)'
      BY <1>1, <1>4, <2>1, <2>4, <3>1, <3>2, <3>3, SentMore
    <3>5. Sent(u, Len(log))'
      BY <2>3, <2>4, <3>2, <3>4 DEF Sent, Meant
    <3> QED BY <1>10, <2>5, <3>1, <3>5
  <2>6. CASE e # d
    <3>1. w # u
      BY <1>1, <1>3, <1>4, <2>1, <2>6 DEF Owners
    <3>2. told'[w] = told[w]
      BY <1>13, <3>1
    <3>3. CASE Behind(e)
      <4>1. Sent(w, m)'
        BY <1>1, <2>1, <2>2, <2>4, <3>2, <3>3, SentKept
      <4>2. Sent(w, Len(log) - 1)'
        BY <2>3, <2>4, <4>1 DEF Sent, Meant
      <4> QED BY <1>11, <2>1, <2>2, <2>3, <2>6, <3>3, <4>2
    <3>4. CASE ~Behind(e)
      <4>1. Sent(w, n)'
        BY <1>1, <2>1, <2>2, <2>4, <3>2, <3>4, SentKept
      <4>2. Sent(w, Len(log))'
        BY <2>3, <2>4, <4>1 DEF Sent, Meant
      <4> QED BY <1>11, <2>6, <3>4, <4>2
    <3> QED BY <3>3, <3>4
  <2> QED BY <2>5, <2>6
<1>19. Told' /\ Unseen'
  <2>1. CASE resets
    BY <1>5, <2>1 DEF Told, Unseen
  <2>2. CASE ~resets
    <3>1. /\ \A w \in Clients : \A k \in DOMAIN told[w] : \E n \in DOMAIN log : log[n].from # w /\ told[w][k] = log[n].text
          /\ \A w \in Clients : \A k, l \in DOMAIN told[w] : k # l => SaidIn(told[w][k]) \cap SaidIn(told[w][l]) = {}
      BY <1>1, <2>2 DEF Told
    <3>2. Told'
      <4> SUFFICES ASSUME NEW w \in Clients
                   PROVE  /\ \A k \in DOMAIN told'[w] : \E n \in DOMAIN log : log[n].from # w /\ told'[w][k] = log[n].text
                          /\ \A k, l \in DOMAIN told'[w] : k # l => SaidIn(told'[w][k]) \cap SaidIn(told'[w][l]) = {}
        BY <1>5, ZenonT(60) DEF Told, SaidIn
      <4>1. CASE told'[w] = told[w]
        BY <3>1, <4>1
      <4>2. CASE told'[w] # told[w]
        <5> DEFINE L == Len(told[u]) + 1
        <5>1. w = u /\ told'[u] = Append(told[u], srv.buffer)
          BY <1>13, <4>2
        <5>2. /\ DOMAIN told'[u] = DOMAIN told[u] \cup {L} /\ told'[u][L] = srv.buffer
              /\ \A k \in DOMAIN told[u] : told'[u][k] = told[u][k]
          BY <1>8, <1>12, <5>1
        <5> HIDE DEF L
        <5>3. N \in DOMAIN log
          BY <1>7
        <5>4. \A k \in DOMAIN told[u] : SaidIn(told[u][k]) \cap SaidIn(srv.buffer) = {}
          BY <1>1, <1>3, <1>4, <1>10, <2>2 DEF Unseen
        <5>5. ASSUME NEW k \in DOMAIN told'[u] PROVE \E n \in DOMAIN log : log[n].from # u /\ told'[u][k] = log[n].text
          <6>1. CASE k \in DOMAIN told[u]
            BY <1>4, <3>1, <5>2, <6>1
          <6>2. CASE k = L
            BY <1>7, <1>8, <5>2, <5>3, <6>2
          <6> QED BY <5>2, <6>1, <6>2
        <5>6. ASSUME NEW k \in DOMAIN told'[u], NEW l \in DOMAIN told'[u], k # l PROVE SaidIn(told'[u][k]) \cap SaidIn(told'[u][l]) = {}
          <6>1. CASE k \in DOMAIN told[u] /\ l \in DOMAIN told[u]
            BY <1>4, <3>1, <5>2, <5>6, <6>1
          <6>2. CASE k = L /\ l \in DOMAIN told[u]
            BY <5>2, <5>4, <6>2
          <6>3. CASE k \in DOMAIN told[u] /\ l = L
            BY <5>2, <5>4, <6>3
          <6> QED BY <5>2, <5>6, <6>1, <6>2, <6>3
        <5> QED BY <5>1, <5>5, <5>6
      <4> QED BY <4>1, <4>2
    <3>3. Unseen'
      <4> SUFFICES ASSUME NEW e \in Cast!Fds, NEW w \in Clients, Behind(e)', owner'[e] = {w}, NEW k \in DOMAIN told'[w]
                   PROVE  SaidIn(told'[w][k]) \cap SaidIn(srv'.buffer) = {}
        BY DEF Unseen, SaidIn
      <4>1. e # d /\ Behind(e) /\ owner[e] = {w}
        BY <1>5, <1>10, <1>11
      <4>2. w # u
        BY <1>1, <1>3, <1>4, <4>1 DEF Owners
      <4>3. told'[w] = told[w] /\ srv'.buffer = srv.buffer
        BY <1>9, <1>13, <4>2 DEF Behind
      <4> QED BY <1>1, <2>2, <4>1, <4>3 DEF Unseen
    <3> QED BY <3>2, <3>3
  <2> QED BY <2>1, <2>2
<1> QED BY <1>14, <1>15, <1>16, <1>17, <1>18, <1>19 DEF SayInv

\* Every step of the broadcast server and its clients keeps the invariant.
LEMMA SayKept == CastInv /\ SayInv /\ [Cast!Next]_castVars => SayInv'
<1> SUFFICES ASSUME CastInv, SayInv, [Cast!Next]_castVars PROVE SayInv'
  OBVIOUS
<1>1. CASE UNCHANGED castVars
  <2>1. UNCHANGED <<srv, slots, owner, backlog, user, net, said, log, since, told, resets>>
    BY <1>1 DEF castVars
  <2>2. \A d : Behind(d)' <=> Behind(d)
    BY <2>1 DEF Behind
  <2>3. LogTypes' /\ CaughtUp' /\ Told' /\ Unseen'
    BY <2>1, <2>2, QuietStep
  <2>4. Written' /\ Logged'
    BY <2>1, LinesKept DEF SayInv
  <2>5. InTable' /\ Unheard' /\ Sending'
    BY <2>1 DEF SayInv, InTable, Unheard, Sending
  <2> QED BY <2>3, <2>4, <2>5 DEF SayInv
<1>2. CASE Cast!ServerStep
  <2>1. CASE Cast!Send
    BY <2>1, TextIsSent, KillIsQuiet DEF Cast!Send
  <2> QED BY <1>2, <2>1, SelectIsQuiet, AcceptIsNew, TextIsLogged, ErrorIsLogged, EndIsQuiet DEF Cast!ServerStep
<1>3. CASE \E u \in Clients : Cast!Connect(u) \/ Cast!TypeLine(u) \/ Cast!Hear(u) \/ Cast!Die(u)
  BY <1>3, SomeoneQuiet, SomeoneTypes
<1> QED BY <1>1, <1>2, <1>3 DEF Cast!Next

\* What the runs check of SameForAll follows from the two invariants.
LEMMA SaySafe == CastInv /\ SayInv => Cast!SameForAll
<1> SUFFICES ASSUME CastInv, SayInv, NEW d \in Cast!Open
             PROVE  /\ srv.at \in {"select", "accept", "scan"} /\ net[Cast!Of(d)].atServer = "open" => Cast!SentTo(Cast!Of(d), Len(log))
                    /\ ~resets => Cast!NoEcho(Cast!Of(d))
  BY DEF Cast!SameForAll
<1>1. Owners /\ LogTypes /\ CaughtUp /\ Logged /\ Told
  BY DEF CastInv, SayInv
<1>2. d \in Cast!Fds /\ \E u \in Clients : owner[d] = {u}
  BY <1>1, CastConstants DEF Cast!Open, Owners
<1>3. PICK u \in Clients : owner[d] = {u} /\ Cast!Of(d) = u
  BY <1>1, <1>2, ReadableMeans
<1>4. ASSUME srv.at \in {"select", "accept", "scan"}, net[u].atServer = "open" PROVE Cast!SentTo(u, Len(log))
  <2>1. Sent(u, Len(log))
    BY <1>1, <1>2, <1>3, <1>4 DEF CaughtUp, Behind
  <2>2. \A n : Cast!Due(u, n) = Meant(u, n)
    BY DEF Cast!Due, Meant
  <2>3. \A S : Cast!Cardinality(S) = Cardinality(S)
    BY DEF Cast!Cardinality, Cardinality
  <2> QED BY <2>1, <2>2, <2>3 DEF Sent, Cast!SentTo
<1>5. ASSUME ~resets PROVE Cast!NoEcho(u)
  <2> SUFFICES ASSUME NEW k \in DOMAIN told[u], NEW l \in DOMAIN told[u], NEW m \in DOMAIN told[u][k], NEW n \in DOMAIN told[u][l]
               PROVE  told[u][k][m][1] # u /\ (told[u][k][m] = told[u][l][n] => k = l /\ m = n)
    BY DEF Cast!NoEcho
  <2>1. /\ \A e \in DOMAIN log : IsInjective(log[e].text) /\ \A x \in SaidIn(log[e].text) : x[1] = log[e].from
    BY <1>1, <1>5 DEF Logged
  <2>2. PICK e \in DOMAIN log : log[e].from # u /\ told[u][k] = log[e].text
    BY <1>1, <1>5 DEF Told
  <2>3. k # l => SaidIn(told[u][k]) \cap SaidIn(told[u][l]) = {}
    BY <1>1, <1>5 DEF Told
  <2>4. told[u][k][m] \in SaidIn(told[u][k]) /\ told[u][l][n] \in SaidIn(told[u][l])
    BY DEF SaidIn
  <2>5. told[u][k][m][1] # u
    BY <2>1, <2>2, <2>4
  <2>6. told[u][k][m] = told[u][l][n] => k = l
    BY <2>3, <2>4
  <2>7. k = l /\ told[u][k][m] = told[u][l][n] => m = n
    BY <2>1, <2>2 DEF IsInjective
  <2> QED BY <2>5, <2>6, <2>7
<1> QED BY <1>3, <1>4, <1>5

(***************************************************************************)
(* The programs in one run.                                                *)
(***************************************************************************)
\* A behaviour takes the steps of the program it has chosen.
LEMMA StepOfOne == ASSUME [Next]_vars
  PROVE /\ program' = program
        /\ program = "shell" => [Sh!Next]_shVars
        /\ program = "tree" => [Tree!Next]_treeVars
        /\ program = "shops" => [Market!Next]_shopVars
        /\ program = "broadcast" => [Cast!Next]_castVars
        /\ program = "browser" => [Panels!Next]_fileVars
<1>1. CASE UNCHANGED vars
  BY <1>1 DEF vars
<1>2. CASE Next
  BY <1>2 DEF Next
<1> QED BY <1>1, <1>2

\* No process goes on before those it depends on, in every shell and process tree
\* (12-channels/3.c, 10-process management/2.c and 3.c).
THEOREM InFamilyOrderHolds == Spec => []InFamilyOrder
<1> DEFINE OrderInv == (program = "shell" => ShellInv) /\ (program = "tree" => TreeInv)
<1>1. Init => OrderInv
  BY ShellStarts, TreeStarts DEF Init
<1>2. OrderInv /\ [Next]_vars => OrderInv'
  <2> SUFFICES ASSUME OrderInv, [Next]_vars PROVE OrderInv'
    OBVIOUS
  <2>1. /\ program' = program
        /\ program = "shell" => [Sh!Next]_shVars
        /\ program = "tree" => [Tree!Next]_treeVars
    BY StepOfOne
  <2>2. program = "shell" => ShellInv'
    BY <2>1, ShellKept
  <2>3. program = "tree" => TreeInv'
    BY <2>1, TreeKept
  <2> QED BY <2>1, <2>2, <2>3
<1>3. OrderInv => InFamilyOrder
  BY ShellTypeOK, TreeSafe DEF InFamilyOrder
<1> QED BY <1>1, <1>2, <1>3, PTL DEF Spec

\* No update of a shop is lost and no goods are sold twice, whatever the numbers of
\* shops, customers and goods (11-streams/1.c).
THEOREM GoodsAddUpHolds == Spec => []GoodsAddUp
<1> DEFINE MarketInv == program = "shops" => ShopInv
<1>1. Init => MarketInv
  BY ShopsOpen DEF Init
<1>2. MarketInv /\ [Next]_vars => MarketInv'
  BY StepOfOne, ShopsKept
<1>3. MarketInv => GoodsAddUp
  BY ShopsSafe DEF GoodsAddUp
<1> QED BY <1>1, <1>2, <1>3, PTL DEF Spec

\* In both panels the cursor is on a file of the list and on a line that is drawn, in
\* every directory and on every terminal with at least one line for it, unless the
\* terminal became lower (09-virtual file system/fileEx/main.c 140-194).
THEOREM CursorInViewHolds == Spec => []CursorInView
<1> DEFINE PanelsInv == program = "browser" => BrowserInv
<1>1. Init => PanelsInv
  BY BrowserOpens DEF Init
<1>2. PanelsInv /\ [Next]_vars => PanelsInv'
  BY StepOfOne, BrowserKept
<1>3. PanelsInv => CursorInView
  BY BrowserSafe DEF CursorInView
<1> QED BY <1>1, <1>2, <1>3, PTL DEF Spec

\* The one thread of the broadcast server never waits in read, whoever connects, leaves,
\* resets its connection, and gets the descriptor of somebody else, while the answer of
\* select is used up.  Whenever it is not in its loop of sends, whoever is connected has
\* been sent all the server has read of the others since it was accepted, in that order;
\* and without a read that failed nobody is sent a line twice or one of its own: for every
\* finite number of clients (16-sockets/3/broadcast/server.c 67-101).
THEOREM OneForAllHolds == Spec => []OneForAll
<1> DEFINE ServerInv == program = "broadcast" => CastInv /\ SayInv
<1>1. Init => ServerInv
  BY CastOpens, NobodySays DEF Init
<1>2. ServerInv /\ [Next]_vars => ServerInv'
  BY StepOfOne, CastKept, SayKept
<1>3. ServerInv => OneForAll
  BY CastSafe, SaySafe DEF OneForAll
<1> QED BY <1>1, <1>2, <1>3, PTL DEF Spec
==================================================================================
