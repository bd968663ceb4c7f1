------------------------------ MODULE ProcessTree ------------------------------
(***************************************************************************)
(* fork and wait in "10-process management": 1.c, where a parent waits for *)
(* its child, and 2.c, where main forks processes 1 and 2, and these fork  *)
(* 3, 4 and 5 with create_process.  A process is named by the forks that   *)
(* lead to it: <<>> is main, <<2, 1>> the first child of its second child. *)
(***************************************************************************)
EXTENDS Integers, FiniteSets, SequencesExt

Processes == BoundedSeq({1, 2}, 3)   \* bound: one fork deeper than the program goes

VARIABLES
  tree,    \* the program is 2.c; never changes
  proc,    \* where each process is, and in a call of create_process its loop
           \* counter, its number of children and where it returns to
  short    \* history: a fork failed
treeVars == <<tree, proc, short>>

At(place)     == [at |-> place, i |-> 0, n |-> 0, back |-> "exit"]
Call(n, back) == [at |-> "create", i |-> 0, n |-> n, back |-> back]
Kids(p)       == {q \in Processes : q # <<>> /\ Front(q) = p /\ proc[q].at \notin {"none", "reaped"}}
Ended(p)      == proc[p].at \in {"zombie", "reaped"}

Init ==
  /\ tree \in BOOLEAN
  /\ proc = [p \in Processes |-> At(IF p = <<>> THEN "main" ELSE "none")]
  /\ short = FALSE
-------------------------------------------------------------------------------
\* fork: the parent p goes on as one record says, its k-th child as the other.
Forks(p, k, parent, kid) ==
  /\ proc' = [proc EXCEPT ![p] = parent, ![Append(p, k)] = kid]
  /\ UNCHANGED <<tree, short>>

\* main forks process 1; the child of 1.c prints and ends.
ForkFirst(p) ==
  /\ proc[p].at = "main"
  /\ Forks(p, 1, At(IF tree THEN "main2" ELSE "last"), IF tree THEN Call(2, "exit") ELSE At("exit"))

ForkSecond(p) == proc[p].at = "main2" /\ Forks(p, 2, At("last"), Call(1, "last"))

ForkInLoop(p, kid) ==
  /\ proc[p].at = "create" /\ proc[p].i < proc[p].n
  /\ Forks(p, proc[p].i + 1, [proc[p] EXCEPT !.i = @ + 1], kid)

ChildGoesOn(p) ==   \* mutant: the child does not return, and takes the loop from here
  ForkInLoop(p, [proc[p] EXCEPT !.i = @ + 1])

\* The loop of create_process; a child returns from it at once.
create_process(p) == ForkInLoop(p, At(proc[p].back))

\* main ends, create_process returns, without a wait for the children there are.
ForkFails(p) ==
  /\ \/ proc[p].at \in {"main", "main2"} /\ proc' = [proc EXCEPT ![p].at = "exit"]
     \/ proc[p].at = "create" /\ proc[p].i < proc[p].n /\ proc' = [proc EXCEPT ![p].at = proc[p].back]
  /\ short' = TRUE /\ UNCHANGED tree

AllForked(p) ==
  /\ proc[p].at = "create" /\ proc[p].i = proc[p].n
  /\ proc' = [proc EXCEPT ![p].at = "wait", ![p].i = 0]
  /\ UNCHANGED <<tree, short>>

AfterWait(p) == IF proc[p].at = "wait" /\ proc[p].i + 1 < proc[p].n
                THEN [proc[p] EXCEPT !.i = @ + 1]
                ELSE At(IF proc[p].at = "wait" THEN proc[p].back ELSE "exit")

\* wait takes a child that has ended; without children it returns at once.
wait(p) ==
  /\ proc[p].at \in {"wait", "last"}
  /\ \/ \E q \in Kids(p) : proc[q].at = "zombie"
                           /\ proc' = [proc EXCEPT ![q].at = "reaped", ![p] = AfterWait(p)]
     \/ Kids(p) = {} /\ proc' = [proc EXCEPT ![p] = AfterWait(p)]
  /\ UNCHANGED <<tree, short>>

Exit(p) == proc[p].at = "exit" /\ proc' = [proc EXCEPT ![p].at = "zombie"] /\ UNCHANGED <<tree, short>>

Step(p) == ForkFirst(p) \/ ForkSecond(p) \/ create_process(p) \/ ForkFails(p) \/ AllForked(p) \/ wait(p) \/ Exit(p)

Next == \E p \in Processes : Step(p)

\* Some process that can run does; as none runs for ever, all get their turn.
Fairness == WF_treeVars(Next)
FairSpec == Init /\ [][Next]_treeVars /\ Fairness
-------------------------------------------------------------------------------
\* The type invariant; a child has a record only if its parent forked it.
TypeOK ==
  /\ tree \in BOOLEAN /\ short \in BOOLEAN
  /\ \A p \in Processes :
       /\ proc[p].at \in {"none", "main", "main2", "create", "wait", "last", "exit", "zombie", "reaped"}
       /\ proc[p].i \in 0 .. proc[p].n /\ proc[p].back \in {"exit", "last"}
       /\ p # <<>> /\ proc[p].at # "none" => proc[Front(p)].at # "none"

\* The processes are those the comments of 2.c name, 1 and 2 of main, 3 and 4 of
\* process 1, 5 of process 2: a child must not fork on in its parent's loop
\* (lines 13 and 32-40).
TreeShape ==
  LET Forked == {p \in Processes : proc[p].at # "none"}
      Named  == IF tree THEN {<<>>, <<1>>, <<2>>, <<1, 1>>, <<1, 2>>, <<2, 1>>} ELSE {<<>>, <<1>>}
  IN  /\ Forked \subseteq Named
      /\ (\A p \in Forked : Ended(p)) /\ ~short => Forked = Named

\* Unless a fork fails, nobody ends before its children but main of 2.c, which
\* leaves at most one of its two behind: it waits once (lines 20-22 and 46).
OneLeftBehind ==
  LET Left == {p \in Processes : p # <<>> /\ proc[p].at \notin {"none", "reaped"} /\ Ended(Front(p))}
  IN  ~short => Left \subseteq {<<1>>, <<2>>} /\ Cardinality(Left) <= (IF tree THEN 1 ELSE 0)

\* Every process comes to its end: a wait never blocks without a child to end.
AllEnded == \A p \in Processes : proc[p].at # "none" => Ended(p)
AllEnd   == []<>AllEnded
===============================================================================
