------------------------------- MODULE MCPrograms -------------------------------
(***************************************************************************)
(* The small programs in one run: a behaviour chooses a program at its     *)
(* start and takes the steps of that program only.  They share nothing, so *)
(* the states of the run are those of the programs one after the other.    *)
(***************************************************************************)
EXTENDS Integers, Sequences

CONSTANTS MaxCommands, MaxLines, PipeSize,                 \* Shell; MaxLines also Broadcast
          NUM_SHOPS, NUM_CUSTOMERS, Requests, Goods,       \* Shops
          Clients,                                         \* Broadcast
          Names, Numbers, DIRECTORY_LENGTH,                \* Directory
          MAX_FILES, FileNames, PARENT, Heights,           \* FileBrowser
          MaxSize, Symbols, Width,                         \* Exercises
          InThisRun                                           \* bound: the programs of the run

VARIABLES
  program,                                                           \* never changes
  pipes, pc, line, i, lines, held, stdio, child, eof, bytes,         \* Shell
  tree, proc, short,                                                 \* ProcessTree
  shops, request, customer, seen, loader, mutex_shops, joined, wanted, delivered,
  srv, slots, owner, backlog, user, net, said, log, since, told, resets,
  growing, handbook, number_of_users, output, menu,                  \* Directory
  files, highlight, top, current_list, LINES, shrunk, app,           \* FileBrowser
  exercise, entered, counters, result                                \* Exercises

Sh     == INSTANCE Shell
Tree   == INSTANCE ProcessTree
Market == INSTANCE Shops
Cast   == INSTANCE Broadcast
Dir    == INSTANCE Directory
Panels == INSTANCE FileBrowser
Loops  == INSTANCE Exercises

ASSUME ProgramsAssumption ==
  /\ Sh!ConstantsOK /\ Market!ConstantsOK /\ Cast!ConstantsOK
  /\ Dir!ConstantsOK /\ Panels!ConstantsOK /\ Loops!ConstantsOK

shVars   == <<pipes, pc, line, i, lines, held, stdio, child, eof, bytes>>
treeVars == <<tree, proc, short>>
shopVars == <<shops, request, customer, seen, loader, mutex_shops, joined, wanted, delivered>>
castVars == <<srv, slots, owner, backlog, user, net, said, log, since, told, resets>>
dirVars  == <<growing, handbook, number_of_users, output, menu>>
fileVars == <<files, highlight, top, current_list, LINES, shrunk, app>>
loopVars == <<exercise, entered, counters, result>>
vars     == <<program, shVars, treeVars, shopVars, castVars, dirVars, fileVars, loopVars>>

\* The variables of the programs that are not chosen have one value each.
Init ==
  /\ program \in InThisRun
  /\ Sh!Init /\ (program = "shell" \/ pipes)
  /\ Tree!Init /\ (program = "tree" \/ tree)
  /\ Market!Init
  /\ \/ program = "shops"
     \/ (\A s \in DOMAIN shops, g \in Goods : shops[s] <= g) /\ (\A c \in DOMAIN request, r \in Requests : request[c] <= r)
  /\ Cast!Init
  /\ Dir!Init /\ (program = "directory" \/ growing)
  /\ Panels!Init
  /\ Loops!Init /\ (program = "exercises" \/ (exercise = "spiral" /\ entered = 1))
  /\ program = "browser" \/ (Len(files) = 1 /\ \A h \in Heights : LINES <= h)

Next ==
  \/ program = "shell" /\ Sh!Next
     /\ UNCHANGED <<program, treeVars, shopVars, castVars, dirVars, fileVars, loopVars>>
  \/ program = "tree" /\ Tree!Next
     /\ UNCHANGED <<program, shVars, shopVars, castVars, dirVars, fileVars, loopVars>>
  \/ program = "shops" /\ Market!Next
     /\ UNCHANGED <<program, shVars, treeVars, castVars, dirVars, fileVars, loopVars>>
  \/ program = "broadcast" /\ Cast!Next
     /\ UNCHANGED <<program, shVars, treeVars, shopVars, dirVars, fileVars, loopVars>>
  \/ program = "directory" /\ Dir!Next
     /\ UNCHANGED <<program, shVars, treeVars, shopVars, castVars, fileVars, loopVars>>
  \/ program = "browser" /\ Panels!Next
     /\ UNCHANGED <<program, shVars, treeVars, shopVars, castVars, dirVars, loopVars>>
  \/ program = "exercises" /\ Loops!Next
     /\ UNCHANGED <<program, shVars, treeVars, shopVars, castVars, dirVars, fileVars>>

Spec == Init /\ [][Next]_vars

\* The fairness of each module, of the program that was chosen.
Fairness ==
  /\ WF_shVars(program = "shell" /\ Sh!ShellStep)
  /\ \A c \in Sh!Children : /\ WF_shVars(program = "shell" /\ Sh!ChildStep(c))
                            /\ SF_shVars(program = "shell" /\ Sh!ReadEnd(c))
  /\ WF_treeVars(program = "tree" /\ Tree!Next)
  /\ WF_shopVars(program = "shops" /\ Market!MainThere /\ Market!Join)
  /\ WF_shopVars(program = "shops" /\ Market!MainThere /\ Market!RestockShop)
  /\ SF_shopVars(program = "shops" /\ Market!MainThere /\ Market!LoaderEnter)
  /\ \A c \in Market!Customers :
       /\ WF_shopVars(program = "shops" /\ Market!MainThere /\ Market!CustomerStep(c))
       /\ SF_shopVars(program = "shops" /\ Market!MainThere /\ Market!Enter(c))
       /\ SF_shopVars(program = "shops" /\ Market!MainThere /\ Market!ChooseStocked(c))
  /\ WF_castVars(program = "broadcast" /\ Cast!ServerStep)
  /\ WF_loopVars(program = "exercises" /\ Loops!Next)

FairSpec == Spec /\ Fairness
-------------------------------------------------------------------------------
\* The type invariants of the modules.
TypeOK ==
  /\ program = "shell" => Sh!TypeOK
  /\ program = "tree" => Tree!TypeOK
  /\ program = "shops" => Market!TypeOK
  /\ program = "broadcast" => Cast!TypeOK
  /\ program = "directory" => Dir!TypeOK
  /\ program = "browser" => Panels!TypeOK
  /\ program = "exercises" => Loops!TypeOK

\* No process goes on before those it depends on: the end of a pipe means that its
\* writer has ended, a shell prompts when its children have (12-channels/3.c,
\* 10-process management/3.c), and the tree of 2.c has the shape its comments say
\* and leaves one child at most behind.
InFamilyOrder ==
  /\ program = "shell" => Sh!EofMeansDone /\ Sh!NobodyLeft
  /\ program = "tree" => Tree!TreeShape /\ Tree!OneLeftBehind

\* Goods are neither lost nor sold twice (11-streams/1.c).
GoodsAddUp == program = "shops" => Market!GoodsAddUp

\* One thread serves all its clients: it never waits for one of them, whatever became
\* of the sockets that select found ready, and it sends the same to all of them
\* (16-sockets/3/broadcast/server.c 67-98).
OneForAll == program = "broadcast" => Cast!NeverBlocks /\ Cast!SameForAll

\* Either subscriber directory implements a bag of subscribers (04-structures and
\* 06-dynamic memory).
BookIsBag == Dir!BookIsBag

\* In both panels the cursor can be seen and is on a file (09-virtual file system).
CursorInView == program = "browser" => Panels!CursorInView

\* The loops of the exercises print what they should (01-bit operations, 02-arrays,
\* 03-pointers).
ShownRight == program = "exercises" => Loops!Exact

\* What each program owes its user in the end: a pipeline ends, the processes of a
\* tree end, the customers are served, what clients send is read, and the
\* loops of the exercises end.
AllComeToAnEnd ==
  []<>(/\ program = "shell" => Sh!LineOver
       /\ program = "tree" => Tree!AllEnded
       /\ program = "shops" => Market!Served
       /\ program = "broadcast" => Cast!InputRead
       /\ program = "exercises" => Loops!AllDone)
===============================================================================
