------------------------------- MODULE Directory -------------------------------
(***************************************************************************)
(* The two subscriber directories: the fixed table of "04-structures" (and *)
(* of "05-functions/task-1", the same files) and the growing one of        *)
(* "06-dynamic memory".  An entry is a name and a number; EMPTY is what    *)
(* memset leaves, and what realloc adds to the growing table.              *)
(***************************************************************************)
EXTENDS Integers, FiniteSetsExt, SequencesExt, Bags

CONSTANTS Names, Numbers,
          DIRECTORY_LENGTH    \* entries of the fixed table; also the bound of the other

ConstantsOK == DIRECTORY_LENGTH \in Nat \ {0}

EMPTY   == <<"", 0>>
Entries == Names \X Numbers

VARIABLES
  growing,          \* the program is that of 06; never changes
  handbook,         \* handbook, or entries up to capacity
  number_of_users,  \* number_of_users, or size
  output,           \* the entries the last command printed
  menu              \* the menu goes on, or how it ended
dirVars == <<growing, handbook, number_of_users, output, menu>>

Init ==
  /\ growing \in BOOLEAN
  /\ handbook = IF growing THEN <<>> ELSE [k \in 1 .. DIRECTORY_LENGTH |-> EMPTY]
  /\ number_of_users = 0 /\ output = <<>> /\ menu = "open"

Used    == SubSeq(handbook, 1, number_of_users)
Chosen  == menu = "open" /\ UNCHANGED <<growing, menu>>
capacity == Len(handbook)
-------------------------------------------------------------------------------
\* The table as add_subscr finds it: doubled when it is full.
NewCapacity == IF capacity = 0 THEN 1 ELSE capacity * 2

resize_directory(table) == table \o [k \in 1 .. NewCapacity - capacity |-> EMPTY]

\* Both tables are written at number_of_users; only the growing one looks whether
\* it is full (bound: the fixed one is not filled beyond its end).
add_subscr(e) ==
  LET table == IF growing /\ number_of_users >= capacity THEN resize_directory(handbook) ELSE handbook
  IN  /\ Chosen /\ number_of_users < DIRECTORY_LENGTH
      /\ handbook' = [table EXCEPT ![number_of_users + 1] = e]
      /\ number_of_users' = number_of_users + 1 /\ output' = <<>>

\* A turn of the loop of 04: empty an entry of that name, and once one was found
\* move the next entry here.
ShiftTurn(n, r, i) ==
  LET found == r.found \/ r.table[i][1] = n
      table == IF r.table[i][1] = n THEN [r.table EXCEPT ![i] = EMPTY] ELSE r.table
  IN  [found |-> found,
       table |-> IF found /\ i < number_of_users
                 THEN [table EXCEPT ![i] = table[i + 1], ![i + 1] = EMPTY] ELSE table]

NoMove(n, r, i) ==     \* mutant: the hole stays where it is
  [found |-> r.found \/ r.table[i][1] = n,
   table |-> IF r.table[i][1] = n THEN [r.table EXCEPT ![i] = EMPTY] ELSE r.table]

Turn(n, r, i) == ShiftTurn(n, r, i)

delete_fixed(n) ==
  LET all == FoldLeft(LAMBDA r, i : Turn(n, r, i), [found |-> FALSE, table |-> handbook],
                      [k \in 1 .. number_of_users |-> k])
  IN  /\ handbook' = all.table
      /\ number_of_users' = IF all.found THEN number_of_users - 1 ELSE number_of_users

\* The loop of 06 ends at the first entry of that name, and moves the last one there.
delete_growing(n) ==
  LET Of == {k \in 1 .. number_of_users : handbook[k][1] = n}
  IN  IF Of = {} THEN UNCHANGED <<handbook, number_of_users>>
      ELSE /\ handbook' = [handbook EXCEPT ![Min(Of)] = handbook[number_of_users]]
           /\ number_of_users' = number_of_users - 1

delete_subscr(n) ==
  /\ Chosen /\ output' = <<>>
  /\ IF growing THEN delete_growing(n) ELSE delete_fixed(n)

find_subscr(n) ==
  /\ Chosen /\ output' = SelectSeq(Used, LAMBDA e : e[1] = n)
  /\ UNCHANGED <<handbook, number_of_users>>

\* The fixed table is printed without its empty entries.
print_all ==
  /\ Chosen /\ output' = SelectSeq(Used, LAMBDA e : growing \/ e # EMPTY)
  /\ UNCHANGED <<handbook, number_of_users>>

\* Choice 5; after free_directory the menu of 06 also frees its own local variable,
\* which free() may find out and abort.
Quit ==
  /\ menu = "open" /\ menu' \in (IF growing THEN {"left", "aborted"} ELSE {"left"})
  /\ UNCHANGED <<growing, handbook, number_of_users, output>>

Next == \/ \E e \in Entries : add_subscr(e)
        \/ \E n \in Names : delete_subscr(n) \/ find_subscr(n)
        \/ print_all \/ Quit

Spec == Init /\ [][Next]_dirVars
-------------------------------------------------------------------------------
\* The type invariant: the used part of the table fits in it and has no hole, and
\* what is behind it in the fixed table is empty.
TypeOK ==
  /\ growing \in BOOLEAN /\ menu \in {"open", "left", "aborted"}
  /\ number_of_users \in 0 .. capacity
  /\ ToSet(Used) \subseteq Entries /\ ToSet(output) \subseteq Entries
  /\ ToSet(handbook) \subseteq Entries \cup {EMPTY}
  /\ ~growing => \A k \in number_of_users + 1 .. capacity : handbook[k] = EMPTY

\* Either table implements a bag of entries: nothing is lost when the table grows,
\* a delete takes exactly one entry of the name however many there are, and what is
\* found and printed is what is there (directory.c of 04 9-74 and of 06 9-67).
Book == INSTANCE Subscribers WITH
          book  <- FoldLeft(LAMBDA b, e : b (+) SetToBag({e}), EmptyBag, Used),
          shown <- FoldLeft(LAMBDA b, e : b (+) SetToBag({e}), EmptyBag, output)
BookIsBag == Book!Spec
===============================================================================
