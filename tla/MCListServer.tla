----------------------------- MODULE MCListServer -----------------------------
(***************************************************************************)
(* Small instances of ListServer, with interchangeable clients and threads.*)
(***************************************************************************)
EXTENDS ListServer, TLC
CONSTANTS c1, c2, c3, c4, t1, t2
TwoClients   == {c1, c2}
FourClients  == {c1, c2, c3, c4}
TwoThreads   == {t1, t2}
FourSockets  == 1 .. 4
Symmetry     == Permutations(Clients) \cup Permutations(Threads)
===============================================================================
