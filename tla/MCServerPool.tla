----------------------------- MODULE MCServerPool -----------------------------
(***************************************************************************)
(* Small instances of ServerPool, with interchangeable clients.            *)
(***************************************************************************)
EXTENDS ServerPool, TLC
CONSTANTS c1, c2, c3
ThreeClients == {c1, c2, c3}
Symmetry     == Permutations(Clients)
===============================================================================
