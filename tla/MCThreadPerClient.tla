-------------------------- MODULE MCThreadPerClient --------------------------
(***************************************************************************)
(* A small instance of ThreadPerClient: a descriptor for each client.      *)
(***************************************************************************)
EXTENDS ThreadPerClient
ThreeSockets == 1 .. 3
===============================================================================
