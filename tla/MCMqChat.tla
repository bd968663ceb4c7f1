------------------------------- MODULE MCMqChat -------------------------------
(***************************************************************************)
(* Small instances of MqChat: one client, or two that are interchangeable. *)
(***************************************************************************)
EXTENDS MqChat, TLC
CONSTANTS a, b
OneClient  == {a}
TwoClients == {a, b}
Symmetry   == Permutations(TwoClients)
===============================================================================
