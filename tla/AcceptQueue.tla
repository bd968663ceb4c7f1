------------------------------ MODULE AcceptQueue ------------------------------
(***************************************************************************)
(* What the ring of list_server promises its callers: the sockets that     *)
(* wait for a worker, first in first out.  The ring has no test for being  *)
(* full, so the promise has a limit: the socket that would fill the last   *)
(* of Room slots makes the queue forget every socket in it.                *)
(***************************************************************************)
EXTENDS Naturals, Sequences

CONSTANTS Sockets, Room

VARIABLE waiting

Put == \E s \in Sockets :
  waiting' = IF Len(waiting) + 1 < Room THEN Append(waiting, s) ELSE <<>>

Take == waiting # <<>> /\ waiting' = Tail(waiting)

Spec == waiting = <<>> /\ [][Put \/ Take]_waiting
===============================================================================
