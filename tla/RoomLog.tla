-------------------------------- MODULE RoomLog --------------------------------
(***************************************************************************)
(* What the rooms of the shared-memory chat promise: each counts the texts *)
(* posted, and keeps the latest Keep of them in order.  The promise of a   *)
(* room ends when two posts overlap in it, or it is cleared in use.        *)
(***************************************************************************)
EXTENDS Naturals, SequencesExt

CONSTANTS Rooms, Texts, Keep

VARIABLES length, recent, spoilt

Latest(s) == SubSeq(s, Max({0, Len(s) - Keep}) + 1, Len(s))

Post(r, t) ==
  /\ r \notin spoilt
  /\ length' = [length EXCEPT ![r] = @ + 1]
  /\ recent' = [recent EXCEPT ![r] = Latest(Append(@, t))]
  /\ UNCHANGED spoilt

Spoil(r) ==
  /\ r \notin spoilt
  /\ spoilt' = spoilt \cup {r}
  /\ length' = [length EXCEPT ![r] = 0]
  /\ recent' = [recent EXCEPT ![r] = <<>>]

Init == /\ length = [r \in Rooms |-> 0]
        /\ recent = [r \in Rooms |-> <<>>]
        /\ spoilt = {}

Next == \E r \in Rooms : Spoil(r) \/ \E t \in Texts : Post(r, t)

Spec == Init /\ [][Next]_<<length, recent, spoilt>>
===============================================================================
