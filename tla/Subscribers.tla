------------------------------ MODULE Subscribers ------------------------------
(***************************************************************************)
(* What a subscriber directory promises its user: a bag of entries, from   *)
(* which "delete" takes one entry of the name, if there is one, and "find" *)
(* shows all entries of the name.                                          *)
(***************************************************************************)
EXTENDS Bags

CONSTANTS Names, Numbers

VARIABLES book,    \* the bag of entries
          shown    \* what the last command has shown

Entries == Names \X Numbers

Start == book = EmptyBag /\ shown = EmptyBag

Add == \E e \in Entries : book' = book (+) SetToBag({e}) /\ shown' = EmptyBag

Delete ==
  /\ \E n \in Names :
       \/ \E e \in BagToSet(book) : e[1] = n /\ book' = book (-) SetToBag({e})
       \/ (\A e \in BagToSet(book) : e[1] # n) /\ book' = book
  /\ shown' = EmptyBag

Find ==
  /\ \E n \in Names : shown' = [e \in {x \in BagToSet(book) : x[1] = n} |-> book[e]]
  /\ UNCHANGED book

PrintAll == shown' = book /\ UNCHANGED book

Spec == Start /\ [][Add \/ Delete \/ Find \/ PrintAll]_<<book, shown>>
===============================================================================
