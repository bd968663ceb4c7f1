------------------------------- MODULE Exercises -------------------------------
(***************************************************************************)
(* The loops of the first exercises: "02-arrays/4.c" fills a matrix along  *)
(* a spiral, "02-arrays/2.c" turns an array round in place, sub_str of     *)
(* "03-pointers/4.c" looks for a string in another, and "01-bit            *)
(* operations/1.c" and "2.c" print a number bit by bit.  A step is a turn  *)
(* of a loop; what the user enters is the choice of Init.                  *)
(***************************************************************************)
EXTENDS Integers, FiniteSetsExt, SequencesExt, Functions

CONSTANTS MaxSize,     \* bound: size of a matrix, an array or a string
          Symbols,     \* elements of arrays and characters of strings
          Width        \* bits of an int

ConstantsOK == MaxSize \in Nat \ {0} /\ Symbols \subseteq Nat /\ Width \in Nat \ {0, 1}

Words    == UNION {[1 .. n -> Symbols] : n \in 1 .. MaxSize}
NULL     == 0
Unknown  == -1
NotYet   == 0
Abs(n)   == IF n < 0 THEN -n ELSE n

VARIABLES
  exercise,  \* the program; never changes
  entered,   \* what the user has entered
  counters,  \* the local variables of its loop
  result     \* what it will print
exerciseVars == <<exercise, entered, counters, result>>

Spiral(n)    == /\ entered = n
                /\ counters = [at |-> "top", top |-> 0, right |-> n - 1, bottom |-> n - 1, left |-> 0, val |-> 0]
                /\ result = [c \in (0 .. n - 1) \X (0 .. n - 1) |-> NotYet]
Turned(arr)  == entered = arr /\ counters = [i |-> 0] /\ result = arr
Search(s, t) == entered = [str |-> s, substr |-> t] /\ counters = [i |-> 0, j |-> 0] /\ result = Unknown
Bits(n)      == entered = n /\ counters = [len |-> Width, bit_sum |-> 0] /\ result = <<>>

Init ==
  \/ exercise = "spiral" /\ \E n \in 1 .. MaxSize : Spiral(n)
  \/ exercise = "turn" /\ \E arr \in Words : Turned(arr)
  \/ exercise = "search" /\ \E s, t \in Words : Search(s, t)
  \/ exercise = "bits" /\ \E n \in -(2 ^ (Width - 1)) .. 2 ^ (Width - 1) - 1 : n # 0 /\ Bits(n)
-------------------------------------------------------------------------------
(***************************************************************************)
(* 02-arrays/4.c.  Each of the four inner loops goes along one side of     *)
(* what is left of the matrix, and then that border moves inwards.         *)
(***************************************************************************)
Up(from, to)   == [k \in 1 .. to - from + 1 |-> from + k - 1]
Down(from, to) == Reverse(Up(to, from))

Side(r) ==
  CASE r.at = "top"    -> [k \in DOMAIN Up(r.left, r.right) |-> <<r.top, Up(r.left, r.right)[k]>>]
    [] r.at = "right"  -> [k \in DOMAIN Up(r.top, r.bottom) |-> <<Up(r.top, r.bottom)[k], r.right>>]
    [] r.at = "bottom" -> [k \in DOMAIN Down(r.right, r.left) |-> <<r.bottom, Down(r.right, r.left)[k]>>]
    [] r.at = "left"   -> [k \in DOMAIN Down(r.bottom, r.top) |-> <<Down(r.bottom, r.top)[k], r.left>>]

Inwards(r) ==
  CASE r.at = "top"    -> [r EXCEPT !.at = "right", !.top = @ + 1]
    [] r.at = "right"  -> [r EXCEPT !.at = "bottom", !.right = @ - 1]
    [] r.at = "bottom" -> [r EXCEPT !.at = "left", !.bottom = @ - 1]
    [] r.at = "left"   -> [r EXCEPT !.at = "top", !.left = @ + 1]

\* The outer loop looks at val only before the top side.
FillSide ==
  LET side == Side(counters)
      Latest(c) == Max({k \in DOMAIN side : side[k] = c})
  IN  /\ exercise = "spiral"
      /\ counters.at = "top" => counters.val < entered * entered
      /\ result' = [c \in DOMAIN result |-> IF c \in Range(side) THEN counters.val + Latest(c) ELSE result[c]]
      /\ counters' = [Inwards(counters) EXCEPT !.val = @ + Len(side)]
-------------------------------------------------------------------------------
SwapAll ==    \* mutant: the loop goes to the end of the array, and turns it back
  LET i == counters.i + 1
      N == Len(entered)
  IN  /\ exercise = "turn" /\ counters.i < N
      /\ result' = [result EXCEPT ![i] = result[N + 1 - i], ![N + 1 - i] = result[i]]
      /\ counters' = [i |-> i]

\* 02-arrays/2.c: the i-th element and the i-th from the end change places.
Swap ==
  LET i == counters.i + 1
      N == Len(entered)
  IN  /\ exercise = "turn" /\ counters.i < N \div 2
      /\ result' = [result EXCEPT ![i] = result[N + 1 - i], ![N + 1 - i] = result[i]]
      /\ counters' = [i |-> i]

\* sub_str: a turn of the inner loop, or what follows it.
sub_str ==
  LET str    == entered.str
      substr == entered.substr
      i      == counters.i
      j      == counters.j
  IN  /\ exercise = "search" /\ result = Unknown
      /\ \/ /\ i > Len(str) - Len(substr)
            /\ result' = NULL /\ UNCHANGED counters
         \/ /\ i <= Len(str) - Len(substr) /\ j = Len(substr)
            /\ result' = i + 1 /\ UNCHANGED counters
         \/ /\ i <= Len(str) - Len(substr) /\ j < Len(substr)
            /\ counters' = IF str[i + j + 1] = substr[j + 1] THEN [i |-> i, j |-> j + 1]
                                                            ELSE [i |-> i + 1, j |-> 0]
            /\ UNCHANGED result

\* The bits from the highest on; of a positive number without the zeros at the head.
PrintBit ==
  LET bit == (entered \div 2 ^ (counters.len - 1)) % 2
      sum == counters.bit_sum + bit
  IN  /\ exercise = "bits" /\ counters.len > 0
      /\ counters' = [len |-> counters.len - 1, bit_sum |-> sum]
      /\ result' = IF sum # 0 \/ entered < 0 THEN Append(result, bit) ELSE result

Next == (FillSide \/ Swap \/ sub_str \/ PrintBit) /\ UNCHANGED <<exercise, entered>>

Fairness == WF_exerciseVars(Next)
FairSpec == Init /\ [][Next]_exerciseVars /\ Fairness
-------------------------------------------------------------------------------
\* The type invariant; the borders of what is left of the matrix do not pass each
\* other by more than one.
TypeOK ==
  /\ exercise = "spiral" =>
       /\ counters.val \in 0 .. entered * entered
       /\ {counters.top, counters.left} \subseteq 0 .. entered
       /\ counters.top <= counters.bottom + 2 /\ counters.left <= counters.right + 2
  /\ exercise = "turn" => result \in Words
  /\ exercise = "search" => result \in -1 .. MaxSize /\ counters.i + counters.j <= Len(entered.str)
  /\ exercise = "bits" => counters.len + Len(result) <= Width /\ counters.bit_sum <= Width

\* The numbers stand along a spiral: each is in one cell, next to the one before it,
\* and no number is further out than a smaller one (02-arrays/4.c 15-39).
SpiralRight ==
  LET Filled  == {c \in DOMAIN result : result[c] # NotYet}
      Ring(c) == Min({c[1], c[2], entered - 1 - c[1], entered - 1 - c[2]})
      Next2(c, d) == Abs(c[1] - d[1]) + Abs(c[2] - d[2]) = 1
  IN  /\ {result[c] : c \in Filled} = 1 .. counters.val /\ Cardinality(Filled) = counters.val
      /\ \A c, d \in Filled : /\ result[d] = result[c] + 1 => Next2(c, d)
                              /\ result[c] < result[d] => Ring(c) <= Ring(d)

\* What the other exercises print is right at every turn of their loops: the array
\* is turned round from its ends on (02-arrays/2.c 20-24), the first place of the
\* string is found, if there is one (03-pointers/4.c 10-23), and the bits printed
\* are those of the number in two's complement (01-bit operations/1.c 17-24, 2.c
\* 15-18).
Exact ==
  /\ exercise = "spiral" => SpiralRight
  /\ exercise = "turn" =>
       result = [k \in DOMAIN entered |-> LET from == Len(entered) + 1 - k
                                          IN  IF Min({k, from}) <= counters.i THEN entered[from] ELSE entered[k]]
  /\ exercise = "search" /\ result # Unknown =>
       LET Places == {i \in 1 .. Len(entered.str) :
                        \E n \in i - 1 .. Len(entered.str) : SubSeq(entered.str, i, n) = entered.substr}
       IN  result = IF Places = {} THEN NULL ELSE Min(Places)
  /\ exercise = "bits" =>
       LET value == FoldLeft(LAMBDA n, bit : 2 * n + bit, 0, result)
       IN  /\ value = (entered % 2 ^ Width) \div 2 ^ counters.len
           /\ entered > 0 /\ result # <<>> => result[1] = 1

\* Every loop ends, that of the spiral with all cells filled.
AllDone ==
  /\ exercise = "spiral" => counters.at = "top" /\ counters.val = entered * entered
  /\ exercise = "search" => result # Unknown
  /\ exercise = "bits" => counters.len = 0
  /\ exercise = "turn" => counters.i = Len(entered) \div 2
LoopsEnd == []<>AllDone
===============================================================================
