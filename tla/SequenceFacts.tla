----------------------------- MODULE SequenceFacts -----------------------------
(***************************************************************************)
(* Facts about sequences that the proofs of several modules use: removing  *)
(* an element, a sequence without repetitions as a queue, and how many     *)
(* elements of a kind a sequence has.                                      *)
(***************************************************************************)
EXTENDS Integers, SequencesExt, SequenceTheorems, FunctionTheorems, FiniteSetTheorems, TLAPS

\* A nonempty bounded set of numbers has a least element.
LEMMA LeastNat ==
  ASSUME NEW n \in Nat, NEW T \in SUBSET (0 .. n), T # {}
  PROVE  \E x \in T : \A y \in T : x <= y
<1> DEFINE S == 0 .. n
           down == {0 .. x : x \in T}
<1>1. IsWellFoundedOn(StrictSubsetOrdering(S), FiniteSubsetsOf(S))
  BY FS_StrictSubsetOrderingWellFounded
<1>2. ASSUME NEW x \in T
      PROVE  0 .. x \subseteq S /\ IsFiniteSet(0 .. x)
  BY FS_Interval
<1>3. down \subseteq FiniteSubsetsOf(S)
  BY <1>2 DEF FiniteSubsetsOf
<1>4. down # {}
  OBVIOUS
<1>5. PICK d \in down : \A e \in down : ~ (<<e, d>> \in StrictSubsetOrdering(S))
  BY <1>1, <1>3, <1>4, WFMin
<1>6. PICK x \in T : d = 0 .. x
  OBVIOUS
<1>7. ASSUME NEW y \in T, y < x
      PROVE  FALSE
  <2>1. 0 .. y \in down /\ 0 .. y \subseteq d /\ x \in d /\ x \notin 0 .. y
    BY <1>6, <1>7
  <2>2. <<0 .. y, d>> \in StrictSubsetOrdering(S)
    BY <2>1, <1>2, <1>6 DEF StrictSubsetOrdering
  <2> QED
    BY <2>1, <2>2, <1>5
<1> QED
  BY <1>7

\* Removing an element of a sequence leaves the others, in their order.
LEMMA RemoveAtProperties ==
  ASSUME NEW M, NEW q \in Seq(M), NEW k \in 1 .. Len(q)
  PROVE  /\ RemoveAt(q, k) \in Seq(M)
         /\ Len(RemoveAt(q, k)) = Len(q) - 1
         /\ \A i \in 1 .. Len(q) - 1 :
              RemoveAt(q, k)[i] = IF i < k THEN q[i] ELSE q[i + 1]
<1> DEFINE l == SubSeq(q, 1, k - 1)
           r == SubSeq(q, k + 1, Len(q))
<1>1. Len(q) \in Nat /\ \A i \in 1 .. Len(q) : q[i] \in M
  BY LenProperties, ElementOfSeq
<1>2. /\ l \in Seq(M) /\ Len(l) = k - 1
      /\ \A i \in 1 .. k - 1 : l[i] = q[i]
  BY <1>1, SubSeqProperties
<1>3. /\ r \in Seq(M) /\ Len(r) = Len(q) - k
      /\ \A i \in 1 .. Len(q) - k : r[i] = q[k + i]
  <2>1. \A i \in k + 1 .. Len(q) : q[i] \in M
    BY <1>1
  <2>2. /\ r \in Seq(M) /\ Len(r) = IF k + 1 <= Len(q) THEN Len(q) - (k + 1) + 1 ELSE 0
        /\ \A i \in 1 .. Len(q) - (k + 1) + 1 : r[i] = q[k + 1 + i - 1]
    BY <1>1, <2>1, SubSeqProperties
  <2> QED
    BY <1>1, <2>2
<1>4. RemoveAt(q, k) = l \o r
  BY DEF RemoveAt
<1> HIDE DEF l, r
<1>5. /\ l \o r \in Seq(M) /\ Len(l \o r) = Len(l) + Len(r)
      /\ \A i \in 1 .. Len(l) + Len(r) : (l \o r)[i] = IF i <= Len(l) THEN l[i] ELSE r[i - Len(l)]
  BY <1>2, <1>3, ConcatProperties
<1> QED
  BY <1>1, <1>2, <1>3, <1>4, <1>5

\* Different elements of what is left are different elements of the sequence.
LEMMA RemovedFrom ==
  ASSUME NEW M, NEW q \in Seq(M), NEW k \in DOMAIN q
  PROVE  /\ RemoveAt(q, k) \in Seq(M)
         /\ \A i \in DOMAIN RemoveAt(q, k) : \E a \in DOMAIN q \ {k} : RemoveAt(q, k)[i] = q[a]
         /\ \A i, j \in DOMAIN RemoveAt(q, k) : i # j =>
              \E a, b \in DOMAIN q \ {k} :
                a # b /\ RemoveAt(q, k)[i] = q[a] /\ RemoveAt(q, k)[j] = q[b]
<1> DEFINE r == RemoveAt(q, k)
           From(i) == IF i < k THEN i ELSE i + 1
<1>1. Len(q) \in Nat /\ DOMAIN q = 1 .. Len(q)
  BY LenProperties
<1>2. /\ r \in Seq(M) /\ DOMAIN r = 1 .. Len(q) - 1
      /\ \A i \in 1 .. Len(q) - 1 : r[i] = IF i < k THEN q[i] ELSE q[i + 1]
  BY <1>1, RemoveAtProperties, LenProperties
<1> HIDE DEF r
<1>3. \A i \in DOMAIN r : From(i) \in DOMAIN q \ {k} /\ r[i] = q[From(i)]
  BY <1>1, <1>2
<1>4. \A i, j \in DOMAIN r : i # j => From(i) # From(j)
  BY <1>1, <1>2
<1> HIDE DEF From
<1>5. \A i, j \in DOMAIN r : i # j =>
        \E a, b \in DOMAIN q \ {k} : a # b /\ r[i] = q[a] /\ r[j] = q[b]
  BY <1>3, <1>4
<1> QED
  BY <1>2, <1>3, <1>5 DEF r

(***************************************************************************)
(* A sequence as a queue: elements join at the end and leave at the head.  *)
(***************************************************************************)
\* What a sequence holds after an element has joined.
LEMMA JoinedTo ==
  ASSUME NEW M, NEW q \in Seq(M), NEW e \in M
  PROVE  /\ Append(q, e) \in Seq(M)
         /\ DOMAIN Append(q, e) = DOMAIN q \cup {Len(q) + 1} /\ Len(q) + 1 \notin DOMAIN q
         /\ \A i \in DOMAIN q : Append(q, e)[i] = q[i]
         /\ Append(q, e)[Len(q) + 1] = e
<1>1. /\ Append(q, e) \in Seq(M) /\ Len(Append(q, e)) = Len(q) + 1 /\ Len(q) \in Nat
      /\ \A i \in 1 .. Len(q) : Append(q, e)[i] = q[i]
      /\ Append(q, e)[Len(q) + 1] = e
      /\ DOMAIN q = 1 .. Len(q) /\ DOMAIN Append(q, e) = 1 .. Len(q) + 1
  BY AppendProperties, LenProperties
<1>2. 1 .. Len(q) + 1 = (1 .. Len(q)) \cup {Len(q) + 1} /\ Len(q) + 1 \notin 1 .. Len(q)
  BY <1>1
<1> QED
  BY <1>1, <1>2

\* An element joins; the sequence stays distinct if it is new.
LEMMA JoinProperties ==
  ASSUME NEW M, NEW q \in Seq(M), NEW e \in M
  PROVE  /\ Append(q, e) \in Seq(M)
         /\ \A d : Contains(Append(q, e), d) <=> Contains(q, d) \/ d = e
         /\ IsInjective(q) /\ ~Contains(q, e) => IsInjective(Append(q, e))
<1>1. DOMAIN q = 1 .. Len(q) /\ DOMAIN Append(q, e) = 1 .. Len(Append(q, e))
  BY JoinedTo, LenProperties
<1>2. \A d : Contains(Append(q, e), d) <=> Contains(q, d) \/ d = e
  BY <1>1, JoinedTo DEF Contains
<1>3. ASSUME IsInjective(q), ~Contains(q, e)
      PROVE  IsInjective(Append(q, e))
  <2>1. \A i \in DOMAIN q : q[i] # e
    BY <1>1, <1>3 DEF Contains
  <2> QED
    BY <1>3, <2>1, JoinedTo DEF IsInjective
<1> QED
  BY <1>2, <1>3, JoinedTo

\* The head of a distinct sequence leaves it for good.
LEMMA LeaveProperties ==
  ASSUME NEW M, NEW q \in Seq(M), q # <<>>
  PROVE  /\ Head(q) \in M /\ Contains(q, Head(q)) /\ Tail(q) \in Seq(M)
         /\ IsInjective(q) => /\ \A d : Contains(Tail(q), d) <=> Contains(q, d) /\ d # Head(q)
                           /\ IsInjective(Tail(q))
<1> DEFINE c == Head(q)
           rest == Tail(q)
<1>1. /\ Len(q) \in Nat \ {0} /\ c = q[1] /\ c \in M
      /\ rest \in Seq(M) /\ Len(rest) = Len(q) - 1
      /\ \A i \in 1 .. Len(rest) : rest[i] = q[i + 1]
      /\ DOMAIN q = 1 .. Len(q) /\ DOMAIN rest = 1 .. Len(rest)
  BY EmptySeq, HeadTailProperties, LenProperties
<1> HIDE DEF c, rest
<1>2. Contains(q, c)
  BY <1>1 DEF Contains
<1>3. ASSUME NEW d, IsInjective(q)
      PROVE  Contains(rest, d) <=> Contains(q, d) /\ d # c
  <2>1. ASSUME Contains(rest, d)
        PROVE  Contains(q, d) /\ d # c
    <3>1. PICK i \in 1 .. Len(rest) : rest[i] = d
      BY <1>1, <2>1 DEF Contains
    <3>2. i + 1 \in 1 .. Len(q) /\ q[i + 1] = d /\ i + 1 # 1 /\ 1 \in 1 .. Len(q)
      BY <1>1, <3>1
    <3> QED
      BY <1>1, <1>3, <3>2 DEF Contains, IsInjective
  <2>2. ASSUME Contains(q, d), d # c
        PROVE  Contains(rest, d)
    <3>1. PICK i \in 1 .. Len(q) : q[i] = d
      BY <1>1, <2>2 DEF Contains
    <3>2. i - 1 \in 1 .. Len(rest) /\ rest[i - 1] = d
      BY <1>1, <2>2, <3>1
    <3> QED
      BY <1>1, <3>2 DEF Contains
  <2> QED
    BY <2>1, <2>2
<1>4. ASSUME IsInjective(q)
      PROVE  IsInjective(rest)
  <2> SUFFICES ASSUME NEW i \in 1 .. Len(rest), NEW j \in 1 .. Len(rest), rest[i] = rest[j]
               PROVE  i = j
    BY <1>1 DEF IsInjective
  <2>1. i + 1 \in 1 .. Len(q) /\ j + 1 \in 1 .. Len(q) /\ q[i + 1] = q[j + 1]
    BY <1>1
  <2>2. i + 1 = j + 1 /\ i \in Int /\ j \in Int
    BY <1>1, <1>4, <2>1 DEF IsInjective
  <2> QED
    BY <2>2
<1> QED
  BY <1>1, <1>2, <1>3, <1>4 DEF c, rest

(***************************************************************************)
(* Where a sequence has elements of a set, and how many.                   *)
(***************************************************************************)
Places(q, T) == {k \in DOMAIN q : q[k] \in T}

LEMMA PlacesFinite ==
  ASSUME NEW M, NEW q \in Seq(M), NEW T
  PROVE  IsFiniteSet(Places(q, T)) /\ Cardinality(Places(q, T)) \in Nat
<1>1. DOMAIN q = 1 .. Len(q) /\ Len(q) \in Nat
  BY LenProperties
<1>2. IsFiniteSet(1 .. Len(q))
  BY <1>1, FS_Interval
<1> QED
  BY <1>1, <1>2, FS_Subset, FS_CardinalityType DEF Places

\* There is a first place, if there is one.
LEMMA FirstPlace ==
  ASSUME NEW M, NEW q \in Seq(M), NEW P \in SUBSET DOMAIN q, P # {}
  PROVE  \E k \in P : \A j \in P : k <= j
<1>1. DOMAIN q = 1 .. Len(q) /\ Len(q) \in Nat
  BY LenProperties
<1>2. P \in SUBSET (0 .. Len(q))
  BY <1>1
<1> QED
  BY <1>1, <1>2, LeastNat

\* An element at the end counts if it is in T.
LEMMA PlacesAfterAppend ==
  ASSUME NEW M, NEW q \in Seq(M), NEW T, NEW e \in M
  PROVE  Cardinality(Places(Append(q, e), T)) =
           Cardinality(Places(q, T)) + (IF e \in T THEN 1 ELSE 0)
<1>3. /\ Places(Append(q, e), T) = Places(q, T) \cup (IF e \in T THEN {Len(q) + 1} ELSE {})
      /\ Len(q) + 1 \notin Places(q, T)
  BY JoinedTo DEF Places
<1>4. IsFiniteSet(Places(q, T)) /\ Cardinality(Places(q, T)) \in Nat
  BY PlacesFinite
<1>5. CASE e \in T
  BY <1>3, <1>4, <1>5, FS_AddElement
<1>6. CASE e \notin T
  <2>1. Places(Append(q, e), T) = Places(q, T)
    BY <1>3, <1>6
  <2> QED
    BY <1>4, <1>6, <2>1
<1> QED
  BY <1>5, <1>6

\* An element that is removed counts no more.
LEMMA PlacesAfterRemove ==
  ASSUME NEW M, NEW q \in Seq(M), NEW T, NEW k \in DOMAIN q
  PROVE  Cardinality(Places(RemoveAt(q, k), T)) =
           Cardinality(Places(q, T)) - (IF q[k] \in T THEN 1 ELSE 0)
<1>1. Len(q) \in Nat /\ DOMAIN q = 1 .. Len(q)
  BY LenProperties
<1> DEFINE r == RemoveAt(q, k)
           F == [i \in Places(r, T) |-> IF i < k THEN i ELSE i + 1]
<1>2. /\ r \in Seq(M) /\ DOMAIN r = 1 .. Len(q) - 1
      /\ \A i \in 1 .. Len(q) - 1 : r[i] = IF i < k THEN q[i] ELSE q[i + 1]
  BY <1>1, RemoveAtProperties, LenProperties
<1> HIDE DEF r
<1>3. F \in Bijection(Places(r, T), Places(q, T) \ {k})
  <2>1. ASSUME NEW i \in Places(r, T)
        PROVE  F[i] \in Places(q, T) \ {k}
    BY <1>1, <1>2 DEF Places
  <2>2. ASSUME NEW i \in Places(r, T), NEW j \in Places(r, T), F[i] = F[j]
        PROVE  i = j
    BY <1>1, <1>2, <2>2 DEF Places
  <2>3. ASSUME NEW j \in Places(q, T) \ {k}
        PROVE  \E i \in Places(r, T) : F[i] = j
    <3>1. CASE j < k
      <4>1. j \in Places(r, T)
        BY <1>1, <1>2, <3>1 DEF Places
      <4> QED
        BY <3>1, <4>1
    <3>2. CASE ~(j < k)
      <4>1. j - 1 \in Places(r, T) /\ ~(j - 1 < k) /\ j - 1 + 1 = j
        BY <1>1, <1>2, <3>2 DEF Places
      <4> QED
        BY <4>1
    <3> QED
      BY <3>1, <3>2
  <2>4. F \in [Places(r, T) -> Places(q, T) \ {k}]
    BY <2>1
  <2> HIDE DEF F
  <2> QED
    BY <2>2, <2>3, <2>4, Fun_IsBij
<1>4. IsFiniteSet(Places(q, T)) /\ Cardinality(Places(q, T)) \in Nat
  BY PlacesFinite
<1>5. IsFiniteSet(Places(q, T) \ {k})
  BY <1>4, FS_RemoveElement
<1>6. Cardinality(Places(r, T)) = Cardinality(Places(q, T) \ {k})
  <2>1. ExistsBijection(Places(r, T), Places(q, T) \ {k})
    BY <1>3, Fun_ExistsBij
  <2>2. IsFiniteSet(Places(r, T))
    BY <1>2, PlacesFinite
  <2> QED
    BY <2>1, <2>2, FS_Bijection
<1>7. Cardinality(Places(q, T) \ {k}) = Cardinality(Places(q, T)) - (IF q[k] \in T THEN 1 ELSE 0)
  <2>1. CASE k \in Places(q, T)
    BY <1>4, <2>1, FS_RemoveElement DEF Places
  <2>2. CASE k \notin Places(q, T)
    <3>1. Places(q, T) \ {k} = Places(q, T)
      BY <2>2
    <3>2. q[k] \notin T
      BY <2>2 DEF Places
    <3>3. Cardinality(Places(q, T) \ {k}) = Cardinality(Places(q, T))
      BY <3>1, Zenon
    <3> QED
      BY <1>4, <3>2, <3>3
  <2> QED
    BY <2>1, <2>2
<1> QED
  BY <1>6, <1>7 DEF r
===============================================================================
