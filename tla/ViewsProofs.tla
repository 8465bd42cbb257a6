------------------------------ MODULE ViewsProofs ------------------------------
(***************************************************************************)
(* Proofs about the money of Views, for any finite set of records, any     *)
(* books and any amount owed.  A sum is the number of its rupees, so that  *)
(* what is said of sums follows from facts about finite sets.              *)
(***************************************************************************)
EXTENDS Views, FiniteSetTheorems, TLAPS

-----------------------------------------------------------------------------
(* Sums. *)

\* A rupee of f is one of some x's.
LEMMA RupeeOf ==
  ASSUME NEW R, NEW f \in [R -> Nat], NEW p
  PROVE  p \in Rupees(f) <=> \E x \in R : \E n \in 1 .. f[x] : p = <<x, n>>
BY DEF Rupees

\* A sum over a finite set is a number.
LEMMA SumIsFinite ==
  ASSUME NEW R, IsFiniteSet(R), NEW most \in Nat, NEW f \in [R -> 0 .. most]
  PROVE  IsFiniteSet(Rupees(f)) /\ Total(f) \in Nat
<1>1. IsFiniteSet(R \X (1 .. most))
  <2>1. IsFiniteSet(1 .. most)
    BY FS_Interval
  <2> QED
    BY <2>1, FS_Product
<1>2. Rupees(f) \subseteq R \X (1 .. most)
  BY DEF Rupees
<1> QED
  BY <1>1, <1>2, FS_Subset, FS_CardinalityType DEF Total

\* The size of two sets that share nothing.
LEMMA SizeOfBoth ==
  ASSUME NEW S, NEW T, IsFiniteSet(S), IsFiniteSet(T), S \intersect T = {}
  PROVE  /\ IsFiniteSet(S \union T)
         /\ Cardinality(S \union T) = Cardinality(S) + Cardinality(T)
         /\ Cardinality(S) \in Nat /\ Cardinality(T) \in Nat
BY FS_Union, FS_EmptySet, FS_CardinalityType

-----------------------------------------------------------------------------
(* Part payments. *)

\* What is owed of the records in R, rupee by rupee, and of that what f leaves unpaid.
Whole(R) == R \X (1 .. Amount)
Unpaid(R, f) == {p \in Whole(R) : p[2] > f[p[1]]}

\* What f pays beyond it.
Extra(f) == {p \in Rupees(f) : p[2] > Amount}

\* What is owed is a number.
LEMMA WholeIsOwed ==
  ASSUME NEW R, IsFiniteSet(R), Amount \in Nat
  PROVE  IsFiniteSet(Whole(R)) /\ Cardinality(Whole(R)) = Owed(R)
<1>1. IsFiniteSet(1 .. Amount) /\ Cardinality(1 .. Amount) = Amount
  BY FS_Interval
<1>2. Cardinality(R) \in Nat
  BY FS_CardinalityType
<1>3. IsFiniteSet(R \X (1 .. Amount)) /\ Cardinality(R \X (1 .. Amount)) = Cardinality(R) * Amount
  BY <1>1, FS_Product
<1> QED
  BY <1>2, <1>3 DEF Whole, Owed

\* Rupee n of what is missing is rupee Amount + 1 - n of what is owed.
LEMMA MissingIsUnpaid ==
  ASSUME NEW R, IsFiniteSet(R), Amount \in Nat, NEW f \in [R -> Nat]
  PROVE  Total([x \in R |-> Missing(f[x])]) = Cardinality(Unpaid(R, f))
<1> DEFINE less == [x \in R |-> Missing(f[x])]
           back == [p \in Unpaid(R, f) |-> <<p[1], Amount + 1 - p[2]>>]
<1>1. /\ less \in [R -> Nat]
      /\ \A x \in R : less[x] = IF f[x] < Amount THEN Amount - f[x] ELSE 0
  BY DEF Missing
<1>2. \A p \in Unpaid(R, f) :
        \E x \in R : \E n \in 1 .. Amount : p = <<x, n>> /\ n > f[x]
  BY DEF Unpaid, Whole
<1>3. \A p \in Unpaid(R, f) : back[p] \in Rupees(less)
  <2> TAKE p \in Unpaid(R, f)
  <2>1. PICK x \in R : \E n \in 1 .. Amount : p = <<x, n>> /\ n > f[x]
    BY <1>2
  <2>2. PICK n \in 1 .. Amount : p = <<x, n>> /\ n > f[x]
    BY <2>1
  <2>3. Amount + 1 - n \in 1 .. less[x]
    BY <1>1, <2>2
  <2>4. back[p] = <<x, Amount + 1 - n>>
    BY <2>2
  <2> QED
    BY <1>1, <2>3, <2>4, RupeeOf
<1>4. \A p, q \in Unpaid(R, f) : back[p] = back[q] => p = q
  <2> SUFFICES ASSUME NEW p \in Unpaid(R, f), NEW q \in Unpaid(R, f), back[p] = back[q]
               PROVE  p = q
    OBVIOUS
  <2>1. PICK x \in R : \E n \in 1 .. Amount : p = <<x, n>>
    BY <1>2
  <2>2. PICK n \in 1 .. Amount : p = <<x, n>>
    BY <2>1
  <2>3. PICK y \in R : \E m \in 1 .. Amount : q = <<y, m>>
    BY <1>2
  <2>4. PICK m \in 1 .. Amount : q = <<y, m>>
    BY <2>3
  <2>5. <<x, Amount + 1 - n>> = <<y, Amount + 1 - m>>
    BY <2>2, <2>4
  <2>6. x = y /\ Amount + 1 - n = Amount + 1 - m
    BY <2>5
  <2> QED
    BY <2>2, <2>4, <2>6
<1>5. \A q \in Rupees(less) : \E p \in Unpaid(R, f) : back[p] = q
  <2> TAKE q \in Rupees(less)
  <2>1. PICK x \in R : \E n \in 1 .. less[x] : q = <<x, n>>
    BY <1>1, RupeeOf
  <2>2. PICK n \in 1 .. less[x] : q = <<x, n>>
    BY <2>1
  <2>3. Amount + 1 - n \in 1 .. Amount /\ Amount + 1 - n > f[x]
    BY <1>1, <2>2
  <2>4. <<x, Amount + 1 - n>> \in Unpaid(R, f)
    BY <2>3 DEF Unpaid, Whole
  <2>5. Amount + 1 - (Amount + 1 - n) = n
    OBVIOUS
  <2>6. back[<<x, Amount + 1 - n>>] = q
    BY <2>2, <2>4, <2>5
  <2> QED
    BY <2>4, <2>6
<1>6. back \in [Unpaid(R, f) -> Rupees(less)]
  BY <1>3
<1> HIDE DEF back, less
<1>7. back \in Bijection(Unpaid(R, f), Rupees(less))
  BY <1>4, <1>5, <1>6 DEF Bijection, Injection, Surjection, IsInjective
<1>8. IsFiniteSet(Unpaid(R, f))
  BY WholeIsOwed, FS_Subset DEF Unpaid
<1>9. Cardinality(Rupees(less)) = Cardinality(Unpaid(R, f))
  BY <1>7, <1>8, FS_Bijection DEF ExistsBijection
<1> QED
  BY <1>9 DEF Total, less

\* What some records were credited and what is missing from it make up what they owe
\* exactly when none of them was credited with more.
LEMMA PartsMakeTheWhole ==
  ASSUME NEW R, IsFiniteSet(R), Amount \in Nat, NEW most \in Nat, NEW f \in [R -> 0 .. most]
  PROVE  /\ Total(f) \in Nat /\ Total([x \in R |-> Missing(f[x])]) \in Nat
         /\ Total(f) + Total([x \in R |-> Missing(f[x])]) = Owed(R)
              <=> \A x \in R : f[x] <= Amount
<1>1. f \in [R -> Nat]
  OBVIOUS
<1>2. IsFiniteSet(Rupees(f)) /\ Total(f) \in Nat
  BY SumIsFinite
<1>3. IsFiniteSet(Unpaid(R, f))
  BY WholeIsOwed, FS_Subset DEF Unpaid
<1>4. Total([x \in R |-> Missing(f[x])]) = Cardinality(Unpaid(R, f))
  BY <1>1, MissingIsUnpaid
<1>5. IsFiniteSet(Extra(f))
  BY <1>2, FS_Subset DEF Extra
<1>6. Rupees(f) \union Unpaid(R, f) = Whole(R) \union Extra(f)
  <2>1. ASSUME NEW p \in Rupees(f) PROVE p \in Whole(R) \union Extra(f)
    <3>1. PICK x \in R : \E n \in 1 .. f[x] : p = <<x, n>>
      BY <1>1, RupeeOf
    <3>2. PICK n \in 1 .. f[x] : p = <<x, n>>
      BY <3>1
    <3> QED
      BY <1>1, <3>2 DEF Whole, Extra
  <2>2. ASSUME NEW p \in Whole(R) PROVE p \in Rupees(f) \union Unpaid(R, f)
    <3>1. PICK x \in R : \E n \in 1 .. Amount : p = <<x, n>>
      BY DEF Whole
    <3>2. PICK n \in 1 .. Amount : p = <<x, n>>
      BY <3>1
    <3>3. CASE n <= f[x]
      BY <1>1, <3>2, <3>3, RupeeOf
    <3>4. CASE n > f[x]
      BY <3>2, <3>4 DEF Unpaid
    <3> QED
      BY <1>1, <3>3, <3>4
  <2> QED
    BY <2>1, <2>2 DEF Unpaid, Extra
<1>7. Rupees(f) \intersect Unpaid(R, f) = {}
  <2>1. ASSUME NEW p \in Rupees(f), p \in Unpaid(R, f) PROVE FALSE
    <3>1. PICK x \in R : \E n \in 1 .. f[x] : p = <<x, n>>
      BY <1>1, RupeeOf
    <3>2. PICK n \in 1 .. f[x] : p = <<x, n>>
      BY <3>1
    <3> QED
      BY <1>1, <2>1, <3>2 DEF Unpaid
  <2> QED
    BY <2>1
<1>8. Whole(R) \intersect Extra(f) = {}
  BY DEF Whole, Extra
<1>9. Total(f) + Cardinality(Unpaid(R, f)) = Owed(R) + Cardinality(Extra(f))
  <2>1. Cardinality(Rupees(f) \union Unpaid(R, f)) = Total(f) + Cardinality(Unpaid(R, f))
    BY <1>2, <1>3, <1>7, SizeOfBoth DEF Total
  <2>2. Cardinality(Whole(R) \union Extra(f)) = Owed(R) + Cardinality(Extra(f))
    BY <1>5, <1>8, WholeIsOwed, SizeOfBoth
  <2> QED
    BY <1>6, <2>1, <2>2
<1>10. Extra(f) = {} <=> \A x \in R : f[x] <= Amount
  <2>1. ASSUME NEW x \in R, f[x] > Amount PROVE Extra(f) # {}
    <3>1. f[x] \in 1 .. f[x]
      BY <1>1, <2>1
    <3>2. <<x, f[x]>> \in Rupees(f)
      BY <1>1, <3>1, RupeeOf
    <3> QED
      BY <2>1, <3>2 DEF Extra
  <2>2. ASSUME NEW p \in Extra(f) PROVE \E x \in R : f[x] > Amount
    <3>1. PICK x \in R : \E n \in 1 .. f[x] : p = <<x, n>>
      BY <1>1, RupeeOf DEF Extra
    <3>2. PICK n \in 1 .. f[x] : p = <<x, n>>
      BY <3>1
    <3> QED
      BY <1>1, <2>2, <3>2 DEF Extra
  <2> QED
    BY <1>1, <2>1, <2>2
<1>11. Cardinality(Extra(f)) \in Nat /\ Cardinality(Unpaid(R, f)) \in Nat
       /\ (Cardinality(Extra(f)) = 0 <=> Extra(f) = {})
  BY <1>3, <1>5, FS_CardinalityType, FS_EmptySet
<1>12. Owed(R) \in Nat
  BY WholeIsOwed, FS_CardinalityType
<1> HIDE DEF Owed
<1>13. Total(f) + Cardinality(Unpaid(R, f)) = Owed(R) <=> Cardinality(Extra(f)) = 0
  BY <1>2, <1>9, <1>11, <1>12
<1> QED
  BY <1>2, <1>4, <1>10, <1>11, <1>13

-----------------------------------------------------------------------------
(* The scoreboard. *)

\* What two sets of records owe that share nothing.
LEMMA OwedByBoth ==
  ASSUME NEW S, NEW T, IsFiniteSet(S), IsFiniteSet(T), S \intersect T = {}, Amount \in Nat
  PROVE  /\ IsFiniteSet(S \union T)
         /\ Owed(S \union T) = Owed(S) + Owed(T)
         /\ Owed(S) \in Nat /\ Owed(T) \in Nat /\ Owed(S \union T) \in Nat
<1> DEFINE s == Cardinality(S)
           t == Cardinality(T)
<1>1. /\ IsFiniteSet(S \union T) /\ Cardinality(S \union T) = s + t
      /\ s \in Nat /\ t \in Nat
  BY SizeOfBoth
<1> HIDE DEF s, t
<1>2. Amount * (s + t) = Amount * s + Amount * t
  BY <1>1
<1>3. Amount * s \in Nat /\ Amount * t \in Nat
  BY <1>1
<1> QED
  BY <1>1, <1>2, <1>3 DEF Owed, s, t

\* Each record is in one bucket, and the four owe what all of them owe.
LEMMA Buckets ==
  ASSUME NEW b \in [Records -> Entries]
  PROVE  /\ Owed(Records) = Owed(Recovered(b)) + Owed(Organic(b))
                            + Owed(WrittenOff(b)) + Owed(StillOpen(b))
         /\ Owed(Recovered(b)) \in Nat /\ Owed(Organic(b)) \in Nat
         /\ Owed(WrittenOff(b)) \in Nat /\ Owed(StillOpen(b)) \in Nat
         /\ IsFiniteSet(Recovered(b))
<1> DEFINE A == Recovered(b)
           B == Organic(b)
           C == WrittenOff(b)
           D == StillOpen(b)
<1>1. /\ A \subseteq Records /\ B \subseteq Records /\ C \subseteq Records
      /\ D = Records \ (A \union B \union C)
  BY DEF Recovered, Organic, WrittenOff, StillOpen
<1>2. A \intersect B = {} /\ (A \union B) \intersect C = {}
  BY ViewsAssumption DEF Recovered, Organic, WrittenOff
<1> HIDE DEF A, B, C, D
<1>3. IsFiniteSet(A) /\ IsFiniteSet(B) /\ IsFiniteSet(C) /\ IsFiniteSet(D) /\ Amount \in Nat
  BY <1>1, ViewsAssumption, FS_Subset
<1>4. /\ IsFiniteSet(A \union B) /\ Owed(A \union B) = Owed(A) + Owed(B)
      /\ Owed(A) \in Nat /\ Owed(B) \in Nat
  BY <1>2, <1>3, OwedByBoth
<1>5. /\ IsFiniteSet(A \union B \union C)
      /\ Owed(A \union B \union C) = Owed(A \union B) + Owed(C) /\ Owed(C) \in Nat
  BY <1>2, <1>3, <1>4, OwedByBoth
<1>6. /\ Owed(A \union B \union C \union D) = Owed(A \union B \union C) + Owed(D)
      /\ Owed(D) \in Nat
  BY <1>1, <1>3, <1>5, OwedByBoth
<1>7. A \union B \union C \union D = Records
  BY <1>1
<1> QED
  BY <1>3, <1>4, <1>5, <1>6, <1>7 DEF A, B, C, D

\* The flag of the scoreboard is right for any books, of any number of records.
LEMMA FlagOfTheBooks ==
  ASSUME NEW b \in [Records -> Entries]
  PROVE  Balances(b) <=> \A r \in Records : b[r].state = "RECOVERED" => b[r].got <= Amount
<1> DEFINE f == [r \in Recovered(b) |-> b[r].got]
           short == Total([r \in Recovered(b) |-> Missing(b[r].got)])
<1>1. Amount \in Nat /\ \A r \in Records : b[r].got \in 0 .. 2 * Amount
  BY ViewsAssumption
<1>2. f \in [Recovered(b) -> 0 .. 2 * Amount]
  BY <1>1 DEF Recovered
<1>3. [x \in Recovered(b) |-> Missing(f[x])] = [r \in Recovered(b) |-> Missing(b[r].got)]
  OBVIOUS
<1>4. 2 * Amount \in Nat
  BY <1>1
<1>5. /\ Total(f) \in Nat /\ short \in Nat
      /\ Total(f) + short = Owed(Recovered(b)) <=> \A x \in Recovered(b) : f[x] <= Amount
  <2> HIDE DEF f
  <2> QED
    BY <1>1, <1>2, <1>3, <1>4, Buckets, PartsMakeTheWhole
<1>6. (\A x \in Recovered(b) : f[x] <= Amount)
        <=> \A r \in Records : b[r].state = "RECOVERED" => b[r].got <= Amount
  <2>1. \A r \in Records : b[r].state = "RECOVERED" /\ r \notin Recovered(b) => b[r].got <= Amount
    BY <1>1 DEF Recovered
  <2> QED
    BY <2>1 DEF Recovered
<1>7. Balances(b) <=> Total(f) + Owed(Organic(b)) + (Owed(StillOpen(b)) + short)
                        + Owed(WrittenOff(b)) = Owed(Records)
  BY DEF Balances, Segments, RecoveredMoney, OpenMoney
<1> HIDE DEF f, short
<1>8. Balances(b) <=> Total(f) + short = Owed(Recovered(b))
  BY <1>5, <1>7, Buckets
<1> QED
  BY <1>5, <1>6, <1>8
=============================================================================
