-------------------------------- MODULE Facts --------------------------------
(***************************************************************************)
(* Facts that several proof modules use: rows added to a table and         *)
(* replaced in it, induction stated for sets of numbers and sets of sets   *)
(* instead of predicates, and what the sum of a column does when rows are  *)
(* added, split, grouped or renamed.  Both inductions rest on one fact of  *)
(* the library: the finite subsets of a set are well-founded under strict  *)
(* inclusion.                                                              *)
(***************************************************************************)
EXTENDS Integers, Sequences, FiniteSets, Sums, SequenceTheorems, FiniteSetTheorems,
        WellFoundedInduction, TLAPS

------------------------------------------------------------------------------
(* Rows. *)

\* A row added at the end of a table: it has a new id, the others stay.
LEMMA RowAppended ==
  ASSUME NEW S, NEW rows \in Seq(S), NEW row \in S
  PROVE  /\ Append(rows, row) \in Seq(S)
         /\ DOMAIN Append(rows, row) = DOMAIN rows \cup {Len(rows) + 1}
         /\ \A k \in DOMAIN rows : Append(rows, row)[k] = rows[k]
         /\ Append(rows, row)[Len(rows) + 1] = row
         /\ Len(rows) + 1 \notin DOMAIN rows
<1>1. Len(rows) \in Nat /\ DOMAIN rows = 1..Len(rows)
  BY LenProperties
<1>2. /\ Append(rows, row) \in Seq(S) /\ Len(Append(rows, row)) = Len(rows) + 1
      /\ \A k \in 1..Len(rows) : Append(rows, row)[k] = rows[k]
      /\ Append(rows, row)[Len(rows) + 1] = row
  BY AppendProperties
<1>3. DOMAIN Append(rows, row) = 1..(Len(rows) + 1)
  BY <1>2, LenProperties
<1>. QED  BY <1>1, <1>2, <1>3

\* A row replaced: the others stay.
LEMMA RowReplaced ==
  ASSUME NEW S, NEW rows \in Seq(S), NEW k \in DOMAIN rows, NEW row \in S
  PROVE  /\ [rows EXCEPT ![k] = row] \in Seq(S)
         /\ DOMAIN [rows EXCEPT ![k] = row] = DOMAIN rows
         /\ \A j \in DOMAIN rows : [rows EXCEPT ![k] = row][j] = IF j = k THEN row ELSE rows[j]
<1>1. Len(rows) \in Nat /\ DOMAIN rows = 1..Len(rows)
  BY LenProperties
<1>2. [rows EXCEPT ![k] = row] \in Seq(S) /\ Len([rows EXCEPT ![k] = row]) = Len(rows)
  BY <1>1, ExceptSeq
<1>3. DOMAIN [rows EXCEPT ![k] = row] = 1..Len(rows)
  BY <1>2, LenProperties
<1>. QED  BY <1>1, <1>2, <1>3

\* Every row of a table has the shape of its rows.
LEMMA RowInSet ==
  ASSUME NEW S, NEW rows \in Seq(S), NEW k \in DOMAIN rows
  PROVE  rows[k] \in S
<1>1. Len(rows) \in Nat /\ DOMAIN rows = 1..Len(rows) /\ rows \in [1..Len(rows) -> S]
  BY LenProperties
<1>. QED  BY <1>1

\* Tables with the same ids have the same length.
LEMMA SameLength ==
  ASSUME NEW m \in Nat, NEW n \in Nat, 1..m = 1..n
  PROVE  m = n
<1>1. m > 0 => m \in 1..n
  OBVIOUS
<1>2. n > 0 => n \in 1..m
  OBVIOUS
<1>. QED  BY <1>1, <1>2

------------------------------------------------------------------------------
(* Induction. *)

\* A set of natural numbers that is not empty has a least element.
LEMMA LeastNumber ==
  ASSUME NEW S \in SUBSET Nat, S # {}
  PROVE  \E m \in S : \A k \in S : m <= k
<1>. DEFINE UpTo(n) == {k \in S : k <= n}
            initials == {UpTo(n) : n \in S}
            order == StrictSubsetOrdering(S)
<1>1. \A n \in S : UpTo(n) \in FiniteSubsetsOf(S)
  <2>. SUFFICES ASSUME NEW n \in S
               PROVE  UpTo(n) \in FiniteSubsetsOf(S)
    OBVIOUS
  <2>1. UpTo(n) \in SUBSET Nat /\ \A k \in UpTo(n) : k <= n
    OBVIOUS
  <2>2. IsFiniteSet(UpTo(n))
    BY <2>1, FS_BoundedSetOfNaturals
  <2>. QED  BY <2>2 DEF FiniteSubsetsOf
<1>2. initials \subseteq FiniteSubsetsOf(S) /\ initials # {}
  BY <1>1
<1>3. IsWellFoundedOn(order, FiniteSubsetsOf(S))
  BY FS_StrictSubsetOrderingWellFounded
<1>4. \E x \in initials : \A y \in initials : ~(<<y, x>> \in order)
  <2>. HIDE DEF initials, order
  <2>. QED  BY <1>2, <1>3, WFMin
<1>5. PICK m \in S : \A n \in S : ~(<<UpTo(n), UpTo(m)>> \in order)
  BY <1>4
<1>6. ASSUME NEW n \in S, n < m
      PROVE  <<UpTo(n), UpTo(m)>> \in order
  <2>3. m \in Nat /\ n \in Nat /\ \A k \in S : k \in Nat /\ (k <= n => k <= m)
    BY <1>6
  <2>1. UpTo(n) \subseteq UpTo(m) /\ m \in UpTo(m) /\ m \notin UpTo(n)
    <3>1. \A k \in UpTo(n) : k \in UpTo(m)
      BY <2>3
    <3>2. m \in UpTo(m) /\ m \notin UpTo(n)
      BY <1>6, <2>3
    <3>. QED  BY <3>1, <3>2
  <2>. HIDE DEF UpTo
  <2>2. UpTo(n) \in SUBSET S /\ UpTo(m) \in SUBSET S
    BY DEF UpTo
  <2>. QED  BY <2>1, <2>2 DEF StrictSubsetOrdering
<1>7. \A n \in S : ~(n < m)
  BY <1>5, <1>6
<1>. QED  BY <1>7

\* A set that holds 0, and n + 1 with every n, holds every natural number.
LEMMA NumbersByInduction ==
  ASSUME NEW S, 0 \in S, \A n \in Nat : n \in S => n + 1 \in S
  PROVE  \A n \in Nat : n \in S
<1>. DEFINE missing == Nat \ S
<1>. SUFFICES ASSUME missing # {}
             PROVE  FALSE
  OBVIOUS
<1>1. PICK m \in missing : \A k \in missing : m <= k
  <2>1. missing \in SUBSET Nat
    OBVIOUS
  <2>. HIDE DEF missing
  <2>. QED  BY <2>1, LeastNumber
<1>2. m # 0 /\ m - 1 \in Nat /\ m - 1 \in S
  BY <1>1
<1>. QED  BY <1>1, <1>2

------------------------------------------------------------------------------
(* Sums. *)

\* A set without one of its elements.
LEMMA OneLess ==
  ASSUME NEW S, IsFiniteSet(S), NEW x \in S, NEW n \in Nat, Cardinality(S) = n + 1
  PROVE  Cardinality(S \ {x}) = n
<1>1. Cardinality(S \ {x}) = Cardinality(S) - 1
  BY FS_RemoveElement
<1>. QED  BY <1>1

\* Induction over the subsets of a finite set, for a set of subsets.
LEMMA SubsetsByInduction ==
  ASSUME NEW T, IsFiniteSet(T), NEW C, {} \in C,
         \A S \in SUBSET T : \A x \in T : S \in C /\ x \notin S => S \cup {x} \in C
  PROVE  T \in C
<1>. DEFINE Sizes == {n \in Nat : \A S \in SUBSET T : Cardinality(S) = n => S \in C}
<1>1. \A S \in SUBSET T : IsFiniteSet(S)
  BY FS_Subset
<1>2. 0 \in Sizes
  BY <1>1, FS_EmptySet
<1>3. ASSUME NEW n \in Nat, n \in Sizes  PROVE n + 1 \in Sizes
  <2>. SUFFICES ASSUME NEW S \in SUBSET T, Cardinality(S) = n + 1  PROVE S \in C
    OBVIOUS
  <2>1. PICK x : x \in S
    BY <1>1, FS_EmptySet
  <2>2. Cardinality(S \ {x}) = n
    BY <1>1, <2>1, OneLess
  <2>3. S \ {x} \in C
    BY <1>3, <2>2
  <2>4. (S \ {x}) \cup {x} = S
    BY <2>1
  <2>. QED  BY <2>1, <2>3, <2>4
<1>4. \A n \in Nat : n \in Sizes
  <2>. HIDE DEF Sizes
  <2>. QED  BY <1>2, <1>3, NumbersByInduction
<1>5. Cardinality(T) \in Nat
  BY FS_CardinalityType
<1>. QED  BY <1>4, <1>5

\* The element that the fold takes out of a set, and what the fold then does.
TakenFrom(s) == CHOOSE x \in s : TRUE
SumStep(f, s) == IF s = {} THEN 0 ELSE TakenFrom(s)[2] + f[s \ {TakenFrom(s)}]
IsSumming(f, P) == f = [s \in SUBSET P |-> SumStep(f, s)]
Summing(P) == CHOOSE f : IsSumming(f, P)

\* The fold of the community modules, by its equation.
LEMMA SumOfSumming == \A P : SumOf(P) = Summing(P)[P]
  BY DEF SumOf, MapThenSumSet, MapThenFoldSet, Summing, IsSumming, SumStep, TakenFrom

\* What the fold takes out of a set is in it.
LEMMA TakenIsIn == \A s : s # {} => TakenFrom(s) \in s
  BY DEF TakenFrom

\* The recursion of the fold has a solution for every finite set.
LEMMA SummingExists ==
  ASSUME NEW P, IsFiniteSet(P)
  PROVE  IsSumming(Summing(P), P)
<1>. DEFINE Solved(f, n) == \A s \in SUBSET P : Cardinality(s) <= n => f[s] = SumStep(f, s)
            Sizes == {n \in Nat : \E f : Solved(f, n)}
<1>1. \A s \in SUBSET P : IsFiniteSet(s) /\ Cardinality(s) \in Nat
  BY FS_Subset, FS_CardinalityType
<1>2. \A s \in SUBSET P : s # {} => Cardinality(s \ {TakenFrom(s)}) = Cardinality(s) - 1
  BY <1>1, TakenIsIn, FS_RemoveElement
<1>3. 0 \in Sizes
  <2>1. \A s \in SUBSET P : Cardinality(s) <= 0 => s = {}
    BY <1>1, FS_EmptySet
  <2>2. Solved([s \in SUBSET P |-> 0], 0)
    BY <2>1 DEF SumStep
  <2>. QED  BY <2>2
<1>4. ASSUME NEW n \in Nat, n \in Sizes  PROVE n + 1 \in Sizes
  <2>1. PICK f : Solved(f, n)
    BY <1>4
  <2>. DEFINE g == [s \in SUBSET P |-> IF Cardinality(s) <= n THEN f[s] ELSE SumStep(f, s)]
  <2>2. ASSUME NEW s \in SUBSET P, Cardinality(s) <= n + 1  PROVE g[s] = SumStep(f, s)
    BY <2>1, <2>2
  <2>3. ASSUME NEW s \in SUBSET P, Cardinality(s) <= n + 1  PROVE SumStep(g, s) = SumStep(f, s)
    <3>1. CASE s = {}
      BY <3>1 DEF SumStep
    <3>2. CASE s # {}
      <4>1. Cardinality(s \ {TakenFrom(s)}) <= n
        BY <1>1, <1>2, <2>3, <3>2
      <4>2. g[s \ {TakenFrom(s)}] = f[s \ {TakenFrom(s)}]
        BY <4>1
      <4>. QED  BY <3>2, <4>2 DEF SumStep
    <3>. QED  BY <3>1, <3>2
  <2>4. Solved(g, n + 1)
    <3>. HIDE DEF g
    <3>. QED  BY <2>2, <2>3
  <2>5. \E h : Solved(h, n + 1)
    <3>. HIDE DEF g, Solved
    <3>. QED  BY <2>4
  <2>. QED  BY <2>5
<1>5. \A n \in Nat : n \in Sizes
  <2>. HIDE DEF Sizes
  <2>. QED  BY <1>3, <1>4, NumbersByInduction
<1>6. PICK f : Solved(f, Cardinality(P))
  BY <1>1, <1>5
<1>7. \A s \in SUBSET P : f[s] = SumStep(f, s)
  <2>1. \A s \in SUBSET P : Cardinality(s) <= Cardinality(P)
    BY FS_Subset
  <2>. QED  BY <1>6, <2>1
<1>. DEFINE g == [s \in SUBSET P |-> f[s]]
<1>8. \A s \in SUBSET P : SumStep(g, s) = SumStep(f, s)
  BY DEF SumStep
<1>9. g = [s \in SUBSET P |-> SumStep(g, s)]
  BY <1>7, <1>8
<1>10. \E h : IsSumming(h, P)
  <2>. HIDE DEF g
  <2>. QED  BY <1>9 DEF IsSumming
<1>. QED  BY <1>10 DEF Summing

\* Two solutions agree on what both are defined for.
LEMMA SummingUnique ==
  ASSUME NEW P, NEW Q, NEW f, NEW g, IsSumming(f, P), IsSumming(g, Q),
         NEW T \in SUBSET (P \cap Q), IsFiniteSet(T)
  PROVE  f[T] = g[T]
<1>. DEFINE Sizes == {n \in Nat : \A S \in SUBSET T : Cardinality(S) = n => f[S] = g[S]}
<1>1. \A S \in SUBSET T : /\ IsFiniteSet(S) /\ Cardinality(S) \in Nat
                          /\ f[S] = SumStep(f, S) /\ g[S] = SumStep(g, S)
  BY FS_Subset, FS_CardinalityType DEF IsSumming
<1>2. 0 \in Sizes
  BY <1>1, FS_EmptySet DEF SumStep
<1>3. ASSUME NEW n \in Nat, n \in Sizes  PROVE n + 1 \in Sizes
  <2>. SUFFICES ASSUME NEW S \in SUBSET T, Cardinality(S) = n + 1  PROVE f[S] = g[S]
    OBVIOUS
  <2>1. S # {} /\ TakenFrom(S) \in S
    BY <1>1, FS_EmptySet, TakenIsIn
  <2>2. Cardinality(S \ {TakenFrom(S)}) = n
    BY <1>1, <2>1, OneLess
  <2>3. f[S \ {TakenFrom(S)}] = g[S \ {TakenFrom(S)}]
    BY <1>3, <2>2
  <2>. QED  BY <1>1, <2>3 DEF SumStep
<1>4. \A n \in Nat : n \in Sizes
  <2>. HIDE DEF Sizes
  <2>. QED  BY <1>2, <1>3, NumbersByInduction
<1>. QED  BY <1>1, <1>4

\* The sum of no rows.
LEMMA SumOfNothing == SumOf({}) = 0
<1>1. IsSumming(Summing({}), {})
  BY FS_EmptySet, SummingExists
<1>. QED  BY <1>1, SumOfSumming DEF IsSumming, SumStep

\* One step of the fold.
LEMMA SumUnfolds ==
  ASSUME NEW P, IsFiniteSet(P), P # {}
  PROVE  SumOf(P) = TakenFrom(P)[2] + SumOf(P \ {TakenFrom(P)})
<1>. DEFINE rest == P \ {TakenFrom(P)}
<1>1. IsFiniteSet(rest) /\ rest \in SUBSET P
  BY FS_Subset
<1>2. IsSumming(Summing(P), P) /\ IsSumming(Summing(rest), rest)
  BY <1>1, SummingExists
<1>3. Summing(P)[rest] = Summing(rest)[rest]
  <2>. HIDE DEF rest
  <2>. QED  BY <1>1, <1>2, SummingUnique
<1>4. Summing(P)[P] = SumStep(Summing(P), P)
  BY <1>2 DEF IsSumming
<1>. QED  BY <1>3, <1>4, SumOfSumming DEF SumStep

\* Pairs of a key and a whole number, finitely many.
IsTally(P) == IsFiniteSet(P) /\ \A x \in P : x[2] \in Int

\* A part of a column is a column.
LEMMA PartOfTally == ASSUME NEW P, IsTally(P), NEW Q \in SUBSET P  PROVE IsTally(Q)
  BY FS_Subset DEF IsTally

\* Its sum is a whole number.
LEMMA SumIsNumber ==
  ASSUME NEW P, IsTally(P)
  PROVE  SumOf(P) \in Int
<1>. DEFINE Sizes == {n \in Nat : \A S \in SUBSET P : Cardinality(S) = n => SumOf(S) \in Int}
<1>1. \A S \in SUBSET P : IsFiniteSet(S) /\ Cardinality(S) \in Nat
  BY FS_Subset, FS_CardinalityType DEF IsTally
<1>2. 0 \in Sizes
  BY <1>1, FS_EmptySet, SumOfNothing
<1>3. ASSUME NEW n \in Nat, n \in Sizes  PROVE n + 1 \in Sizes
  <2>. SUFFICES ASSUME NEW S \in SUBSET P, Cardinality(S) = n + 1  PROVE SumOf(S) \in Int
    OBVIOUS
  <2>1. S # {} /\ TakenFrom(S) \in S
    BY <1>1, FS_EmptySet, TakenIsIn
  <2>2. Cardinality(S \ {TakenFrom(S)}) = n
    BY <1>1, <2>1, OneLess
  <2>3. SumOf(S \ {TakenFrom(S)}) \in Int /\ TakenFrom(S)[2] \in Int
    BY <1>3, <2>1, <2>2 DEF IsTally
  <2>. QED  BY <1>1, <2>1, <2>3, SumUnfolds
<1>4. \A n \in Nat : n \in Sizes
  <2>. HIDE DEF Sizes
  <2>. QED  BY <1>2, <1>3, NumbersByInduction
<1>. QED  BY <1>1, <1>4

\* Any element may be taken out first.
LEMMA SumWithout ==
  ASSUME NEW P, IsTally(P), NEW x \in P
  PROVE  SumOf(P) = x[2] + SumOf(P \ {x})
<1>. DEFINE Sizes == {n \in Nat : \A S \in SUBSET P : \A y \in S :
                        Cardinality(S) = n => SumOf(S) = y[2] + SumOf(S \ {y})}
<1>1. \A S \in SUBSET P : IsTally(S) /\ IsFiniteSet(S) /\ Cardinality(S) \in Nat /\ SumOf(S) \in Int
  BY PartOfTally, SumIsNumber, FS_CardinalityType DEF IsTally
<1>2. 0 \in Sizes
  BY <1>1, FS_EmptySet
<1>3. ASSUME NEW n \in Nat, n \in Sizes  PROVE n + 1 \in Sizes
  <2>. SUFFICES ASSUME NEW S \in SUBSET P, NEW y \in S, Cardinality(S) = n + 1
               PROVE  SumOf(S) = y[2] + SumOf(S \ {y})
    OBVIOUS
  <2>. DEFINE t == TakenFrom(S)
  <2>1. S # {} /\ t \in S /\ SumOf(S) = t[2] + SumOf(S \ {t})
    BY <1>1, TakenIsIn, SumUnfolds
  <2>2. CASE y = t
    BY <2>1, <2>2
  <2>3. CASE y # t
    <3>. HIDE DEF t
    <3>1. Cardinality(S \ {t}) = n /\ Cardinality(S \ {y}) = n
      BY <1>1, <2>1, OneLess
    <3>2. y \in S \ {t} /\ t \in S \ {y} /\ S \ {t} \in SUBSET P /\ S \ {y} \in SUBSET P
      BY <2>1, <2>3
    <3>3. SumOf(S \ {t}) = y[2] + SumOf((S \ {t}) \ {y})
      BY <1>3, <3>1, <3>2
    <3>4. SumOf(S \ {y}) = t[2] + SumOf((S \ {y}) \ {t})
      BY <1>3, <3>1, <3>2
    <3>5. (S \ {t}) \ {y} = (S \ {y}) \ {t}
      OBVIOUS
    <3>6. t[2] \in Int /\ y[2] \in Int /\ SumOf((S \ {y}) \ {t}) \in Int
      <4>1. (S \ {y}) \ {t} \in SUBSET P
        OBVIOUS
      <4>. QED  BY <1>1, <2>1, <4>1 DEF IsTally
    <3>7. SumOf(S) = t[2] + (y[2] + SumOf((S \ {y}) \ {t}))
      BY <2>1, <3>3, <3>5
    <3>. QED  BY <3>4, <3>6, <3>7
  <2>. QED  BY <2>2, <2>3
<1>4. \A n \in Nat : n \in Sizes
  <2>. HIDE DEF Sizes
  <2>. QED  BY <1>2, <1>3, NumbersByInduction
<1>. QED  BY <1>1, <1>4

\* The pairs of a set of keys with the numbers that f gives them.
Tally(f, K) == {<<k, f[k]>> : k \in K}

\* A finite set of keys has finitely many values.
LEMMA ImageIsFinite ==
  ASSUME NEW K, IsFiniteSet(K), NEW f
  PROVE  IsFiniteSet({f[k] : k \in K})
<1>. DEFINE g == [k \in K |-> f[k]]
<1>1. g \in Surjection(K, {f[k] : k \in K})
  BY DEF Surjection
<1>. QED  BY <1>1, FS_Surjection

\* A finite column of whole numbers has a whole sum.
LEMMA TallyIsTally ==
  ASSUME NEW K, IsFiniteSet(K), NEW f, \A k \in K : f[k] \in Int
  PROVE  IsTally(Tally(f, K)) /\ SumOf(Tally(f, K)) \in Int
<1>. DEFINE pair == [k \in K |-> <<k, f[k]>>]
<1>1. IsFiniteSet(Tally(f, K))
  <2>1. Tally(f, K) = {pair[k] : k \in K}
    BY DEF Tally
  <2>. HIDE DEF pair
  <2>. QED  BY <2>1, ImageIsFinite
<1>2. \A x \in Tally(f, K) : x[2] \in Int
  BY DEF Tally
<1>. QED  BY <1>1, <1>2, SumIsNumber DEF IsTally

\* A column without rows.
LEMMA SumOfNoKeys == \A f : SumOf(Tally(f, {})) = 0
  BY SumOfNothing DEF Tally

\* A key is added.
LEMMA SumAdds ==
  ASSUME NEW K, IsFiniteSet(K), NEW f, NEW j, j \notin K, \A k \in K \cup {j} : f[k] \in Int
  PROVE  SumOf(Tally(f, K \cup {j})) = SumOf(Tally(f, K)) + f[j]
<1>1. IsTally(Tally(f, K \cup {j})) /\ SumOf(Tally(f, K)) \in Int
  <2>1. IsFiniteSet(K \cup {j})
    BY FS_AddElement
  <2>. QED  BY <2>1, TallyIsTally
<1>2. <<j, f[j]>> \in Tally(f, K \cup {j})
  BY DEF Tally
<1>3. Tally(f, K \cup {j}) \ {<<j, f[j]>>} = Tally(f, K)
  BY DEF Tally
<1>4. SumOf(Tally(f, K \cup {j})) = <<j, f[j]>>[2] + SumOf(Tally(f, K))
  BY <1>1, <1>2, <1>3, SumWithout
<1>. QED  BY <1>1, <1>4

\* One key more, over the subsets of K.
LEMMA SumGrows ==
  ASSUME NEW K, IsFiniteSet(K), NEW f, \A k \in K : f[k] \in Int
  PROVE  \A S \in SUBSET K : \A j \in K \ S :
           SumOf(Tally(f, S \cup {j})) = SumOf(Tally(f, S)) + f[j]
<1>. TAKE S \in SUBSET K
<1>. TAKE j \in K \ S
<1>1. IsFiniteSet(S) /\ j \notin S /\ \A i \in S \cup {j} : f[i] \in Int
  BY FS_Subset
<1>. QED  BY <1>1, SumAdds

\* A column with one row.
LEMMA SumOfOne ==
  ASSUME NEW j, NEW f, f[j] \in Int
  PROVE  SumOf(Tally(f, {j})) = f[j]
<1>1. SumOf(Tally(f, {} \cup {j})) = SumOf(Tally(f, {})) + f[j]
  BY FS_EmptySet, SumAdds
<1>. QED  BY <1>1, SumOfNoKeys

\* Two columns with the same numbers are one.
LEMMA SumOfSame ==
  ASSUME NEW K, NEW f, NEW g, \A k \in K : f[k] = g[k]
  PROVE  Tally(f, K) = Tally(g, K)
  BY DEF Tally

\* Two sets of keys that have none in common.
LEMMA SumOfUnion ==
  ASSUME NEW K, IsFiniteSet(K), NEW M, IsFiniteSet(M), K \cap M = {}, NEW f,
         \A k \in K \cup M : f[k] \in Int
  PROVE  SumOf(Tally(f, K \cup M)) = SumOf(Tally(f, K)) + SumOf(Tally(f, M))
<1>. DEFINE C == {N \in SUBSET M :
                    SumOf(Tally(f, K \cup N)) = SumOf(Tally(f, K)) + SumOf(Tally(f, N))}
<1>1. \A N \in SUBSET M : IsFiniteSet(N) /\ IsFiniteSet(K \cup N)
                            /\ SumOf(Tally(f, N)) \in Int /\ SumOf(Tally(f, K)) \in Int
  BY FS_Subset, FS_Union, TallyIsTally
<1>2. {} \in C
  <2>1. K \cup {} = K /\ {} \in SUBSET M
    OBVIOUS
  <2>2. SumOf(Tally(f, K)) \in Int /\ SumOf(Tally(f, {})) = 0
    BY <1>1, <2>1, SumOfNoKeys
  <2>. QED  BY <2>1, <2>2
<1>3. ASSUME NEW N \in SUBSET M, NEW j \in M, N \in C, j \notin N  PROVE N \cup {j} \in C
  <2>0. \A i \in (K \cup N) \cup {j} : f[i] \in Int
    OBVIOUS
  <2>. j \notin K \cup N
    BY <1>3
  <2>1. SumOf(Tally(f, (K \cup N) \cup {j})) = SumOf(Tally(f, K \cup N)) + f[j]
    BY <1>1, <1>3, <2>0, SumAdds
  <2>2. SumOf(Tally(f, N \cup {j})) = SumOf(Tally(f, N)) + f[j]
    BY <1>1, <1>3, <2>0, SumAdds
  <2>3. K \cup (N \cup {j}) = (K \cup N) \cup {j}
    OBVIOUS
  <2>4. f[j] \in Int
    OBVIOUS
  <2>5. SumOf(Tally(f, K \cup N)) = SumOf(Tally(f, K)) + SumOf(Tally(f, N))
    BY <1>3
  <2>. QED  BY <1>1, <2>1, <2>2, <2>3, <2>4, <2>5
<1>4. M \in C
  <2>. HIDE DEF C
  <2>. QED  BY <1>2, <1>3, SubsetsByInduction
<1>. QED  BY <1>4

\* Keys gathered in groups: the sum of the sums of the groups.
LEMMA SumOfGroups ==
  ASSUME NEW K, IsFiniteSet(K), NEW G, IsFiniteSet(G), NEW f, \A k \in K : f[k] \in Int,
         NEW group, \A k \in K : group[k] \in G,
         NEW total, \A g \in G : total[g] = SumOf(Tally(f, {k \in K : group[k] = g}))
  PROVE  SumOf(Tally(f, K)) = SumOf(Tally(total, G))
<1>. DEFINE Of(H) == {k \in K : group[k] \in H}
            Group(g) == {k \in K : group[k] = g}
            C == {H \in SUBSET G : SumOf(Tally(f, Of(H))) = SumOf(Tally(total, H))}
<1>1. \A H \in SUBSET G : IsFiniteSet(H) /\ IsFiniteSet(Of(H))
  BY FS_Subset
<1>2. \A g \in G : IsFiniteSet(Group(g)) /\ total[g] = SumOf(Tally(f, Group(g))) /\ total[g] \in Int
  <2>1. \A g \in G : IsFiniteSet(Group(g))
    BY FS_Subset
  <2>2. \A g \in G : \A k \in Group(g) : f[k] \in Int
    OBVIOUS
  <2>3. \A g \in G : total[g] = SumOf(Tally(f, Group(g)))
    OBVIOUS
  <2>. HIDE DEF Group
  <2>. QED  BY <2>1, <2>2, <2>3, TallyIsTally
<1>6. \A S \in SUBSET G : \A j \in G \ S :
        SumOf(Tally(total, S \cup {j})) = SumOf(Tally(total, S)) + total[j]
  <2>1. IsFiniteSet(G) /\ \A g \in G : total[g] \in Int
    BY <1>2
  <2>. QED  BY ONLY <2>1, SumGrows
<1>3. {} \in C
  <2>1. Of({}) = {}
    OBVIOUS
  <2>. QED  BY <2>1, SumOfNoKeys
<1>4. ASSUME NEW H \in SUBSET G, NEW g \in G, H \in C, g \notin H  PROVE H \cup {g} \in C
  <2>1. Of(H \cup {g}) = Of(H) \cup Group(g) /\ Of(H) \cap Group(g) = {}
    BY <1>4
  <2>2. \A k \in Of(H) \cup Group(g) : f[k] \in Int
    OBVIOUS
  <2>3. SumOf(Tally(f, Of(H))) = SumOf(Tally(total, H))
    BY <1>4
  <2>. HIDE DEF Of, Group
  <2>4. SumOf(Tally(f, Of(H) \cup Group(g))) = SumOf(Tally(f, Of(H))) + SumOf(Tally(f, Group(g)))
    BY <1>1, <1>2, <2>1, <2>2, SumOfUnion
  <2>5. SumOf(Tally(total, H \cup {g})) = SumOf(Tally(total, H)) + total[g]
    <3>1. g \in G \ H
      BY <1>4
    <3>. QED  BY <1>6, <3>1
  <2>. QED  BY <1>2, <2>1, <2>3, <2>4, <2>5
<1>5. G \in C
  <2>. HIDE DEF C
  <2>. QED  BY <1>3, <1>4, SubsetsByInduction
<1>7. Of(G) = K
  OBVIOUS
<1>. QED  BY <1>5, <1>7

\* Keys renamed one to one.
LEMMA SumOfRenamed ==
  ASSUME NEW K, IsFiniteSet(K), NEW name,
         \A j, k \in K : name[j] = name[k] => j = k,
         NEW f, NEW g, \A k \in K : f[k] = g[name[k]] /\ f[k] \in Int
  PROVE  SumOf(Tally(f, K)) = SumOf(Tally(g, {name[k] : k \in K}))
<1>. DEFINE Names(S) == {name[k] : k \in S}
            C == {S \in SUBSET K : SumOf(Tally(f, S)) = SumOf(Tally(g, Names(S)))}
<1>1. \A S \in SUBSET K : IsFiniteSet(S) /\ IsFiniteSet(Names(S))
  BY FS_Subset, ImageIsFinite
<1>2. {} \in C
  <2>1. Names({}) = {}
    OBVIOUS
  <2>. QED  BY <2>1, SumOfNoKeys
<1>3. ASSUME NEW S \in SUBSET K, NEW k \in K, S \in C, k \notin S  PROVE S \cup {k} \in C
  <2>0. \A i \in S \cup {k} : f[i] \in Int
    OBVIOUS
  <2>1. Names(S \cup {k}) = Names(S) \cup {name[k]} /\ name[k] \notin Names(S)
    BY <1>3
  <2>2. \A n \in Names(S) \cup {name[k]} : g[n] \in Int
    OBVIOUS
  <2>3. SumOf(Tally(f, S)) = SumOf(Tally(g, Names(S)))
    BY <1>3
  <2>6. IsFiniteSet(S) /\ IsFiniteSet(Names(S)) /\ k \notin S
    BY <1>1, <1>3
  <2>. HIDE DEF Names, C
  <2>4. SumOf(Tally(f, S \cup {k})) = SumOf(Tally(f, S)) + f[k]
    BY <2>0, <2>6, SumAdds
  <2>5. SumOf(Tally(g, Names(S) \cup {name[k]})) = SumOf(Tally(g, Names(S))) + g[name[k]]
    BY <2>1, <2>2, <2>6, SumAdds
  <2>. QED  BY <2>1, <2>3, <2>4, <2>5 DEF C
<1>4. K \in C
  <2>. HIDE DEF C
  <2>. QED  BY <1>2, <1>3, SubsetsByInduction
<1>. QED  BY <1>4

\* Two numbers for each key: the sum of their sum or of their difference.
LEMMA SumOfSums ==
  ASSUME NEW K, IsFiniteSet(K), NEW f, NEW g, NEW h,
         \A k \in K : f[k] \in Int /\ g[k] \in Int /\ h[k] = f[k] + g[k]
  PROVE  SumOf(Tally(h, K)) = SumOf(Tally(f, K)) + SumOf(Tally(g, K))
<1>. DEFINE C == {S \in SUBSET K :
                    SumOf(Tally(h, S)) = SumOf(Tally(f, S)) + SumOf(Tally(g, S))}
<1>1. \A S \in SUBSET K : SumOf(Tally(f, S)) \in Int /\ SumOf(Tally(g, S)) \in Int
  BY FS_Subset, TallyIsTally
<1>2. {} \in C
  BY SumOfNoKeys
<1>3. ASSUME NEW S \in SUBSET K, NEW k \in K, S \in C, k \notin S  PROVE S \cup {k} \in C
  <2>1. \A i \in K : f[i] \in Int
    OBVIOUS
  <2>2. \A i \in K : g[i] \in Int
    OBVIOUS
  <2>3. \A i \in K : h[i] \in Int
    OBVIOUS
  <2>4. SumOf(Tally(h, S)) = SumOf(Tally(f, S)) + SumOf(Tally(g, S)) /\ k \in K \ S
    BY <1>3
  <2>. HIDE DEF C
  <2>5. SumOf(Tally(f, S \cup {k})) = SumOf(Tally(f, S)) + f[k]
    BY <2>1, <2>4, SumGrows
  <2>6. SumOf(Tally(g, S \cup {k})) = SumOf(Tally(g, S)) + g[k]
    BY <2>2, <2>4, SumGrows
  <2>7. SumOf(Tally(h, S \cup {k})) = SumOf(Tally(h, S)) + h[k]
    BY <2>3, <2>4, SumGrows
  <2>8. f[k] \in Int /\ g[k] \in Int /\ h[k] = f[k] + g[k]
    OBVIOUS
  <2>. QED  BY <1>1, <2>4, <2>5, <2>6, <2>7, <2>8 DEF C
<1>4. K \in C
  <2>. HIDE DEF C
  <2>. QED  BY <1>2, <1>3, SubsetsByInduction
<1>. QED  BY <1>4

\* Every number negated.
LEMMA SumNegated ==
  ASSUME NEW K, IsFiniteSet(K), NEW f, NEW g, \A k \in K : f[k] \in Int /\ g[k] = -f[k]
  PROVE  SumOf(Tally(g, K)) = -SumOf(Tally(f, K))
<1>. DEFINE C == {S \in SUBSET K : SumOf(Tally(g, S)) = -SumOf(Tally(f, S))}
<1>1. \A S \in SUBSET K : IsFiniteSet(S) /\ SumOf(Tally(f, S)) \in Int
  BY FS_Subset, TallyIsTally
<1>2. {} \in C
  BY SumOfNoKeys
<1>3. ASSUME NEW S \in SUBSET K, NEW k \in K, S \in C, k \notin S  PROVE S \cup {k} \in C
  <2>0. \A i \in S \cup {k} : f[i] \in Int /\ g[i] \in Int
    OBVIOUS
  <2>1. /\ SumOf(Tally(f, S \cup {k})) = SumOf(Tally(f, S)) + f[k]
        /\ SumOf(Tally(g, S \cup {k})) = SumOf(Tally(g, S)) + g[k]
    <3>1. IsFiniteSet(S) /\ k \notin S
      BY <1>1, <1>3
    <3>. HIDE DEF C
    <3>2. SumOf(Tally(f, S \cup {k})) = SumOf(Tally(f, S)) + f[k]
      BY <2>0, <3>1, SumAdds
    <3>3. SumOf(Tally(g, S \cup {k})) = SumOf(Tally(g, S)) + g[k]
      BY <2>0, <3>1, SumAdds
    <3>. QED  BY <3>2, <3>3
  <2>2. SumOf(Tally(g, S)) = -SumOf(Tally(f, S)) /\ f[k] \in Int /\ g[k] = -f[k]
    BY <1>3
  <2>. QED  BY <1>1, <2>1, <2>2
<1>4. K \in C
  <2>. HIDE DEF C
  <2>. QED  BY <1>2, <1>3, SubsetsByInduction
<1>. QED  BY <1>4

\* A column of naturals.
LEMMA SumOfNaturals ==
  ASSUME NEW K, IsFiniteSet(K), NEW f, \A k \in K : f[k] \in Nat
  PROVE  SumOf(Tally(f, K)) \in Nat
<1>. DEFINE C == {S \in SUBSET K : SumOf(Tally(f, S)) \in Nat}
<1>1. \A S \in SUBSET K : IsFiniteSet(S)
  BY FS_Subset
<1>2. {} \in C
  BY SumOfNoKeys
<1>3. ASSUME NEW S \in SUBSET K, NEW k \in K, S \in C, k \notin S  PROVE S \cup {k} \in C
  <2>0. \A i \in S \cup {k} : f[i] \in Nat /\ f[i] \in Int
    OBVIOUS
  <2>1. SumOf(Tally(f, S \cup {k})) = SumOf(Tally(f, S)) + f[k]
    BY <1>1, <1>3, <2>0, SumAdds
  <2>. QED  BY <1>3, <2>1
<1>4. K \in C
  <2>. HIDE DEF C
  <2>. QED  BY <1>2, <1>3, SubsetsByInduction
<1>. QED  BY <1>4

\* A column of zeros.
LEMMA SumOfZeros ==
  ASSUME NEW K, IsFiniteSet(K), NEW f, \A k \in K : f[k] = 0
  PROVE  SumOf(Tally(f, K)) = 0
<1>1. SumOf(Tally(f, K)) = -SumOf(Tally(f, K)) /\ SumOf(Tally(f, K)) \in Int
  BY SumNegated, TallyIsTally
<1>. QED  BY <1>1

\* A part of a sum of naturals is at most the whole.
LEMMA SumOfPart ==
  ASSUME NEW K, IsFiniteSet(K), NEW f, \A k \in K : f[k] \in Nat, NEW S \in SUBSET K
  PROVE  SumOf(Tally(f, S)) <= SumOf(Tally(f, K))
<1>1. IsFiniteSet(S) /\ IsFiniteSet(K \ S) /\ S \cap (K \ S) = {} /\ S \cup (K \ S) = K
  BY FS_Subset
<1>2. SumOf(Tally(f, S)) \in Nat /\ SumOf(Tally(f, K \ S)) \in Nat
  BY <1>1, SumOfNaturals
<1>3. SumOf(Tally(f, S \cup (K \ S))) = SumOf(Tally(f, S)) + SumOf(Tally(f, K \ S))
  BY <1>1, SumOfUnion
<1>4. SumOf(Tally(f, K)) = SumOf(Tally(f, S)) + SumOf(Tally(f, K \ S))
  BY <1>1, <1>3
<1>. QED  BY <1>2, <1>4
=============================================================================
