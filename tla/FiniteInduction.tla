-------------------------- MODULE FiniteInduction --------------------------
(***************************************************************************)
(* What the proofs of this project need to know of finite sets and natural *)
(* numbers beyond the library: a least element, and induction stated for a *)
(* set of sets or of numbers, where the library's rules take a predicate.  *)
(***************************************************************************)
EXTENDS Integers, Functions, FiniteSetTheorems, WellFoundedInduction, TLAPS

(* Every set of natural numbers that is not empty has a least element.     *)
LEMMA LeastNatural ==
  ASSUME NEW S \in SUBSET Nat, S # {}
  PROVE  \E n \in S : \A m \in S : n <= m
<1>1. PICK n \in S : \A m \in S : ~(<<m, n>> \in OpToRel(<, Nat))
  BY NatLessThanWellFounded, WFMin
<1>2. \A m \in S : ~(m < n)
  BY <1>1 DEF OpToRel
<1>3. n \in Nat /\ \A m \in S : m \in Nat
  OBVIOUS
<1> QED BY <1>2, <1>3

(* A set that holds zero and the successor of each of its members is Nat.  *)
LEMMA NaturalInduction ==
  ASSUME NEW U \in SUBSET Nat, 0 \in U, \A n \in U : n + 1 \in U
  PROVE  U = Nat
<1>1. SUFFICES ASSUME Nat \ U # {} PROVE FALSE
  OBVIOUS
<1>2. PICK n \in Nat \ U : \A m \in Nat \ U : n <= m
  BY <1>1, LeastNatural
<1>3. n - 1 \in U
  BY <1>2
<1> QED BY <1>2, <1>3

(* A set of subsets of a finite set that holds the empty set, and with     *)
(* each member every one that has one element more, holds the whole set.   *)
LEMMA SetInduction ==
  ASSUME NEW S, IsFiniteSet(S), NEW U, {} \in U,
         \A T \in SUBSET S : \A x \in S \ T : T \in U => T \cup {x} \in U
  PROVE  S \in U
<1> DEFINE Sizes == {n \in Nat : \A T \in SUBSET S : Cardinality(T) = n => T \in U}
<1>1. 0 \in Sizes
  BY FS_EmptySet, FS_Subset
<1>2. ASSUME NEW n \in Sizes PROVE n + 1 \in Sizes
  <2>1. ASSUME NEW T \in SUBSET S, Cardinality(T) = n + 1 PROVE T \in U
    <3>1. IsFiniteSet(T) /\ T # {}
      BY <2>1, FS_Subset, FS_EmptySet
    <3>2. PICK x \in T : TRUE
      BY <3>1
    <3>3. Cardinality(T \ {x}) = n
      <4>1. n \in Nat
        OBVIOUS
      <4>2. Cardinality(T \ {x}) = Cardinality(T) - 1
        BY <3>1, FS_RemoveElement
      <4> HIDE DEF Sizes
      <4> QED BY <2>1, <4>1, <4>2
    <3>4. T \ {x} \in SUBSET S /\ x \in S \ (T \ {x})
      OBVIOUS
    <3>5. T \ {x} \in U
      BY <1>2, <3>3, <3>4
    <3>6. (T \ {x}) \cup {x} = T
      OBVIOUS
    <3> HIDE DEF Sizes
    <3> QED BY <3>4, <3>5, <3>6
  <2> QED BY <2>1
<1>3. Sizes = Nat
  <2> HIDE DEF Sizes
  <2> QED BY <1>1, <1>2, NaturalInduction DEF Sizes
<1> QED BY <1>3, FS_CardinalityType

-----------------------------------------------------------------------------
(* Sums.  SumFunctionOnSet adds by a recursive function, which is a CHOOSE *)
(* to a prover: that the recursion defines something, and that the element *)
(* taken first does not matter, has to be shown.                           *)
Chosen(S) == CHOOSE x \in S : TRUE

(* A table of the sums of f over the sets of C.                            *)
Added(f, C, table) ==
  table = [T \in C |-> IF T = {} THEN 0 ELSE f[Chosen(T)] + table[T \ {Chosen(T)}]]

(* A sum is read from some such table.                                     *)
LEMMA SumIsTabled ==
  ASSUME NEW f, NEW S
  PROVE  SumFunctionOnSet(f, S) = (CHOOSE table : Added(f, SUBSET S, table))[S]
BY Zenon DEF SumFunctionOnSet, FoldFunctionOnSet, MapThenFoldSet, Chosen, Added

(* What is left of a set without the element chosen first.                 *)
LEMMA ChosenRemoved ==
  ASSUME NEW S, IsFiniteSet(S), S # {}
  PROVE  /\ Chosen(S) \in S /\ IsFiniteSet(S \ {Chosen(S)})
         /\ Cardinality(S) \in Nat /\ Cardinality(S \ {Chosen(S)}) = Cardinality(S) - 1
<1>1. Chosen(S) \in S
  BY DEF Chosen
<1> QED BY <1>1, FS_RemoveElement, FS_CardinalityType

(* There is a table for the subsets of a finite set.                       *)
LEMMA TableExists ==
  ASSUME NEW f, NEW S, IsFiniteSet(S)
  PROVE  \E table : Added(f, SUBSET S, table)
<1> DEFINE Small(n) == {T \in SUBSET S : Cardinality(T) <= n}
           U == {n \in Nat : \E table : Added(f, Small(n), table)}
<1>1. \A T \in SUBSET S : IsFiniteSet(T) /\ Cardinality(T) \in Nat /\ Cardinality(T) <= Cardinality(S)
  BY FS_Subset, FS_CardinalityType
<1>2. 0 \in U
  <2>1. \A T \in Small(0) : T = {}
    BY <1>1, FS_EmptySet
  <2>2. Added(f, Small(0), [T \in Small(0) |-> 0])
    BY <2>1 DEF Added
  <2> QED BY <2>2
<1>3. ASSUME NEW n \in U PROVE n + 1 \in U
  <2>1. PICK g : Added(f, Small(n), g)
    OBVIOUS
  <2> DEFINE Sum(T) == IF T = {} THEN 0 ELSE f[Chosen(T)] + g[T \ {Chosen(T)}]
             h == [T \in Small(n + 1) |-> Sum(T)]
  <2>2. ASSUME NEW T \in Small(n + 1), T # {}
        PROVE  h[T \ {Chosen(T)}] = g[T \ {Chosen(T)}]
    <3>1. T \ {Chosen(T)} \in Small(n) /\ T \ {Chosen(T)} \in Small(n + 1)
      BY <1>1, <2>2, ChosenRemoved
    <3> QED BY <2>1, <3>1 DEF Added
  <2>3. h = [T \in Small(n + 1) |-> IF T = {} THEN 0 ELSE f[Chosen(T)] + h[T \ {Chosen(T)}]]
    BY <2>2
  <2>4. Added(f, Small(n + 1), h)
    <3> HIDE DEF h, Small
    <3> QED BY <2>3 DEF Added
  <2>5. n + 1 \in Nat
    OBVIOUS
  <2> HIDE DEF h, Small
  <2> QED BY <2>4, <2>5
<1>4. U = Nat
  <2> HIDE DEF U
  <2> QED BY <1>2, <1>3, NaturalInduction DEF U
<1>5. Cardinality(S) \in U /\ Small(Cardinality(S)) = SUBSET S
  BY <1>1, <1>4
<1> QED BY <1>5

(* Two tables agree where both are defined.                                *)
LEMMA TablesAgree ==
  ASSUME NEW f, NEW S, IsFiniteSet(S), NEW T \in SUBSET S, NEW g, NEW h,
         Added(f, SUBSET S, g), Added(f, SUBSET T, h)
  PROVE  g[T] = h[T]
<1> DEFINE U == {n \in Nat : \A R \in SUBSET T : Cardinality(R) = n => g[R] = h[R]}
<1>1. \A R \in SUBSET T : IsFiniteSet(R) /\ Cardinality(R) \in Nat
  BY FS_Subset, FS_CardinalityType
<1>2. 0 \in U
  BY <1>1, FS_EmptySet DEF Added
<1>3. ASSUME NEW n \in U PROVE n + 1 \in U
  <2>1. ASSUME NEW R \in SUBSET T, Cardinality(R) = n + 1 PROVE g[R] = h[R]
    <3>1. R # {} /\ n \in Nat
      <4>1. n \in Nat /\ Cardinality({}) = 0
        BY FS_EmptySet
      <4> HIDE DEF U
      <4> QED BY <2>1, <4>1
    <3>2. Cardinality(R \ {Chosen(R)}) = n /\ R \ {Chosen(R)} \in SUBSET T
      BY <1>1, <2>1, <3>1, ChosenRemoved
    <3>3. g[R \ {Chosen(R)}] = h[R \ {Chosen(R)}]
      BY <1>3, <3>2
    <3> QED BY <3>1, <3>3, ZenonT(30) DEF Added
  <2> QED BY <2>1
<1>4. U = Nat
  <2> HIDE DEF U
  <2> QED BY <1>2, <1>3, NaturalInduction DEF U
<1> QED BY <1>1, <1>4

(* The sum over no element, and over some, by the element chosen first.    *)
LEMMA SumUnfolded ==
  ASSUME NEW f, NEW S, IsFiniteSet(S)
  PROVE  SumFunctionOnSet(f, S) =
           IF S = {} THEN 0 ELSE f[Chosen(S)] + SumFunctionOnSet(f, S \ {Chosen(S)})
<1> DEFINE Table(T) == CHOOSE table : Added(f, SUBSET T, table)
<1>1. \A T \in SUBSET S : Added(f, SUBSET T, Table(T)) /\ SumFunctionOnSet(f, T) = Table(T)[T]
  <2> TAKE T \in SUBSET S
  <2>1. Added(f, SUBSET T, Table(T))
    BY TableExists, FS_Subset
  <2> QED BY <2>1, SumIsTabled
<1>2. \A T \in SUBSET S : Table(S)[T] = SumFunctionOnSet(f, T)
  <2> TAKE T \in SUBSET S
  <2>1. Added(f, SUBSET S, Table(S)) /\ Added(f, SUBSET T, Table(T))
    BY <1>1
  <2> HIDE DEF Table
  <2>2. Table(S)[T] = Table(T)[T]
    BY <2>1, TablesAgree
  <2> QED BY <1>1, <2>2
<1>3. Table(S)[S] = IF S = {} THEN 0 ELSE f[Chosen(S)] + Table(S)[S \ {Chosen(S)}]
  <2> HIDE DEF Table
  <2>1. Added(f, SUBSET S, Table(S))
    BY <1>1
  <2> QED BY <2>1 DEF Added
<1> HIDE DEF Table
<1> QED BY <1>2, <1>3

(* The sum of integers is one, whichever element is taken first.           *)
LEMMA SumRemoved ==
  ASSUME NEW f, NEW S, IsFiniteSet(S), \A x \in S : f[x] \in Int
  PROVE  /\ SumFunctionOnSet(f, S) \in Int
         /\ \A x \in S : SumFunctionOnSet(f, S) = f[x] + SumFunctionOnSet(f, S \ {x})
<1> DEFINE Sum(T) == SumFunctionOnSet(f, T)
           Fine(T) == /\ Sum(T) \in Int
                      /\ \A x \in T : Sum(T \ {x}) \in Int /\ Sum(T) = f[x] + Sum(T \ {x})
           U == {n \in Nat : \A T \in SUBSET S : Cardinality(T) = n => Fine(T)}
<1>1. \A T \in SUBSET S : IsFiniteSet(T) /\ Cardinality(T) \in Nat
  BY FS_Subset, FS_CardinalityType
<1>2. 0 \in U
  <2>1. \A T \in SUBSET S : Cardinality(T) = 0 => T = {}
    BY <1>1, FS_EmptySet
  <2>2. Sum({}) = 0
    BY SumUnfolded, FS_EmptySet
  <2> HIDE DEF Sum
  <2>3. Fine({})
    BY <2>2
  <2> HIDE DEF Fine
  <2> QED BY <2>1, <2>3
<1>3. ASSUME NEW n \in U PROVE n + 1 \in U
  <2>1. ASSUME NEW T \in SUBSET S, Cardinality(T) = n + 1 PROVE Fine(T)
    <3> DEFINE c == Chosen(T)
    <3>1. T # {} /\ IsFiniteSet(T) /\ n \in Nat
      BY <1>1, <2>1, FS_EmptySet
    <3>2. /\ c \in T /\ f[c] \in Int /\ Sum(T) = f[c] + Sum(T \ {c})
          /\ \A x \in T : T \ {x} \in SUBSET S /\ Cardinality(T \ {x}) = n
      <4>1. c \in T
        BY <3>1, ChosenRemoved
      <4>2. Sum(T) = f[c] + Sum(T \ {c})
        BY <3>1, SumUnfolded
      <4>3. \A x \in T : Cardinality(T \ {x}) = n
        <5> HIDE DEF U
        <5>1. \A x \in T : Cardinality(T \ {x}) = Cardinality(T) - 1
          BY <3>1, FS_RemoveElement
        <5> QED BY <2>1, <3>1, <5>1
      <4> QED BY <4>1, <4>2, <4>3
    <3>3. \A x \in T : Fine(T \ {x})
      BY <1>3, <3>2
    <3> HIDE DEF Sum, c
    <3>4. ASSUME NEW x \in T, x # c PROVE Sum(T) = f[x] + Sum(T \ {x})
      <4>1. Sum(T \ {c}) = f[x] + Sum((T \ {c}) \ {x}) /\ Sum(T \ {x}) = f[c] + Sum((T \ {x}) \ {c})
        BY <3>2, <3>3, <3>4
      <4>2. (T \ {c}) \ {x} = (T \ {x}) \ {c}
        OBVIOUS
      <4>3. f[x] \in Int /\ f[c] \in Int /\ Sum((T \ {x}) \ {c}) \in Int
        BY <3>2, <3>3, <3>4
      <4>4. Sum(T) = f[c] + (f[x] + Sum((T \ {x}) \ {c}))
        BY <3>2, <4>1, <4>2, Zenon
      <4>5. PICK a, b, d : a = f[c] /\ b = f[x] /\ d = Sum((T \ {x}) \ {c})
        OBVIOUS
      <4>6. a + (b + d) = b + (a + d)
        BY <4>3, <4>5
      <4> QED BY <4>1, <4>4, <4>5, <4>6, Zenon
    <3>5. Sum(T) \in Int /\ \A x \in T : Sum(T \ {x}) \in Int
      BY <3>2, <3>3
    <3> QED BY <3>2, <3>4, <3>5
  <2>2. n + 1 \in Nat
    OBVIOUS
  <2> HIDE DEF Fine
  <2> QED BY <2>1, <2>2
<1>4. U = Nat
  <2> HIDE DEF U
  <2> QED BY <1>2, <1>3, NaturalInduction DEF U
<1>5. S \in SUBSET S /\ Cardinality(S) \in U
  BY <1>1, <1>4
<1> HIDE DEF Fine
<1>6. Fine(S)
  BY <1>5
<1> QED BY <1>6 DEF Fine

(* The sum over nothing, and over one element more.                        *)
LEMMA SumOfNone == ASSUME NEW f PROVE SumFunctionOnSet(f, {}) = 0
BY SumUnfolded, FS_EmptySet

(* A sum over one element more has its value more.                         *)
LEMMA SumExtended ==
  ASSUME NEW f, NEW S, IsFiniteSet(S), NEW x, x \notin S, \A y \in S \cup {x} : f[y] \in Int
  PROVE  /\ SumFunctionOnSet(f, S) \in Int
         /\ SumFunctionOnSet(f, S \cup {x}) = SumFunctionOnSet(f, S) + f[x]
<1>1. IsFiniteSet(S \cup {x}) /\ (S \cup {x}) \ {x} = S /\ f[x] \in Int
  BY FS_AddElement
<1>2. SumFunctionOnSet(f, S) \in Int
  BY SumRemoved
<1>3. SumFunctionOnSet(f, S \cup {x}) = f[x] + SumFunctionOnSet(f, (S \cup {x}) \ {x})
  BY <1>1, SumRemoved
<1>4. PICK left : left = SumFunctionOnSet(f, S) /\ SumFunctionOnSet(f, S \cup {x}) = f[x] + left
  BY <1>1, <1>3, Zenon
<1>5. f[x] + left = left + f[x]
  BY <1>1, <1>2, <1>4
<1> QED BY <1>2, <1>4, <1>5, Zenon

(* A sum depends on the values that are added only.                        *)
LEMMA SumAgrees ==
  ASSUME NEW f, NEW g, NEW S, IsFiniteSet(S), \A x \in S : f[x] \in Int /\ g[x] = f[x]
  PROVE  SumFunctionOnSet(g, S) = SumFunctionOnSet(f, S)
<1> DEFINE U == {T \in SUBSET S : SumFunctionOnSet(g, T) = SumFunctionOnSet(f, T)}
<1>1. {} \in U
  BY SumOfNone
<1>2. ASSUME NEW T \in SUBSET S, NEW x \in S \ T, T \in U PROVE T \cup {x} \in U
  <2>1. IsFiniteSet(T) /\ T \cup {x} \in SUBSET S /\ f[x] = g[x]
    BY FS_Subset
  <2>2. SumFunctionOnSet(f, T \cup {x}) = SumFunctionOnSet(f, T) + f[x]
    BY <2>1, SumExtended
  <2>3. SumFunctionOnSet(g, T \cup {x}) = SumFunctionOnSet(g, T) + g[x]
    BY <2>1, SumExtended
  <2> QED BY <1>2, <2>1, <2>2, <2>3
<1>3. S \in U
  <2> HIDE DEF U
  <2> QED BY <1>1, <1>2, SetInduction
<1> QED BY <1>3

(* One value changed changes the sum by as much.                           *)
LEMMA SumChanged ==
  ASSUME NEW f, NEW g, NEW S, IsFiniteSet(S), NEW x \in S,
         \A y \in S : f[y] \in Int, \A y \in S : g[y] \in Int, \A y \in S \ {x} : g[y] = f[y]
  PROVE  SumFunctionOnSet(g, S) = SumFunctionOnSet(f, S) - f[x] + g[x]
<1>1. IsFiniteSet(S \ {x})
  BY FS_Subset
<1>2. SumFunctionOnSet(f, S) = f[x] + SumFunctionOnSet(f, S \ {x})
  BY SumRemoved
<1>3. SumFunctionOnSet(g, S) = g[x] + SumFunctionOnSet(g, S \ {x})
  BY SumRemoved
<1>4. SumFunctionOnSet(g, S \ {x}) = SumFunctionOnSet(f, S \ {x})
  BY <1>1, SumAgrees
<1>5. SumFunctionOnSet(f, S \ {x}) \in Int /\ f[x] \in Int /\ g[x] \in Int
  BY <1>1, SumRemoved
<1> QED BY <1>2, <1>3, <1>4, <1>5

(* A sum of natural numbers is one, and grows with the set.                *)
LEMMA SumOfPart ==
  ASSUME NEW f, NEW S, IsFiniteSet(S), NEW T \in SUBSET S, \A x \in S : f[x] \in Nat
  PROVE  /\ SumFunctionOnSet(f, T) \in Nat /\ SumFunctionOnSet(f, S) \in Nat
         /\ SumFunctionOnSet(f, T) <= SumFunctionOnSet(f, S)
<1> DEFINE Sum(R) == SumFunctionOnSet(f, R)
           U == {R \in SUBSET S : Sum(R) \in Nat}
           V == {R \in SUBSET (S \ T) : Sum(T) <= Sum(T \cup R) /\ Sum(T \cup R) \in Nat}
<1>1. ASSUME NEW R \in SUBSET S, NEW x \in S \ R
      PROVE  Sum(R \cup {x}) = Sum(R) + f[x] /\ f[x] \in Nat /\ Sum(R) \in Int
  <2>1. IsFiniteSet(R) /\ x \notin R /\ f[x] \in Nat /\ \A y \in R \cup {x} : f[y] \in Int
    BY FS_Subset
  <2> QED BY <2>1, SumExtended
<1>2. {} \in U
  BY SumOfNone
<1>3. \A R \in SUBSET S : \A x \in S \ R : R \in U => R \cup {x} \in U
  BY <1>1
<1>4. \A R \in SUBSET S : R \in U
  <2> TAKE R \in SUBSET S
  <2>1. IsFiniteSet(R)
    BY FS_Subset
  <2>2. \A Q \in SUBSET R : \A x \in R \ Q : Q \in U => Q \cup {x} \in U
    BY <1>3
  <2> HIDE DEF U
  <2> QED BY <1>2, <2>1, <2>2, SetInduction
<1>5. IsFiniteSet(S \ T) /\ T \cup (S \ T) = S
  BY FS_Subset
<1>6. {} \in V
  <2>1. Sum(T) \in Nat /\ T \cup {} = T
    BY <1>4
  <2> HIDE DEF Sum
  <2> QED BY <2>1
<1>7. ASSUME NEW R \in SUBSET (S \ T), NEW x \in (S \ T) \ R, R \in V PROVE R \cup {x} \in V
  <2>1. T \cup R \in SUBSET S /\ x \in S \ (T \cup R) /\ T \cup (R \cup {x}) = (T \cup R) \cup {x}
    OBVIOUS
  <2>2. Sum((T \cup R) \cup {x}) = Sum(T \cup R) + f[x] /\ f[x] \in Nat
    BY <1>1, <2>1
  <2>3. Sum(T) \in Nat
    BY <1>4
  <2> HIDE DEF Sum
  <2> QED BY <1>7, <2>1, <2>2, <2>3
<1>8. S \ T \in V
  <2> HIDE DEF V
  <2> QED BY <1>5, <1>6, <1>7, SetInduction
<1>9. S \in U /\ T \in U
  BY <1>4
<1> QED BY <1>5, <1>8, <1>9

(* A sum is at most as many times the largest value as there are elements. *)
LEMMA SumBounded ==
  ASSUME NEW f, NEW S, IsFiniteSet(S), NEW k \in Int, \A x \in S : f[x] \in Int /\ f[x] <= k
  PROVE  SumFunctionOnSet(f, S) \in Int /\ SumFunctionOnSet(f, S) <= k * Cardinality(S)
<1> DEFINE Fits(T) == SumFunctionOnSet(f, T) \in Int /\ SumFunctionOnSet(f, T) <= k * Cardinality(T)
           U == {T \in SUBSET S : Fits(T)}
<1>1. {} \in U
  BY SumOfNone, FS_EmptySet
<1>2. ASSUME NEW T \in SUBSET S, NEW x \in S \ T, T \in U PROVE T \cup {x} \in U
  <2>1. IsFiniteSet(T) /\ x \notin T /\ x \in S /\ \A y \in T \cup {x} : f[y] \in Int
    BY FS_Subset
  <2>2. SumFunctionOnSet(f, T \cup {x}) = SumFunctionOnSet(f, T) + f[x]
    BY <2>1, SumExtended
  <2>3. Cardinality(T \cup {x}) = Cardinality(T) + 1 /\ Cardinality(T) \in Nat
    BY <2>1, FS_AddElement, FS_CardinalityType
  <2>4. PICK a, b, c : a = SumFunctionOnSet(f, T) /\ b = f[x] /\ c = Cardinality(T)
    OBVIOUS
  <2>5. a \in Int /\ b \in Int /\ c \in Nat /\ a <= k * c /\ b <= k
    BY <1>2, <2>1, <2>3, <2>4
  <2>6. a + b \in Int /\ a + b <= k * (c + 1)
    BY <2>5
  <2>7. Fits(T \cup {x})
    BY <2>2, <2>3, <2>4, <2>6, Zenon
  <2> QED BY <2>1, <2>7
<1>3. S \in U
  <2> HIDE DEF U
  <2> QED BY <1>1, <1>2, SetInduction
<1> QED BY <1>3

(* A sum does not grow when no value does.                                 *)
LEMMA SumMonotone ==
  ASSUME NEW f, NEW g, NEW S, IsFiniteSet(S),
         \A x \in S : f[x] \in Int /\ g[x] \in Int /\ g[x] <= f[x]
  PROVE  SumFunctionOnSet(g, S) <= SumFunctionOnSet(f, S)
<1> DEFINE Fits(T) == /\ SumFunctionOnSet(f, T) \in Int /\ SumFunctionOnSet(g, T) \in Int
                      /\ SumFunctionOnSet(g, T) <= SumFunctionOnSet(f, T)
           U == {T \in SUBSET S : Fits(T)}
<1>1. {} \in U
  BY SumOfNone
<1>2. ASSUME NEW T \in SUBSET S, NEW x \in S \ T, T \in U PROVE T \cup {x} \in U
  <2>1. /\ IsFiniteSet(T) /\ T \cup {x} \in SUBSET S /\ x \notin T
        /\ \A y \in T \cup {x} : f[y] \in Int
        /\ \A y \in T \cup {x} : g[y] \in Int
    BY FS_Subset
  <2>2. SumFunctionOnSet(f, T \cup {x}) = SumFunctionOnSet(f, T) + f[x]
    BY <2>1, SumExtended
  <2>3. SumFunctionOnSet(g, T \cup {x}) = SumFunctionOnSet(g, T) + g[x]
    BY <2>1, SumExtended
  <2>4. Fits(T)
    BY <1>2
  <2>5. f[x] \in Int /\ g[x] \in Int /\ g[x] <= f[x]
    OBVIOUS
  <2>6. Fits(T \cup {x})
    BY <2>2, <2>3, <2>4, <2>5
  <2> HIDE DEF Fits
  <2> QED BY <2>1, <2>6
<1> HIDE DEF Fits
<1>3. S \in U
  <2> HIDE DEF U
  <2> QED BY <1>1, <1>2, SetInduction
<1> QED BY <1>3 DEF Fits

(* A sum is that over a part of the set if the rest is nothing.            *)
LEMMA SumOverPart ==
  ASSUME NEW f, NEW S, IsFiniteSet(S), NEW T \in SUBSET S, \A x \in S : f[x] \in Int,
         \A x \in S \ T : f[x] = 0
  PROVE  SumFunctionOnSet(f, T) = SumFunctionOnSet(f, S)
<1> DEFINE V == {R \in SUBSET (S \ T) : SumFunctionOnSet(f, T \cup R) = SumFunctionOnSet(f, T)}
<1>1. IsFiniteSet(T) /\ IsFiniteSet(S \ T)
  BY FS_Subset
<1>2. {} \in V
  <2>1. T \cup {} = T
    OBVIOUS
  <2> QED BY <2>1
<1>3. ASSUME NEW R \in SUBSET (S \ T), NEW x \in (S \ T) \ R, R \in V PROVE R \cup {x} \in V
  <2>1. /\ T \cup R \in SUBSET S /\ x \notin T \cup R /\ T \cup (R \cup {x}) = (T \cup R) \cup {x}
        /\ \A y \in (T \cup R) \cup {x} : f[y] \in Int
    OBVIOUS
  <2>2. IsFiniteSet(T \cup R)
    BY <2>1, FS_Subset
  <2>3. /\ SumFunctionOnSet(f, T \cup R) \in Int
        /\ SumFunctionOnSet(f, (T \cup R) \cup {x}) = SumFunctionOnSet(f, T \cup R) + f[x]
    BY <2>1, <2>2, SumExtended
  <2>4. f[x] = 0
    OBVIOUS
  <2>5. SumFunctionOnSet(f, T \cup (R \cup {x})) = SumFunctionOnSet(f, T \cup R)
    <3>1. PICK a \in Int : a = SumFunctionOnSet(f, T \cup R)
      BY <2>3
    <3>2. SumFunctionOnSet(f, (T \cup R) \cup {x}) = a + 0
      BY <2>3, <2>4, <3>1, Zenon
    <3>3. a + 0 = a
      OBVIOUS
    <3> QED BY <2>1, <3>1, <3>2, <3>3, Zenon
  <2>6. SumFunctionOnSet(f, T \cup R) = SumFunctionOnSet(f, T)
    BY <1>3
  <2> QED BY <2>5, <2>6
<1>4. S \ T \in V
  <2> HIDE DEF V
  <2> QED BY <1>1, <1>2, <1>3, SetInduction
<1>5. T \cup (S \ T) = S
  OBVIOUS
<1> QED BY <1>4, <1>5

(* A sum is that over a part and that over the rest.                       *)
LEMMA SumSplit ==
  ASSUME NEW f, NEW S, IsFiniteSet(S), NEW T \in SUBSET S, \A x \in S : f[x] \in Int
  PROVE  /\ SumFunctionOnSet(f, T) \in Int /\ SumFunctionOnSet(f, S \ T) \in Int
         /\ SumFunctionOnSet(f, S) = SumFunctionOnSet(f, T) + SumFunctionOnSet(f, S \ T)
<1> DEFINE Sum(R) == SumFunctionOnSet(f, R)
           V == {R \in SUBSET (S \ T) : Sum(T \cup R) = Sum(T) + Sum(R)}
<1>1. IsFiniteSet(S \ T) /\ T \cup (S \ T) = S
  BY FS_Subset
<1>2. \A R \in SUBSET S : Sum(R) \in Int
  <2> TAKE R \in SUBSET S
  <2>1. IsFiniteSet(R)
    BY FS_Subset
  <2> QED BY <2>1, SumRemoved
<1>3. {} \in V
  <2>1. Sum({}) = 0 /\ T \cup {} = T /\ Sum(T) \in Int
    BY <1>2, SumOfNone
  <2> HIDE DEF Sum
  <2> QED BY <2>1
<1>4. ASSUME NEW R \in SUBSET (S \ T), NEW x \in (S \ T) \ R, R \in V PROVE R \cup {x} \in V
  <2>1. /\ IsFiniteSet(R) /\ IsFiniteSet(T \cup R) /\ x \notin R /\ x \notin T \cup R
        /\ T \cup (R \cup {x}) = (T \cup R) \cup {x}
    <3>1. R \in SUBSET S /\ T \cup R \in SUBSET S
      OBVIOUS
    <3> QED BY <3>1, FS_Subset
  <2>2. (\A y \in R \cup {x} : f[y] \in Int) /\ (\A y \in (T \cup R) \cup {x} : f[y] \in Int)
    OBVIOUS
  <2>3. Sum(R \cup {x}) = Sum(R) + f[x]
    BY <2>1, <2>2, SumExtended
  <2>4. Sum((T \cup R) \cup {x}) = Sum(T \cup R) + f[x]
    BY <2>1, <2>2, SumExtended
  <2>5. Sum(T) \in Int /\ Sum(R) \in Int /\ f[x] \in Int
    BY <1>2
  <2>6. Sum(T \cup R) = Sum(T) + Sum(R)
    BY <1>4
  <2> HIDE DEF Sum
  <2>7. Sum((T \cup R) \cup {x}) = Sum(T) + Sum(R \cup {x})
    BY <2>3, <2>4, <2>5, <2>6
  <2> QED BY <2>1, <2>7
<1>5. S \ T \in V
  <2> HIDE DEF V
  <2> QED BY <1>1, <1>3, <1>4, SetInduction
<1>6. Sum(T) \in Int /\ Sum(S \ T) \in Int
  BY <1>2
<1>7. Sum(T \cup (S \ T)) = Sum(T) + Sum(S \ T)
  BY <1>5
<1> QED BY <1>1, <1>6, <1>7

(* Other names for what is added do not change the sum.                    *)
LEMMA SumRenamed ==
  ASSUME NEW f, NEW g, NEW h, NEW S, IsFiniteSet(S),
         \A x \in S : f[x] \in Int, \A x \in S : g[h[x]] = f[x],
         \A x, y \in S : h[x] = h[y] => x = y
  PROVE  SumFunctionOnSet(g, {h[x] : x \in S}) = SumFunctionOnSet(f, S)
<1> DEFINE Names(T) == {h[x] : x \in T}
           Fine(T) == IsFiniteSet(Names(T)) /\ SumFunctionOnSet(g, Names(T)) = SumFunctionOnSet(f, T)
           U == {T \in SUBSET S : Fine(T)}
<1>1. {} \in U
  <2>1. Names({}) = {}
    OBVIOUS
  <2> QED BY <2>1, SumOfNone, FS_EmptySet
<1>2. ASSUME NEW T \in SUBSET S, NEW x \in S \ T, T \in U PROVE T \cup {x} \in U
  <2>1. IsFiniteSet(T) /\ x \notin T /\ \A y \in T \cup {x} : f[y] \in Int
    BY FS_Subset
  <2>2. Names(T \cup {x}) = Names(T) \cup {h[x]} /\ h[x] \notin Names(T)
    OBVIOUS
  <2>3. \A y \in Names(T) \cup {h[x]} : g[y] \in Int
    OBVIOUS
  <2>4. Fine(T)
    BY <1>2
  <2> HIDE DEF Names
  <2>5. IsFiniteSet(Names(T) \cup {h[x]})
    BY <2>4, FS_AddElement
  <2>6. SumFunctionOnSet(g, Names(T) \cup {h[x]}) = SumFunctionOnSet(g, Names(T)) + g[h[x]]
    BY <2>2, <2>3, <2>4, SumExtended
  <2>7. SumFunctionOnSet(f, T \cup {x}) = SumFunctionOnSet(f, T) + f[x]
    BY <2>1, SumExtended
  <2>8. Fine(T \cup {x})
    BY <2>2, <2>4, <2>5, <2>6, <2>7
  <2> QED BY <2>8
<1>3. S \in U
  <2> HIDE DEF Fine
  <2> HIDE DEF U
  <2> QED BY <1>1, <1>2, SetInduction
<1> QED BY <1>3

(* Opposite values have the opposite sum.                                  *)
LEMMA SumOpposite ==
  ASSUME NEW f, NEW g, NEW S, IsFiniteSet(S), \A x \in S : f[x] \in Int /\ g[x] = -f[x]
  PROVE  /\ SumFunctionOnSet(f, S) \in Int
         /\ SumFunctionOnSet(g, S) = -SumFunctionOnSet(f, S)
<1> DEFINE Fits(T) == /\ SumFunctionOnSet(f, T) \in Int
                      /\ SumFunctionOnSet(g, T) + SumFunctionOnSet(f, T) = 0
                      /\ SumFunctionOnSet(g, T) \in Int
           U == {T \in SUBSET S : Fits(T)}
<1>1. {} \in U
  <2>1. SumFunctionOnSet(f, {}) = 0 /\ SumFunctionOnSet(g, {}) = 0
    BY SumOfNone
  <2> QED BY <2>1
<1>2. ASSUME NEW T \in SUBSET S, NEW x \in S \ T, T \in U PROVE T \cup {x} \in U
  <2>1. /\ IsFiniteSet(T) /\ T \cup {x} \in SUBSET S /\ x \notin T
        /\ \A y \in T \cup {x} : f[y] \in Int
        /\ \A y \in T \cup {x} : g[y] \in Int
    BY FS_Subset
  <2>2. SumFunctionOnSet(f, T \cup {x}) = SumFunctionOnSet(f, T) + f[x]
    BY <2>1, SumExtended
  <2>3. SumFunctionOnSet(g, T \cup {x}) = SumFunctionOnSet(g, T) + g[x]
    BY <2>1, SumExtended
  <2>4. Fits(T)
    BY <1>2
  <2>5. f[x] \in Int /\ g[x] \in Int /\ g[x] + f[x] = 0
    OBVIOUS
  <2>6. Fits(T \cup {x})
    BY <2>2, <2>3, <2>4, <2>5
  <2> HIDE DEF Fits
  <2> QED BY <2>1, <2>6
<1> HIDE DEF Fits
<1>3. S \in U
  <2> HIDE DEF U
  <2> QED BY <1>1, <1>2, SetInduction
<1>4. Fits(S)
  BY <1>3
<1>5. \A m, n \in Int : n + m = 0 => n = -m
  OBVIOUS
<1> QED BY <1>4, <1>5 DEF Fits

(* The sum of the sums over disjoint parts is that over all of them.       *)
LEMMA SumOfParts ==
  ASSUME NEW f, NEW S, IsFiniteSet(S), \A x \in S : f[x] \in Int,
         NEW P, IsFiniteSet(P), NEW part, NEW g,
         \A p \in P : part[p] \in SUBSET S /\ g[p] = SumFunctionOnSet(f, part[p]),
         \A p, q \in P : p # q => part[p] \cap part[q] = {}
  PROVE  SumFunctionOnSet(g, P) = SumFunctionOnSet(f, UNION {part[p] : p \in P})
<1> DEFINE All(Q) == UNION {part[p] : p \in Q}
           Fits(Q) == SumFunctionOnSet(g, Q) = SumFunctionOnSet(f, All(Q))
           U == {Q \in SUBSET P : Fits(Q)}
<1>1. {} \in U
  <2>1. All({}) = {}
    OBVIOUS
  <2> QED BY <2>1, SumOfNone
<1>2. \A p \in P : g[p] \in Int
  <2> TAKE p \in P
  <2>1. IsFiniteSet(part[p]) /\ \A x \in part[p] : f[x] \in Int
    BY FS_Subset
  <2> QED BY <2>1, SumRemoved
<1>3. ASSUME NEW Q \in SUBSET P, NEW x \in P \ Q, Q \in U PROVE Q \cup {x} \in U
  <2>1. IsFiniteSet(Q) /\ Q \cup {x} \in SUBSET P /\ x \notin Q /\ \A y \in Q \cup {x} : g[y] \in Int
    BY <1>2, FS_Subset
  <2>2. SumFunctionOnSet(g, Q \cup {x}) = SumFunctionOnSet(g, Q) + g[x]
    BY <2>1, SumExtended
  <2>3. /\ All(Q \cup {x}) \in SUBSET S /\ All(Q) \in SUBSET All(Q \cup {x})
        /\ All(Q \cup {x}) \ All(Q) = part[x]
    <3>1. All(Q) \in SUBSET S /\ part[x] \in SUBSET S
      OBVIOUS
    <3>2. All(Q \cup {x}) = All(Q) \cup part[x]
      OBVIOUS
    <3>3. \A q \in Q : part[q] \cap part[x] = {}
      OBVIOUS
    <3>4. All(Q) \cap part[x] = {}
      BY <3>3
    <3> HIDE DEF All
    <3> QED BY <3>1, <3>2, <3>4
  <2> HIDE DEF All
  <2>4. IsFiniteSet(All(Q \cup {x})) /\ \A y \in All(Q \cup {x}) : f[y] \in Int
    BY <2>3, FS_Subset
  <2>5. SumFunctionOnSet(f, All(Q \cup {x}))
          = SumFunctionOnSet(f, All(Q)) + SumFunctionOnSet(f, All(Q \cup {x}) \ All(Q))
    <3>1. PICK A, B : A = All(Q \cup {x}) /\ B = All(Q)
      OBVIOUS
    <3>2. IsFiniteSet(A) /\ B \in SUBSET A /\ \A y \in A : f[y] \in Int
      BY <2>3, <2>4, <3>1
    <3>3. SumFunctionOnSet(f, A) = SumFunctionOnSet(f, B) + SumFunctionOnSet(f, A \ B)
      BY <3>2, SumSplit
    <3> QED BY <3>1, <3>3
  <2>6. Fits(Q) /\ g[x] = SumFunctionOnSet(f, part[x])
    BY <1>3
  <2>7. Fits(Q \cup {x})
    BY <2>2, <2>3, <2>5, <2>6
  <2> HIDE DEF Fits
  <2> QED BY <2>1, <2>7
<1> HIDE DEF Fits
<1>4. P \in U
  <2> HIDE DEF U
  <2> QED BY <1>1, <1>3, SetInduction
<1>5. Fits(P)
  BY <1>4
<1> QED BY <1>5 DEF Fits
=============================================================================
