------------------------------ MODULE Feed_proof ------------------------------
(***************************************************************************)
(* What TLAPS proves of the two compositions of a feed, for lists of       *)
(* candidates of any length and any sizes of pool, feed and window.  Of    *)
(* FeedRanking: the guarantees of rank() hold together, and its spacing    *)
(* gives up only when nothing else is left.  Of FeedDiversity: the list    *)
(* the batch ends with is full, and led by the role models it should have. *)
(***************************************************************************)
EXTENDS FeedRanking, FeedDiversity, FiniteInduction, SequenceTheorems

Candidates == DOMAIN cards
Room       == Min({FinalSize, Len(cards)})
Wished     == Min({RoleTarget, Cardinality(Roles), Room})

Distinct(s) == \A i, j \in DOMAIN s : s[i] = s[j] => i = j
(* The role models among the first TopWindow cards of a list.              *)
Leaders(s)  == {s[i] : i \in Leading(s)}

(* The category of a card that came third in a row is all that was left.   *)
Category(c)   == cards[c].category
Forced(s, i)  == Category(s[i]) \in Blocked(SubSeq(s, 1, i - 1))
Held(s, left) == \A i \in DOMAIN s : Forced(s, i) =>
  /\ \A j \in DOMAIN s : j >= i => Category(s[j]) = Category(s[i])
  /\ \A j \in DOMAIN left : Category(left[j]) = Category(s[i])

-----------------------------------------------------------------------------
(* The inductive invariant, part by part.                                  *)

(* Lists hold candidates, and the feed holds none twice.                   *)
Typed ==
  /\ cards \in Requests /\ pool \in SUBSET Candidates
  /\ queue \in Seq(Candidates) /\ result \in Seq(Candidates) /\ Distinct(result)

(* The pool keeps its size whatever is protected, and what MMR has chosen  *)
(* is no longer in it.                                                     *)
Collecting ==
  /\ stage = "protect" => result = <<>> /\ Cardinality(pool) = Intermediate /\ tail \in pool
  /\ stage = "mmr" => /\ Len(result) <= Room /\ Len(result) + Cardinality(pool) = Intermediate
                      /\ pool \cap Range(result) = {}

(* Every role model that had its turn leads.                               *)
Promoting == stage = "promote" =>
  /\ Len(result) = Room /\ Range(queue) \subseteq Roles
  /\ Roles \ Range(queue) \subseteq Leaders(result)

(* Spacing moves the cards over one by one, enough role models among them. *)
Spacing == stage = "space" =>
  /\ Distinct(queue) /\ Range(queue) \cap Range(result) = {} /\ Len(queue) + Len(result) = Room
  /\ Cardinality(Roles \cap (Range(queue) \cup Range(result))) >= Wished
  /\ Held(result, queue)

(* Every role model shown that had its turn leads again.                   *)
Restoring == stage = "restore" =>
  /\ Len(result) = Room /\ Cardinality(Roles \cap Range(result)) >= Wished
  /\ Range(queue) \subseteq Roles
  /\ (Roles \cap Range(result)) \ Range(queue) \subseteq Leaders(result)
  /\ Len(queue) <= Len(RoleCards)
  /\ Len(queue) = Len(RoleCards) => Held(result, <<>>)

RInv == Typed /\ Collecting /\ Promoting /\ Spacing /\ Restoring /\ Guaranteed

-----------------------------------------------------------------------------
(* Lists, sizes and least elements.                                        *)

(* A request is a list of candidates, and the sizes are positive.          *)
LEMMA Request ==
  ASSUME cards \in Requests
  PROVE  /\ Len(cards) \in Nat /\ Candidates = 1..Len(cards) /\ IsFiniteSet(Candidates)
         /\ cards \in Seq(Card)
         /\ \A c \in Candidates : cards[c].score \in Int /\ cards[c].position \in Nat
         /\ Cardinality(Candidates) = Len(cards)
         /\ IsFiniteSet(Roles) /\ Roles \in SUBSET Candidates /\ Cardinality(Roles) \in Nat
<1>1. cards \in Seq(Card)
  BY FeedConstants
<1>2. Len(cards) \in Nat /\ Candidates = 1..Len(cards) /\ \A c \in Candidates : cards[c] \in Card
  BY <1>1, LenProperties, ElementOfSeq DEF Candidates
<1>3. IsFiniteSet(Candidates) /\ Cardinality(Candidates) = Len(cards)
  <2>1. PICK n \in Nat : n = Len(cards)
    BY <1>2
  <2>2. IsFiniteSet(1..n) /\ Cardinality(1..n) = IF 1 > n THEN 0 ELSE n - 1 + 1
    BY FS_Interval
  <2> QED BY <1>2, <2>1, <2>2
<1>4. Roles \in SUBSET Candidates
  BY DEF Roles, Candidates
<1>5. IsFiniteSet(Roles) /\ Cardinality(Roles) \in Nat
  BY <1>3, <1>4, FS_Subset, FS_CardinalityType
<1> QED BY <1>1, <1>2, <1>3, <1>4, <1>5 DEF Card

(* The constants are positive numbers.                                     *)
LEMMA Sizes ==
  /\ FinalSize \in Nat /\ FinalSize > 0 /\ TopWindow \in Nat /\ TopWindow > 0
  /\ RoleTarget \in Nat /\ RoleTarget > 0 /\ MaxRun \in Nat /\ MaxRun > 0 /\ PoolSize \in Nat
  /\ RoleTarget < TopWindow /\ TopWindow <= FinalSize /\ FinalSize <= PoolSize
<1>1. {FinalSize, TopWindow, RoleTarget, MaxRun} \subseteq Nat \ {0}
  BY FeedConstants
<1>2. \A n \in Nat \ {0} : n \in Nat /\ n > 0
  OBVIOUS
<1> QED BY <1>1, <1>2, FeedConstants, PoolConstant

(* The smaller of two, of three and of four numbers.                       *)
LEMMA MinOf ==
  ASSUME NEW S \in SUBSET Int, NEW x \in S, \A y \in S : x <= y
  PROVE  Min(S) \in S /\ Min(S) = x /\ \A y \in S : Min(S) <= y
<1>1. Min(S) \in S /\ \A y \in S : Min(S) <= y
  BY DEF Min
<1>2. PICK m \in Int : m = Min(S)
  BY <1>1
<1>3. m <= x /\ x <= m /\ x \in Int
  BY <1>1, <1>2
<1> QED BY <1>1, <1>2, <1>3

(* The smaller of two numbers, as in the length of the pool and the feed.  *)
LEMMA SmallerOf ==
  ASSUME NEW a \in Int, NEW b \in Int
  PROVE  Min({a, b}) = IF a <= b THEN a ELSE b
<1>1. CASE a <= b
  BY <1>1, MinOf
<1>2. CASE ~(a <= b)
  BY <1>2, MinOf
<1> QED BY <1>1, <1>2

(* The smallest of three numbers is one of them and exceeds none.          *)
LEMMA SmallestOf ==
  ASSUME NEW a \in Int, NEW b \in Int, NEW c \in Int
  PROVE  /\ Min({a, b, c}) \in {a, b, c}
         /\ Min({a, b, c}) <= a /\ Min({a, b, c}) <= b /\ Min({a, b, c}) <= c
<1>1. \E x \in {a, b, c} : \A y \in {a, b, c} : x <= y
  <2>1. CASE a <= b /\ a <= c
    BY <2>1
  <2>2. CASE b <= a /\ b <= c
    BY <2>2
  <2>3. CASE c <= a /\ c <= b
    BY <2>3
  <2> QED BY <2>1, <2>2, <2>3
<1> QED BY <1>1, MinOf

(* The smallest of four numbers is one of them and exceeds none.           *)
LEMMA LeastOfFour ==
  ASSUME NEW a \in Int, NEW b \in Int, NEW c \in Int, NEW d \in Int
  PROVE  /\ Min({a, b, c, d}) \in {a, b, c, d}
         /\ Min({a, b, c, d}) <= a /\ Min({a, b, c, d}) <= b
         /\ Min({a, b, c, d}) <= c /\ Min({a, b, c, d}) <= d
<1>1. PICK x \in {a, b, c} : x <= a /\ x <= b /\ x <= c
  BY SmallestOf
<1>2. \E y \in {a, b, c, d} : \A z \in {a, b, c, d} : y <= z
  <2>1. CASE x <= d
    BY <1>1, <2>1
  <2>2. CASE ~(x <= d)
    BY <1>1, <2>2
  <2> QED BY <2>1, <2>2
<1> QED BY <1>2, MinOf

(* How many cards the feed has, and how many role models are wanted in its *)
(* top.                                                                    *)
LEMMA RoomIs ==
  ASSUME cards \in Requests
  PROVE  /\ Room \in Nat /\ Room = IF FinalSize <= Len(cards) THEN FinalSize ELSE Len(cards)
         /\ Room <= Intermediate /\ Intermediate \in Nat /\ Intermediate <= Len(cards)
         /\ Len(cards) > 0 => Room > 0 /\ Intermediate > 0
         /\ Room < TopWindow => Room = Len(cards)
<1>1. Room = IF FinalSize <= Len(cards) THEN FinalSize ELSE Len(cards)
  BY Request, Sizes, SmallerOf DEF Room
<1>2. Intermediate = IF Len(cards) <= PoolSize THEN Len(cards) ELSE PoolSize
  BY Request, Sizes, SmallerOf DEF Intermediate
<1> QED BY <1>1, <1>2, Request, Sizes

(* Where the feed is full, the target of the loops over role models is the *)
(* number the answer promises: fewer than the top has places.              *)
LEMMA WishedIs ==
  ASSUME cards \in Requests
  PROVE  /\ Wished \in Nat /\ Wished <= RoleTarget /\ Wished <= Cardinality(Roles) /\ Wished <= Room
         /\ Wished < TopWindow
         /\ Len(result) = Room => Target = Wished
<1> PICK a \in Nat, b \in Nat, c \in Nat, d \in Nat :
      a = RoleTarget /\ b = Cardinality(Roles) /\ c = Room /\ d = TopWindow
  BY Request, RoomIs, Sizes
<1>1. /\ Wished \in {a, b, c}
      /\ Wished <= RoleTarget /\ Wished <= Cardinality(Roles) /\ Wished <= Room
  <2>1. Wished = Min({a, b, c})
    BY Zenon DEF Wished
  <2>2. a \in Int /\ b \in Int /\ c \in Int
    OBVIOUS
  <2> QED BY <2>1, <2>2, SmallestOf
<1>2. Wished \in Nat /\ Wished < TopWindow
  BY <1>1, Request, RoomIs, Sizes
<1>3. ASSUME Len(result) = Room PROVE Target = Wished
  <2>1. /\ Target \in {a, b, c, d}
        /\ Target <= RoleTarget /\ Target <= Cardinality(Roles) /\ Target <= Room
    <3>1. Target = Min({a, b, c, d})
      BY <1>3, Zenon DEF Target
    <3>2. a \in Int /\ b \in Int /\ c \in Int /\ d \in Int
      OBVIOUS
    <3> QED BY <3>1, <3>2, LeastOfFour
  <2> QED BY <1>1, <2>1, Request, RoomIs, Sizes
<1> QED BY <1>1, <1>2, <1>3

(* The first of a set of places.                                           *)
LEMMA FirstIs ==
  ASSUME NEW S \in SUBSET Nat, S # {}
  PROVE  FirstOf(S) \in S
<1>1. \E n \in S : \A m \in S : n <= m
  BY LeastNatural
<1> QED BY <1>1 DEF FirstOf

(* The best recent completion is a candidate.                              *)
LEMMA RecentIs ==
  ASSUME cards \in Requests, Recents # {}
  PROVE  Recent \in Recents /\ Recent \in Candidates /\ Len(cards) > 0
<1>1. Recents \in SUBSET Candidates /\ Recents \in SUBSET Nat
  BY Request DEF Recents, Candidates
<1>2. Recent \in Recents
  BY <1>1, FirstIs DEF Recent
<1> QED BY <1>1, <1>2, Request

(* Numbers listed in order are all listed, and none twice.                 *)
LEMMA Listed ==
  ASSUME NEW R \in SUBSET Nat, IsFiniteSet(R)
  PROVE  /\ InOrder(R) \in Seq(R) /\ Range(InOrder(R)) = R /\ Distinct(InOrder(R))
         /\ Len(InOrder(R)) = Cardinality(R) /\ Cardinality(R) \in Nat
<1> DEFINE Before(c) == {d \in R : d < c}
           h == [c \in R |-> Cardinality(Before(c))]
           n == Cardinality(R)
           list == InOrder(R)
<1>1. n \in Nat /\ \A c \in R : c \in Nat
  BY FS_CardinalityType
<1>2. ASSUME NEW c \in R
      PROVE  IsFiniteSet(Before(c)) /\ Cardinality(Before(c)) \in 0..(n - 1)
  <2>1. Before(c) \in SUBSET (R \ {c})
    BY <1>1
  <2>2. IsFiniteSet(R \ {c}) /\ Cardinality(R \ {c}) = n - 1
    BY <1>1, FS_RemoveElement
  <2>3. IsFiniteSet(Before(c)) /\ Cardinality(Before(c)) <= n - 1
    BY <2>1, <2>2, FS_Subset
  <2>4. Cardinality(Before(c)) \in Nat
    BY <2>3, FS_CardinalityType
  <2> QED BY <1>1, <2>3, <2>4
<1>3. ASSUME NEW c \in R, NEW d \in R, c < d PROVE h[c] # h[d]
  <2>1. Before(c) \in SUBSET Before(d) /\ c \in Before(d) /\ c \notin Before(c)
    <3>1. ASSUME NEW b \in R, b < c PROVE b < d
      <4>1. b \in Nat /\ c \in Nat /\ d \in Nat
        BY <1>1
      <4> QED BY <1>3, <3>1, <4>1
    <3>2. ~(c < c)
      BY <1>1
    <3> QED BY <1>3, <3>1, <3>2
  <2>2. Before(c) # Before(d)
    BY <2>1
  <2> QED BY <1>2, <2>1, <2>2, FS_Subset
<1>4. h \in [R -> 0..(n - 1)] /\ \A c, d \in R : h[c] = h[d] => c = d
  <2>1. h \in [R -> 0..(n - 1)]
    BY <1>2
  <2>2. ASSUME NEW c \in R, NEW d \in R, h[c] = h[d] PROVE c = d
    <3> HIDE DEF h
    <3>1. c \in Nat /\ d \in Nat
      BY <1>1
    <3> QED BY <1>3, <2>2, <3>1
  <2> QED BY <2>1, <2>2
<1>5. IsFiniteSet(0..(n - 1)) /\ Cardinality(0..(n - 1)) = n
  <2>1. PICK k \in Int : k = n - 1 /\ k >= -1
    BY <1>1
  <2>2. IsFiniteSet(0..k) /\ Cardinality(0..k) = IF 0 > k THEN 0 ELSE k - 0 + 1
    BY FS_Interval
  <2> QED BY <1>1, <2>1, <2>2
<1>6. \A i \in 0..(n - 1) : \E c \in R : h[c] = i
  <2> HIDE DEF h
  <2>1. h \in Injection(R, 0..(n - 1))
    BY <1>4 DEF Injection, IsInjective
  <2>2. h \in Surjection(R, 0..(n - 1))
    BY <1>5, <2>1, FS_Injection
  <2> QED BY <2>2 DEF Surjection
<1>7. \A i \in 1..n : list[i] \in R /\ h[list[i]] = i - 1
  <2> TAKE i \in 1..n
  <2>1. i - 1 \in 0..(n - 1)
    BY <1>1
  <2>2. PICK c \in R : h[c] = i - 1
    BY <1>6, <2>1
  <2>3. list[i] = CHOOSE r \in R : Cardinality(Before(r)) = i - 1
    BY DEF InOrder
  <2> QED BY <2>2, <2>3
<1> HIDE DEF h
<1>8. list \in [1..n -> R] /\ DOMAIN list = 1..n
  BY <1>7 DEF InOrder
<1>9. list \in Seq(R) /\ Len(list) = n
  BY <1>1, <1>8, SeqDef, LenProperties
<1>10. Range(list) = R
  <2>1. ASSUME NEW c \in R PROVE \E i \in 1..n : list[i] = c
    <3>1. h[c] \in 0..(n - 1)
      BY <1>4
    <3>2. PICK i \in 1..n : i - 1 = h[c]
      BY <1>1, <3>1
    <3>3. h[list[i]] = h[c] /\ list[i] \in R
      BY <1>7, <3>2
    <3> QED BY <1>4, <3>2, <3>3
  <2> QED BY <1>8, <2>1 DEF Range
<1>11. Distinct(list)
  <2> SUFFICES ASSUME NEW i \in 1..n, NEW j \in 1..n, list[i] = list[j] PROVE i = j
    BY <1>8 DEF Distinct
  <2>1. i - 1 = j - 1
    BY <1>7
  <2> QED BY <1>1, <2>1
<1> QED BY <1>1, <1>9, <1>10, <1>11

(* The list of the role models holds every one of them, and nothing else.  *)
LEMMA RolesInOrder ==
  ASSUME cards \in Requests
  PROVE  /\ RoleCards \in Seq(Roles) /\ RoleCards \in Seq(Candidates) /\ Range(RoleCards) = Roles
         /\ Len(RoleCards) = Cardinality(Roles)
<1>1. IsFiniteSet(Roles) /\ Roles \in SUBSET Candidates /\ Roles \in SUBSET Nat
  BY Request
<1> QED BY <1>1, Listed, SeqMonotonic DEF RoleCards

-----------------------------------------------------------------------------
(* What the operations of the loops do to a list in which nothing is twice.*)

(* A list is a function on 1..Len.                                         *)
LEMMA ListOf ==
  ASSUME NEW S, NEW s \in Seq(S)
  PROVE  /\ Len(s) \in Nat /\ DOMAIN s = 1..Len(s) /\ s \in [1..Len(s) -> S]
         /\ \A i \in DOMAIN s : s[i] \in S /\ s[i] \in Range(s)
         /\ Range(s) \in SUBSET S
<1>1. Len(s) \in Nat /\ DOMAIN s = 1..Len(s) /\ s \in [1..Len(s) -> S]
  BY LenProperties
<1> QED BY <1>1 DEF Range

(* A function on 1..n is a list of length n.                               *)
LEMMA ListFrom ==
  ASSUME NEW S, NEW n \in Nat, NEW t \in [1..n -> S]
  PROVE  t \in Seq(S) /\ Len(t) = n
<1>1. t \in Seq(S)
  BY SeqDef
<1> QED BY <1>1, LenProperties

(* Lead of the model exchanges two cards: nothing comes or goes.           *)
LEMMA Exchanged ==
  ASSUME NEW S, NEW s \in Seq(S), Distinct(s), NEW i \in DOMAIN s, NEW j \in DOMAIN s
  PROVE  LET t == Swapped(s, i, j) IN
         /\ t \in Seq(S) /\ Len(t) = Len(s) /\ DOMAIN t = DOMAIN s
         /\ Distinct(t) /\ Range(t) = Range(s) /\ t[i] = s[j] /\ t[j] = s[i]
         /\ \A k \in DOMAIN s \ {i, j} : t[k] = s[k]
<1> DEFINE t == Swapped(s, i, j)
<1>1. /\ DOMAIN t = DOMAIN s /\ t[i] = s[j] /\ t[j] = s[i]
      /\ \A k \in DOMAIN s \ {i, j} : t[k] = s[k]
  BY DEF Swapped
<1>2. t \in [1..Len(s) -> S]
  BY ListOf DEF Swapped
<1> HIDE DEF t
<1>3. t \in Seq(S) /\ Len(t) = Len(s)
  BY <1>2, ListOf, ListFrom
<1>4. Distinct(t)
  <2> SUFFICES ASSUME NEW k \in DOMAIN t, NEW m \in DOMAIN t, t[k] = t[m] PROVE k = m
    BY DEF Distinct
  <2> QED BY <1>1 DEF Distinct
<1>5. Range(t) = Range(s)
  <2>1. \A k \in DOMAIN s : \E m \in DOMAIN t : t[m] = s[k]
    BY <1>1
  <2>2. \A k \in DOMAIN t : \E m \in DOMAIN s : s[m] = t[k]
    BY <1>1
  <2> QED BY <2>1, <2>2 DEF Range
<1> QED BY <1>1, <1>3, <1>4, <1>5 DEF t

(* A card that is not in the list takes the place of one that is.          *)
LEMMA Replaced ==
  ASSUME NEW S, NEW s \in Seq(S), Distinct(s), NEW i \in DOMAIN s, NEW c \in S, c \notin Range(s)
  PROVE  LET t == [s EXCEPT ![i] = c] IN
         /\ t \in Seq(S) /\ Len(t) = Len(s) /\ DOMAIN t = DOMAIN s
         /\ Distinct(t) /\ Range(t) = (Range(s) \ {s[i]}) \cup {c} /\ t[i] = c
         /\ \A k \in DOMAIN s \ {i} : t[k] = s[k]
<1> DEFINE t == [s EXCEPT ![i] = c]
<1>1. DOMAIN t = DOMAIN s /\ t[i] = c /\ \A k \in DOMAIN s \ {i} : t[k] = s[k]
  OBVIOUS
<1>2. t \in [1..Len(s) -> S]
  BY ListOf
<1> HIDE DEF t
<1>3. t \in Seq(S) /\ Len(t) = Len(s)
  BY <1>2, ListOf, ListFrom
<1>4. \A k \in DOMAIN s : s[k] # c
  BY DEF Range
<1>5. Distinct(t)
  <2> SUFFICES ASSUME NEW k \in DOMAIN t, NEW m \in DOMAIN t, t[k] = t[m] PROVE k = m
    BY DEF Distinct
  <2> QED BY <1>1, <1>4 DEF Distinct
<1>6. Range(t) = (Range(s) \ {s[i]}) \cup {c}
  <2>1. \A k \in DOMAIN s : s[k] # s[i] => t[k] = s[k]
    BY <1>1
  <2>2. \A k \in DOMAIN t : k # i => t[k] = s[k] /\ s[k] # s[i]
    BY <1>1 DEF Distinct
  <2>3. ASSUME NEW x \in Range(t) PROVE x \in (Range(s) \ {s[i]}) \cup {c}
    BY <1>1, <2>2 DEF Range
  <2>4. ASSUME NEW x \in (Range(s) \ {s[i]}) \cup {c} PROVE x \in Range(t)
    BY <1>1, <2>1 DEF Range
  <2> QED BY <2>3, <2>4
<1> QED BY <1>1, <1>3, <1>5, <1>6 DEF t

(* A card that is not in the list comes after all of it.                   *)
LEMMA Appended ==
  ASSUME NEW S, NEW s \in Seq(S), Distinct(s), NEW c \in S, c \notin Range(s)
  PROVE  LET t == Append(s, c) IN
         /\ t \in Seq(S) /\ Len(t) = Len(s) + 1 /\ DOMAIN t = DOMAIN s \cup {Len(s) + 1}
         /\ Distinct(t) /\ Range(t) = Range(s) \cup {c}
         /\ t[Len(s) + 1] = c /\ \A i \in DOMAIN s : t[i] = s[i]
<1> DEFINE t == Append(s, c)
<1>1. /\ t \in Seq(S) /\ Len(t) = Len(s) + 1 /\ t[Len(s) + 1] = c
      /\ \A i \in DOMAIN s : t[i] = s[i]
  BY AppendProperties, ListOf
<1> HIDE DEF t
<1>2. DOMAIN t = DOMAIN s \cup {Len(s) + 1} /\ Len(s) + 1 \notin DOMAIN s
  <2>1. Len(s) \in Nat /\ DOMAIN s = 1..Len(s) /\ DOMAIN t = 1..(Len(s) + 1)
    BY <1>1, ListOf
  <2> QED BY <2>1
<1>3. \A i \in DOMAIN s : s[i] # c
  BY DEF Range
<1>4. Distinct(t)
  <2> SUFFICES ASSUME NEW k \in DOMAIN t, NEW m \in DOMAIN t, t[k] = t[m] PROVE k = m
    BY DEF Distinct
  <2> QED BY <1>1, <1>2, <1>3 DEF Distinct
<1>5. Range(t) = Range(s) \cup {c}
  BY <1>1, <1>2 DEF Range
<1> QED BY <1>1, <1>2, <1>4, <1>5 DEF t

(* One card is taken out of the list and the others close up.              *)
LEMMA Removed ==
  ASSUME NEW S, NEW s \in Seq(S), Distinct(s), NEW i \in DOMAIN s
  PROVE  LET t == RemoveAt(s, i) IN
         /\ t \in Seq(S) /\ Len(t) = Len(s) - 1
         /\ Distinct(t) /\ Range(t) = Range(s) \ {s[i]}
<1> DEFINE t == RemoveAt(s, i)  n == Len(s)
           a == SubSeq(s, 1, i - 1)  b == SubSeq(s, i + 1, n)
           At(k) == IF k < i THEN k ELSE k + 1
<1>1. n \in Nat /\ DOMAIN s = 1..n /\ i \in 1..n
  BY ListOf
<1>2. a \in Seq(S) /\ Len(a) = i - 1 /\ \A k \in 1..(i - 1) : a[k] = s[k]
  BY <1>1, SubSeqProperties
<1>3. b \in Seq(S) /\ Len(b) = n - i /\ \A k \in 1..(n - i) : b[k] = s[i + k]
  BY <1>1, SubSeqProperties
<1> HIDE DEF a, b
<1>4. t = a \o b
  BY DEF RemoveAt, a, b
<1> HIDE DEF t
<1>5. t \in Seq(S) /\ Len(t) = n - 1
  <2>1. a \o b \in Seq(S) /\ Len(a \o b) = Len(a) + Len(b)
    BY <1>2, <1>3, ConcatProperties
  <2>2. Len(t) = (i - 1) + (n - i)
    BY <1>2, <1>3, <1>4, <2>1
  <2>3. (i - 1) + (n - i) = n - 1
    BY <1>1
  <2> QED BY <1>4, <2>1, <2>2, <2>3
<1>6. \A k \in 1..(n - 1) : t[k] = s[At(k)]
  <2> TAKE k \in 1..(n - 1)
  <2>1. Len(a) + Len(b) = n - 1
    BY <1>1, <1>2, <1>3
  <2>2. t[k] = IF k <= Len(a) THEN a[k] ELSE b[k - Len(a)]
    BY <1>2, <1>3, <1>4, <2>1, ConcatProperties, SMTT(30)
  <2>3. CASE k < i
    BY <1>1, <1>2, <2>2, <2>3
  <2>4. CASE ~(k < i)
    <3>1. k - Len(a) \in 1..(n - i) /\ ~(k <= Len(a)) /\ i + (k - Len(a)) = k + 1
      BY <1>1, <1>2, <2>4
    <3> QED BY <1>3, <2>2, <2>4, <3>1
  <2> QED BY <2>3, <2>4
<1>7. DOMAIN t = 1..(n - 1)
  BY <1>5, ListOf
<1>8. /\ \A k \in 1..(n - 1) : At(k) \in 1..n /\ At(k) # i
      /\ \A k, m \in 1..(n - 1) : At(k) = At(m) => k = m
      /\ \A m \in 1..n : m # i => \E k \in 1..(n - 1) : At(k) = m
  <2>1. /\ \A k \in 1..(n - 1) : At(k) \in 1..n /\ At(k) # i
        /\ \A k, m \in 1..(n - 1) : At(k) = At(m) => k = m
    BY <1>1
  <2>2. ASSUME NEW m \in 1..n, m # i PROVE \E k \in 1..(n - 1) : At(k) = m
    <3>1. CASE m < i
      <4>1. m \in 1..(n - 1) /\ At(m) = m
        BY <1>1, <3>1
      <4> QED BY <4>1
    <3>2. CASE ~(m < i)
      <4>1. m - 1 \in 1..(n - 1) /\ At(m - 1) = m
        BY <1>1, <2>2, <3>2
      <4> QED BY <4>1
    <3> QED BY <3>1, <3>2
  <2> QED BY <2>1, <2>2
<1> HIDE DEF At
<1>9. Distinct(t)
  <2> SUFFICES ASSUME NEW k \in DOMAIN t, NEW m \in DOMAIN t, t[k] = t[m] PROVE k = m
    BY DEF Distinct
  <2>1. s[At(k)] = s[At(m)] /\ At(k) \in DOMAIN s /\ At(m) \in DOMAIN s
    BY <1>1, <1>6, <1>7, <1>8
  <2>2. At(k) = At(m)
    BY <2>1 DEF Distinct
  <2> QED BY <1>7, <1>8, <2>2
<1>10. Range(t) = Range(s) \ {s[i]}
  <2>1. ASSUME NEW k \in DOMAIN t PROVE t[k] \in Range(s) \ {s[i]}
    <3>1. t[k] = s[At(k)] /\ At(k) \in DOMAIN s /\ At(k) # i
      BY <1>1, <1>6, <1>7, <1>8
    <3>2. s[At(k)] # s[i]
      BY <3>1 DEF Distinct
    <3> QED BY <3>1, <3>2 DEF Range
  <2>2. ASSUME NEW m \in DOMAIN s, s[m] # s[i] PROVE \E k \in DOMAIN t : t[k] = s[m]
    <3>1. PICK k \in 1..(n - 1) : At(k) = m
      BY <1>1, <1>8, <2>2
    <3> QED BY <1>6, <1>7, <3>1
  <2> QED BY <2>1, <2>2 DEF Range
<1>11. Len(t) = Len(s) - 1
  BY <1>5
<1> QED BY <1>5, <1>9, <1>10, <1>11 DEF t

-----------------------------------------------------------------------------
(* How many, and who leads.                                                *)

(* Different places hold different cards.                                  *)
LEMMA SameSize ==
  ASSUME NEW S, NEW s \in Seq(S), Distinct(s), NEW I \in SUBSET DOMAIN s
  PROVE  /\ IsFiniteSet(I) /\ IsFiniteSet({s[i] : i \in I})
         /\ Cardinality({s[i] : i \in I}) = Cardinality(I) /\ Cardinality(I) \in Nat
<1> DEFINE T == {s[i] : i \in I}
           f == [i \in I |-> s[i]]
<1>1. IsFiniteSet(DOMAIN s)
  BY ListOf, FS_Interval
<1>2. IsFiniteSet(I) /\ Cardinality(I) \in Nat
  BY <1>1, FS_Subset, FS_CardinalityType
<1>3. f \in Bijection(I, T)
  <2>1. f \in [I -> T] /\ \A x \in T : \E i \in I : f[i] = x
    OBVIOUS
  <2>2. \A i, j \in I : f[i] = f[j] => i = j
    BY DEF Distinct
  <2> HIDE DEF f, T
  <2>3. DOMAIN f = I
    BY <2>1
  <2> QED BY <2>1, <2>2, <2>3 DEF Bijection, Injection, Surjection, IsInjective
<1>4. IsFiniteSet(T) /\ Cardinality(T) = Cardinality(I)
  BY <1>2, <1>3, FS_Bijection DEF ExistsBijection
<1> QED BY <1>2, <1>4

(* A list has as many cards as places.                                     *)
LEMMA Counted ==
  ASSUME NEW S, NEW s \in Seq(S), Distinct(s)
  PROVE  IsFiniteSet(Range(s)) /\ Cardinality(Range(s)) = Len(s)
<1>1. Range(s) = {s[i] : i \in DOMAIN s}
  BY DEF Range
<1>2. Cardinality(DOMAIN s) = Len(s)
  <2>1. PICK n \in Nat : n = Len(s)
    BY ListOf
  <2>2. Cardinality(1..n) = IF 1 > n THEN 0 ELSE n - 1 + 1
    BY FS_Interval
  <2> QED BY <2>1, <2>2, ListOf
<1>3. DOMAIN s \in SUBSET DOMAIN s
  OBVIOUS
<1>4. /\ IsFiniteSet({s[i] : i \in DOMAIN s})
      /\ Cardinality({s[i] : i \in DOMAIN s}) = Cardinality(DOMAIN s)
  BY <1>3, SameSize
<1> QED BY <1>1, <1>2, <1>4

(* The top has TopWindow places, or all of a shorter list.                 *)
LEMMA TopSize ==
  ASSUME NEW S, NEW s \in Seq(S)
  PROVE  /\ IsFiniteSet(Top(s)) /\ Top(s) \in SUBSET DOMAIN s
         /\ Cardinality(Top(s)) = IF TopWindow <= Len(s) THEN TopWindow ELSE Len(s)
<1>1. PICK n \in Nat : n = IF TopWindow <= Len(s) THEN TopWindow ELSE Len(s)
  BY ListOf, Sizes
<1>2. Top(s) = 1..n
  BY <1>1, ListOf, Sizes DEF Top, Places
<1>3. IsFiniteSet(1..n) /\ Cardinality(1..n) = IF 1 > n THEN 0 ELSE n - 1 + 1
  BY FS_Interval
<1>4. Top(s) \in SUBSET DOMAIN s
  BY DEF Top, Places
<1> QED BY <1>1, <1>2, <1>3, <1>4

(* As many role models lead as leading places are theirs.                  *)
LEMMA LeadersCounted ==
  ASSUME cards \in Requests, NEW s \in Seq(Candidates), Distinct(s)
  PROVE  /\ Leaders(s) \in SUBSET (Roles \cap Range(s)) /\ IsFiniteSet(Leaders(s))
         /\ IsFiniteSet(Leading(s)) /\ Cardinality(Leading(s)) \in Nat
         /\ Cardinality(Leaders(s)) = Cardinality(Leading(s))
<1>1. Leading(s) \in SUBSET DOMAIN s
  BY DEF Leading, Top, Places
<1>2. Leaders(s) \in SUBSET (Roles \cap Range(s))
  <2> SUFFICES ASSUME NEW i \in Leading(s) PROVE s[i] \in Roles \cap Range(s)
    BY DEF Leaders
  <2>1. s[i] \in Candidates /\ s[i] \in Range(s) /\ IsRole(s[i])
    BY <1>1, ListOf DEF Leading
  <2> QED BY <2>1 DEF Roles, Candidates
<1> QED BY <1>1, <1>2, SameSize, ZenonT(30) DEF Leaders

(* Role models that lead count.                                            *)
LEMMA LeadAtLeast ==
  ASSUME cards \in Requests, NEW s \in Seq(Candidates), Distinct(s), NEW R \in SUBSET Leaders(s)
  PROVE  IsFiniteSet(R) /\ Cardinality(R) \in Nat /\ Cardinality(R) <= Cardinality(Leading(s))
BY LeadersCounted, FS_Subset, FS_CardinalityType

(* A top all of whose cards are of role models has enough of them.         *)
LEMMA FullTop ==
  ASSUME cards \in Requests, NEW s \in Seq(Candidates), Len(s) = Room, Follow(s) = {}
  PROVE  Cardinality(Leading(s)) >= Wished
<1>1. Leading(s) = Top(s)
  BY DEF Leading, Follow
<1>2. Cardinality(Leading(s)) = IF TopWindow <= Room THEN TopWindow ELSE Room
  BY <1>1, TopSize
<1> QED BY <1>2, WishedIs, RoomIs, Sizes

(* The place given up is in the window, and is no role model's if another  *)
(* card is there.                                                          *)
LEMMA WeakestIs ==
  ASSUME cards \in Requests, result \in Seq(Candidates), result # <<>>,
         NEW window \in Nat, window > 0
  PROVE  /\ Weakest(window) \in DOMAIN result /\ Weakest(window) <= window
         /\ \A i \in DOMAIN result : i <= window /\ ~IsRole(result[i]) => ~IsRole(result[Weakest(window)])
<1> DEFINE Weaker(i, j) ==
             \/ cards[result[i]].score < cards[result[j]].score
             \/ /\ cards[result[i]].score = cards[result[j]].score
                /\ cards[result[i]].position >= cards[result[j]].position
           within == {i \in DOMAIN result : i <= window}
           free   == {i \in within : ~IsRole(result[i])}
           among  == IF free = {} THEN within ELSE free
           U == {I \in SUBSET within : I = {} \/ \E i \in I : \A j \in I : Weaker(i, j)}
<1>1. /\ Len(result) \in Nat /\ Len(result) > 0 /\ DOMAIN result = 1..Len(result)
      /\ \A i \in DOMAIN result : result[i] \in Candidates
  BY ListOf, EmptySeq
<1>2. \A i \in DOMAIN result : cards[result[i]].score \in Int /\ cards[result[i]].position \in Nat
  BY <1>1, Request
<1>3. \A i \in DOMAIN result : Weaker(i, i)
  BY <1>2
<1>4. \A i, j, k \in DOMAIN result : Weaker(i, j) /\ Weaker(j, k) => Weaker(i, k)
  BY <1>2
<1>5. \A i, j \in DOMAIN result : Weaker(i, j) \/ Weaker(j, i)
  BY <1>2
<1>6. Weakest(window) = CHOOSE i \in among : \A j \in among : Weaker(i, j)
  BY Zenon DEF Weakest, Places
<1> HIDE DEF Weaker
<1>7. \A I \in SUBSET within : \A x \in within \ I : I \in U => I \cup {x} \in U
  <2> TAKE I \in SUBSET within
  <2> TAKE x \in within \ I
  <2> HAVE I \in U
  <2>1. CASE I = {}
    BY <1>3, <2>1
  <2>2. CASE I # {}
    <3>1. PICK i \in I : \A j \in I : Weaker(i, j)
      BY <2>2
    <3>2. CASE Weaker(i, x)
      BY <3>1, <3>2
    <3>3. CASE Weaker(x, i)
      <4>1. \A j \in I \cup {x} : Weaker(x, j)
        BY <1>3, <1>4, <3>1, <3>3
      <4> QED BY <4>1
    <3> QED BY <1>5, <3>2, <3>3
  <2> QED BY <2>1, <2>2
<1>8. among \in SUBSET within /\ among # {}
  <2>1. 1 \in within
    BY <1>1
  <2> QED BY <2>1
<1>9. IsFiniteSet(among)
  <2>1. IsFiniteSet(DOMAIN result)
    BY <1>1, FS_Interval
  <2> QED BY <1>8, <2>1, FS_Subset
<1>10. among \in U
  <2>1. {} \in U
    OBVIOUS
  <2>2. \A I \in SUBSET among : \A x \in among \ I : I \in U => I \cup {x} \in U
    BY <1>7, <1>8
  <2> HIDE DEF U, among
  <2> QED BY <1>9, <2>1, <2>2, SetInduction
<1>11. Weakest(window) \in among
  <2>1. PICK i \in among : \A j \in among : Weaker(i, j)
    BY <1>8, <1>10
  <2> HIDE DEF among
  <2> QED BY <1>6, <2>1
<1> HIDE DEF U
<1>12. Weakest(window) \in within
  BY <1>8, <1>11
<1>13. ASSUME NEW i \in DOMAIN result, i <= window, ~IsRole(result[i])
       PROVE  ~IsRole(result[Weakest(window)])
  <2>1. free # {}
    BY <1>13
  <2> QED BY <1>11, <2>1
<1> QED BY <1>12, <1>13

-----------------------------------------------------------------------------
(* A stage leaves the request alone, and what is read of it.               *)
LEMMA SameRequest ==
  ASSUME UNCHANGED cards
  PROVE  /\ Candidates' = Candidates /\ Room' = Room /\ Roles' = Roles /\ Wished' = Wished
         /\ Intermediate' = Intermediate /\ RoleCards' = RoleCards
         /\ Recents' = Recents /\ Recent' = Recent
<1>1. Candidates' = Candidates /\ Room' = Room /\ Intermediate' = Intermediate
  BY DEF Candidates, Room, Intermediate
<1>2. Roles' = Roles /\ Recents' = Recents
  BY DEF Roles, Recents, IsRole
<1>3. RoleCards' = RoleCards /\ Wished' = Wished
  BY <1>1, <1>2 DEF RoleCards, Wished
<1>4. Recent' = Recent
  BY <1>2 DEF Recent, FirstOf
<1> QED BY <1>1, <1>2, <1>3, <1>4

(* Nor does it change what the rules say of a list.                        *)
LEMMA SameRules ==
  ASSUME UNCHANGED cards
  PROVE  /\ Leading(result)' = Leading(result') /\ Leaders(result)' = Leaders(result')
         /\ Held(result, queue)' = Held(result', queue') /\ Held(result, <<>>)' = Held(result', <<>>)
<1>1. Leading(result)' = Leading(result')
  BY DEF Leading, Top, Places, IsRole
<1>2. Leaders(result)' = Leaders(result')
  BY <1>1 DEF Leaders
<1>3. \A i : Forced(result, i)' = Forced(result', i)
  BY DEF Forced, Category, Blocked
<1>4. Held(result, queue)' = Held(result', queue') /\ Held(result, <<>>)' = Held(result', <<>>)
  BY <1>3 DEF Held, Category
<1> QED BY <1>1, <1>2, <1>4

(* A card put over the weakest of a window is shown, and pushes out a role *)
(* model only where there is no other card.                                *)
LEMMA Overwritten ==
  ASSUME cards \in Requests, result \in Seq(Candidates), Distinct(result), result # <<>>,
         NEW window \in Nat, window > 0, NEW c \in Candidates, c \notin Range(result)
  PROVE  LET t == ReplaceWeakest(c, window) IN
         /\ t \in Seq(Candidates) /\ Len(t) = Len(result) /\ Distinct(t) /\ c \in Range(t)
         /\ \E w \in DOMAIN result :
              /\ Leaders(result) \ {result[w]} \subseteq Leaders(t)
              /\ (\E i \in DOMAIN result : i <= window /\ ~IsRole(result[i])) => ~IsRole(result[w])
         /\ IsRole(c) /\ window <= TopWindow => c \in Leaders(t)
<1> DEFINE w == Weakest(window)  t == [result EXCEPT ![w] = c]
<1>1. /\ w \in DOMAIN result /\ w <= window
      /\ \A i \in DOMAIN result : i <= window /\ ~IsRole(result[i]) => ~IsRole(result[w])
  BY WeakestIs
<1> HIDE DEF w
<1>2. /\ t \in Seq(Candidates) /\ Len(t) = Len(result) /\ DOMAIN t = DOMAIN result
      /\ Distinct(t) /\ Range(t) = (Range(result) \ {result[w]}) \cup {c} /\ t[w] = c
      /\ \A k \in DOMAIN result \ {w} : t[k] = result[k]
  BY <1>1, Replaced
<1>3. t = ReplaceWeakest(c, window)
  BY DEF ReplaceWeakest, w
<1> HIDE DEF t
<1>4. Leaders(result) \ {result[w]} \subseteq Leaders(t)
  BY <1>2 DEF Leaders, Leading, Top, Places, IsRole
<1>5. IsRole(c) /\ window <= TopWindow => c \in Leaders(t)
  <2> HAVE IsRole(c) /\ window <= TopWindow
  <2>1. w \in DOMAIN t /\ w <= TopWindow
    <3>1. w \in Nat
      BY <1>1, ListOf
    <3> QED BY <1>1, <1>2, <3>1, Sizes
  <2> QED BY <1>2, <2>1 DEF Leaders, Leading, Top, Places, IsRole
<1> QED BY <1>1, <1>2, <1>3, <1>4, <1>5

(* A role model exchanged with the first other card of the top leads, and  *)
(* so does every one that led before.                                      *)
LEMMA Led ==
  ASSUME cards \in Requests, result \in Seq(Candidates), Distinct(result), Follow(result) # {},
         NEW c \in Roles, c \in Range(result)
  PROVE  LET t == Lead(c) IN
         /\ t \in Seq(Candidates) /\ Len(t) = Len(result) /\ Distinct(t) /\ Range(t) = Range(result)
         /\ Leaders(result) \cup {c} \subseteq Leaders(t)
<1> DEFINE p == Position(result, c)  f == FirstOf(Follow(result))  t == Swapped(result, p, f)
<1>1. p \in DOMAIN result /\ result[p] = c
  BY DEF Position, Places, Range
<1>2. f \in DOMAIN result /\ f <= TopWindow /\ ~IsRole(result[f])
  <2>1. Follow(result) \in SUBSET Nat
    BY ListOf DEF Follow, Top, Places
  <2>2. f \in Follow(result)
    BY <2>1, FirstIs
  <2> QED BY <2>2 DEF Follow, Top, Places
<1> HIDE DEF p, f
<1>3. /\ t \in Seq(Candidates) /\ Len(t) = Len(result) /\ DOMAIN t = DOMAIN result
      /\ Distinct(t) /\ Range(t) = Range(result) /\ t[p] = result[f] /\ t[f] = result[p]
      /\ \A k \in DOMAIN result \ {p, f} : t[k] = result[k]
  BY <1>1, <1>2, Exchanged
<1>4. t = Lead(c)
  BY DEF Lead, p, f
<1> HIDE DEF t
<1>5. c \in Leaders(t)
  BY <1>1, <1>2, <1>3 DEF Leaders, Leading, Top, Places, IsRole, Roles
<1>6. \A k \in Leading(result) : result[k] \in Leaders(t)
  <2> TAKE k \in Leading(result)
  <2>1. k \in DOMAIN result /\ k <= TopWindow /\ IsRole(result[k])
    BY DEF Leading, Top, Places
  <2>2. CASE k \in {p, f}
    BY <1>1, <1>2, <1>5, <2>1, <2>2
  <2>3. CASE k \notin {p, f}
    BY <1>3, <2>1, <2>3 DEF Leaders, Leading, Top, Places, IsRole
  <2> QED BY <2>2, <2>3
<1> QED BY <1>3, <1>4, <1>5, <1>6 DEF Leaders

-----------------------------------------------------------------------------
(* The stages keep the invariant.                                          *)

(* The next one is treated, the others wait.                               *)
LEMMA NextOf ==
  ASSUME NEW S, NEW s \in Seq(S), s # <<>>
  PROVE  /\ Head(s) \in S /\ Head(s) \in Range(s) /\ Tail(s) \in Seq(S)
         /\ Len(s) \in Nat /\ Len(s) > 0 /\ Len(Tail(s)) = Len(s) - 1
         /\ Range(s) = Range(Tail(s)) \cup {Head(s)}
<1>1. Len(s) \in Nat /\ Len(s) > 0
  BY EmptySeq
<1>2. /\ Head(s) \in S /\ Tail(s) \in Seq(S) /\ Len(Tail(s)) = Len(s) - 1
      /\ \A i \in 1 .. Len(Tail(s)) : Tail(s)[i] = s[i + 1]
  BY HeadTailProperties
<1>3. Head(s) = s[1]
  OBVIOUS
<1>4. PICK n \in Nat : n = Len(Tail(s)) /\ Len(s) = n + 1
  <2>1. PICK n \in Nat : Len(s) = n + 1
    <3>1. Len(s) - 1 \in Nat /\ Len(s) = (Len(s) - 1) + 1
      BY <1>1
    <3> QED BY <3>1
  <2>2. Len(Tail(s)) = (n + 1) - 1
    BY <1>2, <2>1
  <2> QED BY <2>1, <2>2, SMTT(30)
<1>5. DOMAIN s = 1..(n + 1) /\ DOMAIN Tail(s) = 1..n
  BY <1>2, <1>4, ListOf
<1>6. Range(s) = Range(Tail(s)) \cup {Head(s)}
  <2>1. ASSUME NEW i \in 1..(n + 1) PROVE s[i] \in Range(Tail(s)) \cup {Head(s)}
    <3>1. CASE i = 1
      BY <1>3, <3>1
    <3>2. CASE i # 1
      <4>1. i - 1 \in 1..n /\ i = (i - 1) + 1
        BY <3>2
      <4>2. Tail(s)[i - 1] = s[i]
        BY <1>2, <1>4, <4>1
      <4> QED BY <1>5, <4>1, <4>2 DEF Range
    <3> QED BY <3>1, <3>2
  <2>2. ASSUME NEW i \in 1..n PROVE Tail(s)[i] \in Range(s)
    <3>1. i + 1 \in 1..(n + 1) /\ Tail(s)[i] = s[i + 1]
      BY <1>2, <1>4
    <3> QED BY <1>5, <3>1 DEF Range
  <2>3. Head(s) \in Range(s)
    <3>1. 1 \in 1..(n + 1)
      OBVIOUS
    <3> QED BY <1>3, <1>5, <3>1 DEF Range
  <2> QED BY <1>5, <2>1, <2>2, <2>3 DEF Range
<1> QED BY <1>1, <1>2, <1>6

(* What is promised of an answer with every place taken.                   *)
LEMMA AnswerRight ==
  ASSUME UNCHANGED cards, cards \in Requests, result' \in Seq(Candidates), Distinct(result'),
         Len(result') = Room, Recents # {} => Recent \in Range(result'),
         Cardinality(Leading(result')) >= Wished
  PROVE  Guaranteed'
<1>1. Whole'
  <2>1. Len(result') = Min({FinalSize, Len(cards')})
    BY DEF Room
  <2> QED BY <2>1, Counted DEF Whole
<1>2. RecentShown'
  BY SameRequest DEF RecentShown, Shown
<1>3. RolesLead'
  <2>1. Cardinality(Leading(result)') >= Wished
    BY SameRules
  <2>2. Wished = Min({RoleTarget, Cardinality(Roles'), Len(result')})
    BY SameRequest DEF Wished
  <2> QED BY <2>1, <2>2 DEF RolesLead
<1> QED BY <1>1, <1>2, <1>3 DEF Guaranteed

(* A request starts with the first candidates of the sorted list.          *)
LEMMA InitRight ==
  ASSUME Init
  PROVE  RInv
<1> USE DEF Init
<1>1. cards \in Requests /\ result = <<>> /\ pool = 1..Intermediate /\ tail = Intermediate
  OBVIOUS
<1>2. Intermediate \in Nat /\ Intermediate <= Len(cards) /\ Candidates = 1..Len(cards) /\ Len(cards) \in Nat
  BY RoomIs, Request
<1>3. Protected \in Seq(Candidates)
  <2>1. RoleCards \in Seq(Candidates)
    BY RolesInOrder
  <2>2. (IF Recents = {} THEN <<>> ELSE <<Recent>>) \in Seq(Candidates)
    <3>1. CASE Recents = {}
      BY <3>1, EmptySeq
    <3>2. CASE Recents # {}
      <4>1. Recent \in Candidates
        BY <3>2, RecentIs
      <4> QED BY <3>2, <4>1
    <3> QED BY <3>1, <3>2
  <2> QED BY <2>1, <2>2, ConcatProperties DEF Protected
<1>4. Typed
  <2>1. pool \in SUBSET Candidates
    BY <1>1, <1>2
  <2>2. result \in Seq(Candidates) /\ Distinct(result)
    BY EmptySeq DEF Distinct
  <2> QED BY <1>3, <2>1, <2>2 DEF Typed
<1>5. Collecting
  <2>1. CASE stage = "protect"
    <3>1. cards # <<>> /\ cards \in Seq(Card)
      BY <2>1, Request
    <3>2. Intermediate > 0
      BY <3>1, EmptySeq, RoomIs
    <3>3. PICK n \in Nat : n = Intermediate
      BY <1>2
    <3>4. Cardinality(1..n) = IF 1 > n THEN 0 ELSE n - 1 + 1
      BY FS_Interval
    <3> QED BY <1>2, <2>1, <3>2, <3>3, <3>4 DEF Collecting
  <2> QED BY <2>1 DEF Collecting
<1>6. Promoting /\ Spacing /\ Restoring
  BY DEF Promoting, Spacing, Restoring
<1>7. Guaranteed
  <2>1. CASE cards = <<>>
    <3>1. Len(cards) = 0 /\ Recents = {} /\ Room = 0
      BY <2>1, RoomIs, Sizes DEF Recents
    <3>2. Len(result) = 0 /\ Range(result) = {} /\ Distinct(result)
      BY DEF Range, Distinct
    <3>3. Whole
      BY <3>1, <3>2, FS_EmptySet DEF Whole, Room
    <3>4. RolesLead
      <4>1. Wished = Min({RoleTarget, Cardinality(Roles), Len(result)})
        BY <3>1, <3>2 DEF Wished
      <4>2. Wished \in Nat /\ Wished <= 0
        BY <3>1, WishedIs
      <4>3. Leading(result) = {}
        BY DEF Leading, Top, Places
      <4> QED BY <4>1, <4>2, <4>3, FS_EmptySet DEF RolesLead
    <3> QED BY <3>1, <3>3, <3>4 DEF Guaranteed, RecentShown
  <2> QED BY <2>1 DEF Guaranteed
<1> QED BY <1>4, <1>5, <1>6, <1>7 DEF RInv

(* Whatever is protected, the pool keeps its size.                         *)
LEMMA ProtectKept ==
  ASSUME RInv, Protect
  PROVE  RInv'
<1>1. /\ cards \in Requests /\ stage = "protect" /\ stage' = "protect" /\ UNCHANGED cards
      /\ pool \in SUBSET Candidates /\ queue \in Seq(Candidates) /\ queue # <<>>
      /\ result = <<>> /\ result' = <<>> /\ tail \in pool /\ Cardinality(pool) = Intermediate
      /\ queue' = Tail(queue)
  BY DEF RInv, Typed, Collecting, Protect
<1>2. Head(queue) \in Candidates /\ queue' \in Seq(Candidates)
  BY <1>1, NextOf
<1>3. pool' \in SUBSET Candidates /\ tail' \in pool' /\ Cardinality(pool') = Intermediate
  <2>1. CASE Head(queue) \in pool
    BY <1>1, <2>1 DEF Protect
  <2>2. CASE Head(queue) \notin pool
    <3>1. pool' = (pool \ {tail}) \cup {Head(queue)} /\ tail' = Head(queue)
      BY <2>2 DEF Protect
    <3>2. IsFiniteSet(pool) /\ Cardinality(pool) \in Nat
      BY <1>1, Request, FS_Subset, FS_CardinalityType
    <3>3. IsFiniteSet(pool \ {tail}) /\ Cardinality(pool \ {tail}) = Cardinality(pool) - 1
      BY <1>1, <3>2, FS_RemoveElement
    <3>4. Cardinality((pool \ {tail}) \cup {Head(queue)}) = Cardinality(pool) - 1 + 1
      BY <2>2, <3>3, FS_AddElement
    <3> QED BY <1>1, <1>2, <3>1, <3>2, <3>4
  <2> QED BY <2>1, <2>2
<1>4. Typed'
  BY <1>1, <1>2, <1>3, SameRequest, EmptySeq DEF Typed, Distinct
<1>5. Collecting'
  BY <1>1, <1>3, SameRequest DEF Collecting
<1>6. Promoting' /\ Spacing' /\ Restoring' /\ Guaranteed'
  BY <1>1 DEF Promoting, Spacing, Restoring, Guaranteed
<1> QED BY <1>4, <1>5, <1>6 DEF RInv

(* MMR starts with nothing chosen.                                         *)
LEMMA StartMmrKept ==
  ASSUME RInv, StartMmr
  PROVE  RInv'
<1>1. /\ cards \in Requests /\ stage = "protect" /\ stage' = "mmr" /\ UNCHANGED cards
      /\ pool' \in SUBSET Candidates /\ queue' = <<>>
      /\ result' = <<>> /\ Cardinality(pool') = Intermediate
  BY DEF RInv, Typed, Collecting, StartMmr, Goto
<1>2. Typed'
  BY <1>1, SameRequest, EmptySeq DEF Typed, Distinct
<1>3. Collecting'
  <2>1. Len(result') = 0 /\ Range(result') = {}
    BY <1>1 DEF Range
  <2>2. Room' \in Nat /\ Intermediate' \in Nat
    BY <1>1, SameRequest, RoomIs
  <2> QED BY <1>1, <2>1, <2>2, SameRequest DEF Collecting
<1>4. Promoting' /\ Spacing' /\ Restoring' /\ Guaranteed'
  BY <1>1 DEF Promoting, Spacing, Restoring, Guaranteed
<1> QED BY <1>2, <1>3, <1>4 DEF RInv

(* What MMR chooses leaves the pool.                                       *)
LEMMA PickKept ==
  ASSUME RInv, Pick
  PROVE  RInv'
<1>1. /\ cards \in Requests /\ stage = "mmr" /\ stage' = "mmr" /\ UNCHANGED <<cards, queue>>
      /\ pool \in SUBSET Candidates /\ queue \in Seq(Candidates)
      /\ result \in Seq(Candidates) /\ Distinct(result) /\ Wanted
      /\ Len(result) + Cardinality(pool) = Intermediate /\ pool \cap Range(result) = {}
  BY DEF RInv, Typed, Collecting, Pick
<1>2. PICK c \in pool : result' = Append(result, c) /\ pool' = pool \ {c}
  BY DEF Pick
<1>3. c \in Candidates /\ c \notin Range(result)
  BY <1>1
<1>4. /\ result' \in Seq(Candidates) /\ Len(result') = Len(result) + 1 /\ Distinct(result')
      /\ Range(result') = Range(result) \cup {c}
  BY <1>1, <1>2, <1>3, Appended
<1>5. Typed'
  BY <1>1, <1>2, <1>4, SameRequest DEF Typed
<1>6. Collecting'
  <2>1. IsFiniteSet(pool) /\ Cardinality(pool) \in Nat /\ Cardinality(pool') = Cardinality(pool) - 1
    BY <1>1, <1>2, Request, FS_Subset, FS_CardinalityType, FS_RemoveElement
  <2>2. Len(result) \in Nat /\ Len(result) < Room /\ Room \in Nat
    BY <1>1, ListOf, RoomIs DEF Wanted, Room
  <2>3. Len(result') <= Room /\ Len(result') + Cardinality(pool') = Intermediate
    BY <1>1, <1>4, <2>1, <2>2, SMTT(30)
  <2>4. pool' \cap Range(result') = {}
    BY <1>1, <1>2, <1>4
  <2> QED BY <1>1, <2>3, <2>4, SameRequest DEF Collecting
<1>7. Promoting' /\ Spacing' /\ Restoring' /\ Guaranteed'
  BY <1>1 DEF Promoting, Spacing, Restoring, Guaranteed
<1> QED BY <1>5, <1>6, <1>7 DEF RInv

(* The recent completion takes a place, so that the feed stays as long.    *)
LEMMA GuaranteeRecentKept ==
  ASSUME RInv, GuaranteeRecent
  PROVE  RInv'
<1>1. /\ cards \in Requests /\ stage = "mmr" /\ stage' = "promote" /\ UNCHANGED <<cards, pool>>
      /\ pool \in SUBSET Candidates /\ queue' = RoleCards
      /\ result \in Seq(Candidates) /\ Distinct(result) /\ ~Wanted
      /\ Len(result) <= Room /\ Len(result) + Cardinality(pool) = Intermediate
  BY DEF RInv, Typed, Collecting, GuaranteeRecent, Goto
<1>2. Len(result) = Room
  <2>1. Len(result) \in Nat /\ Room \in Nat /\ Room <= Intermediate /\ Intermediate \in Nat
    BY <1>1, ListOf, RoomIs
  <2>2. CASE pool = {}
    BY <1>1, <2>1, <2>2, FS_EmptySet
  <2>3. CASE pool # {}
    BY <1>1, <2>1, <2>3 DEF Wanted, Room
  <2> QED BY <2>2, <2>3
<1>3. result' \in Seq(Candidates) /\ Len(result') = Room /\ Distinct(result')
  <2>1. CASE Recents # {} /\ Recents \cap Range(result) = {}
    <3>1. Recent \in Candidates /\ Recent \in Recents /\ Room > 0 /\ Room \in Nat
      BY <1>1, <2>1, RecentIs, RoomIs
    <3>2. Recent \notin Range(result) /\ result # <<>>
      BY <1>2, <2>1, <3>1, EmptySeq
    <3>3. result' = ReplaceWeakest(Recent, Len(result))
      BY <2>1 DEF GuaranteeRecent
    <3> QED BY <1>1, <1>2, <3>1, <3>2, <3>3, Overwritten
  <2>2. CASE ~(Recents # {} /\ Recents \cap Range(result) = {})
    <3>1. result' = result
      BY <2>2 DEF GuaranteeRecent
    <3> QED BY <1>1, <1>2, <3>1
  <2> QED BY <2>1, <2>2
<1>4. Typed'
  <2>1. RoleCards \in Seq(Candidates)
    BY <1>1, RolesInOrder
  <2> QED BY <1>1, <1>3, <2>1, SameRequest DEF Typed
<1>5. Promoting'
  <2>1. Range(queue') = Roles
    BY <1>1, RolesInOrder
  <2>2. Len(result') = Room' /\ Range(queue') \subseteq Roles' /\ Roles' \ Range(queue') = {}
    BY <1>1, <1>3, <2>1, SameRequest
  <2> QED BY <2>2 DEF Promoting
<1>6. Collecting' /\ Spacing' /\ Restoring' /\ Guaranteed'
  BY <1>1 DEF Collecting, Spacing, Restoring, Guaranteed
<1> QED BY <1>4, <1>5, <1>6 DEF RInv

(* Where there are not enough role models in the top, another card is.     *)
LEMMA NotEnough ==
  ASSUME cards \in Requests, result \in Seq(Candidates), Distinct(result), Len(result) = Room, ~Enough
  PROVE  Follow(result) # {}
<1>1. Target = Wished /\ Wished \in Nat
  BY WishedIs
<1>2. Cardinality(Leading(result)) \in Nat
  BY LeadersCounted
<1> QED BY <1>1, <1>2, FullTop DEF Enough

(* A role model that has its turn leads, and those that led still do.      *)
LEMMA PromoteRoleKept ==
  ASSUME RInv, PromoteRole
  PROVE  RInv'
<1> DEFINE h == Head(queue)
<1>1. /\ cards \in Requests /\ stage = "promote" /\ stage' = "promote" /\ UNCHANGED <<cards, pool>>
      /\ pool \in SUBSET Candidates /\ queue \in Seq(Candidates) /\ queue # <<>>
      /\ queue' = Tail(queue) /\ result \in Seq(Candidates) /\ Distinct(result)
      /\ ~Enough /\ Len(result) = Room
      /\ Range(queue) \subseteq Roles /\ Roles \ Range(queue) \subseteq Leaders(result)
  BY DEF RInv, Typed, Promoting, PromoteRole
<1>2. /\ h \in Candidates /\ h \in Roles /\ queue' \in Seq(Candidates)
      /\ Range(queue) = Range(queue') \cup {h}
  BY <1>1, NextOf
<1>3. Follow(result) # {}
  BY <1>1, NotEnough
<1>4. /\ result' \in Seq(Candidates) /\ Len(result') = Room /\ Distinct(result')
      /\ Leaders(result) \cup {h} \subseteq Leaders(result')
  <2>1. CASE h \in Range(result)
    <3>1. result' = Lead(h)
      BY <2>1 DEF PromoteRole, Shown
    <3> QED BY <1>1, <1>2, <1>3, <2>1, <3>1, Led
  <2>2. CASE h \notin Range(result)
    <3>1. result' = ReplaceWeakest(h, TopWindow)
      BY <2>2 DEF PromoteRole, Shown
    <3>2. PICK i \in DOMAIN result : i <= TopWindow /\ ~IsRole(result[i])
      BY <1>3 DEF Follow, Top, Places
    <3>3. result # <<>> /\ IsRole(h)
      BY <1>2, <3>2 DEF Roles
    <3>4. /\ result' \in Seq(Candidates) /\ Len(result') = Len(result) /\ Distinct(result')
          /\ IsRole(h) /\ TopWindow <= TopWindow => h \in Leaders(result')
          /\ \E w \in DOMAIN result :
              /\ Leaders(result) \ {result[w]} \subseteq Leaders(result')
              /\ (\E k \in DOMAIN result : k <= TopWindow /\ ~IsRole(result[k])) => ~IsRole(result[w])
      BY <1>1, <1>2, <2>2, <3>1, <3>3, Overwritten, Sizes
    <3>5. PICK w \in DOMAIN result :
              Leaders(result) \ {result[w]} \subseteq Leaders(result') /\ ~IsRole(result[w])
      BY <3>2, <3>4
    <3>6. result[w] \notin Leaders(result)
      BY <3>5 DEF Leaders, Leading
    <3> QED BY <1>1, <3>3, <3>4, <3>5, <3>6, Sizes
  <2> QED BY <2>1, <2>2
<1>5. Typed'
  BY <1>1, <1>2, <1>4, SameRequest DEF Typed
<1>6. Promoting'
  <2>1. Range(queue') \subseteq Roles /\ Roles \ Range(queue') \subseteq Leaders(result')
    BY <1>1, <1>2, <1>4
  <2>2. Leaders(result)' = Leaders(result')
    BY <1>1, SameRules
  <2> QED BY <1>1, <1>4, <2>1, <2>2, SameRequest DEF Promoting
<1>7. Collecting' /\ Spacing' /\ Restoring' /\ Guaranteed'
  BY <1>1 DEF Collecting, Spacing, Restoring, Guaranteed
<1> QED BY <1>5, <1>6, <1>7 DEF RInv

(* When promotion ends the feed has its role models: the loop gave every   *)
(* one its turn or stopped at enough.                                      *)
LEMMA StartSpacingKept ==
  ASSUME RInv, StartSpacing
  PROVE  RInv'
<1>1. /\ cards \in Requests /\ stage = "promote" /\ stage' = "space" /\ UNCHANGED <<cards, pool>>
      /\ pool \in SUBSET Candidates /\ queue' = result /\ result' = <<>>
      /\ result \in Seq(Candidates) /\ Distinct(result) /\ Len(result) = Room
      /\ Roles \ Range(queue) \subseteq Leaders(result) /\ (queue = <<>> \/ Enough)
  BY DEF RInv, Typed, Promoting, StartSpacing, Goto
<1>2. Wished \in Nat /\ Wished <= Cardinality(Roles) /\ Target = Wished
  BY <1>1, WishedIs
<1>3. /\ Cardinality(Leading(result)) \in Nat /\ Leaders(result) \in SUBSET (Roles \cap Range(result))
      /\ Cardinality(Leaders(result)) = Cardinality(Leading(result))
  BY <1>1, LeadersCounted
<1>4. Cardinality(Leading(result)) >= Wished
  <2>1. CASE queue = <<>>
    <3>1. Roles \in SUBSET Leaders(result)
      BY <1>1, <2>1 DEF Range
    <3>2. Cardinality(Roles) \in Nat /\ Cardinality(Roles) <= Cardinality(Leading(result))
      BY <1>1, <3>1, LeadAtLeast
    <3> QED BY <1>2, <1>3, <3>2
  <2>2. CASE Enough
    BY <1>2, <2>2 DEF Enough
  <2> QED BY <1>1, <2>1, <2>2
<1>5. Cardinality(Roles \cap Range(result)) >= Wished
  <2>1. IsFiniteSet(Roles \cap Range(result)) /\ Cardinality(Roles \cap Range(result)) \in Nat
    <3>1. Roles \cap Range(result) \in SUBSET Roles
      OBVIOUS
    <3> QED BY <1>1, <3>1, Request, FS_Subset, FS_CardinalityType
  <2>2. Cardinality(Leaders(result)) <= Cardinality(Roles \cap Range(result))
    BY <1>3, <2>1, FS_Subset
  <2> QED BY <1>2, <1>3, <1>4, <2>1, <2>2
<1>6. Typed'
  BY <1>1, SameRequest, EmptySeq DEF Typed, Distinct
<1>7. Spacing'
  <2>1. Range(result') = {} /\ Len(result') = 0 /\ Len(result) \in Nat
    BY <1>1, ListOf DEF Range
  <2>2. Distinct(queue') /\ Range(queue') \cap Range(result') = {} /\ Len(queue') + Len(result') = Room
    BY <1>1, <2>1
  <2>3. Range(queue') \cup Range(result') = Range(result)
    BY <1>1, <2>1
  <2>4. Held(result', queue')
    BY <1>1 DEF Held
  <2> QED BY <1>1, <1>5, <2>2, <2>3, <2>4, SameRequest, SameRules DEF Spacing
<1>8. Collecting' /\ Promoting' /\ Restoring' /\ Guaranteed'
  BY <1>1 DEF Collecting, Promoting, Restoring, Guaranteed
<1> QED BY <1>6, <1>7, <1>8 DEF RInv

(* A card appended changes no beginning of the list.                       *)
LEMMA SameBeginning ==
  ASSUME NEW S, NEW s \in Seq(S), NEW c \in S, NEW k \in 1..(Len(s) + 1)
  PROVE  SubSeq(Append(s, c), 1, k - 1) = SubSeq(s, 1, k - 1)
<1> DEFINE t == Append(s, c)
<1>1. PICK n \in Nat : n = Len(s)
  BY ListOf
<1>2. PICK m \in Int : m = k - 1 /\ m >= 0 /\ m <= n
  BY <1>1
<1>3. \A i \in 1..m : t[i] = s[i] /\ s[i] \in S
  BY <1>1, <1>2, AppendProperties, ListOf
<1> HIDE DEF t
<1>4. /\ SubSeq(t, 1, m) \in Seq(S) /\ Len(SubSeq(t, 1, m)) = IF 1 <= m THEN m - 1 + 1 ELSE 0
      /\ \A i \in 1..(m - 1 + 1) : SubSeq(t, 1, m)[i] = t[1 + i - 1]
  BY <1>3, SubSeqProperties
<1>5. /\ SubSeq(s, 1, m) \in Seq(S) /\ Len(SubSeq(s, 1, m)) = IF 1 <= m THEN m - 1 + 1 ELSE 0
      /\ \A i \in 1..(m - 1 + 1) : SubSeq(s, 1, m)[i] = s[1 + i - 1]
  BY <1>3, SubSeqProperties
<1>6. m = Len(SubSeq(t, 1, m)) /\ m = Len(SubSeq(s, 1, m)) /\ m - 1 + 1 = m
  BY <1>2, <1>4, <1>5
<1>7. \A i \in 1..m : SubSeq(t, 1, m)[i] = SubSeq(s, 1, m)[i]
  <2> TAKE i \in 1..m
  <2>1. 1 + i - 1 = i /\ i \in 1..(m - 1 + 1)
    BY <1>2
  <2>2. SubSeq(t, 1, m)[i] = t[i] /\ SubSeq(s, 1, m)[i] = s[i]
    BY <1>4, <1>5, <2>1
  <2> QED BY <1>3, <2>2
<1>8. SubSeq(t, 1, m) = SubSeq(s, 1, m)
  BY <1>4, <1>5, <1>6, <1>7, SeqEqual
<1> QED BY <1>2, <1>8 DEF t

(* At most one category may not come next.                                 *)
LEMMA BlockedOne ==
  ASSUME NEW s \in Seq(Candidates), NEW g \in Blocked(s), NEW h \in Blocked(s)
  PROVE  g = h
<1>1. Len(s) \in Nat /\ Len(s) >= MaxRun
  BY ListOf DEF Blocked
<1>2. Len(s) \in Len(s) - MaxRun + 1 .. Len(s)
  BY <1>1, Sizes
<1> QED BY <1>2 DEF Blocked

(* The card taken next breaks the rule only if every waiting one would.    *)
LEMMA NextIs ==
  ASSUME cards \in Requests, NEW s \in Seq(Candidates), NEW q \in Seq(Candidates), q # <<>>
  PROVE  LET i == NextPlace(q, s) IN
         /\ i \in DOMAIN q
         /\ Category(q[i]) \in Blocked(s) => \A j \in DOMAIN q : Category(q[j]) \in Blocked(s)
<1>1. Allowed(q, s) \in SUBSET DOMAIN q /\ DOMAIN q \in SUBSET Nat /\ 1 \in DOMAIN q
  BY ListOf, EmptySeq DEF Allowed, Places
<1>2. CASE Allowed(q, s) = {}
  BY <1>1, <1>2 DEF NextPlace, Allowed, Places, Category
<1>3. CASE Allowed(q, s) # {}
  <2>1. NextPlace(q, s) \in Allowed(q, s)
    BY <1>1, <1>3, FirstIs DEF NextPlace
  <2> QED BY <2>1 DEF Allowed, Places, Category
<1> QED BY <1>2, <1>3

(* Spacing goes on holding when the next card is placed.                   *)
LEMMA HeldOn ==
  ASSUME cards \in Requests, NEW s \in Seq(Candidates), NEW q \in Seq(Candidates),
         NEW i \in DOMAIN q, NEW t \in Seq(Candidates), NEW r \in Seq(Candidates),
         t = Append(s, q[i]), Range(r) \subseteq Range(q), Held(s, q),
         Category(q[i]) \in Blocked(s) => \A j \in DOMAIN q : Category(q[j]) \in Blocked(s)
  PROVE  Held(t, r)
<1> PICK n \in Nat : n = Len(s)
  BY ListOf
<1>1. q[i] \in Candidates /\ \A j \in DOMAIN r : \E k \in DOMAIN q : r[j] = q[k]
  <2>1. \A j \in DOMAIN r : r[j] \in Range(q)
    BY ListOf
  <2> QED BY <2>1, ListOf DEF Range
<1>2. /\ DOMAIN t = 1..(n + 1) /\ DOMAIN s = 1..n /\ t[n + 1] = q[i]
      /\ \A k \in 1..n : t[k] = s[k]
  BY <1>1, AppendProperties, ListOf
<1>3. \A k \in 1..n : Forced(t, k) = Forced(s, k)
  <2> TAKE k \in 1..n
  <2>1. SubSeq(t, 1, k - 1) = SubSeq(s, 1, k - 1)
    BY <1>1, SameBeginning
  <2> QED BY <1>2, <2>1 DEF Forced
<1>4. Forced(t, n + 1) => Category(q[i]) \in Blocked(s)
  <2>1. SubSeq(t, 1, (n + 1) - 1) = SubSeq(s, 1, (n + 1) - 1)
    BY <1>1, SameBeginning
  <2>2. SubSeq(s, 1, (n + 1) - 1) = s
    BY SubSeqFull
  <2> QED BY <1>2, <2>1, <2>2 DEF Forced
<1>5. ASSUME NEW k \in DOMAIN t, Forced(t, k)
      PROVE  /\ \A j \in DOMAIN t : j >= k => Category(t[j]) = Category(t[k])
             /\ \A j \in DOMAIN r : Category(r[j]) = Category(t[k])
  <2>1. CASE k \in 1..n
    <3>1. /\ \A j \in 1..n : j >= k => Category(s[j]) = Category(s[k])
          /\ \A j \in DOMAIN q : Category(q[j]) = Category(s[k])
      BY <1>2, <1>3, <1>5, <2>1 DEF Held
    <3> QED BY <1>1, <1>2, <2>1, <3>1
  <2>2. CASE k = n + 1
    <3>1. Category(q[i]) \in Blocked(s) /\ \A j \in DOMAIN q : Category(q[j]) \in Blocked(s)
      BY <1>4, <1>5, <2>2
    <3>2. \A j \in DOMAIN q : Category(q[j]) = Category(q[i])
      BY <3>1, BlockedOne
    <3> QED BY <1>1, <1>2, <2>2, <3>2
  <2> QED BY <1>2, <2>1, <2>2
<1> QED BY <1>5 DEF Held

(* A placed card moves from what waits to the feed.                        *)
LEMMA PlaceKept ==
  ASSUME RInv, Place
  PROVE  RInv'
<1> DEFINE i == NextPlace(queue, result)  c == queue[i]
<1>1. /\ cards \in Requests /\ stage = "space" /\ stage' = "space" /\ UNCHANGED <<cards, pool>>
      /\ pool \in SUBSET Candidates /\ queue \in Seq(Candidates) /\ queue # <<>>
      /\ result \in Seq(Candidates) /\ Distinct(result) /\ Distinct(queue)
      /\ Range(queue) \cap Range(result) = {} /\ Len(queue) + Len(result) = Room
      /\ Cardinality(Roles \cap (Range(queue) \cup Range(result))) >= Wished
      /\ Held(result, queue)
      /\ result' = Append(result, c) /\ queue' = RemoveAt(queue, i)
  BY DEF RInv, Typed, Spacing, Place
<1>2. /\ i \in DOMAIN queue
      /\ Category(c) \in Blocked(result) => \A j \in DOMAIN queue : Category(queue[j]) \in Blocked(result)
  BY <1>1, NextIs
<1>3. c \in Candidates /\ c \in Range(queue) /\ c \notin Range(result)
  BY <1>1, <1>2, ListOf
<1> HIDE DEF i
<1>4. /\ queue' \in Seq(Candidates) /\ Len(queue') = Len(queue) - 1
      /\ Distinct(queue') /\ Range(queue') = Range(queue) \ {c}
  BY <1>1, <1>2, Removed
<1>5. /\ result' \in Seq(Candidates) /\ Len(result') = Len(result) + 1
      /\ Distinct(result') /\ Range(result') = Range(result) \cup {c}
  BY <1>1, <1>3, Appended
<1>6. Held(result', queue')
  BY <1>1, <1>2, <1>4, <1>5, HeldOn
<1>7. Typed'
  BY <1>1, <1>4, <1>5, SameRequest DEF Typed
<1>8. Spacing'
  <2>1. Len(queue') + Len(result') = Room
    <3>1. Len(queue) \in Nat /\ Len(result) \in Nat
      BY <1>1, ListOf
    <3> QED BY <1>1, <1>4, <1>5, <3>1
  <2>2. Range(queue') \cap Range(result') = {}
    BY <1>1, <1>3, <1>4, <1>5
  <2>3. Range(queue') \cup Range(result') = Range(queue) \cup Range(result)
    BY <1>3, <1>4, <1>5
  <2> QED BY <1>1, <1>4, <1>6, <2>1, <2>2, <2>3, SameRequest, SameRules DEF Spacing
<1>9. Collecting' /\ Promoting' /\ Restoring' /\ Guaranteed'
  BY <1>1 DEF Collecting, Promoting, Restoring, Guaranteed
<1> QED BY <1>7, <1>8, <1>9 DEF RInv

(* When nothing waits any more, every role model waits to be led back.     *)
LEMMA EndSpacingKept ==
  ASSUME RInv, EndSpacing
  PROVE  RInv'
<1>1. /\ cards \in Requests /\ stage = "space" /\ stage' = "restore" /\ UNCHANGED <<cards, pool, result>>
      /\ pool \in SUBSET Candidates /\ queue = <<>> /\ queue' = RoleCards
      /\ result \in Seq(Candidates) /\ Distinct(result) /\ Len(queue) + Len(result) = Room
      /\ Cardinality(Roles \cap (Range(queue) \cup Range(result))) >= Wished
      /\ Held(result, queue)
  BY DEF RInv, Typed, Spacing, EndSpacing, Goto
<1>2. /\ RoleCards \in Seq(Candidates) /\ Range(RoleCards) = Roles /\ Len(RoleCards) \in Nat
  BY <1>1, RolesInOrder, Request
<1>3. Typed'
  BY <1>1, <1>2, SameRequest DEF Typed
<1>4. Restoring'
  <2>1. Len(result') = Room
    BY <1>1, ListOf
  <2>2. Range(queue) = {}
    BY <1>1 DEF Range
  <2>3. Cardinality(Roles \cap Range(result')) >= Wished
    BY <1>1, <2>2
  <2>4. Range(queue') \subseteq Roles /\ (Roles \cap Range(result')) \ Range(queue') = {}
    BY <1>1, <1>2
  <2>5. Len(queue') <= Len(RoleCards)
    BY <1>1, <1>2
  <2>6. Held(result', <<>>)
    BY <1>1
  <2> QED BY <1>1, <2>1, <2>3, <2>4, <2>5, <2>6, SameRequest, SameRules DEF Restoring
<1>5. Collecting' /\ Promoting' /\ Spacing' /\ Guaranteed'
  BY <1>1 DEF Collecting, Promoting, Spacing, Guaranteed
<1> QED BY <1>3, <1>4, <1>5 DEF RInv

(* A role model that the spacing pushed out of the top leads again.        *)
LEMMA RestoreRoleKept ==
  ASSUME RInv, RestoreRole
  PROVE  RInv'
<1> DEFINE h == Head(queue)
<1>1. /\ cards \in Requests /\ stage = "restore" /\ stage' = "restore" /\ UNCHANGED <<cards, pool>>
      /\ pool \in SUBSET Candidates /\ queue \in Seq(Candidates) /\ queue # <<>>
      /\ queue' = Tail(queue) /\ result \in Seq(Candidates) /\ Distinct(result)
      /\ Len(result) = Room /\ Cardinality(Roles \cap Range(result)) >= Wished
      /\ Range(queue) \subseteq Roles /\ (Roles \cap Range(result)) \ Range(queue) \subseteq Leaders(result)
      /\ Len(queue) <= Len(RoleCards)
  BY DEF RInv, Typed, Restoring, RestoreRole
<1>2. /\ h \in Candidates /\ h \in Roles /\ queue' \in Seq(Candidates)
      /\ Range(queue) = Range(queue') \cup {h}
      /\ Len(queue) \in Nat /\ Len(queue') = Len(queue) - 1
  BY <1>1, NextOf
<1>3. /\ result' \in Seq(Candidates) /\ Len(result') = Room /\ Distinct(result')
      /\ Range(result') = Range(result) /\ Leaders(result) \subseteq Leaders(result')
      /\ h \in Range(result) => h \in Leaders(result')
  <2>1. CASE Shown(h) /\ Position(result, h) > TopWindow
    <3>1. Follow(result) # {} /\ result' = Lead(h) /\ h \in Range(result)
      BY <2>1 DEF RestoreRole, Shown
    <3> QED BY <1>1, <1>2, <3>1, Led
  <2>2. CASE ~(Shown(h) /\ Position(result, h) > TopWindow)
    <3>1. result' = result
      BY <2>2 DEF RestoreRole
    <3>2. ASSUME h \in Range(result) PROVE h \in Leaders(result)
      <4>1. Position(result, h) \in DOMAIN result /\ result[Position(result, h)] = h
        BY <3>2 DEF Position, Places, Range
      <4>2. Position(result, h) <= TopWindow
        <5>1. Position(result, h) \in Nat
          BY <1>1, <4>1, ListOf
        <5> QED BY <2>2, <3>2, <5>1, Sizes DEF Shown
      <4> QED BY <1>2, <4>1, <4>2 DEF Leaders, Leading, Top, Places, Roles
    <3> QED BY <1>1, <3>1, <3>2
  <2> QED BY <2>1, <2>2
<1>4. Typed'
  BY <1>1, <1>2, <1>3, SameRequest DEF Typed
<1>5. Restoring'
  <2>1. Cardinality(Roles \cap Range(result')) >= Wished
    BY <1>1, <1>3
  <2>2. Range(queue') \subseteq Roles /\ (Roles \cap Range(result')) \ Range(queue') \subseteq Leaders(result')
    BY <1>1, <1>2, <1>3
  <2>3. Len(queue') < Len(RoleCards) /\ Len(queue') \in Int /\ Len(RoleCards) \in Int
    BY <1>1, <1>2, RolesInOrder, Request
  <2>4. Len(queue') # Len(RoleCards) /\ Len(queue') <= Len(RoleCards)
    BY <2>3
  <2> QED BY <1>1, <1>3, <2>1, <2>2, <2>4, SameRequest, SameRules DEF Restoring
<1>6. Collecting' /\ Promoting' /\ Spacing' /\ Guaranteed'
  BY <1>1 DEF Collecting, Promoting, Spacing, Guaranteed
<1> QED BY <1>4, <1>5, <1>6 DEF RInv

(* The answer keeps enough role models though the recent completion pushes *)
(* one out: only a top full of them loses one, and it has one to spare.    *)
LEMMA AnswerKept ==
  ASSUME RInv, Answer
  PROVE  RInv'
<1>1. /\ cards \in Requests /\ stage = "restore" /\ stage' = "done" /\ UNCHANGED <<cards, pool>>
      /\ pool \in SUBSET Candidates /\ queue' = <<>> /\ (queue = <<>> \/ Enough)
      /\ result \in Seq(Candidates) /\ Distinct(result)
      /\ Len(result) = Room /\ Cardinality(Roles \cap Range(result)) >= Wished
      /\ (Roles \cap Range(result)) \ Range(queue) \subseteq Leaders(result)
  BY DEF RInv, Typed, Restoring, Answer, Goto
<1>2. Wished \in Nat /\ Wished <= RoleTarget /\ Wished < TopWindow /\ Target = Wished
  BY <1>1, WishedIs
<1>3. /\ IsFiniteSet(Leaders(result)) /\ Leaders(result) \in SUBSET (Roles \cap Range(result))
      /\ Cardinality(Leading(result)) \in Nat
      /\ Cardinality(Leaders(result)) = Cardinality(Leading(result))
  BY <1>1, LeadersCounted
<1>4. Cardinality(Leading(result)) >= Wished
  <2>1. CASE queue = <<>>
    <3>1. Roles \cap Range(result) \in SUBSET Leaders(result)
      BY <1>1, <2>1 DEF Range
    <3>2. /\ Cardinality(Roles \cap Range(result)) \in Nat
          /\ Cardinality(Roles \cap Range(result)) <= Cardinality(Leading(result))
      BY <1>1, <3>1, LeadAtLeast
    <3> QED BY <1>1, <1>2, <1>3, <3>2
  <2>2. CASE Enough
    BY <1>2, <2>2 DEF Enough
  <2> QED BY <1>1, <2>1, <2>2
<1>5. /\ result' \in Seq(Candidates) /\ Len(result') = Room /\ Distinct(result')
      /\ Recents # {} => Recent \in Range(result')
      /\ Cardinality(Leading(result')) >= Wished
  <2>1. CASE Recents = {} \/ Shown(Recent)
    <3>1. result' = result
      BY <2>1 DEF Answer
    <3> QED BY <1>1, <1>4, <2>1, <3>1 DEF Shown
  <2>2. CASE ~(Recents = {} \/ Shown(Recent))
    <3>1. /\ Recents # {} /\ Recent \notin Range(result) /\ result' = ReplaceWeakest(Recent, Len(result))
      BY <2>2 DEF Answer, Shown
    <3>2. Recent \in Candidates /\ Len(cards) > 0
      BY <1>1, <3>1, RecentIs
    <3>3. Len(result) \in Nat /\ Len(result) > 0 /\ result # <<>>
      BY <1>1, <3>2, RoomIs, EmptySeq
    <3>4. /\ result' \in Seq(Candidates) /\ Len(result') = Len(result) /\ Distinct(result')
          /\ Recent \in Range(result')
          /\ \E w \in DOMAIN result :
              /\ Leaders(result) \ {result[w]} \subseteq Leaders(result')
              /\ (\E i \in DOMAIN result : i <= Len(result) /\ ~IsRole(result[i])) => ~IsRole(result[w])
      BY <1>1, <3>1, <3>2, <3>3, Overwritten
    <3>5. PICK w \in DOMAIN result :
              /\ Leaders(result) \ {result[w]} \subseteq Leaders(result')
              /\ (\E i \in DOMAIN result : i <= Len(result) /\ ~IsRole(result[i])) => ~IsRole(result[w])
      BY <3>4
    <3>6. Cardinality(Leading(result')) >= Wished
      <4>1. CASE \E i \in DOMAIN result : ~IsRole(result[i])
        <5>1. ~IsRole(result[w])
          <6>1. \A i \in DOMAIN result : i <= Len(result)
            BY <1>1, <3>3, ListOf
          <6> QED BY <3>5, <4>1, <6>1
        <5>2. result[w] \notin Leaders(result)
          BY <5>1 DEF Leaders, Leading
        <5>3. Leaders(result) \in SUBSET Leaders(result')
          BY <3>5, <5>2
        <5>4. Cardinality(Leaders(result)) <= Cardinality(Leading(result'))
          BY <1>1, <3>4, <5>3, LeadAtLeast
        <5>5. Cardinality(Leading(result')) \in Nat
          BY <1>1, <3>4, LeadersCounted
        <5> QED BY <1>2, <1>3, <1>4, <5>4, <5>5
      <4>2. CASE \A i \in DOMAIN result : IsRole(result[i])
        <5>1. Leading(result) = Top(result)
          BY <4>2 DEF Leading, Top, Places
        <5>2. TopWindow <= Room
          <6>1. SUFFICES ASSUME Room < TopWindow PROVE FALSE
            BY <1>1, RoomIs, Sizes
          <6>2. Room = Len(cards)
            BY <1>1, <6>1, RoomIs
          <6>3. Cardinality(Range(result)) = Cardinality(Candidates)
            BY <1>1, <6>2, Counted, Request
          <6>4. Range(result) \in SUBSET Candidates /\ IsFiniteSet(Candidates)
            BY <1>1, ListOf, Request
          <6>5. Range(result) = Candidates
            BY <6>3, <6>4, FS_Subset
          <6> QED BY <3>1, <3>2, <6>5
        <5>3. Cardinality(Leading(result)) = TopWindow
          BY <1>1, <5>1, <5>2, TopSize
        <5>4. Cardinality(Leaders(result) \ {result[w]}) >= TopWindow - 1
          <6>1. Cardinality(Leaders(result) \ {result[w]}) =
                  IF result[w] \in Leaders(result) THEN TopWindow - 1 ELSE TopWindow
            BY <1>3, <5>3, FS_RemoveElement
          <6> QED BY <6>1, Sizes
        <5>5. /\ Cardinality(Leaders(result) \ {result[w]}) \in Nat
              /\ Cardinality(Leaders(result) \ {result[w]}) <= Cardinality(Leading(result'))
          BY <1>1, <3>4, <3>5, LeadAtLeast
        <5>6. Cardinality(Leading(result')) \in Nat
          BY <1>1, <3>4, LeadersCounted
        <5> QED BY <1>2, <5>4, <5>5, <5>6, Sizes
      <4> QED BY <4>1, <4>2
    <3> QED BY <1>1, <3>4, <3>6
  <2> QED BY <2>1, <2>2
<1>6. Typed'
  BY <1>1, <1>5, SameRequest, EmptySeq DEF Typed
<1>7. Guaranteed'
  BY <1>1, <1>5, AnswerRight
<1>8. Collecting' /\ Promoting' /\ Spacing' /\ Restoring'
  BY <1>1 DEF Collecting, Promoting, Spacing, Restoring
<1> QED BY <1>6, <1>7, <1>8 DEF RInv

(* A step that changes nothing keeps what held.                            *)
LEMMA NothingChanged ==
  ASSUME RInv, UNCHANGED vars
  PROVE  RInv'
<1>1. UNCHANGED <<cards, stage, pool, tail, queue, result>>
  BY DEF vars
<1>2. Typed' /\ Collecting'
  BY <1>1, SameRequest DEF RInv, Typed, Collecting
<1>3. Promoting' /\ Spacing' /\ Restoring'
  BY <1>1, SameRequest, SameRules DEF RInv, Promoting, Spacing, Restoring
<1>4. Guaranteed'
  <2>1. SUFFICES ASSUME stage' = "done" PROVE Whole' /\ RecentShown' /\ RolesLead'
    BY DEF Guaranteed
  <2>2. Whole /\ RecentShown /\ RolesLead
    BY <1>1, <2>1 DEF RInv, Guaranteed
  <2>3. Whole' /\ RecentShown'
    BY <1>1, <2>2, SameRequest DEF Whole, RecentShown, Shown
  <2>4. RolesLead'
    BY <1>1, <2>2, SameRequest, SameRules DEF RolesLead
  <2> QED BY <2>3, <2>4
<1> QED BY <1>2, <1>3, <1>4 DEF RInv

-----------------------------------------------------------------------------
(* The results.                                                            *)

(* The inductive invariant holds in every reachable state: rank() keeps    *)
(* pool, feed and waiting list consistent through all of its loops.        *)
THEOREM RankingConsistent == Spec => []RInv
<1>1. Init => RInv
  BY InitRight
<1>2. RInv /\ [Next]_vars => RInv'
  <2> SUFFICES ASSUME RInv, [Next]_vars PROVE RInv'
    OBVIOUS
  <2>1. CASE Protect
    BY <2>1, ProtectKept
  <2>2. CASE StartMmr
    BY <2>2, StartMmrKept
  <2>3. CASE Pick
    BY <2>3, PickKept
  <2>4. CASE GuaranteeRecent
    BY <2>4, GuaranteeRecentKept
  <2>5. CASE PromoteRole
    BY <2>5, PromoteRoleKept
  <2>6. CASE StartSpacing
    BY <2>6, StartSpacingKept
  <2>7. CASE Place
    BY <2>7, PlaceKept
  <2>8. CASE EndSpacing
    BY <2>8, EndSpacingKept
  <2>9. CASE RestoreRole
    BY <2>9, RestoreRoleKept
  <2>10. CASE Answer
    BY <2>10, AnswerKept
  <2>11. CASE UNCHANGED vars
    BY <2>11, NothingChanged
  <2> QED BY <2>1, <2>2, <2>3, <2>4, <2>5, <2>6, <2>7, <2>8, <2>9, <2>10, <2>11 DEF Next
<1> QED BY <1>1, <1>2, PTL DEF Spec

(* For every request and any sizes: the answer of rank() is full, shows no *)
(* card twice, has the best recent completion if there is one, and enough  *)
(* role models in its top, whatever its stages did to one another.         *)
THEOREM GuaranteesHold == Spec => []Guaranteed
<1>1. RInv => Guaranteed
  BY DEF RInv
<1> QED BY <1>1, RankingConsistent, PTL

(* For every request: as the spacing leaves the feed, a category is shown  *)
(* more than MaxRun times in a row only where nothing else was left.       *)
THEOREM SpacingHolds == Spec => []SpacedOut
<1>1. RInv => SpacedOut
  <2>1. SUFFICES ASSUME RInv, stage = "restore", Len(queue) = Len(RoleCards) PROVE Spaced(result)
    BY DEF SpacedOut
  <2>2. Held(result, <<>>)
    BY <2>1 DEF RInv, Restoring
  <2> QED BY <2>2 DEF Held, Forced, Category, Spaced, Places
<1> QED BY <1>1, RankingConsistent, PTL

(* The one next() of rank() that has no default always finds a card to     *)
(* give up, so no request fails there.                                     *)
AlwaysAPlace == (stage = "restore" /\ queue # <<>> /\ ~Enough) => Follow(result) # {}
(* While rank() still leads role models back, some other card leads.       *)
THEOREM NextFinds == Spec => []AlwaysAPlace
<1>1. RInv => AlwaysAPlace
  BY NotEnough DEF RInv, Typed, Restoring, AlwaysAPlace
<1> QED BY <1>1, RankingConsistent, PTL

-----------------------------------------------------------------------------
(* The batch: what its loops do to the draft.                              *)

(* The draft of MMR and what is left are what it started from; the spacing *)
(* moves the feed over one by one; each promotion makes one more leader.   *)
Apart(s, t) == Distinct(s) /\ Distinct(t) /\ Range(s) \cap Range(t) = {}
Drafted == stage = "mmr" =>
  Apart(pool, result) /\ Len(pool) + Len(result) = MmrInput /\ Len(result) <= FinalSize
Respaced == stage = "space" => Apart(pool, result) /\ Len(pool) + Len(result) = Room
Promoted == stage = "promote" =>
  /\ Distinct(result) /\ Len(result) >= Room /\ places = Follow(result)
  /\ Distinct(queue) /\ Range(queue) \subseteq Roles \ Leaders(result)
  /\ Cardinality(Leading(result)) + Len(queue) >= Wished
BInv ==
  /\ cards \in Requests
  /\ pool \in Seq(Candidates) /\ queue \in Seq(Candidates) /\ result \in Seq(Candidates)
  /\ Drafted /\ Respaced /\ Promoted /\ Composed

(* R[i] is what comes after i, or stands beside it, in an order of S.      *)
Ranks(R, S) == /\ \A i, j \in S : j \in R[i] \/ i \in R[j]
               /\ \A i, j, k \in S : j \in R[i] /\ k \in R[j] => k \in R[i]

(* A finite set has an element that no other comes before.                 *)
LEMMA HasFirst ==
  ASSUME NEW S, IsFiniteSet(S), S # {}, NEW R, Ranks(R, S)
  PROVE  \E i \in S : \A j \in S : j \in R[i]
<1> USE DEF Ranks
<1> DEFINE U == {I \in SUBSET S : I = {} \/ \E i \in I : \A j \in I : j \in R[i]}
<1>1. \A I \in SUBSET S : \A x \in S \ I : I \in U => I \cup {x} \in U
  <2> TAKE I \in SUBSET S
  <2> TAKE x \in S \ I
  <2> HAVE I \in U
  <2>1. CASE I = {}
    BY <2>1
  <2>2. CASE I # {}
    <3>1. PICK i \in I : \A j \in I : j \in R[i]
      BY <2>2
    <3>2. CASE x \in R[i]
      BY <3>1, <3>2
    <3>3. CASE i \in R[x]
      <4>1. \A j \in I \cup {x} : j \in R[x]
        BY <3>1, <3>3
      <4> QED BY <4>1
    <3> QED BY <3>2, <3>3
  <2> QED BY <2>1, <2>2
<1>2. {} \in U
  OBVIOUS
<1>3. S \in U
  <2> HIDE DEF U
  <2> QED BY <1>1, <1>2, SetInduction
<1> QED BY <1>3

(* What a card would add to the draft is a number.                         *)
LEMMA MarginalIs ==
  ASSUME cards \in Requests, NEW c \in Candidates, NEW chosen \in SUBSET Candidates, chosen # {}
  PROVE  Marginal(c, chosen) \in Int
<1> DEFINE S == {Redundancy(c, d) : d \in chosen}
<1>1. S \in SUBSET {0, 8, 10} /\ S # {}
  BY DEF Redundancy
<1> HIDE DEF S
<1>2. \E x \in S : \A y \in S : y <= x
  <2>1. CASE 10 \in S
    BY <1>1, <2>1
  <2>2. CASE 10 \notin S /\ 8 \in S
    BY <1>1, <2>2
  <2>3. CASE 10 \notin S /\ 8 \notin S
    <3>1. \A y \in S : y = 0
      BY <1>1, <2>3
    <3>2. 0 <= 0
      OBVIOUS
    <3> QED BY <1>1, <3>1, <3>2, Zenon
  <2> QED BY <2>1, <2>2, <2>3
<1>3. Max(S) \in S
  BY <1>1, <1>2 DEF Max
<1>4. cards[c].score \in Int /\ Max(S) \in Int
  <2>1. \A x \in S : x \in Int
    BY <1>1
  <2> QED BY <1>3, <2>1, Request, Zenon
<1>5. Marginal(c, chosen) = 7 * cards[c].score - 3 * Max(S)
  BY Zenon DEF Marginal, S
<1> QED BY <1>4, <1>5

(* MMR takes a card that is there.                                         *)
LEMMA ForemostIs ==
  ASSUME cards \in Requests, pool \in Seq(Candidates), pool # <<>>, result \in Seq(Candidates)
  PROVE  Foremost \in DOMAIN pool
<1>1. /\ Len(pool) \in Nat /\ DOMAIN pool = 1..Len(pool) /\ 1 \in DOMAIN pool
      /\ \A i \in DOMAIN pool : pool[i] \in Candidates
  BY ListOf, EmptySeq
<1>2. CASE result = <<>>
  BY <1>1, <1>2 DEF Foremost
<1>3. CASE result # <<>>
  <2> DEFINE m == [i \in DOMAIN pool |-> Marginal(pool[i], Range(result))]
             R == [i \in DOMAIN pool |-> {j \in DOMAIN pool : m[i] >= m[j]}]
             S == {i \in DOMAIN pool : \A j \in DOMAIN pool :
                     Marginal(pool[i], Range(result)) >= Marginal(pool[j], Range(result))}
  <2>1. Range(result) \in SUBSET Candidates /\ Range(result) # {}
    <3>1. 1 \in DOMAIN result
      BY <1>3, ListOf, EmptySeq
    <3> QED BY <3>1, ListOf
  <2>2. \A i \in DOMAIN pool : m[i] \in Int
    BY <1>1, <2>1, MarginalIs
  <2>3. \A i \in DOMAIN pool : m[i] = Marginal(pool[i], Range(result))
    OBVIOUS
  <2> HIDE DEF m
  <2>4. \A i, j \in DOMAIN pool : j \in R[i] <=> m[i] >= m[j]
    OBVIOUS
  <2> HIDE DEF R
  <2>5. \E i \in DOMAIN pool : \A j \in DOMAIN pool : j \in R[i]
    <3>1. \A i, j \in DOMAIN pool : j \in R[i] \/ i \in R[j]
      BY <2>2, <2>4
    <3>2. \A i, j, k \in DOMAIN pool : j \in R[i] /\ k \in R[j] => k \in R[i]
      BY <2>2, <2>4
    <3>3. Ranks(R, DOMAIN pool)
      BY <3>1, <3>2 DEF Ranks
    <3>4. IsFiniteSet(DOMAIN pool) /\ DOMAIN pool # {}
      <4>1. IsFiniteSet(1..Len(pool))
        BY <1>1, FS_Interval
      <4> QED BY <1>1, <4>1
    <3> QED BY <3>3, <3>4, HasFirst, Zenon
  <2>6. S \in SUBSET Nat /\ S # {}
    <3>1. PICK i \in DOMAIN pool : \A j \in DOMAIN pool : m[i] >= m[j]
      BY <2>4, <2>5
    <3>2. i \in S
      BY <2>3, <3>1
    <3> QED BY <1>1, <3>2
  <2>7. Foremost = FirstOf(S)
    BY <1>3, Zenon DEF Foremost, Places
  <2>8. FirstOf(S) \in S
    BY <2>6, FirstIs
  <2> QED BY <2>7, <2>8
<1> QED BY <1>2, <1>3


(* A promotion takes a place that is free for it.                          *)
LEMMA PlaceIs ==
  ASSUME cards \in Requests, result \in Seq(Candidates), NEW c, places \in SUBSET DOMAIN result, places # {}
  PROVE  PlaceFor(c) \in places
<1>1. ASSUME NEW S \in SUBSET DOMAIN result, S # {} PROVE Lowest(S) \in S
  <2> DEFINE Lower(i, j) ==
               \/ cards[result[i]].score < cards[result[j]].score
               \/ cards[result[i]].score = cards[result[j]].score /\ i <= j
             R == [i \in S |-> {j \in S : Lower(i, j)}]
  <2>1. /\ \A i \in S : i \in Int /\ cards[result[i]].score \in Int
        /\ IsFiniteSet(S)
    <3>1. Len(result) \in Nat /\ DOMAIN result = 1..Len(result) /\ \A i \in S : result[i] \in Candidates
      BY ListOf
    <3>2. IsFiniteSet(1..Len(result))
      BY <3>1, FS_Interval
    <3>3. IsFiniteSet(S)
      BY <3>1, <3>2, FS_Subset
    <3> QED BY <3>1, <3>3, Request
  <2>2. /\ \A i, j \in S : Lower(i, j) \/ Lower(j, i)
        /\ \A i, j, k \in S : Lower(i, j) /\ Lower(j, k) => Lower(i, k)
    BY <2>1
  <2>3. Lowest(S) = CHOOSE i \in S : \A j \in S : Lower(i, j)
    BY Zenon DEF Lowest
  <2> HIDE DEF Lower
  <2>4. \A i, j \in S : j \in R[i] <=> Lower(i, j)
    OBVIOUS
  <2> HIDE DEF R
  <2>5. Ranks(R, S)
    BY <2>2, <2>4 DEF Ranks
  <2>6. \E i \in S : \A j \in S : j \in R[i]
    BY <1>1, <2>1, <2>5, HasFirst, Zenon
  <2>7. \E i \in S : \A j \in S : Lower(i, j)
    BY <2>4, <2>6
  <2> QED BY <2>3, <2>7
<1> DEFINE safe == {p \in places : ~ViolatesSpacing(p, cards[c].category)}
<1>2. safe \in SUBSET places
  OBVIOUS
<1>3. PlaceFor(c) = Lowest(IF safe = {} THEN places ELSE safe)
  BY Zenon DEF PlaceFor
<1> HIDE DEF safe
<1>4. CASE safe = {}
  BY <1>1, <1>3, <1>4, Zenon
<1>5. CASE safe # {}
  BY <1>1, <1>2, <1>3, <1>5
<1> QED BY <1>4, <1>5

(* The first cards of a list.                                              *)
LEMMA Beginning ==
  ASSUME NEW S, NEW s \in Seq(S), Distinct(s), NEW m \in 0..Len(s)
  PROVE  LET t == SubSeq(s, 1, m) IN
         /\ t \in Seq(S) /\ Len(t) = m /\ DOMAIN t = 1..m /\ Distinct(t)
         /\ Range(t) \in SUBSET Range(s) /\ \A i \in 1..m : i \in DOMAIN s /\ t[i] = s[i]
<1> DEFINE t == SubSeq(s, 1, m)
<1>1. Len(s) \in Nat /\ DOMAIN s = 1..Len(s)
  BY ListOf
<1>2. t \in Seq(S) /\ Len(t) = m /\ \A i \in 1..m : t[i] = s[i]
  <2>1. 1 \in 1..(Len(s) + 1) /\ m \in (1 - 1)..Len(s) /\ m - 1 + 1 = m
    BY <1>1
  <2>2. t \in Seq(S)
    BY <2>1, SubSeqProperties
  <2>3. Len(t) = m
    BY <1>1, <2>1, SubSeqProperties
  <2>4. \A i \in 1..m : t[i] = s[i]
    BY <1>1, <2>1, SubSeqProperties
  <2> QED BY <2>2, <2>3, <2>4
<1> HIDE DEF t
<1>3. DOMAIN t = 1..m /\ \A i \in 1..m : i \in DOMAIN s
  BY <1>1, <1>2, ListOf
<1>4. Distinct(t)
  BY <1>2, <1>3 DEF Distinct
<1>5. Range(t) \in SUBSET Range(s)
  BY <1>2, <1>3 DEF Range
<1> QED BY <1>2, <1>3, <1>4, <1>5 DEF t

(* Two lists that share no card, one after the other.                      *)
LEMMA Joined ==
  ASSUME NEW S, NEW s \in Seq(S), NEW t \in Seq(S), Distinct(s), Distinct(t), Range(s) \cap Range(t) = {}
  PROVE  /\ s \o t \in Seq(S) /\ Len(s \o t) = Len(s) + Len(t)
         /\ Distinct(s \o t) /\ Range(s \o t) = Range(s) \cup Range(t)
<1> DEFINE r == s \o t
<1> PICK m \in Nat, n \in Nat : m = Len(s) /\ n = Len(t)
  BY ListOf
<1>1. DOMAIN s = 1..m /\ DOMAIN t = 1..n
  BY ListOf
<1>2. /\ r \in Seq(S) /\ Len(r) = m + n
      /\ \A i \in 1..(m + n) : r[i] = IF i <= m THEN s[i] ELSE t[i - m]
  BY ConcatProperties
<1> HIDE DEF r
<1>3. /\ DOMAIN r = 1..(m + n)
      /\ \A i \in 1..m : i \in DOMAIN r /\ r[i] = s[i]
      /\ \A i \in 1..n : m + i \in DOMAIN r /\ r[m + i] = t[i]
      /\ \A k \in DOMAIN r : k \in 1..m \/ \E i \in 1..n : k = m + i
  <2>1. DOMAIN r = 1..(m + n)
    BY <1>2, ListOf
  <2>2. \A i \in 1..m : i \in 1..(m + n) /\ r[i] = s[i]
    BY <1>2
  <2>3. ASSUME NEW i \in 1..n PROVE m + i \in 1..(m + n) /\ r[m + i] = t[i]
    <3>1. m + i \in 1..(m + n) /\ ~(m + i <= m) /\ (m + i) - m = i
      OBVIOUS
    <3> QED BY <1>2, <3>1
  <2>4. ASSUME NEW k \in 1..(m + n) PROVE k \in 1..m \/ \E i \in 1..n : k = m + i
    <3>1. k \in 1..m \/ (k - m \in 1..n /\ k = m + (k - m))
      OBVIOUS
    <3> QED BY <3>1
  <2> QED BY <2>1, <2>2, <2>3, <2>4
<1>4. Range(r) = Range(s) \cup Range(t)
  <2>1. ASSUME NEW k \in DOMAIN r PROVE r[k] \in Range(s) \cup Range(t)
    <3>1. CASE k \in 1..m
      BY <1>1, <1>3, <3>1 DEF Range
    <3>2. ASSUME NEW i \in 1..n, k = m + i PROVE r[k] \in Range(t)
      <4>1. r[k] = t[i]
        BY <1>3, <3>2
      <4> QED BY <1>1, <4>1 DEF Range
    <3> QED BY <1>3, <3>1, <3>2
  <2>2. \A i \in 1..m : s[i] \in Range(r)
    BY <1>3 DEF Range
  <2>3. \A i \in 1..n : t[i] \in Range(r)
    <3> TAKE i \in 1..n
    <3>1. m + i \in DOMAIN r /\ r[m + i] = t[i]
      BY <1>3
    <3> QED BY <3>1, Zenon DEF Range
  <2> QED BY <1>1, <2>1, <2>2, <2>3 DEF Range
<1>5. \A i \in 1..m, j \in 1..n : s[i] # t[j]
  BY <1>1 DEF Range
<1>6. Distinct(r)
  <2> SUFFICES ASSUME NEW k \in DOMAIN r, NEW l \in DOMAIN r, r[k] = r[l] PROVE k = l
    BY DEF Distinct
  <2>1. CASE k \in 1..m /\ l \in 1..m
    BY <1>1, <1>3, <2>1 DEF Distinct
  <2>2. CASE k \in 1..m /\ \E i \in 1..n : l = m + i
    BY <1>3, <1>5, <2>2
  <2>3. CASE l \in 1..m /\ \E i \in 1..n : k = m + i
    BY <1>3, <1>5, <2>3
  <2>4. ASSUME NEW i \in 1..n, NEW j \in 1..n, k = m + i, l = m + j PROVE k = l
    <3>1. t[i] = t[j]
      BY <1>3, <2>4
    <3>2. i = j
      BY <1>1, <3>1 DEF Distinct
    <3> QED BY <2>4, <3>2
  <2> QED BY <1>3, <2>1, <2>2, <2>3, <2>4
<1> QED BY <1>2, <1>4, <1>6 DEF r

(* A new card is put between two cards of a list.                          *)
LEMMA Inserted ==
  ASSUME NEW S, NEW s \in Seq(S), Distinct(s), NEW k \in 0..Len(s), NEW c \in S, c \notin Range(s)
  PROVE  LET t == InsertAt(s, k + 1, c) IN
         t \in Seq(S) /\ Len(t) = Len(s) + 1 /\ Distinct(t)
<1> DEFINE a == SubSeq(s, 1, k)  b == SubSeq(s, k + 1, Len(s))
<1> PICK n \in Nat : n = Len(s)
  BY ListOf
<1>1. DOMAIN s = 1..n /\ k \in 0..n
  BY ListOf
<1>2. /\ a \in Seq(S) /\ Len(a) = k /\ DOMAIN a = 1..k /\ Distinct(a) /\ Range(a) \in SUBSET Range(s)
      /\ \A i \in 1..k : i \in DOMAIN s /\ a[i] = s[i]
  BY Beginning
<1>3. b \in Seq(S) /\ Len(b) = n - k /\ \A i \in 1..(n - k) : b[i] = s[k + i]
  <2>1. k + 1 \in 1..(n + 1) /\ n \in ((k + 1) - 1)..n /\ n - (k + 1) + 1 = n - k
    BY <1>1
  <2>2. \A i \in 1..(n - k) : (k + 1) + i - 1 = k + i
    BY <1>1
  <2>3. b \in Seq(S) /\ Len(b) = n - (k + 1) + 1
    BY <2>1, SubSeqProperties
  <2>4. \A i \in 1..(n - (k + 1) + 1) : b[i] = s[(k + 1) + i - 1]
    BY <2>1, SubSeqProperties
  <2> QED BY <2>1, <2>2, <2>3, <2>4
<1> HIDE DEF a, b
<1>4. /\ DOMAIN b = 1..(n - k) /\ n - k \in Nat
      /\ \A i \in 1..(n - k) : k + i \in DOMAIN s /\ k + i > k
  BY <1>1, <1>3, ListOf
<1>5. Distinct(b) /\ Range(b) \in SUBSET Range(s)
  <2>1. Range(b) \in SUBSET Range(s)
    BY <1>3, <1>4 DEF Range
  <2>2. ASSUME NEW i \in 1..(n - k), NEW j \in 1..(n - k), b[i] = b[j] PROVE i = j
    <3>1. s[k + i] = s[k + j] /\ k + i \in DOMAIN s /\ k + j \in DOMAIN s
      BY <1>3, <1>4, <2>2
    <3>2. k + i = k + j
      BY <3>1 DEF Distinct
    <3> QED BY <1>1, <3>2
  <2> QED BY <1>4, <2>1, <2>2 DEF Distinct
<1>6. Range(a) \cap Range(b) = {}
  <2> SUFFICES ASSUME NEW i \in 1..k, NEW j \in 1..(n - k), a[i] = b[j] PROVE FALSE
    BY <1>2, <1>4 DEF Range
  <2>1. s[i] = s[k + j] /\ i \in DOMAIN s /\ k + j \in DOMAIN s
    BY <1>2, <1>3, <1>4
  <2>2. i = k + j
    BY <2>1 DEF Distinct
  <2> QED BY <1>1, <1>4, <2>2
<1> DEFINE d == Append(a, c)
<1>7. d \in Seq(S) /\ Len(d) = k + 1 /\ Distinct(d) /\ Range(d) = Range(a) \cup {c}
  BY <1>2, Appended
<1>8. InsertAt(s, k + 1, c) = d \o b
  <2>1. d = a \o <<c>>
    BY <1>2, AppendIsConcat
  <2>2. (k + 1) - 1 = k
    BY <1>1
  <2> QED BY <2>1, <2>2 DEF InsertAt, a, b
<1> HIDE DEF d
<1>9. Range(d) \cap Range(b) = {}
  BY <1>5, <1>6, <1>7
<1>10. d \o b \in Seq(S) /\ Len(d \o b) = Len(d) + Len(b) /\ Distinct(d \o b)
  BY <1>3, <1>5, <1>7, <1>9, Joined
<1>11. (k + 1) + (n - k) = n + 1
  BY <1>1
<1> QED BY <1>3, <1>7, <1>8, <1>10, <1>11


-----------------------------------------------------------------------------
(* The steps of the batch keep its invariant.                              *)

(* MMR starts from enough cards to fill the feed, or from all of them.     *)
LEMMA InputIs ==
  ASSUME cards \in Requests
  PROVE  /\ MmrInput \in Nat /\ MmrInput <= Len(cards) /\ Room <= MmrInput /\ Room <= FinalSize
         /\ MmrInput <= FinalSize => MmrInput = Room
         /\ Room <= Len(cards) /\ Room \in Nat
<1>1. MmrInput = IF Len(cards) <= MmrSize THEN Len(cards) ELSE MmrSize
  BY Request, DiversityConstants, SmallerOf DEF MmrInput
<1> QED BY <1>1, RoomIs, Request, Sizes, DiversityConstants

(* The batch starts with nothing drafted.                                  *)
LEMMA BatchInitRight ==
  ASSUME BatchInit
  PROVE  BInv
<1>1. /\ cards \in Requests /\ stage = "mmr" /\ result = <<>> /\ queue = <<>>
      /\ pool = [i \in 1 .. MmrInput |-> i]
  BY DEF BatchInit
<1>2. MmrInput \in Nat /\ MmrInput <= Len(cards) /\ Candidates = 1..Len(cards) /\ Len(cards) \in Nat
  BY <1>1, InputIs, Request
<1>3. pool \in [1 .. MmrInput -> Candidates] /\ Distinct(pool)
  BY <1>1, <1>2 DEF Distinct
<1>4. pool \in Seq(Candidates) /\ Len(pool) = MmrInput
  BY <1>2, <1>3, ListFrom
<1>5. <<>> \in Seq(Candidates) /\ Len(<<>>) = 0 /\ Range(<<>>) = {} /\ Distinct(<<>>)
  BY EmptySeq DEF Range, Distinct
<1>6. Drafted
  <2>1. Len(pool) + Len(result) = MmrInput /\ Len(result) <= FinalSize
    BY <1>1, <1>2, <1>4, <1>5, Sizes
  <2> QED BY <1>1, <1>3, <1>5, <2>1 DEF Drafted, Apart
<1>7. Respaced /\ Promoted /\ Composed
  BY <1>1 DEF Respaced, Promoted, Composed
<1> QED BY <1>1, <1>4, <1>5, <1>6, <1>7 DEF BInv

(* A card moves from one list to the end of the other.                     *)
LEMMA Moved ==
  ASSUME NEW S, NEW s \in Seq(S), NEW t \in Seq(S), Apart(s, t), NEW i \in DOMAIN s
  PROVE  /\ RemoveAt(s, i) \in Seq(S) /\ Append(t, s[i]) \in Seq(S)
         /\ Apart(RemoveAt(s, i), Append(t, s[i]))
         /\ Len(RemoveAt(s, i)) + Len(Append(t, s[i])) = Len(s) + Len(t)
         /\ Len(Append(t, s[i])) = Len(t) + 1
<1> DEFINE r == RemoveAt(s, i)  u == Append(t, s[i])
<1>1. /\ s[i] \in S /\ s[i] \in Range(s) /\ s[i] \notin Range(t) /\ Len(s) \in Nat /\ Len(t) \in Nat
      /\ Distinct(s) /\ Distinct(t) /\ Range(s) \cap Range(t) = {}
  BY ListOf DEF Apart
<1>2. r \in Seq(S) /\ Len(r) = Len(s) - 1 /\ Distinct(r) /\ Range(r) = Range(s) \ {s[i]}
  BY <1>1, Removed
<1>3. u \in Seq(S) /\ Len(u) = Len(t) + 1 /\ Distinct(u) /\ Range(u) = Range(t) \cup {s[i]}
  BY <1>1, Appended
<1> HIDE DEF r, u
<1>4. Range(r) \cap Range(u) = {}
  BY <1>1, <1>2, <1>3
<1>5. Len(r) + Len(u) = Len(s) + Len(t)
  BY <1>1, <1>2, <1>3
<1>6. Apart(r, u)
  BY <1>2, <1>3, <1>4 DEF Apart
<1> QED BY <1>2, <1>3, <1>5, <1>6 DEF r, u

(* MMR moves a card from what is left to the draft.                        *)
LEMMA DraftKept ==
  ASSUME BInv, Draft
  PROVE  BInv'
<1>1. /\ cards \in Requests /\ stage = "mmr" /\ stage' = "mmr" /\ UNCHANGED <<cards, queue>>
      /\ pool \in Seq(Candidates) /\ queue \in Seq(Candidates) /\ result \in Seq(Candidates)
      /\ pool # <<>> /\ Len(result) < FinalSize
      /\ Apart(pool, result) /\ Len(pool) + Len(result) = MmrInput
      /\ result' = Append(result, pool[Foremost]) /\ pool' = RemoveAt(pool, Foremost)
  BY DEF BInv, Drafted, Draft, Drafting
<1>2. Foremost \in DOMAIN pool
  BY <1>1, ForemostIs
<1>3. /\ pool' \in Seq(Candidates) /\ result' \in Seq(Candidates) /\ Apart(pool', result')
      /\ Len(pool') + Len(result') = Len(pool) + Len(result) /\ Len(result') = Len(result) + 1
  BY <1>1, <1>2, Moved, ZenonT(30)
<1>4. Len(result') <= FinalSize
  BY <1>1, <1>3, ListOf, Sizes
<1>5. Candidates' = Candidates /\ MmrInput' = MmrInput
  BY <1>1 DEF Candidates, MmrInput
<1>6. Drafted'
  BY <1>1, <1>3, <1>4, <1>5 DEF Drafted
<1>7. Respaced' /\ Promoted' /\ Composed'
  BY <1>1 DEF Respaced, Promoted, Composed
<1> QED BY <1>1, <1>3, <1>5, <1>6, <1>7 DEF BInv

(* When MMR stops the draft is full, and the slot for a recent completion  *)
(* takes as much as it gives.                                              *)
LEMMA ForceSlotKept ==
  ASSUME BInv, ForceSlot
  PROVE  BInv'
<1>1. /\ cards \in Requests /\ stage = "mmr" /\ stage' = "space" /\ UNCHANGED <<cards, queue>>
      /\ pool \in Seq(Candidates) /\ queue \in Seq(Candidates) /\ result \in Seq(Candidates)
      /\ pool = <<>> \/ ~(Len(result) < FinalSize)
      /\ Distinct(result) /\ Len(pool) + Len(result) = MmrInput /\ Len(result) <= FinalSize
      /\ result' = <<>>
      /\ pool' = IF Recents = {} \/ Recents \intersect Range(result) # {} THEN result
                 ELSE InsertAt(Front(result), Min({SlotPosition, Len(result) - 1}) + 1, FirstOf(Recents))
  BY DEF BInv, Drafted, Apart, ForceSlot, Drafting
<1>2. Len(result) = Room
  <2>1. PICK p \in Nat, r \in Nat : p = Len(pool) /\ r = Len(result) /\ (pool = <<>> => p = 0)
    BY <1>1, ListOf
  <2>2. PICK m \in Nat, n \in Nat, f \in Nat, q \in Nat :
          /\ m = MmrInput /\ n = Len(cards) /\ f = FinalSize /\ q = Room
          /\ m <= n /\ (m <= f => m = q) /\ q = IF f <= n THEN f ELSE n
    BY <1>1, InputIs, RoomIs, Request, Sizes
  <2>3. p + r = m /\ r <= f /\ (p = 0 \/ ~(r < f))
    BY <1>1, <2>1, <2>2
  <2>4. r = q
    BY <2>2, <2>3
  <2> QED BY <2>1, <2>2, <2>4
<1>3. pool' \in Seq(Candidates) /\ Distinct(pool') /\ Len(pool') = Room
  <2>1. CASE Recents = {} \/ Recents \intersect Range(result) # {}
    BY <1>1, <1>2, <2>1
  <2>2. CASE ~(Recents = {} \/ Recents \intersect Range(result) # {})
    <3> DEFINE c == FirstOf(Recents)  k == Min({SlotPosition, Len(result) - 1})
    <3>1. c \in Recents /\ c \in Candidates /\ c \notin Range(result) /\ Len(cards) > 0
      BY <1>1, <2>2, RecentIs DEF Recent
    <3>2. PICK n \in Nat : n = Room /\ n > 0
      BY <1>1, <3>1, RoomIs
    <3>3. k \in 0..(n - 1)
      <4>1. k = IF SlotPosition <= n - 1 THEN SlotPosition ELSE n - 1
        BY <1>2, <3>2, SmallerOf, DiversityConstants
      <4> QED BY <3>2, <4>1, DiversityConstants
    <3> DEFINE f == Front(result)
    <3>4. f = SubSeq(result, 1, n - 1)
      BY <1>2, <3>2 DEF Front
    <3>5. n - 1 \in 0..Len(result)
      BY <1>2, <3>2
    <3>6. f \in Seq(Candidates) /\ Len(f) = n - 1 /\ Distinct(f) /\ Range(f) \in SUBSET Range(result)
      BY <1>1, <3>4, <3>5, Beginning
    <3>7. pool' = InsertAt(f, k + 1, c)
      BY <1>1, <2>2, Zenon
    <3> HIDE DEF f, k, c
    <3>8. c \notin Range(f) /\ k \in 0..Len(f)
      BY <3>1, <3>3, <3>6
    <3>9. /\ InsertAt(f, k + 1, c) \in Seq(Candidates) /\ Distinct(InsertAt(f, k + 1, c))
          /\ Len(InsertAt(f, k + 1, c)) = Len(f) + 1
      BY <3>1, <3>6, <3>8, Inserted, ZenonT(30)
    <3> QED BY <3>2, <3>6, <3>7, <3>9
  <2> QED BY <2>1, <2>2
<1>4. <<>> \in Seq(Candidates) /\ Len(<<>>) = 0 /\ Range(<<>>) = {} /\ Distinct(<<>>)
  BY EmptySeq DEF Range, Distinct
<1>5. Candidates' = Candidates /\ Room' = Room
  BY <1>1, SameRequest
<1>6. Respaced'
  <2>1. Len(pool') + Len(result') = Room
    BY <1>1, <1>3, <1>4, InputIs
  <2>2. Apart(pool', result')
    BY <1>1, <1>3, <1>4 DEF Apart
  <2> QED BY <1>5, <2>1, <2>2 DEF Respaced
<1>7. Drafted' /\ Promoted' /\ Composed'
  BY <1>1 DEF Drafted, Promoted, Composed
<1> QED BY <1>1, <1>3, <1>4, <1>5, <1>6, <1>7 DEF BInv

(* Spacing moves a card from the draft to the feed.                        *)
LEMMA RespaceKept ==
  ASSUME BInv, Respace
  PROVE  BInv'
<1> DEFINE i == NextPlace(pool, result)
<1>1. /\ cards \in Requests /\ stage = "space" /\ stage' = "space" /\ UNCHANGED <<cards, queue>>
      /\ pool \in Seq(Candidates) /\ queue \in Seq(Candidates) /\ result \in Seq(Candidates)
      /\ pool # <<>> /\ Apart(pool, result) /\ Len(pool) + Len(result) = Room
      /\ result' = Append(result, pool[i]) /\ pool' = RemoveAt(pool, i)
  BY DEF BInv, Respaced, Respace
<1>2. i \in DOMAIN pool
  BY <1>1, NextIs
<1> HIDE DEF i
<1>3. /\ pool' \in Seq(Candidates) /\ result' \in Seq(Candidates) /\ Apart(pool', result')
      /\ Len(pool') + Len(result') = Len(pool) + Len(result)
  BY <1>1, <1>2, Moved, ZenonT(30)
<1>4. Candidates' = Candidates /\ Room' = Room
  BY <1>1, SameRequest
<1>5. Respaced'
  BY <1>1, <1>3, <1>4 DEF Respaced
<1>6. Drafted' /\ Promoted' /\ Composed'
  BY <1>1 DEF Drafted, Promoted, Composed
<1> QED BY <1>1, <1>3, <1>4, <1>5, <1>6 DEF BInv


(* The role models that do not lead, those shown first, none twice.        *)
LEMMA Behind ==
  ASSUME cards \in Requests, result \in Seq(Candidates), Distinct(result)
  PROVE  /\ Below \o Outside \in Seq(Candidates) /\ Distinct(Below \o Outside)
         /\ Range(Below \o Outside) = Roles \ Leaders(result)
<1> DEFINE I == {i \in Places(result) : i > TopWindow /\ IsRole(result[i])}
           low == InOrder(I)
<1>1. /\ DOMAIN result = 1..Len(result) /\ Len(result) \in Nat
      /\ \A i \in DOMAIN result : result[i] \in Candidates
  BY ListOf
<1>2. I \in SUBSET Nat /\ IsFiniteSet(I) /\ I \in SUBSET DOMAIN result
  <2>1. I \in SUBSET DOMAIN result
    BY DEF Places
  <2>2. IsFiniteSet(DOMAIN result) /\ DOMAIN result \in SUBSET Nat
    BY <1>1, FS_Interval
  <2> QED BY <2>1, <2>2, FS_Subset
<1>3. Below = [k \in DOMAIN low |-> result[low[k]]]
  BY Zenon DEF Below, Places
<1>4. \A i \in I : i \in DOMAIN result /\ i > TopWindow /\ IsRole(result[i])
  BY DEF Places
<1>5. \A i \in DOMAIN result : i > TopWindow /\ IsRole(result[i]) => i \in I
  BY DEF Places
<1> HIDE DEF I
<1>6. low \in Seq(I) /\ Range(low) = I /\ Distinct(low)
  BY <1>2, Listed
<1> HIDE DEF low
<1>7. DOMAIN low = 1..Len(low) /\ Len(low) \in Nat /\ \A k \in DOMAIN low : low[k] \in I
  BY <1>6, ListOf
<1>8. Below \in Seq(Candidates) /\ DOMAIN Below = DOMAIN low
  <2>1. Below \in [1..Len(low) -> Candidates]
    BY <1>1, <1>3, <1>4, <1>7
  <2> QED BY <1>3, <1>7, <2>1, ListFrom
<1>9. Distinct(Below)
  <2> SUFFICES ASSUME NEW k \in DOMAIN low, NEW m \in DOMAIN low, Below[k] = Below[m] PROVE k = m
    BY <1>8 DEF Distinct
  <2>1. result[low[k]] = result[low[m]] /\ low[k] \in DOMAIN result /\ low[m] \in DOMAIN result
    BY <1>3, <1>4, <1>7
  <2>2. low[k] = low[m]
    BY <2>1, Zenon DEF Distinct
  <2> QED BY <1>6, <2>2 DEF Distinct
<1>10. Range(Below) = {result[i] : i \in I}
  <2>1. \A k \in DOMAIN low : Below[k] = result[low[k]] /\ low[k] \in I
    BY <1>3, <1>7
  <2>2. \A i \in I : \E k \in DOMAIN low : low[k] = i
    BY <1>6 DEF Range
  <2> QED BY <1>8, <2>1, <2>2 DEF Range
<1>11. /\ Outside \in Seq(Candidates) /\ Distinct(Outside) /\ Range(Outside) = Roles \ Range(result)
  <2> DEFINE R == Roles \ Range(result)
  <2>1. R \in SUBSET Nat /\ IsFiniteSet(R) /\ R \in SUBSET Candidates
    BY Request, FS_Subset
  <2>2. Outside = InOrder(R)
    BY DEF Outside
  <2> HIDE DEF R
  <2>3. Outside \in Seq(R) /\ Distinct(Outside) /\ Range(Outside) = R
    BY <2>1, <2>2, Listed
  <2> QED BY <2>1, <2>3, SeqMonotonic DEF R
<1>12. Range(Below) \in SUBSET Range(result)
  BY <1>4, <1>10 DEF Range
<1>13. /\ Below \o Outside \in Seq(Candidates) /\ Distinct(Below \o Outside)
       /\ Range(Below \o Outside) = Range(Below) \cup Range(Outside)
  <2>1. Range(Below) \cap Range(Outside) = {}
    BY <1>11, <1>12
  <2> QED BY <1>8, <1>9, <1>11, <2>1, Joined
<1>14. ASSUME NEW c \in Range(Below) PROVE c \in Roles \ Leaders(result)
  <2>1. PICK i \in I : c = result[i]
    BY <1>10
  <2>2. i \in DOMAIN result /\ i > TopWindow /\ IsRole(c) /\ c \in Candidates
    BY <1>1, <1>4, <2>1
  <2>3. ASSUME NEW j \in Leading(result), result[j] = c PROVE FALSE
    <3>1. j \in DOMAIN result /\ j <= TopWindow
      BY DEF Leading, Top, Places
    <3>2. j = i
      BY <2>1, <2>2, <2>3, <3>1, Zenon DEF Distinct
    <3>3. i \in Nat
      BY <1>1, <2>2
    <3> QED BY <2>2, <3>1, <3>2, <3>3, Sizes
  <2> QED BY <2>2, <2>3 DEF Leaders, Roles, Candidates
<1>15. ASSUME NEW c \in Roles, c \notin Leaders(result), c \in Range(result) PROVE c \in Range(Below)
  <2>1. PICK i \in DOMAIN result : result[i] = c
    BY <1>15 DEF Range
  <2>2. IsRole(result[i])
    BY <2>1 DEF Roles
  <2>3. ~(i <= TopWindow)
    BY <1>15, <2>1, <2>2 DEF Leaders, Leading, Top, Places
  <2>4. i > TopWindow
    BY <1>1, <2>3, Sizes
  <2> QED BY <1>5, <1>10, <2>1, <2>2, <2>4
<1>16. Leaders(result) \in SUBSET Range(result)
  BY LeadersCounted
<1> QED BY <1>11, <1>13, <1>14, <1>15, <1>16

(* Enough role models are queued to make up for those that do not lead.    *)
LEMMA StartPromotionKept ==
  ASSUME BInv, StartPromotion
  PROVE  BInv'
<1> DEFINE b == Below \o Outside
<1>1. /\ cards \in Requests /\ stage = "space" /\ stage' = "promote" /\ UNCHANGED <<cards, pool, result>>
      /\ pool \in Seq(Candidates) /\ result \in Seq(Candidates) /\ Distinct(result)
      /\ pool = <<>> /\ Len(pool) + Len(result) = Room /\ places' = Follow(result)
      /\ queue' = IF Lacking <= 0 THEN <<>> ELSE SubSeq(b, 1, Min({Lacking, Len(b)}))
  BY DEF BInv, Respaced, Apart, StartPromotion
<1>2. Len(result) = Room
  BY <1>1, ListOf, InputIs
<1>3. b \in Seq(Candidates) /\ Distinct(b) /\ Range(b) = Roles \ Leaders(result)
  BY <1>1, Behind
<1> HIDE DEF b
<1>4. PICK l \in Nat, r \in Nat, w \in Nat, n \in Nat :
        /\ l = Cardinality(Leading(result)) /\ r = Cardinality(Roles) /\ w = Wished /\ n = Len(b)
        /\ w <= r /\ w <= RoleTarget /\ r <= l + n
  <2>1. /\ Leaders(result) \in SUBSET Roles /\ IsFiniteSet(Leaders(result))
        /\ Cardinality(Leaders(result)) = Cardinality(Leading(result)) /\ Cardinality(Leading(result)) \in Nat
    BY <1>1, LeadersCounted
  <2>2. IsFiniteSet(Roles) /\ Cardinality(Roles) \in Nat
    BY <1>1, Request
  <2>3. Cardinality(Range(b)) = Len(b) /\ Len(b) \in Nat
    BY <1>3, Counted, ListOf
  <2>4. Cardinality(Roles \ Leaders(result)) = Cardinality(Roles) - Cardinality(Roles \cap Leaders(result))
    BY <2>2, FS_Difference
  <2>5. Roles \cap Leaders(result) = Leaders(result)
    BY <2>1
  <2>6. Len(b) = Cardinality(Roles) - Cardinality(Leading(result))
    BY <1>3, <2>1, <2>3, <2>4, <2>5
  <2> QED BY <1>1, <2>1, <2>2, <2>3, <2>6, WishedIs
<1>5. PICK t \in Nat : t = RoleTarget
  BY Sizes
<1>6. Lacking = t - l
  BY <1>4, <1>5 DEF Lacking
<1>7. /\ queue' \in Seq(Candidates) /\ Distinct(queue') /\ Range(queue') \in SUBSET (Roles \ Leaders(result))
      /\ l + Len(queue') >= w
  <2>1. CASE Lacking <= 0
    <3>1. queue' = <<>>
      BY <1>1, <2>1
    <3>2. <<>> \in Seq(Candidates) /\ Len(<<>>) = 0 /\ Range(<<>>) = {} /\ Distinct(<<>>)
      BY EmptySeq DEF Range, Distinct
    <3>3. l >= w
      BY <1>4, <1>5, <1>6, <2>1
    <3> QED BY <1>4, <3>1, <3>2, <3>3
  <2>2. CASE ~(Lacking <= 0)
    <3> DEFINE m == Min({Lacking, Len(b)})
    <3>1. PICK e \in Int : e = Lacking /\ e = t - l /\ m = IF e <= n THEN e ELSE n
      <4>1. PICK e \in Int : e = t - l
        OBVIOUS
      <4>2. Min({e, n}) = IF e <= n THEN e ELSE n
        BY SmallerOf
      <4>3. m = Min({e, n})
        BY <1>4, <1>6, <4>1
      <4> QED BY <1>6, <4>1, <4>2, <4>3
    <3>2. queue' = SubSeq(b, 1, m)
      BY <1>1, <2>2
    <3> HIDE DEF m
    <3>3. m \in 0..n /\ l + m >= w
      <4>1. e > 0 /\ w <= t /\ w <= l + n /\ t = l + e
        <5>1. ~(e <= 0) /\ w <= t /\ w <= r /\ r <= l + n /\ e = t - l
          BY <1>4, <1>5, <2>2, <3>1, Zenon
        <5> QED BY <5>1
      <4>2. CASE e <= n
        BY <3>1, <4>1, <4>2
      <4>3. CASE ~(e <= n)
        BY <3>1, <4>1, <4>3
      <4> QED BY <4>2, <4>3
    <3>4. m \in 0..Len(b)
      BY <1>4, <3>3
    <3>5. /\ SubSeq(b, 1, m) \in Seq(Candidates) /\ Len(SubSeq(b, 1, m)) = m /\ Distinct(SubSeq(b, 1, m))
          /\ Range(SubSeq(b, 1, m)) \in SUBSET Range(b)
      BY <1>3, <3>4, Beginning
    <3> QED BY <1>3, <3>2, <3>3, <3>5
  <2> QED BY <2>1, <2>2
<1>8. /\ Candidates' = Candidates /\ Room' = Room /\ Roles' = Roles /\ Wished' = Wished
      /\ Leaders(result)' = Leaders(result) /\ Leading(result)' = Leading(result)
      /\ Follow(result)' = Follow(result)
  BY <1>1, SameRequest, SameRules DEF Follow, Top, Places, IsRole
<1>9. Promoted'
  <2>1. Distinct(result') /\ places' = Follow(result)' /\ Len(result') >= Room
    BY <1>1, <1>2, <1>8, InputIs
  <2>2. Cardinality(Leading(result)') + Len(queue') >= Wished'
    BY <1>4, <1>7, <1>8
  <2> QED BY <1>7, <1>8, <2>1, <2>2 DEF Promoted
<1>10. Drafted' /\ Respaced' /\ Composed'
  BY <1>1 DEF Drafted, Respaced, Composed
<1> QED BY <1>1, <1>7, <1>8, <1>9, <1>10 DEF BInv


(* A role model waiting to be promoted is known to be missing from a top   *)
(* that is full: a shorter list would show every candidate, and it leads.  *)
LEMMA TopIsFull ==
  ASSUME cards \in Requests, result \in Seq(Candidates), Distinct(result), Len(result) >= Room,
         NEW c \in Roles \ Leaders(result)
  PROVE  /\ Len(result) >= TopWindow
         /\ \A i \in DOMAIN result : result[i] = c => i > TopWindow
<1> PICK n \in Nat, t \in Nat : n = Len(result) /\ t = TopWindow
  BY ListOf, Sizes
<1>1. DOMAIN result = 1..n
  BY ListOf
<1>2. \A i \in DOMAIN result : result[i] = c => i > TopWindow
  <2> SUFFICES ASSUME NEW i \in 1..n, result[i] = c PROVE i > t
    BY <1>1
  <2>1. IsRole(result[i]) /\ i \in DOMAIN result
    BY <1>1 DEF Roles
  <2>2. ~(i <= t)
    BY <2>1 DEF Leaders, Leading, Top, Places
  <2> QED BY <2>2
<1>3. n >= t
  <2> SUFFICES ASSUME n < t PROVE FALSE
    OBVIOUS
  <2>1. Room < TopWindow
    BY RoomIs
  <2>2. Len(result) >= Cardinality(Candidates) /\ IsFiniteSet(Candidates)
    BY <2>1, RoomIs, Request
  <2>3. Range(result) \in SUBSET Candidates /\ Cardinality(Range(result)) = Len(result)
    BY Counted, ListOf
  <2>4. Cardinality(Range(result)) <= Cardinality(Candidates)
    BY <2>2, <2>3, FS_Subset
  <2>5. Range(result) = Candidates
    <3>1. Cardinality(Candidates) \in Nat
      BY <2>2, FS_CardinalityType
    <3>2. Cardinality(Range(result)) = Cardinality(Candidates)
      BY <2>2, <2>3, <2>4, <3>1
    <3> QED BY <2>2, <2>3, <3>2, FS_Subset
  <2>6. c \in Range(result)
    BY <2>5, Request
  <2>7. PICK i \in 1..n : result[i] = c
    BY <1>1, <2>6 DEF Range
  <2> QED BY <1>1, <1>2, <2>7
<1> QED BY <1>2, <1>3

(* The role model leaves its place below, and the top stays as it is.      *)
LEMMA WithoutIs ==
  ASSUME cards \in Requests, result \in Seq(Candidates), Distinct(result), Len(result) >= Room,
         NEW c \in Roles \ Leaders(result)
  PROVE  /\ Without(c) \in Seq(Candidates) /\ Distinct(Without(c)) /\ c \notin Range(Without(c))
         /\ Len(Without(c)) + 1 >= Len(result) /\ Len(Without(c)) >= TopWindow
         /\ Range(Without(c)) \in SUBSET Range(result)
         /\ \A i \in 1..TopWindow : Without(c)[i] = result[i]
<1> DEFINE w == Without(c)  q == Position(result, c)
<1> PICK n \in Nat, t \in Nat : n = Len(result) /\ t = TopWindow
  BY ListOf, Sizes
<1>1. DOMAIN result = 1..n
  BY ListOf
<1>2. n >= t /\ \A i \in DOMAIN result : result[i] = c => i > t
  BY TopIsFull
<1>3. CASE c \notin Range(result)
  <2>1. w = result
    BY <1>3 DEF Without
  <2> QED BY <1>2, <1>3, <2>1
<1>4. CASE c \in Range(result)
  <2>1. q \in 1..n /\ result[q] = c
    BY <1>1, <1>4 DEF Position, Places, Range
  <2>2. w = RemoveAt(result, q)
    BY <1>4 DEF Without
  <2> HIDE DEF q
  <2>3. /\ w \in Seq(Candidates) /\ Len(w) = n - 1 /\ Distinct(w) /\ Range(w) = Range(result) \ {c}
    BY <1>1, <2>1, <2>2, Removed
  <2>4. q > t
    BY <1>1, <1>2, <2>1
  <2>5. ASSUME NEW i \in 1..t PROVE w[i] = result[i]
    <3> DEFINE a == SubSeq(result, 1, q - 1)  b == SubSeq(result, q + 1, n)
    <3>1. q - 1 \in 0..n /\ i \in 1..(q - 1)
      BY <2>1, <2>4
    <3>2. a \in Seq(Candidates) /\ Len(a) = q - 1 /\ a[i] = result[i]
      BY <3>1, Beginning
    <3>3. b \in Seq(Candidates)
      BY <1>1, <2>1, SubSeqProperties, ListOf
    <3>4. w = a \o b
      BY <2>2 DEF RemoveAt
    <3> HIDE DEF a, b
    <3>5. Len(b) \in Nat /\ i <= Len(a) /\ i \in 1..(Len(a) + Len(b))
      BY <2>1, <3>1, <3>2, <3>3, ListOf
    <3>6. (a \o b)[i] = a[i]
      BY <3>2, <3>3, <3>5, ConcatProperties
    <3> QED BY <3>2, <3>4, <3>6
  <2>6. Len(w) + 1 >= n /\ Len(w) >= t
    BY <2>1, <2>3, <2>4
  <2> QED BY <2>3, <2>5, <2>6
<1> QED BY <1>3, <1>4

(* Each promotion makes one more leader of the top and loses none, and the *)
(* card displaced is shown at the end.                                     *)
LEMMA PromoteKept ==
  ASSUME BInv, Promote
  PROVE  BInv'
<1> DEFINE c == Head(queue)  p == PlaceFor(c)  w == Without(c)  e == [w EXCEPT ![p] = c]
<1>1. /\ cards \in Requests /\ stage = "promote" /\ stage' = "promote" /\ UNCHANGED <<cards, pool>>
      /\ pool \in Seq(Candidates) /\ queue \in Seq(Candidates) /\ result \in Seq(Candidates)
      /\ Distinct(result) /\ Len(result) >= Room /\ places = Follow(result)
      /\ Distinct(queue) /\ Range(queue) \subseteq Roles \ Leaders(result)
      /\ Cardinality(Leading(result)) + Len(queue) >= Wished
      /\ queue # <<>> /\ places # {}
      /\ result' = Append(e, result[p]) /\ places' = places \ {p} /\ queue' = Tail(queue)
  BY DEF BInv, Promoted, Promote
<1>2. /\ c \in Range(queue) /\ c \in Candidates /\ c \in Roles \ Leaders(result)
      /\ queue' \in Seq(Candidates) /\ Len(queue') = Len(queue) - 1 /\ Len(queue) \in Nat
      /\ Distinct(queue') /\ Range(queue') \in SUBSET (Range(queue) \ {c})
  <2>1. queue' = RemoveAt(queue, 1) /\ 1 \in DOMAIN queue /\ c = queue[1]
    <3>1. Len(queue) \in Nat /\ Len(queue) > 0 /\ DOMAIN queue = 1..Len(queue)
      BY <1>1, ListOf, NextOf
    <3>2. queue' = SubSeq(queue, 2, Len(queue))
      BY <1>1, TailIsSubSeq
    <3>3. SubSeq(queue, 2, Len(queue)) \in Seq(Candidates)
      BY <1>1, NextOf, TailIsSubSeq
    <3>4. SubSeq(queue, 1, 0) = <<>>
      BY SubSeqEmpty
    <3> QED BY <3>1, <3>2, <3>3, <3>4 DEF RemoveAt
  <2>2. /\ c \in Range(queue) /\ c \in Candidates /\ Len(queue) \in Nat
    BY <1>1, NextOf, ListOf
  <2>3. /\ RemoveAt(queue, 1) \in Seq(Candidates) /\ Len(RemoveAt(queue, 1)) = Len(queue) - 1
        /\ Distinct(RemoveAt(queue, 1)) /\ Range(RemoveAt(queue, 1)) = Range(queue) \ {queue[1]}
    BY <1>1, <2>1, Removed
  <2> QED BY <1>1, <2>1, <2>2, <2>3
<1> HIDE DEF c
<1>3. p \in Follow(result) /\ p \in DOMAIN result /\ p <= TopWindow
  <2>1. Follow(result) \in SUBSET DOMAIN result
    BY DEF Follow, Top, Places
  <2>2. p \in Follow(result)
    BY <1>1, <2>1, PlaceIs
  <2> QED BY <2>1, <2>2 DEF Follow, Top
<1> HIDE DEF p
<1>4. /\ w \in Seq(Candidates) /\ Distinct(w) /\ c \notin Range(w)
      /\ Len(w) + 1 >= Len(result) /\ Len(w) >= TopWindow
      /\ \A i \in 1..TopWindow : w[i] = result[i]
  BY <1>1, <1>2, WithoutIs
<1> HIDE DEF w
<1>5. PICK m \in Nat, n \in Nat, t \in Nat :
        /\ m = Len(w) /\ n = Len(result) /\ t = TopWindow
        /\ m + 1 >= n /\ m >= t /\ n >= t /\ t > 0 /\ p \in 1..t
  <2>1. Len(result) >= TopWindow /\ Len(result) \in Nat /\ DOMAIN result = 1..Len(result)
    BY <1>1, <1>2, TopIsFull, ListOf
  <2>2. PICK m \in Nat, n \in Nat, t \in Nat : m = Len(w) /\ n = Len(result) /\ t = TopWindow
    <3>1. Len(w) \in Nat /\ Len(result) \in Nat /\ TopWindow \in Nat
      BY <1>4, <2>1, Sizes, ListOf
    <3> QED BY <3>1, Zenon
  <2>3. m + 1 >= n /\ m >= t /\ n >= t /\ t > 0
    BY <1>4, <2>1, <2>2, Sizes
  <2>4. p \in 1..t
    BY <1>3, <2>1, <2>2
  <2> QED BY <2>2, <2>3, <2>4
<1>6. DOMAIN w = 1..m /\ DOMAIN result = 1..n /\ p \in DOMAIN w /\ w[p] = result[p]
  BY <1>1, <1>4, <1>5, ListOf
<1>7. /\ e \in Seq(Candidates) /\ Len(e) = m /\ DOMAIN e = 1..m /\ Distinct(e)
      /\ Range(e) = (Range(w) \ {w[p]}) \cup {c} /\ e[p] = c
      /\ \A k \in 1..m : k # p => e[k] = w[k]
  <2>1. w \in Seq(Candidates) /\ Distinct(w) /\ p \in DOMAIN w /\ c \in Candidates /\ c \notin Range(w)
    BY <1>2, <1>4, <1>6
  <2>2. /\ e \in Seq(Candidates) /\ Len(e) = Len(w) /\ DOMAIN e = DOMAIN w
        /\ Distinct(e) /\ Range(e) = (Range(w) \ {w[p]}) \cup {c} /\ e[p] = c
        /\ \A k \in DOMAIN w \ {p} : e[k] = w[k]
    BY <2>1, Replaced
  <2> HIDE DEF e
  <2> QED BY <1>5, <1>6, <2>2
<1> HIDE DEF e
<1>8. /\ result[p] \in Candidates /\ result[p] \notin Range(e)
  <2>1. result[p] \in Candidates /\ result[p] \in Range(w)
    BY <1>1, <1>3, <1>4, <1>6, ListOf
  <2> QED BY <1>4, <1>6, <1>7, <2>1
<1>9. /\ result' \in Seq(Candidates) /\ Len(result') = m + 1 /\ DOMAIN result' = 1..(m + 1)
      /\ Distinct(result') /\ \A i \in 1..m : result'[i] = e[i]
  <2>1. /\ Append(e, result[p]) \in Seq(Candidates) /\ Len(Append(e, result[p])) = Len(e) + 1
        /\ Distinct(Append(e, result[p])) /\ \A i \in DOMAIN e : Append(e, result[p])[i] = e[i]
    BY <1>7, <1>8, Appended
  <2> QED BY <1>1, <1>7, <2>1, ListOf
<1>10. \A i \in 1..t : result'[i] = IF i = p THEN c ELSE result[i]
  BY <1>4, <1>5, <1>7, <1>9
<1>11. Top(result) = 1..t /\ Top(result') = 1..t
  BY <1>5, <1>6, <1>9 DEF Top, Places
<1>12. ~IsRole(result[p]) /\ IsRole(c)
  BY <1>2, <1>3 DEF Follow, Roles
<1>13. /\ Leading(result') = Leading(result) \cup {p} /\ p \notin Leading(result)
       /\ Follow(result') = Follow(result) \ {p}
  <2>1. \A i \in 1..t : IsRole(result'[i]) <=> (i = p \/ IsRole(result[i]))
    BY <1>10, <1>12
  <2> QED BY <1>5, <1>11, <1>12, <2>1 DEF Leading, Follow
<1>14. Leaders(result') \in SUBSET (Leaders(result) \cup {c})
  <2> SUFFICES ASSUME NEW i \in Leading(result') PROVE result'[i] \in Leaders(result) \cup {c}
    BY DEF Leaders
  <2>1. i \in 1..t
    BY <1>11 DEF Leading
  <2> QED BY <1>10, <1>13, <2>1 DEF Leaders
<1>15. Cardinality(Leading(result')) = Cardinality(Leading(result)) + 1 /\ Cardinality(Leading(result)) \in Nat
  <2>1. IsFiniteSet(Leading(result)) /\ Cardinality(Leading(result)) \in Nat
    BY <1>1, LeadersCounted
  <2> QED BY <1>13, <2>1, FS_AddElement
<1>16. /\ Candidates' = Candidates /\ Room' = Room /\ Roles' = Roles /\ Wished' = Wished
       /\ Leaders(result)' = Leaders(result') /\ Leading(result)' = Leading(result')
       /\ Follow(result)' = Follow(result')
  BY <1>1, SameRequest, SameRules DEF Follow, Top, Places, IsRole
<1>17. Promoted'
  <2>1. Cardinality(Leading(result')) + Len(queue') >= Wished
    <3>1. PICK l \in Nat, q \in Nat, v \in Nat :
            l = Cardinality(Leading(result)) /\ q = Len(queue) /\ v = Wished
      <4>1. Cardinality(Leading(result)) \in Nat /\ Len(queue) \in Nat /\ Wished \in Nat
        BY <1>1, <1>2, <1>15, WishedIs
      <4> QED BY <4>1, Zenon
    <3>2. l + q >= v
      BY <1>1, <3>1
    <3>3. (l + 1) + (q - 1) >= v
      BY <3>2
    <3> QED BY <1>2, <1>15, <3>1, <3>3
  <2>2. Range(queue') \in SUBSET (Roles \ Leaders(result'))
    BY <1>1, <1>2, <1>14
  <2>3. Len(result') >= Room
    BY <1>1, <1>5, <1>9, InputIs
  <2>4. places' = Follow(result')
    BY <1>1, <1>13
  <2> QED BY <1>2, <1>9, <1>16, <2>1, <2>2, <2>3, <2>4 DEF Promoted
<1>18. Drafted' /\ Respaced' /\ Composed'
  BY <1>1 DEF Drafted, Respaced, Composed
<1> QED BY <1>1, <1>2, <1>9, <1>16, <1>17, <1>18 DEF BInv


(* The cut takes nothing from the top, and leaves as many cards as fit.    *)
LEMMA CutKept ==
  ASSUME BInv, Cut
  PROVE  BInv'
<1> DEFINE k == Min({FinalSize, Len(result)})  r == SubSeq(result, 1, k)
<1>1. /\ cards \in Requests /\ stage = "promote" /\ stage' = "done" /\ UNCHANGED <<cards, pool, queue>>
      /\ pool \in Seq(Candidates) /\ queue \in Seq(Candidates) /\ result \in Seq(Candidates)
      /\ Distinct(result) /\ Len(result) >= Room /\ places = Follow(result)
      /\ Cardinality(Leading(result)) + Len(queue) >= Wished
      /\ queue = <<>> \/ places = {}
      /\ result' = r
  BY DEF BInv, Promoted, Cut
<1>2. Len(result) \in Nat /\ Len(result) <= Len(cards) /\ DOMAIN result = 1..Len(result)
  <2>1. Range(result) \in SUBSET Candidates /\ Cardinality(Range(result)) = Len(result)
    BY <1>1, Counted, ListOf
  <2>2. Cardinality(Range(result)) <= Cardinality(Candidates)
    BY <1>1, <2>1, Request, FS_Subset
  <2> QED BY <1>1, <2>1, <2>2, Request, ListOf
<1>3. PICK f \in Nat, t \in Nat, n \in Nat :
        f = FinalSize /\ t = TopWindow /\ n = Len(result) /\ t <= f
  <2>1. FinalSize \in Nat /\ TopWindow \in Nat /\ TopWindow <= FinalSize
    BY Sizes
  <2> QED BY <1>2, <2>1, Zenon
<1>4. k = Room /\ k \in 0..Len(result) /\ k = IF f <= n THEN f ELSE n
  <2>1. k = IF f <= n THEN f ELSE n
    BY <1>3, SmallerOf
  <2>2. Room = IF f <= Len(cards) THEN f ELSE Len(cards)
    BY <1>1, <1>3, RoomIs
  <2>3. PICK l \in Nat : l = Len(cards) /\ n <= l
    BY <1>1, <1>2, <1>3, Request
  <2>4. n >= Room
    BY <1>1, <1>3
  <2> HIDE DEF k
  <2>5. Room = IF f <= l THEN f ELSE l
    BY <2>2, <2>3
  <2>6. k = Room /\ k \in 0..n
    BY <2>1, <2>3, <2>4, <2>5
  <2> QED BY <1>3, <2>1, <2>6
<1> HIDE DEF k
<1>5. /\ r \in Seq(Candidates) /\ Len(r) = k /\ DOMAIN r = 1..k /\ Distinct(r)
      /\ \A i \in 1..k : i \in DOMAIN result /\ r[i] = result[i]
  BY <1>1, <1>4, Beginning
<1> HIDE DEF r
<1>6. Top(r) = Top(result) /\ \A i \in Top(r) : r[i] = result[i]
  <2>1. DOMAIN result = 1..n /\ DOMAIN r = 1..k
    BY <1>2, <1>3, <1>5
  <2>2. \A i : i \in 1..k /\ i <= t <=> i \in 1..n /\ i <= t
    BY <1>3, <1>4
  <2>3. Top(r) = Top(result)
    BY <1>3, <2>1, <2>2 DEF Top, Places
  <2> QED BY <1>5, <2>3 DEF Top, Places
<1>7. Leading(r) = Leading(result) /\ Follow(r) = Follow(result)
  BY <1>6 DEF Leading, Follow
<1>8. Cardinality(Leading(r)) >= Wished
  <2>1. CASE queue = <<>>
    <3>1. Cardinality(Leading(result)) \in Nat /\ Len(queue) = 0
      BY <1>1, <2>1, LeadersCounted
    <3> QED BY <1>1, <1>7, <3>1
  <2>2. CASE places = {}
    BY <1>1, <1>4, <1>5, <1>7, <2>2, FullTop
  <2> QED BY <1>1, <2>1, <2>2
<1>9. Composed'
  <2>1. Len(result') = Min({FinalSize, Len(cards')})
    BY <1>1, <1>4, <1>5 DEF Room
  <2>2. Cardinality(Range(result')) = Len(result')
    BY <1>1, <1>5, Counted
  <2>3. Cardinality(Leading(result)') >= Wished
    BY <1>1, <1>8, SameRules
  <2>4. Wished = Min({RoleTarget, Cardinality(Roles'), Len(result')})
    BY <1>1, <1>4, <1>5, SameRequest DEF Wished
  <2> QED BY <2>1, <2>2, <2>3, <2>4 DEF Composed
<1>10. Drafted' /\ Respaced' /\ Promoted'
  BY <1>1 DEF Drafted, Respaced, Promoted
<1>11. Candidates' = Candidates
  BY <1>1, SameRequest
<1> QED BY <1>1, <1>5, <1>9, <1>10, <1>11 DEF BInv

(* A step of nothing keeps it too.                                         *)
LEMMA BatchIdle ==
  ASSUME BInv, UNCHANGED batchVars
  PROVE  BInv'
<1>1. UNCHANGED <<cards, stage, pool, result, queue, places, snapshot>>
  BY DEF batchVars
<1>2. /\ Candidates' = Candidates /\ Room' = Room /\ Roles' = Roles /\ Wished' = Wished
      /\ Leaders(result)' = Leaders(result) /\ Leading(result)' = Leading(result)
      /\ MmrInput' = MmrInput /\ Follow(result)' = Follow(result)
  BY <1>1, SameRequest, SameRules DEF MmrInput, Follow, Top, Places, IsRole
<1>3. Drafted' = Drafted /\ Respaced' = Respaced
  BY <1>1, <1>2 DEF Drafted, Respaced
<1>4. Promoted' = Promoted
  BY <1>1, <1>2 DEF Promoted
<1>5. Composed' = Composed
  BY <1>1, <1>2 DEF Composed
<1> QED BY <1>1, <1>2, <1>3, <1>4, <1>5 DEF BInv

(* For every request and any sizes: draft, forced slot, spacing and        *)
(* promotion lose no card and double none, and the promotions the queue    *)
(* still owes make up for the role models missing from the top.            *)
THEOREM BatchConsistent == BatchSpec => []BInv
<1>1. BatchInit => BInv
  BY BatchInitRight
<1>2. BInv /\ [BatchNext]_batchVars => BInv'
  <2> SUFFICES ASSUME BInv, [BatchNext]_batchVars PROVE BInv'
    OBVIOUS
  <2>1. CASE Draft
    BY <2>1, DraftKept
  <2>2. CASE ForceSlot
    BY <2>2, ForceSlotKept
  <2>3. CASE Respace
    BY <2>3, RespaceKept
  <2>4. CASE StartPromotion
    BY <2>4, StartPromotionKept
  <2>5. CASE Promote
    BY <2>5, PromoteKept
  <2>6. CASE Cut
    BY <2>6, CutKept
  <2>7. CASE UNCHANGED batchVars
    BY <2>7, BatchIdle
  <2> QED BY <2>1, <2>2, <2>3, <2>4, <2>5, <2>6, <2>7 DEF BatchNext
<1> QED BY <1>1, <1>2, PTL DEF BatchSpec

(* For every request and any sizes: the final list of the batch is as long *)
(* as it can be, shows nothing twice though role models are moved up from  *)
(* inside it, and its top has its role models or all that were scored.     *)
THEOREM BatchComposed == BatchSpec => []Composed
<1>1. BInv => Composed
  BY DEF BInv
<1> QED BY <1>1, BatchConsistent, PTL

=============================================================================
