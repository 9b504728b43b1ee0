----------------------------- MODULE Recap_proof -----------------------------
(***************************************************************************)
(* Proofs about Recap, for any accounts, days, months, wishes and amounts  *)
(* and any beginning that was only saved for, and about PublishImage, the  *)
(* publication of the image that the recap service runs in.                *)
(***************************************************************************)
EXTENDS Recap, PublishImage, FiniteInduction

(* What wish i holds by a ledger E when day b begins.                      *)
DeltasOf(E)    == [e \in E |-> e.delta]
Until(E, i, b) == {e \in E : e.wish = i /\ e.day < b}
Funds(E, i, b) == SumFunctionOnSet(DeltasOf(E), Until(E, i, b))

(* The rows of the ledger are told apart by their ids, and by root and     *)
(* wish; none is of a day to come.                                         *)
Signed(e) ==
  /\ e.delta # 0 /\ (e.event = "WISH_DEPOSIT" => e.delta > 0)
  /\ e.event \notin {"WISH_DEPOSIT", "WISH_TRANSFER"} => e.delta < 0
Apart(S) == \A d, e \in S : d # e => d.id # e.id /\ (d.root # e.root \/ d.wish # e.wish)
RowsInv ==
  /\ effects \subseteq EffectRows /\ IsFiniteSet(effects) /\ Apart(effects)
  /\ \A e \in effects :
       /\ e.id <= Cardinality(effects) /\ e.root <= Cardinality(effects)
       /\ e.day <= today /\ Signed(e)

(* An ended wish is not active; every row is of a wish of its account.     *)
WishesInv ==
  /\ now \in DOMAIN Days /\ wishes \subseteq WishRows /\ IsFiniteSet(wishes)
  /\ \A v, w \in wishes : v # w => v.id # w.id
  /\ \A w \in wishes : w.closed # Never => ~Active(w) /\ w.closed <= today
  /\ \A e \in effects : \E w \in wishes : w.id = e.wish /\ w.account = e.account

(* A wish holds what its rows add up to, it never held less than nothing,  *)
(* and nothing once it has ended.                                          *)
FundsInv ==
  /\ \A w \in wishes : \A b \in Int : today < b => Funds(effects, w.id, b) = w.saved
  /\ \A i \in Nat : \A b \in Int : Funds(effects, i, b) >= 0
  /\ \A w \in wishes : \A b \in Int :
       w.closed # Never /\ w.closed < b => Funds(effects, w.id, b) = 0

LedgerInv == RowsInv /\ WishesInv /\ FundsInv

-----------------------------------------------------------------------------
(* Ledgers.                                                                *)

(* The balance of the model is that of its ledger.                         *)
LEMMA BalanceIsFunds == ASSUME NEW i, NEW b PROVE Balance(i, b) = Funds(effects, i, b)
BY DEF Balance, Funds, Deltas, DeltasOf, Until

(* Balances are integers.                                                  *)
LEMMA FundsInt ==
  ASSUME NEW E, IsFiniteSet(E), E \subseteq EffectRows, NEW i, NEW b
  PROVE  Funds(E, i, b) \in Int
<1>1. IsFiniteSet(Until(E, i, b))
  BY FS_Subset DEF Until
<1>2. \A e \in Until(E, i, b) : DeltasOf(E)[e] \in Int
  BY DEF Until, DeltasOf, EffectRows
<1> QED
  BY <1>1, <1>2, SumRemoved DEF Funds

(* One row more changes the balance of its wish from the next day on.      *)
LEMMA FundsAdded ==
  ASSUME NEW E, IsFiniteSet(E), E \subseteq EffectRows, NEW r \in EffectRows, r \notin E,
         NEW i, NEW b \in Int
  PROVE  Funds(E \union {r}, i, b) =
           Funds(E, i, b) + (IF r.wish = i /\ r.day < b THEN r.delta ELSE 0)
<1> DEFINE F == E \union {r}  S == Until(E, i, b)
<1>1. /\ IsFiniteSet(S) /\ r \notin S /\ S \subseteq E
      /\ \A e \in S : DeltasOf(F)[e] = DeltasOf(E)[e] /\ DeltasOf(E)[e] \in Int
      /\ DeltasOf(F)[r] = r.delta /\ r.delta \in Int
  BY FS_Subset DEF Until, DeltasOf, EffectRows
<1>2. SumFunctionOnSet(DeltasOf(F), S) = Funds(E, i, b)
  BY <1>1, SumAgrees DEF Funds
<1>3. Funds(E, i, b) \in Int
  BY FundsInt
<1>4. CASE r.wish = i /\ r.day < b
  <2>1. Until(F, i, b) = S \union {r}
    BY <1>4 DEF Until
  <2>2. \A e \in S \union {r} : DeltasOf(F)[e] \in Int
    BY <1>1
  <2>3. SumFunctionOnSet(DeltasOf(F), S \union {r}) = SumFunctionOnSet(DeltasOf(F), S) + DeltasOf(F)[r]
    BY <1>1, <2>2, SumExtended
  <2> HIDE DEF F, S
  <2>4. Funds(F, i, b) = Funds(E, i, b) + r.delta
    BY <1>1, <1>2, <2>1, <2>3 DEF Funds
  <2> QED
    BY <1>4, <2>4 DEF F
<1>5. CASE ~(r.wish = i /\ r.day < b)
  <2>1. Until(F, i, b) = S
    BY <1>5 DEF Until
  <2> HIDE DEF F, S
  <2>2. Funds(F, i, b) = Funds(E, i, b)
    BY <1>2, <2>1 DEF Funds
  <2> QED
    BY <1>3, <1>5, <2>2 DEF F
<1> QED
  BY <1>4, <1>5

(* Rows of today, one posting's, that may join the ledger.                 *)
Fresh(rows) ==
  /\ rows \subseteq EffectRows /\ IsFiniteSet(rows)
  /\ \A r \in rows :
       /\ Cardinality(effects) < r.id /\ r.id <= Cardinality(effects) + Cardinality(rows)
       /\ r.root = Cardinality(effects) + 1 /\ r.day = today /\ Signed(r)
       /\ \E w \in wishes : w.id = r.wish /\ w.account = r.account
  /\ \A q, r \in rows : q # r => q.id # r.id /\ q.wish # r.wish

(* A posting leaves the rows in order.                                     *)
LEMMA RowsPosted ==
  ASSUME RowsInv, NEW rows, Fresh(rows), effects' = effects \union rows, UNCHANGED now
  PROVE  RowsInv'
<1> DEFINE n == Cardinality(effects)  k == Cardinality(rows)
<1>1. n \in Nat /\ k \in Nat /\ IsFiniteSet(effects) /\ IsFiniteSet(rows)
  BY FS_CardinalityType DEF RowsInv, Fresh
<1>2. effects \cap rows = {}
  BY <1>1 DEF RowsInv, Fresh, EffectRows
<1>3. IsFiniteSet(effects') /\ Cardinality(effects') = n + k
  BY <1>1, <1>2, FS_Union, FS_EmptySet
<1>4. \A r \in rows : k >= 1
  <2> TAKE r \in rows
  <2>1. k # 0
    BY <1>1, FS_EmptySet
  <2> QED BY <1>1, <2>1
<1> HIDE DEF k
<1>5. \A e \in effects' : e.id \in Nat /\ e.root \in Nat /\ e.id <= n + k /\ e.root <= n + k
  BY <1>1, <1>4 DEF RowsInv, Fresh, EffectRows, k
<1>6. Apart(effects')
  <2> SUFFICES ASSUME NEW d \in effects', NEW e \in effects', d # e
               PROVE  d.id # e.id /\ (d.root # e.root \/ d.wish # e.wish)
    BY DEF Apart
  <2>1. CASE d \in effects /\ e \in effects
    BY <2>1 DEF RowsInv, Apart
  <2>2. CASE d \in rows /\ e \in rows
    BY <2>2 DEF Fresh
  <2>3. CASE (d \in effects /\ e \in rows) \/ (d \in rows /\ e \in effects)
    BY <2>3, <1>1, <1>5 DEF RowsInv, Fresh
  <2> QED
    BY <2>1, <2>2, <2>3
<1>7. effects' \subseteq EffectRows /\ \A e \in effects' : e.day <= today /\ Signed(e)
  <2>1. \A r \in rows : r.day <= today
    BY DEF Fresh, EffectRows
  <2> QED
    BY <2>1 DEF RowsInv, Fresh
<1>8. today' = today
  BY DEF today
<1> QED
  BY <1>3, <1>5, <1>6, <1>7, <1>8 DEF RowsInv

(* What a posting makes of the wishes: d is what it adds to the holdings   *)
(* of each.  A wish it changes is the active one of that name, gone on or  *)
(* ended, or a new one that holds nothing.                                 *)
Settled(changed, d) ==
  /\ changed \subseteq WishRows /\ IsFiniteSet(changed) /\ d \in [Nat -> Int]
  /\ \A b, c \in changed : b # c => b.id # c.id
  /\ \A c \in changed :
       \/ \E v \in wishes :
            /\ v.id = c.id /\ v.account = c.account /\ Active(v) /\ c.saved = v.saved + d[c.id]
            /\ c.closed = v.closed \/ (c.closed = today /\ ~Active(c) /\ c.saved = 0)
       \/ (\A v \in wishes : v.id # c.id) /\ d[c.id] = 0 /\ c.saved = 0 /\ c.closed = Never
  /\ \A i \in Nat : d[i] # 0 => \E c \in changed : c.id = i
Adds(rows, d) ==
  \A i \in Nat : \A b \in Int :
    Funds(effects \union rows, i, b) = Funds(effects, i, b) + (IF today < b THEN d[i] ELSE 0)

(* The days follow each other.                                             *)
LEMMA TodayInt == now \in DOMAIN Days => today \in Int
BY RecapAssumption DEF today

(* A name that no wish has, no row has.                                    *)
LEMMA UnusedHolds ==
  ASSUME LedgerInv, NEW i, \A v \in wishes : v.id # i, NEW b \in Int
  PROVE  Funds(effects, i, b) = 0
<1>1. Until(effects, i, b) = {}
  BY DEF Until, LedgerInv, WishesInv
<1> QED
  BY <1>1, SumOfNone DEF Funds

(* A posting that settles keeps the ledger and the wishes in agreement.    *)
LEMMA Posted ==
  ASSUME LedgerInv, NEW rows, NEW changed, NEW d, Fresh(rows), Settled(changed, d),
         Adds(rows, d), Post(rows, changed)
  PROVE  LedgerInv'
<1>1. /\ effects' = effects \union rows /\ UNCHANGED now /\ today' = today
      /\ wishes' = {w \in wishes : \A c \in changed : c.id # w.id} \union changed
  BY DEF Post, today
<1>2. RowsInv'
  BY <1>1, RowsPosted DEF LedgerInv
<1>3. today \in Int /\ now \in DOMAIN Days
  BY TodayInt DEF LedgerInv, WishesInv
<1>4. \A w \in wishes' : w.closed # Never => ~Active(w) /\ w.closed <= today
  BY <1>1, <1>3 DEF LedgerInv, WishesInv, Settled
<1>5. \A v, w \in wishes' : v # w => v.id # w.id
  BY <1>1 DEF LedgerInv, WishesInv, Settled
<1>6. \A v \in wishes : \E w \in wishes' : w.id = v.id /\ w.account = v.account
  <2> TAKE v \in wishes
  <2>1. CASE \E c \in changed : c.id = v.id
    BY <1>1, <2>1 DEF LedgerInv, WishesInv, Settled
  <2>2. CASE \A c \in changed : c.id # v.id
    BY <1>1, <2>2
  <2> QED
    BY <2>1, <2>2
<1>7. WishesInv'
  <2>1. \A e \in effects' : \E w \in wishes : w.id = e.wish /\ w.account = e.account
    BY <1>1 DEF Fresh, LedgerInv, WishesInv
  <2>2. wishes' \subseteq WishRows
    BY <1>1 DEF LedgerInv, WishesInv, Settled
  <2>3. \A w \in wishes' : Active(w)' = Active(w)
    BY DEF Active
  <2>4. IsFiniteSet(wishes')
    <3>1. {w \in wishes : \A c \in changed : c.id # w.id} \subseteq wishes
      OBVIOUS
    <3>2. IsFiniteSet(wishes) /\ IsFiniteSet(changed)
      BY DEF LedgerInv, WishesInv, Settled
    <3> QED
      BY <1>1, <3>1, <3>2, FS_Subset, FS_Union
  <2> QED
    BY <1>1, <1>3, <1>4, <1>5, <1>6, <2>1, <2>2, <2>3, <2>4 DEF WishesInv
<1> DEFINE More(i, b) == IF today < b THEN d[i] ELSE 0
<1>8. \A i \in Nat : \A b \in Int : Funds(effects', i, b) = Funds(effects, i, b) + More(i, b)
  BY <1>1 DEF Adds
<1>9. \A i \in Nat : \A b \in Int : Funds(effects, i, b) \in Int /\ d[i] \in Int
  BY FundsInt DEF LedgerInv, RowsInv, Settled
<1>10. ASSUME NEW w \in wishes', NEW b \in Int
       PROVE  /\ w.id \in Nat /\ w.saved \in Nat
              /\ today < b => Funds(effects', w.id, b) = w.saved
              /\ w.closed # Never /\ w.closed < b => Funds(effects', w.id, b) = 0
  <2>1. w.id \in Nat /\ w.saved \in Nat /\ w.closed \in Int
    BY <1>1 DEF LedgerInv, WishesInv, Settled, WishRows
  <2>2. Funds(effects', w.id, b) = Funds(effects, w.id, b) + More(w.id, b)
    BY <1>8, <2>1
  <2>3. Funds(effects, w.id, b) \in Int /\ d[w.id] \in Int
    BY <1>9, <2>1
  <2>4. CASE w \in wishes /\ \A c \in changed : c.id # w.id
    <3>1. d[w.id] = 0
      BY <2>1, <2>4 DEF Settled
    <3>2. Funds(effects', w.id, b) = Funds(effects, w.id, b)
      BY <2>2, <2>3, <3>1
    <3> QED
      BY <2>1, <2>4, <3>2 DEF LedgerInv, FundsInv
  <2>5. CASE w \in changed
    <3>1. CASE \E v \in wishes :
                 /\ v.id = w.id /\ Active(v) /\ w.saved = v.saved + d[w.id]
                 /\ w.closed = v.closed \/ (w.closed = today /\ w.saved = 0)
      <4>1. PICK v \in wishes :
                 /\ v.id = w.id /\ Active(v) /\ w.saved = v.saved + d[w.id]
                 /\ w.closed = v.closed \/ (w.closed = today /\ w.saved = 0)
        BY <3>1
      <4>2. v.closed = Never
        BY <4>1 DEF LedgerInv, WishesInv
      <4>3. today < b => Funds(effects, w.id, b) = v.saved
        BY <4>1 DEF LedgerInv, FundsInv
      <4>4. today < b => Funds(effects', w.id, b) = w.saved
        BY <2>2, <4>1, <4>3
      <4> QED
        BY <1>3, <2>1, <4>1, <4>2, <4>4
    <3>2. CASE (\A v \in wishes : v.id # w.id) /\ d[w.id] = 0 /\ w.saved = 0 /\ w.closed = Never
      <4>1. Funds(effects, w.id, b) = 0
        BY <3>2, UnusedHolds
      <4> QED
        BY <2>1, <2>2, <3>2, <4>1
    <3> QED
      BY <2>5, <3>1, <3>2 DEF Settled
  <2> QED
    BY <1>1, <2>4, <2>5
<1>11. ASSUME NEW i \in Nat, NEW b \in Int PROVE Funds(effects', i, b) >= 0
  <2>1. Funds(effects', i, b) = Funds(effects, i, b) + More(i, b)
    BY <1>8
  <2>2. Funds(effects, i, b) \in Int /\ Funds(effects, i, b) >= 0
    BY <1>9 DEF LedgerInv, FundsInv
  <2>3. CASE today < b /\ d[i] # 0
    <3>1. PICK c \in changed : c.id = i
      BY <2>3 DEF Settled
    <3>2. c \in wishes'
      BY <1>1, <3>1
    <3> QED
      BY <1>10, <2>3, <3>1, <3>2
  <2>4. CASE ~(today < b /\ d[i] # 0)
    BY <2>1, <2>2, <2>4
  <2> QED
    BY <2>3, <2>4
<1>12. FundsInv'
  BY <1>1, <1>10, <1>11 DEF FundsInv
<1> QED
  BY <1>2, <1>7, <1>12 DEF LedgerInv

(* What one row adds.                                                      *)
Only(i, n) == [j \in Nat |-> IF j = i THEN n ELSE 0]

(* A posting without rows adds nothing.                                    *)
LEMMA NoRow == ASSUME LedgerInv PROVE Fresh({}) /\ Adds({}, [j \in Nat |-> 0])
<1>1. effects \union {} = effects /\ \A i \in Nat : \A b \in Int : Funds(effects, i, b) \in Int
  BY FundsInt DEF LedgerInv, RowsInv
<1>2. Fresh({})
  BY FS_EmptySet DEF Fresh
<1>3. Adds({}, [j \in Nat |-> 0])
  <2> SUFFICES ASSUME NEW i \in Nat, NEW b \in Int
               PROVE  Funds(effects, i, b) = Funds(effects, i, b) + (IF today < b THEN 0 ELSE 0)
    BY <1>1 DEF Adds
  <2> QED
    BY <1>1
<1> QED
  BY <1>2, <1>3

(* A row of the posting itself.                                            *)
LEMMA RowFields ==
  ASSUME LedgerInv, NEW n \in Nat, NEW w \in wishes, NEW event \in Events, NEW delta \in Int
  PROVE  /\ Row(n, w, event, delta) \in EffectRows
         /\ Row(n, w, event, delta).id = Cardinality(effects) + n
         /\ Row(n, w, event, delta).root = Cardinality(effects) + 1
         /\ Row(n, w, event, delta).day = today /\ Row(n, w, event, delta).wish = w.id
         /\ Row(n, w, event, delta).account = w.account
         /\ Row(n, w, event, delta).event = event /\ Row(n, w, event, delta).delta = delta
<1>1. /\ Cardinality(effects) \in Nat /\ today \in Int
      /\ w.id \in Nat /\ w.account \in Students
  BY FS_CardinalityType, TodayInt DEF LedgerInv, RowsInv, WishesInv, WishRows
<1> QED
  BY <1>1 DEF Row, EffectRows

(* A posting of one row.                                                   *)
LEMMA OneRow ==
  ASSUME LedgerInv, NEW w \in wishes, NEW event \in Events, NEW delta \in Int,
         Signed(Row(1, w, event, delta))
  PROVE  Fresh({Row(1, w, event, delta)}) /\ Adds({Row(1, w, event, delta)}, Only(w.id, delta))
<1> DEFINE r == Row(1, w, event, delta)
<1>1. /\ r \in EffectRows /\ r.id = Cardinality(effects) + 1 /\ r.root = Cardinality(effects) + 1
      /\ r.day = today /\ r.wish = w.id /\ r.account = w.account /\ r.delta = delta /\ Signed(r)
  BY RowFields
<1>2. Cardinality(effects) \in Nat /\ IsFiniteSet(effects) /\ effects \subseteq EffectRows
  BY FS_CardinalityType DEF LedgerInv, RowsInv
<1> HIDE DEF r
<1>3. IsFiniteSet({r}) /\ Cardinality({r}) = 1
  BY FS_Singleton
<1>4. r \notin effects
  BY <1>1, <1>2 DEF LedgerInv, RowsInv
<1>5. Fresh({r})
  BY <1>1, <1>2, <1>3 DEF Fresh
<1>6. Adds({r}, Only(w.id, delta))
  <2> SUFFICES ASSUME NEW i \in Nat, NEW b \in Int
               PROVE  Funds(effects \union {r}, i, b)
                        = Funds(effects, i, b) + (IF today < b THEN Only(w.id, delta)[i] ELSE 0)
    BY DEF Adds
  <2>1. Funds(effects \union {r}, i, b)
          = Funds(effects, i, b) + (IF w.id = i /\ today < b THEN delta ELSE 0)
    BY <1>1, <1>2, <1>4, FundsAdded
  <2>2. (IF w.id = i /\ today < b THEN delta ELSE 0) = (IF today < b THEN Only(w.id, delta)[i] ELSE 0)
    BY DEF Only
  <2> QED
    BY <2>1, <2>2
<1> QED
  BY <1>5, <1>6 DEF r

(* A wish that goes on, with another amount.                               *)
LEMMA HeldSettles ==
  ASSUME LedgerInv, NEW w \in wishes, Active(w), NEW n \in Int, w.saved + n \in Nat
  PROVE  /\ Held(w, w.saved + n) \in WishRows /\ Held(w, w.saved + n).id = w.id
         /\ Held(w, w.saved + n).account = w.account
         /\ Held(w, w.saved + n).saved = w.saved + n /\ Held(w, w.saved + n).closed = w.closed
         /\ Settled({Held(w, w.saved + n)}, Only(w.id, n))
<1>1. w \in WishRows /\ w.id \in Nat /\ w.saved \in Nat
  BY DEF LedgerInv, WishesInv, WishRows
<1>2. /\ Held(w, w.saved + n) \in WishRows /\ Held(w, w.saved + n).id = w.id
      /\ Held(w, w.saved + n).account = w.account
      /\ Held(w, w.saved + n).saved = w.saved + n /\ Held(w, w.saved + n).closed = w.closed
  BY <1>1 DEF Held, WishRows, Statuses
<1>3. Only(w.id, n) \in [Nat -> Int] /\ Only(w.id, n)[w.id] = n
      /\ \A i \in Nat : Only(w.id, n)[i] # 0 => i = w.id
  BY <1>1 DEF Only
<1> HIDE DEF Held
<1>4. Settled({Held(w, w.saved + n)}, Only(w.id, n))
  <2>1. PICK c, d : c = Held(w, w.saved + n) /\ d = Only(w.id, n) /\ IsFiniteSet({c})
    BY FS_Singleton
  <2> QED
    BY <1>1, <1>2, <1>3, <2>1 DEF Settled
<1> QED
  BY <1>2, <1>4

(* Amounts are positive.                                                   *)
LEMMA DepositsPositive == \A n \in Deposits : n \in Nat /\ n > 0 /\ -n \in Int /\ -n < 0
BY RecapAssumption

(* Money put aside, and taken back.                                        *)
LEMMA DepositKeeps == LedgerInv /\ (Deposit \/ Withdraw) => LedgerInv'
<1> SUFFICES ASSUME LedgerInv, Deposit \/ Withdraw PROVE LedgerInv'
  OBVIOUS
<1>1. PICK w \in wishes, event \in {"WISH_DEPOSIT", "WISH_WITHDRAWAL"}, n \in Int :
        /\ Active(w) /\ w.saved + n \in Nat /\ n # 0
        /\ event = "WISH_DEPOSIT" => n > 0
        /\ event = "WISH_WITHDRAWAL" => n < 0
        /\ Post({Row(1, w, event, n)}, {Held(w, w.saved + n)})
  <2>1. \A w \in wishes : w.saved \in Nat
    BY DEF LedgerInv, WishesInv, WishRows
  <2>2. CASE Deposit
    <3>1. PICK w \in wishes, n \in Deposits :
            /\ Active(w) /\ Post({Row(1, w, "WISH_DEPOSIT", n)}, {Held(w, w.saved + n)})
      BY <2>2 DEF Deposit
    <3>2. n \in Nat /\ n > 0
      BY RecapAssumption
    <3>3. w.saved + n \in Nat /\ n \in Int /\ n # 0
      BY <2>1, <3>2
    <3> QED
      BY <3>1, <3>2, <3>3
  <2>3. CASE Withdraw
    <3>1. PICK w \in wishes, n \in Deposits :
            /\ Active(w) /\ n <= w.saved
            /\ Post({Row(1, w, "WISH_WITHDRAWAL", -n)}, {Held(w, w.saved - n)})
      BY <2>3 DEF Withdraw
    <3>2. n \in Nat /\ n > 0
      BY RecapAssumption
    <3>3. w.saved - n = w.saved + (-n) /\ w.saved + (-n) \in Nat /\ -n \in Int /\ -n < 0 /\ -n # 0
      BY <2>1, <3>1, <3>2
    <3>4. Post({Row(1, w, "WISH_WITHDRAWAL", -n)}, {Held(w, w.saved + (-n))})
      BY <3>1, <3>3
    <3> QED
      BY <3>1, <3>3, <3>4
  <2> QED
    BY <2>2, <2>3
<1>2. event \in Events
  BY DEF Events
<1>3. Signed(Row(1, w, event, n))
  <2>1. Row(1, w, event, n).delta = n /\ Row(1, w, event, n).event = event
    BY <1>2, RowFields
  <2> QED
    BY <1>1, <2>1 DEF Signed
<1>4. Fresh({Row(1, w, event, n)}) /\ Adds({Row(1, w, event, n)}, Only(w.id, n))
  BY <1>2, <1>3, OneRow
<1>5. Settled({Held(w, w.saved + n)}, Only(w.id, n))
  BY <1>1, HeldSettles
<1> QED
  BY <1>1, <1>4, <1>5, Posted

(* Money moved from one wish to another.                                   *)
LEMMA TransferKeeps == LedgerInv /\ Transfer => LedgerInv'
<1> SUFFICES ASSUME LedgerInv, Transfer PROVE LedgerInv'
  OBVIOUS
<1>1. PICK v \in wishes, w \in wishes, n \in Deposits :
        /\ v.id # w.id /\ Active(v) /\ Active(w) /\ n <= v.saved
        /\ Post({Row(1, v, "WISH_TRANSFER", -n), Row(2, w, "WISH_TRANSFER", n)},
                {Held(v, v.saved - n), Held(w, w.saved + n)})
  BY DEF Transfer
<1>2. n \in Nat /\ n > 0 /\ v.saved \in Nat /\ w.saved \in Nat /\ v.id \in Nat /\ w.id \in Nat
  BY DepositsPositive DEF LedgerInv, WishesInv, WishRows
<1> DEFINE m == -n
<1>3. /\ m \in Int /\ m # 0 /\ n \in Int /\ n # 0 /\ v.saved - n = v.saved + m
      /\ v.saved + m \in Nat /\ w.saved + n \in Nat
  BY <1>1, <1>2
<1> DEFINE q == Row(1, v, "WISH_TRANSFER", m)  r == Row(2, w, "WISH_TRANSFER", n)
           b == Held(v, v.saved + m)  c == Held(w, w.saved + n)
           d == [j \in Nat |-> IF j = v.id THEN m ELSE IF j = w.id THEN n ELSE 0]
<1>4. Post({q, r}, {b, c})
  BY <1>1, <1>3
<1>5. /\ q \in EffectRows /\ q.id = Cardinality(effects) + 1 /\ q.root = Cardinality(effects) + 1
      /\ q.day = today /\ q.wish = v.id /\ q.account = v.account
      /\ q.event = "WISH_TRANSFER" /\ q.delta = m
  BY <1>3, RowFields DEF Events
<1>6. /\ r \in EffectRows /\ r.id = Cardinality(effects) + 2 /\ r.root = Cardinality(effects) + 1
      /\ r.day = today /\ r.wish = w.id /\ r.account = w.account
      /\ r.event = "WISH_TRANSFER" /\ r.delta = n
  <2>1. 2 \in Nat /\ n \in Int /\ "WISH_TRANSFER" \in Events
    BY <1>3 DEF Events
  <2> HIDE DEF q, b, c, d, m
  <2> QED
    BY <2>1, RowFields
<1>7. /\ b \in WishRows /\ b.id = v.id /\ b.account = v.account /\ b.saved = v.saved + m
      /\ b.closed = v.closed
  BY <1>1, <1>3, HeldSettles
<1>8. /\ c \in WishRows /\ c.id = w.id /\ c.account = w.account /\ c.saved = w.saved + n
      /\ c.closed = w.closed
  BY <1>1, <1>3, HeldSettles
<1> HIDE DEF q, r, b, c, m
<1>9. Cardinality(effects) \in Nat /\ IsFiniteSet(effects) /\ effects \subseteq EffectRows
  BY FS_CardinalityType DEF LedgerInv, RowsInv
<1>10. q # r /\ q \notin effects /\ r \notin effects
  BY <1>5, <1>6, <1>9 DEF LedgerInv, RowsInv
<1>11. IsFiniteSet({q, r}) /\ Cardinality({q, r}) = 2
  <2>1. IsFiniteSet({q}) /\ Cardinality({q}) = 1 /\ {q, r} = {q} \union {r}
    BY FS_Singleton
  <2> QED
    BY <1>10, <2>1, FS_AddElement
<1>12. Fresh({q, r})
  <2>1. Signed(q) /\ Signed(r)
    BY <1>3, <1>5, <1>6 DEF Signed
  <2> QED
    BY <1>1, <1>5, <1>6, <1>9, <1>11, <2>1 DEF Fresh
<1>13. Settled({b, c}, d)
  <2>1. /\ d \in [Nat -> Int] /\ d[v.id] = m /\ d[w.id] = n
        /\ \A i \in Nat : d[i] # 0 => i = v.id \/ i = w.id
    BY <1>1, <1>2, <1>3
  <2>2. IsFiniteSet({b, c})
    <3>1. IsFiniteSet({b}) /\ {b, c} = {b} \union {c}
      BY FS_Singleton
    <3> QED
      BY <3>1, FS_AddElement
  <2> HIDE DEF d
  <2> QED
    BY <1>1, <1>7, <1>8, <2>1, <2>2 DEF Settled
<1>14. Adds({q, r}, d)
  <2> SUFFICES ASSUME NEW i \in Nat, NEW day \in Int
               PROVE  Funds(effects \union {q, r}, i, day)
                        = Funds(effects, i, day) + (IF today < day THEN d[i] ELSE 0)
    BY DEF Adds
  <2> DEFINE E == effects \union {q}
  <2>1. IsFiniteSet(E) /\ E \subseteq EffectRows /\ r \notin E /\ E \union {r} = effects \union {q, r}
    BY <1>5, <1>9, <1>10, FS_AddElement
  <2>2. Funds(E, i, day) = Funds(effects, i, day) + (IF v.id = i /\ today < day THEN m ELSE 0)
    BY <1>5, <1>9, <1>10, FundsAdded
  <2> HIDE DEF E
  <2>3. Funds(E \union {r}, i, day) = Funds(E, i, day) + (IF w.id = i /\ today < day THEN n ELSE 0)
    BY <1>6, <2>1, FundsAdded
  <2>4. Funds(effects, i, day) \in Int
    BY <1>9, FundsInt
  <2>5. /\ d[i] = IF i = v.id THEN m ELSE IF i = w.id THEN n ELSE 0
        /\ v.id # w.id
    BY <1>1
  <2> HIDE DEF d
  <2> QED
    BY <1>3, <2>1, <2>2, <2>3, <2>4, <2>5
<1> QED
  BY <1>4, <1>12, <1>13, <1>14, Posted

(* A wish that ends pays out what it holds.                                *)
LEMMA EndKeeps ==
  ASSUME LedgerInv, NEW w \in wishes, NEW event \in Events, NEW ended,
         event \notin {"WISH_DEPOSIT", "WISH_TRANSFER"}, End(w, event, ended),
         ended \in WishRows, ended.id = w.id, ended.account = w.account,
         ended.closed = w.closed \/ (ended.closed = today /\ ended.status \in {"COMPLETED", "ABANDONED"})
  PROVE  LedgerInv'
<1>1. PICK representative \in BOOLEAN :
        Post(IF w.saved = 0 THEN {} ELSE {Row(1, w, event, -w.saved)},
             {[ended EXCEPT !.saved = 0, !.representative = representative]})
  BY DEF End
<1> DEFINE c == [ended EXCEPT !.saved = 0, !.representative = representative]
           rows == IF w.saved = 0 THEN {} ELSE {Row(1, w, event, -w.saved)}
           d == Only(w.id, -w.saved)
<1>2. /\ c \in WishRows /\ c.id = w.id /\ c.account = w.account /\ c.saved = 0
      /\ c.closed = w.closed \/ (c.closed = today /\ ~Active(c))
  <2>1. /\ c \in WishRows /\ c.id = ended.id /\ c.account = ended.account /\ c.saved = 0
        /\ c.closed = ended.closed /\ c.status = ended.status
    BY DEF WishRows
  <2> HIDE DEF c
  <2> QED
    BY <2>1 DEF Active
<1> HIDE DEF c
<1>3. w.saved \in Nat /\ w.id \in Nat /\ Active(w)
  BY DEF LedgerInv, WishesInv, WishRows, End
<1>4. d \in [Nat -> Int] /\ d[w.id] = -w.saved /\ \A i \in Nat : d[i] # 0 => i = w.id
  BY <1>3 DEF Only
<1>5. Settled({c}, d)
  <2>1. c.saved = w.saved + d[c.id]
    BY <1>2, <1>3, <1>4
  <2> HIDE DEF d
  <2> QED
    BY <1>2, <1>3, <1>4, <2>1, FS_Singleton DEF Settled
<1>6. Fresh(rows) /\ Adds(rows, d)
  <2>1. CASE w.saved = 0
    <3>1. d[w.id] = 0
      <4>1. \A m \in Nat, n \in Int : n = -m /\ m <= 0 => n = 0
        OBVIOUS
      <4>2. w.saved <= 0
        BY <2>1
      <4>3. d[w.id] \in Int /\ d[w.id] = -w.saved /\ w.saved \in Nat
        BY <1>3, <1>4
      <4> HIDE DEF d
      <4> QED BY <4>1, <4>2, <4>3
    <3>2. \A j \in Nat : d[j] = 0
      <4> HIDE DEF d
      <4> QED BY <1>4, <3>1
    <3>3. d = [j \in Nat |-> d[j]]
      BY DEF Only
    <3>4. d = [j \in Nat |-> 0]
      <4> HIDE DEF d
      <4> QED BY <3>2, <3>3
    <3> HIDE DEF d
    <3> QED
      BY <2>1, <3>4, NoRow
  <2>2. CASE w.saved # 0
    <3>1. -w.saved \in Int /\ -w.saved < 0
      BY <1>3, <2>2
    <3>2. Row(1, w, event, -w.saved).delta = -w.saved /\ Row(1, w, event, -w.saved).event = event
      BY <3>1, RowFields
    <3>3. Signed(Row(1, w, event, -w.saved))
      BY <3>1, <3>2 DEF Signed
    <3> QED
      BY <2>2, <3>1, <3>3, OneRow
  <2> QED
    BY <2>1, <2>2
<1> HIDE DEF d, rows
<1>7. Post(rows, {c})
  BY <1>1 DEF rows, c
<1> QED
  BY <1>5, <1>6, <1>7, Posted

(* Completed, abandoned or deleted.                                        *)
LEMMA EndingKeeps == LedgerInv /\ (Complete \/ Abandon \/ Delete) => LedgerInv'
<1> SUFFICES ASSUME LedgerInv, Complete \/ Abandon \/ Delete PROVE LedgerInv'
  OBVIOUS
<1>1. today \in Int /\ wishes \subseteq WishRows
  BY TodayInt DEF LedgerInv, WishesInv
<1>2. CASE Complete
  <2>1. PICK w \in wishes :
          End(w, "WISH_COMPLETION_RETURN", [w EXCEPT !.status = "COMPLETED", !.closed = today])
    BY <1>2 DEF Complete
  <2> DEFINE c == [w EXCEPT !.status = "COMPLETED", !.closed = today]
  <2>2. /\ c \in WishRows /\ c.id = w.id /\ c.account = w.account /\ c.closed = today
        /\ c.status = "COMPLETED"
    BY <1>1 DEF WishRows, Statuses
  <2> HIDE DEF c
  <2>3. End(w, "WISH_COMPLETION_RETURN", c) /\ "WISH_COMPLETION_RETURN" \in Events
    BY <2>1 DEF c, Events
  <2> QED
    BY <2>2, <2>3, EndKeeps
<1>3. CASE Abandon
  <2>1. PICK w \in wishes :
          End(w, "WISH_ABANDONMENT_RETURN", [w EXCEPT !.status = "ABANDONED", !.closed = today])
    BY <1>3 DEF Abandon
  <2> DEFINE c == [w EXCEPT !.status = "ABANDONED", !.closed = today]
  <2>2. /\ c \in WishRows /\ c.id = w.id /\ c.account = w.account /\ c.closed = today
        /\ c.status = "ABANDONED"
    BY <1>1 DEF WishRows, Statuses
  <2> HIDE DEF c
  <2>3. End(w, "WISH_ABANDONMENT_RETURN", c) /\ "WISH_ABANDONMENT_RETURN" \in Events
    BY <2>1 DEF c, Events
  <2> QED
    BY <2>2, <2>3, EndKeeps
<1>4. CASE Delete
  <2>1. PICK w \in wishes : End(w, "WISH_DELETION_RETURN", [w EXCEPT !.deleted = today])
    BY <1>4 DEF Delete
  <2> DEFINE c == [w EXCEPT !.deleted = today]
  <2>2. c \in WishRows /\ c.id = w.id /\ c.account = w.account /\ c.closed = w.closed
    BY <1>1 DEF WishRows
  <2> HIDE DEF c
  <2>3. End(w, "WISH_DELETION_RETURN", c) /\ "WISH_DELETION_RETURN" \in Events
    BY <2>1 DEF c, Events
  <2> QED
    BY <2>2, <2>3, EndKeeps
<1> QED
  BY <1>2, <1>3, <1>4

(* A new wish holds nothing.                                               *)
LEMMA OpenKeeps == LedgerInv /\ Open => LedgerInv'
<1> SUFFICES ASSUME LedgerInv, Open PROVE LedgerInv'
  OBVIOUS
<1>1. PICK w \in Later :
        (\A v \in wishes : v.id # w.id) /\ Post({}, {[w EXCEPT !.created = today]})
  BY DEF Open
<1> DEFINE c == [w EXCEPT !.created = today]  d == [j \in Nat |-> 0]
<1>2. c \in WishRows /\ c.id = w.id /\ c.saved = 0 /\ c.closed = Never
  <2>1. w \in WishRows /\ w.saved = 0 /\ w.closed = Never /\ today \in Int
    BY RecapAssumption, TodayInt DEF LedgerInv, WishesInv
  <2> QED
    BY <2>1 DEF WishRows
<1> HIDE DEF c
<1>3. Settled({c}, d)
  <2>1. d \in [Nat -> Int] /\ d[c.id] = 0 /\ \A i \in Nat : d[i] = 0
    BY <1>2 DEF WishRows
  <2> HIDE DEF d
  <2> QED
    BY <1>1, <1>2, <2>1, FS_Singleton DEF Settled
<1>4. Post({}, {c})
  BY <1>1 DEF c
<1> QED
  BY <1>3, <1>4, NoRow, Posted

(* Days are in order.                                                      *)
LEMMA DaysOrdered ==
  /\ DOMAIN Days = 1 .. Len(Days) /\ Len(Days) \in Nat /\ 1 \in DOMAIN Days
  /\ \A i \in DOMAIN Days : Days[i] \in Int
  /\ \A i, j \in DOMAIN Days : i < j => Days[i] < Days[j]
BY RecapAssumption

(* What does not touch the money, and the day that passes.                 *)
LEMMA RestKeeps ==
  ASSUME LedgerInv, UNCHANGED <<wishes, effects>>,
         UNCHANGED now \/ (now < Len(Days) /\ now' = now + 1)
  PROVE  LedgerInv'
<1>1. /\ now \in DOMAIN Days /\ now' \in DOMAIN Days
      /\ today \in Int /\ today' \in Int /\ today <= today'
  <2>1. now \in 1 .. Len(Days)
    BY DaysOrdered DEF LedgerInv, WishesInv
  <2>2. now' \in DOMAIN Days /\ now \in DOMAIN Days /\ (now' = now \/ now < now')
    BY <2>1, DaysOrdered
  <2>3. Days[now] \in Int /\ Days[now'] \in Int /\ Days[now] <= Days[now']
    BY <2>2, DaysOrdered
  <2> QED
    BY <2>2, <2>3 DEF today
<1>2. RowsInv'
  BY <1>1 DEF LedgerInv, RowsInv, EffectRows
<1>3. WishesInv'
  <2>1. \A w \in wishes : w.closed \in Int /\ Active(w)' = Active(w)
    BY DEF LedgerInv, WishesInv, WishRows, Active
  <2> QED
    BY <1>1, <2>1 DEF LedgerInv, WishesInv
<1>4. FundsInv'
  BY <1>1 DEF LedgerInv, FundsInv
<1> QED
  BY <1>2, <1>3, <1>4 DEF LedgerInv

(* A beginning that was only saved for.                                    *)
LEMMA LedgerInitially == Init => LedgerInv
<1> SUFFICES ASSUME Init PROVE LedgerInv
  OBVIOUS
<1>1. /\ now = 1 /\ wishes = FirstWishes /\ effects = History /\ today = Days[1]
      /\ now \in DOMAIN Days /\ today \in Int
  BY RecapAssumption DEF Init, today
<1>2. RowsInv
  <2>1. \A e \in History : Signed(e) /\ e.day <= Days[1]
    BY <1>1, RecapAssumption DEF Signed, EffectRows
  <2> QED
    BY <1>1, <2>1, RecapAssumption DEF RowsInv, Apart
<1>3. WishesInv
  BY <1>1, RecapAssumption DEF WishesInv
<1>4. /\ IsFiniteSet(History) /\ \A e \in History : DeltasOf(History)[e] \in Nat
      /\ \A e \in History : e.day < Days[1] /\ e.day \in Int
  BY RecapAssumption DEF DeltasOf, EffectRows
<1>5. \A i \in Nat : \A b \in Int : Funds(History, i, b) >= 0
  <2> SUFFICES ASSUME NEW i \in Nat, NEW b \in Int PROVE Funds(History, i, b) >= 0
    OBVIOUS
  <2>1. Until(History, i, b) \in SUBSET History
    BY DEF Until
  <2>2. SumFunctionOnSet(DeltasOf(History), Until(History, i, b)) \in Nat
    BY <1>4, <2>1, SumOfPart
  <2> QED
    BY <2>2 DEF Funds
<1>6. \A w \in FirstWishes : \A b \in Int : Days[1] < b => Funds(History, w.id, b) = w.saved
  <2> SUFFICES ASSUME NEW w \in FirstWishes, NEW b \in Int, Days[1] < b
               PROVE  Funds(History, w.id, b) = w.saved
    OBVIOUS
  <2>1. Until(History, w.id, b) = {e \in History : e.wish = w.id}
    BY <1>1, <1>4 DEF Until
  <2> QED
    BY <2>1, RecapAssumption DEF Funds, DeltasOf
<1>7. FundsInv
  BY <1>1, <1>5, <1>6, RecapAssumption DEF FundsInv
<1> QED
  BY <1>2, <1>3, <1>7 DEF LedgerInv

(* The steps of the recaps leave the ledger alone.                         *)
LEMMA LedgerInductive == LedgerInv /\ [Next]_vars => LedgerInv'
<1> SUFFICES ASSUME LedgerInv, [Next]_vars PROVE LedgerInv'
  OBVIOUS
<1>1. CASE Open
  BY <1>1, OpenKeeps
<1>2. CASE Deposit \/ Withdraw
  BY <1>2, DepositKeeps
<1>3. CASE Transfer
  BY <1>3, TransferKeeps
<1>4. CASE Complete \/ Abandon \/ Delete
  BY <1>4, EndingKeeps
<1>5. CASE Visit
  BY <1>5, RestKeeps DEF Visit
<1>6. CASE Share
  BY <1>6, RestKeeps DEF Share
<1>7. CASE NextDay
  BY <1>7, RestKeeps DEF NextDay
<1>8. CASE WeeklyBatch
  <2>1. UNCHANGED ledger
    BY <1>8, Zenon DEF WeeklyBatch
  <2> QED
    BY <2>1, RestKeeps DEF ledger
<1>9. CASE MonthlyBatch
  <2>1. UNCHANGED ledger
    BY <1>9, Zenon DEF MonthlyBatch
  <2> QED
    BY <2>1, RestKeeps DEF ledger
<1>10. CASE WeeklyService
  <2>1. UNCHANGED ledger
    BY <1>10, Zenon DEF WeeklyService
  <2> QED
    BY <2>1, RestKeeps DEF ledger
<1>11. CASE MonthlyService
  <2>1. UNCHANGED ledger
    BY <1>11, Zenon DEF MonthlyService
  <2> QED
    BY <2>1, RestKeeps DEF ledger
<1>12. CASE Deliver
  BY <1>12, RestKeeps DEF Deliver, ledger
<1>13. CASE UNCHANGED vars
  BY <1>13, RestKeeps DEF vars, ledger
<1> QED
  BY <1>1, <1>2, <1>3, <1>4, <1>5, <1>6, <1>7, <1>8, <1>9, <1>10, <1>11, <1>12, <1>13 DEF Next

(* The ledger and the wishes agree, at any time: a wish holds what its     *)
(* rows add up to, on no day it held less than nothing, and what ended     *)
(* holds nothing (the backend's saved_amount_at_period_end).               *)
THEOREM LedgerInvariant == Spec => []LedgerInv
BY LedgerInitially, LedgerInductive, PTL DEF Spec

-----------------------------------------------------------------------------
(* Periods that are over.                                                  *)

(* A set of places in a sequence has a last one.                           *)
LEMMA LastPlace ==
  ASSUME NEW n \in Nat, NEW S \in SUBSET (1 .. n), S # {}
  PROVE  Max(S) \in S /\ \A k \in S : k <= Max(S)
<1> DEFINE T == {n - k : k \in S}
<1>1. T \in SUBSET Nat /\ T # {}
  <2>1. \A k \in S : n - k \in Nat
    OBVIOUS
  <2> QED BY <2>1
<1>2. PICK t \in T : \A u \in T : t <= u
  BY <1>1, LeastNatural
<1>3. PICK k \in S : t = n - k
  OBVIOUS
<1>4. \A j \in S : k >= j
  <2> TAKE j \in S
  <2>1. n - j \in T
    OBVIOUS
  <2>2. j \in Int /\ k \in Int
    OBVIOUS
  <2> HIDE DEF T
  <2>3. n - k <= n - j
    BY <1>2, <1>3, <2>1
  <2> QED BY <2>2, <2>3
<1>5. Max(S) \in S /\ \A j \in S : Max(S) >= j
  BY <1>4 DEF Max
<1>6. \A j \in S : j \in Int
  OBVIOUS
<1> QED BY <1>5, <1>6

(* The months begin one after the other.                                   *)
LEMMA MonthsOrdered ==
  /\ DOMAIN MonthStart = 1 .. Len(MonthStart) /\ Len(MonthStart) \in Nat
  /\ \A m \in DOMAIN MonthStart : MonthStart[m] \in Int
  /\ \A m, n \in DOMAIN MonthStart : m < n => MonthStart[m] < MonthStart[n]
BY RecapMetricsAssumption

(* Today is in a month that is known, and so is the month before.          *)
LEMMA LastMonthKnown ==
  ASSUME LedgerInv
  PROVE  /\ today \in Int /\ LastMonth \in DOMAIN MonthStart /\ LastMonth + 1 \in DOMAIN MonthStart
         /\ LastMonth \in Nat
         /\ MonthStart[LastMonth] \in Int /\ MonthStart[LastMonth + 1] \in Int
         /\ MonthStart[LastMonth] < MonthStart[LastMonth + 1] /\ MonthStart[LastMonth + 1] <= today
<1>1. today \in Int /\ Days[1] <= today
  <2>1. now \in 1 .. Len(Days)
    BY DaysOrdered DEF LedgerInv, WishesInv
  <2>2. 1 \in DOMAIN Days /\ now \in DOMAIN Days /\ (now = 1 \/ 1 < now)
    BY <2>1, DaysOrdered
  <2> QED
    BY <2>2, DaysOrdered DEF today
<1> DEFINE S == {m \in DOMAIN MonthStart : MonthStart[m] <= today}
<1>2. 2 \in S
  <2>1. 2 \in DOMAIN MonthStart /\ MonthStart[2] <= Days[1] /\ Days[1] \in Int /\ MonthStart[2] \in Int
    BY RecapAssumption, DaysOrdered, MonthsOrdered
  <2> QED
    BY <1>1, <2>1
<1>3. S \in SUBSET (1 .. Len(MonthStart)) /\ Len(MonthStart) \in Nat
  BY MonthsOrdered
<1>4. MonthOf(today) = Max(S)
  BY DEF MonthOf
<1> HIDE DEF S
<1>5. Max(S) \in S /\ 2 <= Max(S)
  BY <1>2, <1>3, LastPlace
<1>6. Max(S) \in DOMAIN MonthStart /\ MonthStart[Max(S)] <= today
  BY <1>5 DEF S
<1>7. PICK m \in Nat : m = Max(S) /\ m - 1 \in DOMAIN MonthStart /\ m \in DOMAIN MonthStart /\ m >= 2
  BY <1>5, <1>6, MonthsOrdered
<1>8. LastMonth = m - 1 /\ (m - 1) + 1 = m /\ m - 1 < m /\ m - 1 \in Nat
  BY <1>4, <1>7 DEF LastMonth
<1>9. MonthStart[m - 1] < MonthStart[m] /\ MonthStart[m - 1] \in Int /\ MonthStart[m] \in Int
  BY <1>7, <1>8, MonthsOrdered
<1> QED
  BY <1>1, <1>6, <1>7, <1>8, <1>9

(* A week or month that is over is one that the service accepts.           *)
LEMMA PeriodsComplete ==
  ASSUME LedgerInv, NEW a
  PROVE  /\ CompletePeriod("WEEKLY",
              RequestFor(a, 7 * LastWeek(today), EndOfWeek(LastWeek(today))))
         /\ CompletePeriod("MONTHLY",
              RequestFor(a, MonthStart[LastMonth], EndOfMonth(LastMonth)))
<1>1. PICK k \in Int : k = LastWeek(today)
  BY LastMonthKnown DEF LastWeek
<1>2. (7 * k) % 7 = 0 /\ 7 * (k + 1) = 7 * k + 7
  OBVIOUS
<1>3. \A start, end : RequestFor(a, start, end).start = start /\ RequestFor(a, start, end).end = end
  BY DEF RequestFor
<1>4. CompletePeriod("WEEKLY", RequestFor(a, 7 * k, EndOfWeek(k)))
  BY <1>2, <1>3 DEF CompletePeriod, EndOfWeek, Weekday
<1>5. CompletePeriod("MONTHLY", RequestFor(a, MonthStart[LastMonth], EndOfMonth(LastMonth)))
  <2>1. LastMonth \in DOMAIN MonthStart
    BY LastMonthKnown
  <2> QED
    BY <1>3, <2>1 DEF CompletePeriod, EndOfMonth
<1> QED
  BY <1>1, <1>4, <1>5

-----------------------------------------------------------------------------
(* What the export makes of the rows.                                      *)

(* A row is exported under its own id; its type tells whether the money    *)
(* came in or went out.                                                    *)
LEMMA TransactionFields ==
  ASSUME LedgerInv, NEW e \in effects, NEW t, t = TransactionOf(e)
  PROVE  /\ t.id = e.id /\ t.root = e.root /\ t.account = e.account /\ t.wish = e.wish
         /\ t.day = e.day /\ t.type = ResolveTransactionType(e.event, e.delta)
         /\ t.amount \in Nat /\ t.amount > 0 /\ t.amount * TypeSign(t.type) = e.delta
<1>1. /\ e.delta \in Int /\ e.delta # 0 /\ e.event \in Events
      /\ e.event = "WISH_DEPOSIT" => e.delta > 0
      /\ e.event \notin {"WISH_DEPOSIT", "WISH_TRANSFER"} => e.delta < 0
  BY DEF LedgerInv, RowsInv, EffectRows, Signed
<1>2. /\ t.id = e.id /\ t.root = e.root /\ t.account = e.account /\ t.wish = e.wish
      /\ t.day = e.day /\ t.type = ResolveTransactionType(e.event, e.delta)
      /\ t.amount = IF e.delta < 0 THEN -e.delta ELSE e.delta
  BY DEF TransactionOf
<1>3. TypeSign(t.type) = IF e.delta > 0 THEN 1 ELSE -1
  <2>1. ResolveTransactionType(e.event, e.delta) \in
          (IF e.delta > 0 THEN {"DEPOSIT", "TRANSFER_IN"} ELSE {"WITHDRAWAL", "TRANSFER_OUT", "REFUND"})
    BY <1>1 DEF ResolveTransactionType, Events
  <2> QED
    BY <1>2, <2>1 DEF TypeSign
<1>4. PICK n, m : n \in Int /\ n = e.delta /\ m = t.amount /\ n # 0 /\ m = IF n < 0 THEN -n ELSE n
  BY <1>1, <1>2
<1>5. CASE n > 0
  BY <1>2, <1>3, <1>4, <1>5
<1>6. CASE n < 0
  <2>1. m = -n /\ m \in Nat /\ m > 0 /\ m * (-1) = n
    BY <1>4, <1>6
  <2>2. TypeSign(t.type) = -1
    BY <1>1, <1>3, <1>4, <1>6
  <2> QED
    BY <1>2, <1>4, <2>1, <2>2
<1> QED
  BY <1>4, <1>5, <1>6

(* The rows exported are told apart by their ids, and by root and wish.    *)
LEMMA TransactionsApart ==
  ASSUME LedgerInv, NEW d \in effects, NEW e \in effects
  PROVE  /\ TransactionOf(d).id = TransactionOf(e).id => d = e
         /\ TransactionOf(d).root = TransactionOf(e).root /\ TransactionOf(d).wish = TransactionOf(e).wish
              => d = e
<1>1. /\ TransactionOf(d).id = d.id /\ TransactionOf(d).root = d.root /\ TransactionOf(d).wish = d.wish
      /\ TransactionOf(e).id = e.id /\ TransactionOf(e).root = e.root /\ TransactionOf(e).wish = e.wish
  BY DEF TransactionOf
<1> QED
  BY <1>1 DEF LedgerInv, RowsInv, Apart

(* The wishes of a request are those of the account, with what they held   *)
(* when the period ended.                                                  *)
LEMMA RequestFields ==
  ASSUME LedgerInv, NEW a, NEW start, NEW end \in Int
  PROVE  /\ RequestFor(a, start, end).account = a
         /\ RequestFor(a, start, end).start = start /\ RequestFor(a, start, end).end = end
         /\ RequestFor(a, start, end).transactions = {t \in Transactions : t.account = a /\ t.day < end}
         /\ \A v \in RequestFor(a, start, end).wishes :
              /\ v.saved \in Int /\ v.saved >= 0
              /\ v \in WishRows
              /\ \E w \in wishes : /\ w.account = a /\ v.id = w.id /\ v.account = a
                                   /\ v = [w EXCEPT !.saved = v.saved]
                                   /\ v.saved = Funds(effects, w.id, end)
         /\ \A w \in wishes : w.account = a =>
              \E v \in RequestFor(a, start, end).wishes : v.id = w.id
         /\ \A v, w \in RequestFor(a, start, end).wishes : v # w => v.id # w.id
<1> DEFINE Past(w) == [w EXCEPT !.saved = Balance(w.id, end)]
           rows == {Past(w) : w \in {v \in wishes : v.account = a}}
           r == RequestFor(a, start, end)
<1>1. /\ r.account = a /\ r.start = start /\ r.end = end /\ r.wishes = rows
      /\ r.transactions = {t \in Transactions : t.account = a /\ t.day < end}
  BY DEF RequestFor
<1>2. ASSUME NEW w \in wishes
      PROVE  /\ Past(w).saved \in Nat /\ Past(w).saved = Funds(effects, w.id, end)
             /\ Past(w) \in WishRows /\ Past(w).id = w.id /\ Past(w).account = w.account
             /\ Past(w) = [w EXCEPT !.saved = Past(w).saved]
  <2>1. w \in WishRows /\ w.id \in Nat
    BY DEF LedgerInv, WishesInv, WishRows
  <2>2. PICK n : n = Funds(effects, w.id, end)
    OBVIOUS
  <2>3. n \in Int /\ n >= 0
    BY <2>1, <2>2, FundsInt DEF LedgerInv, RowsInv, FundsInv
  <2>4. Past(w) = [w EXCEPT !.saved = n]
    BY <2>2, BalanceIsFunds
  <2> HIDE DEF Past
  <2> QED
    BY <2>1, <2>2, <2>3, <2>4 DEF WishRows
<1> HIDE DEF Past, r
<1>3. \A v \in r.wishes : \E w \in wishes : w.account = a /\ v = Past(w)
  BY <1>1
<1>4. \A w \in wishes : w.account = a => Past(w) \in r.wishes
  BY <1>1
<1>5. \A v, w \in r.wishes : v # w => v.id # w.id
  BY <1>2, <1>3 DEF LedgerInv, WishesInv
<1>6. \A v \in r.wishes :
        /\ v.saved \in Int /\ v.saved >= 0 /\ v \in WishRows
        /\ \E w \in wishes : /\ w.account = a /\ v.id = w.id /\ v.account = a
                             /\ v = [w EXCEPT !.saved = v.saved]
                             /\ v.saved = Funds(effects, w.id, end)
  <2> TAKE v \in r.wishes
  <2>1. PICK w \in wishes : w.account = a /\ v = Past(w)
    BY <1>3
  <2> QED
    BY <1>2, <2>1
<1> QED
  BY <1>1, <1>2, <1>4, <1>5, <1>6 DEF r

(* What the ledger holds passes the validation.                            *)
LEMMA RequestsValid ==
  ASSUME LedgerInv, NEW kind, NEW a, NEW start, NEW end \in Int,
         CompletePeriod(kind, RequestFor(a, start, end))
  PROVE  ValidRequest(kind, RequestFor(a, start, end))
<1> DEFINE r == RequestFor(a, start, end)
<1>1. /\ r.transactions = {t \in Transactions : t.account = a /\ t.day < end}
      /\ \A w \in r.wishes : w.saved >= 0 /\ w \in WishRows
      /\ \A w \in wishes : w.account = a => \E v \in r.wishes : v.id = w.id
      /\ \A v, w \in r.wishes : v # w => v.id # w.id
  BY RequestFields
<1> HIDE DEF r
<1>2. \A t \in r.transactions : \E e \in effects : t = TransactionOf(e) /\ e.account = a
  <2> TAKE t \in r.transactions
  <2>1. PICK e \in effects : t = TransactionOf(e) /\ t.account = a
    BY <1>1 DEF Transactions
  <2> QED
    BY <2>1, TransactionFields
<1>3. \A t \in r.transactions : t.amount > 0 /\ \E w \in r.wishes : w.id = t.wish
  <2> TAKE t \in r.transactions
  <2>1. PICK e \in effects : t = TransactionOf(e) /\ e.account = a
    BY <1>2
  <2>2. t.amount > 0 /\ t.wish = e.wish
    BY <2>1, TransactionFields
  <2>3. PICK w \in wishes : w.id = e.wish /\ w.account = a
    BY <2>1 DEF LedgerInv, WishesInv
  <2> QED
    BY <1>1, <2>2, <2>3
<1>4. UniqueEffects(r)
  <2> SUFFICES ASSUME NEW s \in r.transactions, NEW t \in r.transactions, s.id # t.id
               PROVE  <<s.root, s.wish>> # <<t.root, t.wish>>
    BY DEF UniqueEffects
  <2>1. PICK d \in effects, e \in effects : s = TransactionOf(d) /\ t = TransactionOf(e)
    BY <1>2
  <2> QED
    BY <2>1, TransactionsApart
<1>5. \A w \in r.wishes : w.target >= 0
  BY <1>1 DEF WishRows
<1> QED
  BY <1>1, <1>3, <1>4, <1>5 DEF ValidRequest, r

(* What is delivered was made of the ledger as it is: a step leaves no     *)
(* recap, or the one there was and the ledger, or makes a new one.         *)
LEMMA ReportSteps ==
  ASSUME [Next]_vars
  PROVE  \/ report' = NoReport \/ UNCHANGED vars
         \/ (WeeklyBatch \/ MonthlyBatch \/ WeeklyService \/ MonthlyService) /\ UNCHANGED ledger
<1>1. CASE Open \/ Deposit \/ Withdraw \/ Transfer \/ Complete \/ Abandon \/ Delete
  <2>1. Idle /\ UNCHANGED report
    BY <1>1 DEF Open, Deposit, Withdraw, Transfer, Complete, Abandon, Delete, End, Post, Quiet
  <2> QED
    BY <2>1 DEF Idle
<1>2. CASE Visit \/ Share \/ NextDay \/ Deliver
  <2>1. report' = NoReport
    BY <1>2 DEF Visit, Share, NextDay, Deliver, Quiet, Idle
  <2> QED
    BY <2>1
<1>3. WeeklyBatch => UNCHANGED ledger
  BY Zenon DEF WeeklyBatch
<1>4. MonthlyBatch => UNCHANGED ledger
  BY Zenon DEF MonthlyBatch
<1>5. WeeklyService => UNCHANGED ledger
  BY Zenon DEF WeeklyService
<1>6. MonthlyService => UNCHANGED ledger
  BY Zenon DEF MonthlyService
<1> QED
  BY <1>1, <1>2, <1>3, <1>4, <1>5, <1>6 DEF Next

(* The week that is over, and its request.                                 *)
LEMMA WeekOver ==
  ASSUME LedgerInv
  PROVE  /\ LastWeek(today) \in Int /\ 7 * LastWeek(today) \in Int
         /\ EndOfWeek(LastWeek(today)) = 7 * LastWeek(today) + 7
         /\ EndOfWeek(LastWeek(today)) \in Int /\ EndOfWeek(LastWeek(today)) <= today
<1>1. today \in Int
  BY LastMonthKnown
<1>2. PICK k \in Int : k = LastWeek(today) /\ k = (today \div 7) - 1
  BY <1>1 DEF LastWeek
<1>3. 7 * (k + 1) <= today
  BY <1>1, <1>2
<1> QED
  BY <1>2, <1>3 DEF EndOfWeek

(* A weekly recap is always one.                                           *)
LEMMA WeeklyAnswered ==
  ASSUME LedgerInv, WeeklyService
  PROVE  \E a \in Students :
           LET k == LastWeek(today)  r == RequestFor(a, 7 * k, EndOfWeek(k)) IN
           report' = [kind |-> "weekly", account |-> a, week |-> k,
                      reply |-> [status |-> 200, view |-> WeeklyView(r, k)]]
<1>1. PICK a \in Students :
        LET k == LastWeek(today)  r == RequestFor(a, 7 * k, EndOfWeek(k)) IN
        report' = [kind |-> "weekly", account |-> a, week |-> k,
                   reply |-> Reply("WEEKLY", r, WeeklyView(r, k))]
  BY DEF WeeklyService
<1> DEFINE k == LastWeek(today)  r == RequestFor(a, 7 * k, EndOfWeek(k))
<1>2. ValidRequest("WEEKLY", r)
  BY PeriodsComplete, WeekOver, RequestsValid
<1> HIDE DEF r
<1>3. Reply("WEEKLY", r, WeeklyView(r, k)) = [status |-> 200, view |-> WeeklyView(r, k)]
  BY <1>2 DEF Reply
<1> QED
  BY <1>1, <1>3 DEF r

(* A monthly recap is one, or none for a date that cannot be represented.  *)
LEMMA MonthlyAnswered ==
  ASSUME LedgerInv, MonthlyService
  PROVE  \E a \in Students : \E reply :
           LET r == RequestFor(a, MonthStart[LastMonth], EndOfMonth(LastMonth)) IN
           /\ report' = [kind |-> "monthly", account |-> a, month |-> LastMonth, reply |-> reply]
           /\ reply = [status |-> 500] \/ reply = [status |-> 200, view |-> MonthlyView(r, LastMonth)]
<1>1. PICK a \in Students :
        LET r == RequestFor(a, MonthStart[LastMonth], EndOfMonth(LastMonth)) IN
        report' = [kind |-> "monthly", account |-> a, month |-> LastMonth,
                   reply |-> Reply("MONTHLY", r, MonthlyView(r, LastMonth))]
  BY Zenon DEF MonthlyService
<1> DEFINE r == RequestFor(a, MonthStart[LastMonth], EndOfMonth(LastMonth))
<1>2. EndOfMonth(LastMonth) \in Int
  BY LastMonthKnown DEF EndOfMonth
<1>3. ValidRequest("MONTHLY", r)
  BY <1>2, PeriodsComplete, RequestsValid
<1> HIDE DEF r
<1>4. \A view : \/ Reply("MONTHLY", r, view) = [status |-> 500]
                \/ Reply("MONTHLY", r, view) = [status |-> 200, view |-> view]
  BY <1>3 DEF Reply
<1>5. report' = [kind |-> "monthly", account |-> a, month |-> LastMonth,
                 reply |-> Reply("MONTHLY", r, MonthlyView(r, LastMonth))]
  BY <1>1, Zenon DEF r
<1>6. \E reply :
        /\ report' = [kind |-> "monthly", account |-> a, month |-> LastMonth, reply |-> reply]
        /\ reply = [status |-> 500] \/ reply = [status |-> 200, view |-> MonthlyView(r, LastMonth)]
  BY <1>4, <1>5, Zenon
<1> QED
  BY <1>6, Zenon DEF r

(* The request of an export is never refused.                              *)
THEOREM NeverRefused == Spec => []Accepted
<1>1. Init => Accepted
  BY DEF Init, NoReport, Accepted
<1>2. LedgerInv /\ Accepted /\ [Next]_vars => Accepted'
  <2> SUFFICES ASSUME LedgerInv, Accepted, [Next]_vars PROVE Accepted'
    OBVIOUS
  <2>1. CASE report' = NoReport
    BY <2>1 DEF NoReport, Accepted
  <2>2. CASE UNCHANGED vars
    BY <2>2 DEF vars, Accepted
  <2>3. CASE WeeklyBatch \/ MonthlyBatch
    <3>1. WeeklyBatch => report'.kind = "weekly_batch"
      BY DEF WeeklyBatch
    <3>2. MonthlyBatch => report'.kind = "monthly_batch"
      BY DEF MonthlyBatch
    <3> QED
      BY <2>3, <3>1, <3>2 DEF Accepted
  <2>4. CASE WeeklyService
    <3>1. report'.reply.status = 200
      BY <2>4, WeeklyAnswered
    <3> QED
      BY <3>1 DEF Accepted
  <2>5. CASE MonthlyService
    <3>1. report'.kind = "monthly" /\ report'.reply.status \in {200, 500}
      <4>1. PICK a, reply, view :
              /\ report' = [kind |-> "monthly", account |-> a, month |-> LastMonth, reply |-> reply]
              /\ reply = [status |-> 500] \/ reply = [status |-> 200, view |-> view]
        BY <2>5, MonthlyAnswered
      <4> QED
        BY <4>1
    <3> QED
      BY <3>1 DEF Accepted
  <2> QED
    BY <2>1, <2>2, <2>3, <2>4, <2>5, ReportSteps
<1> QED
  BY <1>1, <1>2, LedgerInvariant, PTL DEF Spec

-----------------------------------------------------------------------------
(* What moved in a period.                                                 *)

(* The effects of a wish in a period.                                      *)
Between(i, b, c) == {e \in effects : e.wish = i /\ e.day \in b .. c - 1}

(* The exported rows of a wish add up to what its balance changed.         *)
LEMMA NetMoved ==
  ASSUME LedgerInv, NEW i \in Nat, NEW b \in Int, NEW c \in Int, b <= c,
         NEW txs, txs \subseteq Transactions,
         \A e \in Between(i, b, c) : TransactionOf(e) \in txs
  PROVE  /\ NetChange(i, b .. c - 1, txs) = Funds(effects, i, c) - Funds(effects, i, b)
         /\ Funds(effects, i, c) \in Int /\ Funds(effects, i, b) \in Int
<1> DEFINE E == Between(i, b, c)
           f == DeltasOf(effects)
           g == [t \in txs |-> t.amount * TypeSign(t.type)]
           h == [e \in effects |-> TransactionOf(e)]
<1>1. /\ effects \subseteq EffectRows /\ IsFiniteSet(effects)
      /\ \A e \in effects : f[e] = e.delta /\ f[e] \in Int /\ e.day \in Int
      /\ E \subseteq effects
  BY DEF LedgerInv, RowsInv, EffectRows, DeltasOf, Between
<1>2. IsFiniteSet(E) /\ IsFiniteSet(Until(effects, i, c))
  BY <1>1, FS_Subset DEF Until
<1>3. /\ Until(effects, i, b) \in SUBSET Until(effects, i, c)
      /\ Until(effects, i, c) \ Until(effects, i, b) = E
      /\ \A e \in Until(effects, i, c) : f[e] \in Int
  BY <1>1 DEF Until, Between
<1> HIDE DEF f, E
<1>4. /\ Funds(effects, i, c) = Funds(effects, i, b) + SumFunctionOnSet(f, E)
      /\ Funds(effects, i, b) \in Int /\ SumFunctionOnSet(f, E) \in Int
  <2>1. /\ SumFunctionOnSet(f, Until(effects, i, b)) \in Int
        /\ SumFunctionOnSet(f, Until(effects, i, c) \ Until(effects, i, b)) \in Int
        /\ SumFunctionOnSet(f, Until(effects, i, c))
             = SumFunctionOnSet(f, Until(effects, i, b))
               + SumFunctionOnSet(f, Until(effects, i, c) \ Until(effects, i, b))
    BY <1>2, <1>3, SumSplit
  <2> QED
    BY <1>3, <2>1 DEF Funds, f
<1>5. \A e \in E : h[e] = TransactionOf(e) /\ h[e] \in txs /\ g[h[e]] = f[e]
  <2> TAKE e \in E
  <2>1. h[e] = TransactionOf(e) /\ TransactionOf(e) \in txs
    BY <1>1 DEF E
  <2>2. TransactionOf(e).amount * TypeSign(TransactionOf(e).type) = e.delta
    BY <1>1, TransactionFields
  <2> QED
    BY <1>1, <2>1, <2>2
<1>6. \A d, e \in E : h[d] = h[e] => d = e
  BY <1>1, TransactionsApart
<1>7. Moves(i, b .. c - 1, txs) = {h[e] : e \in E}
  <2>1. ASSUME NEW t \in Moves(i, b .. c - 1, txs) PROVE \E e \in E : t = h[e]
    <3>1. PICK e \in effects : t = TransactionOf(e) /\ t.wish = i /\ t.day \in b .. c - 1
      BY DEF Moves, Transactions
    <3>2. e \in E
      BY <3>1, TransactionFields DEF E, Between
    <3> QED
      BY <3>1, <3>2
  <2>2. ASSUME NEW e \in E PROVE h[e] \in Moves(i, b .. c - 1, txs)
    <3>1. h[e] = TransactionOf(e) /\ h[e] \in txs /\ e \in effects
      BY <1>1, <1>5
    <3>2. TransactionOf(e).wish = i /\ TransactionOf(e).day \in b .. c - 1
      BY <3>1, TransactionFields DEF E, Between
    <3> QED
      BY <3>1, <3>2 DEF Moves
  <2> QED
    BY <2>1, <2>2
<1>8. NetChange(i, b .. c - 1, txs) = SumFunctionOnSet(g, {h[e] : e \in E})
  BY <1>7 DEF NetChange
<1> HIDE DEF g, h
<1>9. SumFunctionOnSet(g, {h[e] : e \in E}) = SumFunctionOnSet(f, E)
  <2>1. \A e \in E : f[e] \in Int /\ g[h[e]] = f[e]
    BY <1>1, <1>5
  <2> QED
    BY <1>2, <1>6, <2>1, SumRenamed
<1> QED
  BY <1>4, <1>8, <1>9

(* The representative wish of an account is one of its wishes.             *)
LEMMA RepresentativeIsMine ==
  ASSUME NEW W, \A w \in W : w.id \in Nat, NEW a
  PROVE  \A w \in RepresentativeWish(a, W) : w \in W /\ w.account = a /\ w.deleted = Never
<1>1. ASSUME NEW S, S \subseteq W PROVE Option(S) \subseteq S
  <2>1. CASE S = {}
    BY <2>1 DEF Option
  <2>2. CASE S # {}
    <3> DEFINE ids == {w.id : w \in S}
    <3>1. ids \in SUBSET Nat /\ ids # {}
      BY <1>1, <2>2
    <3>2. PICK n \in ids : \A m \in ids : n <= m
      BY <3>1, LeastNatural
    <3>3. \E r \in S : \A q \in S : r.id <= q.id
      BY <3>2
    <3>4. First(S) \in S
      BY <3>3 DEF First
    <3> QED
      BY <2>2, <3>4 DEF Option
  <2> QED
    BY <2>1, <2>2
<1> DEFINE mine     == {w \in W : w.account = a /\ w.deleted = Never}
           explicit == {w \in mine : w.representative}
           open     == {w \in mine : w.status = "IN_PROGRESS"}
           oldest   == {w \in open : \A v \in open : w.created <= v.created}
<1>2. RepresentativeWish(a, W) = IF explicit # {} THEN Option(explicit) ELSE Option(oldest)
  BY DEF RepresentativeWish
<1>3. explicit \subseteq mine /\ oldest \subseteq mine /\ mine \subseteq W
  OBVIOUS
<1> HIDE DEF explicit, oldest
<1>4. RepresentativeWish(a, W) \subseteq mine
  BY <1>1, <1>2, <1>3
<1> QED
  BY <1>4

(* The rows that the service computes on.                                  *)
LEMMA DomainFields ==
  ASSUME LedgerInv, NEW a, NEW start, NEW end \in Int
  PROVE  \A v \in DomainWishes(RequestFor(a, start, end)) :
           /\ v.id \in Nat
           /\ \E w \in wishes :
                /\ w.account = a /\ v.account = a /\ v.id = w.id /\ v.target = w.target
                /\ v.created = w.created /\ v.closed = w.closed /\ v.deleted = w.deleted
                /\ v.representative = w.representative /\ v.saved = Funds(effects, w.id, end)
<1> DEFINE r == RequestFor(a, start, end)
<1> TAKE v \in DomainWishes(r)
<1>1. PICK q \in r.wishes : v = [q EXCEPT !.status = Status(@), !.due = Never]
  BY Zenon DEF DomainWishes
<1>2. PICK w \in wishes : /\ w.account = a /\ q.id = w.id /\ q.account = a
                          /\ q = [w EXCEPT !.saved = q.saved] /\ q.saved = Funds(effects, w.id, end)
  BY RequestFields
<1> HIDE DEF r
<1>3. /\ v.id = q.id /\ v.account = q.account /\ v.target = q.target /\ v.created = q.created
      /\ v.closed = q.closed /\ v.deleted = q.deleted /\ v.representative = q.representative
      /\ v.saved = q.saved
  <2>1. q \in WishRows
    BY RequestFields DEF r
  <2> QED
    BY <1>1, <2>1 DEF WishRows
<1>4. w \in WishRows /\ w.id \in Nat
  BY DEF LedgerInv, WishesInv, WishRows
<1>5. /\ q.target = w.target /\ q.created = w.created /\ q.closed = w.closed
      /\ q.deleted = w.deleted /\ q.representative = w.representative
  BY <1>2, <1>4 DEF WishRows
<1> QED
  BY <1>2, <1>3, <1>4, <1>5

(* What an account's wish moved is in its request.                         *)
Told(a, end) == {t \in Transactions : t.account = a /\ t.day < end}
LEMMA RequestMoves ==
  ASSUME LedgerInv, NEW w \in wishes, NEW end \in Int, NEW b \in Int, NEW c \in Int,
         b <= c, c <= end
  PROVE  NetChange(w.id, b .. c - 1, Told(w.account, end))
           = Funds(effects, w.id, c) - Funds(effects, w.id, b)
<1> DEFINE txs == Told(w.account, end)
<1>1. txs = {t \in Transactions : t.account = w.account /\ t.day < end}
  BY DEF Told
<1> HIDE DEF txs
<1>2. w.id \in Nat
  BY DEF LedgerInv, WishesInv, WishRows
<1>3. ASSUME NEW e \in Between(w.id, b, c) PROVE TransactionOf(e) \in txs
  <2>1. e \in effects /\ e.wish = w.id /\ e.day \in Int /\ e.day < end
    BY DEF Between, LedgerInv, RowsInv, EffectRows
  <2>2. e.account = w.account
    BY <2>1 DEF LedgerInv, WishesInv
  <2>3. TransactionOf(e).account = w.account /\ TransactionOf(e).day < end
    BY <2>1, <2>2, TransactionFields
  <2> QED
    BY <1>1, <2>1, <2>3 DEF Transactions
<1>4. txs \subseteq Transactions
  BY <1>1
<1> QED
  BY <1>2, <1>3, <1>4, NetMoved DEF txs

(* A wish of the batch is one of the backend's.                            *)
LEMMA ExportedFields ==
  ASSUME LedgerInv, NEW academy
  PROVE  \A v \in Among(ExportedWishes, academy) :
           /\ v.id \in Nat
           /\ \E w \in wishes :
                /\ v.account = w.account /\ v.id = w.id /\ v.target = w.target /\ v.saved = w.saved
                /\ v.created = w.created /\ v.closed = w.closed /\ v.deleted = w.deleted
                /\ v.representative = w.representative /\ w.account \in IdsOf(academy)
<1> TAKE v \in Among(ExportedWishes, academy)
<1>1. PICK w \in wishes :
        v = [w EXCEPT !.status = IF @ = "AMOUNT_REACHED" THEN "IN_PROGRESS" ELSE @]
  BY DEF Among, ExportedWishes
<1>2. w \in WishRows /\ v.account \in IdsOf(academy)
  BY DEF LedgerInv, WishesInv, Among
<1>3. /\ v.account = w.account /\ v.id = w.id /\ v.target = w.target /\ v.saved = w.saved
      /\ v.created = w.created /\ v.closed = w.closed /\ v.deleted = w.deleted
      /\ v.representative = w.representative /\ w.id \in Nat
  BY <1>1, <1>2 DEF WishRows
<1> QED
  BY <1>2, <1>3

(* The sections of the batch's reports that these theorems are about.       *)
LEMMA BatchSections ==
  ASSUME NEW a, NEW m, NEW rows, NEW txs, NEW seen, NEW accounts
  PROVE  /\ MonthlyReport(a, m, rows, txs, seen, accounts).objective
              = ObjectivePerformance(a, m, rows, txs)
         /\ MonthlyReport(a, m, rows, txs, seen, accounts).pace
              = PacePrediction(RepresentativeWish(a, rows), m, today, txs)
BY DEF MonthlyReport

(* What the report of the monthly batch is made from: its representatives  *)
(* are wishes as they are, and what moved them in the month is read.       *)
MonthRows(academy, m) == Among({t \in Transactions : t.day \in Month(m)}, academy)
LEMMA BatchReads ==
  ASSUME LedgerInv, NEW academy, NEW m, m = LastMonth, NEW all,
         all = RunMonthly(academy, m, {t \in Transactions : t.day \in Month(m)}),
         NEW a \in DOMAIN all
  PROVE  LET rows == Among(ExportedWishes, academy)  own == MonthRows(academy, m) IN
         /\ all[a].objective = ObjectivePerformance(a, m, rows, own)
         /\ all[a].pace = PacePrediction(RepresentativeWish(a, rows), m, today, own)
         /\ \A v \in RepresentativeWish(a, rows) : \E w \in wishes :
              /\ w.account = a /\ v.id = w.id /\ v.target = w.target /\ v.saved = w.saved
              /\ NetChange(w.id, MonthStart[m] .. EndOfMonth(m) - 1, own)
                   = Funds(effects, w.id, EndOfMonth(m)) - Funds(effects, w.id, MonthStart[m])
<1> DEFINE start == MonthStart[m]  end == EndOfMonth(m)
           own == MonthRows(academy, m)  rows == Among(ExportedWishes, academy)
           seen == VisitsAmong(visits, academy)
           saving == {b \in IdsOf(academy) : CoreMetrics(b, m, rows, own, seen).save_count >= ActiveSaves}
<1>1. start \in Int /\ end \in Int /\ start <= end /\ Month(m) = start .. end - 1
  BY LastMonthKnown DEF EndOfMonth, Month
<1>2. all = [b \in saving |-> MonthlyReport(b, m, rows, own, seen, OfAcademy(academy))]
  BY Zenon DEF RunMonthly, MonthRows
<1>3. saving \subseteq IdsOf(academy)
  OBVIOUS
<1>4. \A v \in rows : v.id \in Nat /\ \E w \in wishes :
        v.account = w.account /\ v.id = w.id /\ v.target = w.target /\ v.saved = w.saved
  BY ExportedFields
<1> HIDE DEF saving, rows, own, seen, start, end
<1>5. a \in IdsOf(academy) /\ all[a] = MonthlyReport(a, m, rows, own, seen, OfAcademy(academy))
  BY <1>2, <1>3
<1>6. ASSUME NEW v \in RepresentativeWish(a, rows)
      PROVE  \E w \in wishes :
               /\ w.account = a /\ v.id = w.id /\ v.target = w.target /\ v.saved = w.saved
               /\ NetChange(w.id, start .. end - 1, own)
                    = Funds(effects, w.id, end) - Funds(effects, w.id, start)
  <2>1. v \in rows /\ v.account = a
    BY <1>4, RepresentativeIsMine
  <2>2. PICK w \in wishes : w.account = a /\ v.id = w.id /\ v.target = w.target /\ v.saved = w.saved
    BY <1>4, <2>1
  <2>3. own \subseteq Transactions
    BY DEF own, MonthRows, Among
  <2>4. ASSUME NEW e \in Between(w.id, start, end) PROVE TransactionOf(e) \in own
    <3>1. e \in effects /\ e.wish = w.id /\ e.day \in Month(m)
      BY <1>1 DEF Between
    <3>2. e.account = w.account
      BY <3>1 DEF LedgerInv, WishesInv
    <3>3. TransactionOf(e).account \in IdsOf(academy) /\ TransactionOf(e).day \in Month(m)
      BY <1>5, <2>2, <3>1, <3>2, TransactionFields
    <3> QED
      BY <3>1, <3>3 DEF own, MonthRows, Among, Transactions
  <2>5. w.id \in Nat
    BY DEF LedgerInv, WishesInv, WishRows
  <2>6. NetChange(w.id, start .. end - 1, own) = Funds(effects, w.id, end) - Funds(effects, w.id, start)
    BY <1>1, <2>3, <2>4, <2>5, NetMoved
  <2> QED
    BY <2>2, <2>6
<1>7. /\ all[a].objective = ObjectivePerformance(a, m, rows, own)
      /\ all[a].pace = PacePrediction(RepresentativeWish(a, rows), m, today, own)
  BY <1>5, BatchSections
<1> QED
  BY <1>6, <1>7 DEF start, end, rows, own

-----------------------------------------------------------------------------
(* Progress calculated backwards.                                          *)

(* The sections of the recaps that these theorems are about.               *)
LEMMA WeeklyMilestone ==
  ASSUME NEW r, NEW k
  PROVE  WeeklyView(r, k).page1.milestone
           = Milestone(r.account, k, DomainWishes(r), r.transactions, r.end)
BY DEF WeeklyView, Page1

LEMMA MonthlySections ==
  ASSUME NEW r, NEW m
  PROVE  /\ MonthlyView(r, m).objective
              = ObjectivePerformance(r.account, m, DomainWishes(r), r.transactions)
         /\ MonthlyView(r, m).pace
              = PacePrediction(RepresentativeWish(r.account, DomainWishes(r)), m, r.end - 1,
                               r.transactions)
BY DEF MonthlyView

(* The wish of a row is the one of its id.                                 *)
LEMMA WishOfId == ASSUME LedgerInv, NEW w \in wishes PROVE WishOf(w.id) = w
BY DEF LedgerInv, WishesInv, WishOf

(* A week's progress.                                                      *)
LEMMA WeeklyBack ==
  ASSUME LedgerInv, NEW a, NEW k, k = LastWeek(today),
         NEW c \in WeeklyView(RequestFor(a, 7 * k, EndOfWeek(k)), k).page1.milestone
  PROVE  c.before = Balance(c.wish, 7 * k) /\ c.after = Balance(c.wish, EndOfWeek(k))
<1> DEFINE start == 7 * k  end == EndOfWeek(k)  r == RequestFor(a, start, end)
<1>1. start \in Int /\ end \in Int /\ start <= end /\ 7 * (k + 1) = end
  BY WeekOver DEF EndOfWeek
<1>2. r.account = a /\ r.end = end
  BY <1>1, RequestFields
<1>3. c \in Milestone(a, k, DomainWishes(r), r.transactions, end)
  BY <1>2, WeeklyMilestone
<1>4. PICK v \in RepresentativeWish(a, DomainWishes(r)) :
        /\ c.wish = v.id
        /\ c.before = v.saved - NetChange(v.id, start .. end - 1, r.transactions)
        /\ c.after = v.saved - NetChange(v.id, end .. end - 1, r.transactions)
  <2> HIDE DEF r, end
  <2>1. PICK v \in RepresentativeWish(a, DomainWishes(r)) :
          /\ c.wish = v.id
          /\ c.before = ProgressAsOf(v, 7 * k, end, r.transactions)
          /\ c.after = ProgressAsOf(v, 7 * (k + 1), end, r.transactions)
    BY <1>3 DEF Milestone
  <2> QED
    BY <1>1, <2>1 DEF ProgressAsOf
<1> HIDE DEF start, end
<1>5. v \in DomainWishes(r)
  <2>1. \A u \in DomainWishes(r) : u.id \in Nat
    BY <1>1, DomainFields
  <2> HIDE DEF r
  <2> QED
    BY <2>1, RepresentativeIsMine
<1>6. PICK w \in wishes : w.account = a /\ v.id = w.id /\ v.saved = Funds(effects, w.id, end)
  BY <1>1, <1>5, DomainFields
<1>7. /\ NetChange(w.id, start .. end - 1, r.transactions)
           = Funds(effects, w.id, end) - Funds(effects, w.id, start)
      /\ NetChange(w.id, end .. end - 1, r.transactions)
           = Funds(effects, w.id, end) - Funds(effects, w.id, end)
  <2>1. r.transactions = Told(w.account, end) /\ end <= end
    BY <1>1, <1>6, RequestFields DEF Told
  <2>2. NetChange(w.id, start .. end - 1, Told(w.account, end))
           = Funds(effects, w.id, end) - Funds(effects, w.id, start)
    BY <1>1, <2>1, RequestMoves
  <2>3. NetChange(w.id, end .. end - 1, Told(w.account, end))
           = Funds(effects, w.id, end) - Funds(effects, w.id, end)
    BY <1>1, <2>1, RequestMoves
  <2> HIDE DEF r
  <2> QED
    BY <2>1, <2>2, <2>3, Zenon
<1> HIDE DEF r
<1>8. Funds(effects, w.id, end) \in Int /\ Funds(effects, w.id, start) \in Int
  BY FundsInt DEF LedgerInv, RowsInv
<1>9. c.before = Funds(effects, w.id, start) /\ c.after = Funds(effects, w.id, end)
  BY <1>4, <1>6, <1>7, <1>8
<1> QED
  BY <1>4, <1>6, <1>9, BalanceIsFunds DEF start, end

(* A month's progress.                                                     *)
LEMMA MonthlyBack ==
  ASSUME LedgerInv, NEW a, NEW m, m = LastMonth,
         NEW c \in MonthlyView(RequestFor(a, MonthStart[m], EndOfMonth(m)), m).objective.change
  PROVE  /\ c.prev = Rate(WishOf(c.wish), MonthStart[m])
         /\ c.curr = Rate(WishOf(c.wish), EndOfMonth(m))
<1> DEFINE start == MonthStart[m]  end == EndOfMonth(m)  r == RequestFor(a, start, end)
<1>1. start \in Int /\ end \in Int /\ start <= end /\ Month(m) = start .. end - 1
  BY LastMonthKnown DEF EndOfMonth, Month
<1>2. r.account = a /\ r.end = end
  BY <1>1, RequestFields
<1>3. c \in ObjectivePerformance(a, m, DomainWishes(r), r.transactions).change
  BY <1>2, MonthlySections
<1> HIDE DEF start, end
<1>4. PICK v \in RepresentativeWish(a, DomainWishes(r)) :
        /\ c.wish = v.id
        /\ c.prev = Rounded(100 * (v.saved - NetChange(v.id, start .. end - 1, r.transactions)), v.target)
        /\ c.curr = Rounded(100 * v.saved, v.target)
  <2> HIDE DEF r
  <2> QED
    BY <1>1, <1>3 DEF ObjectivePerformance
<1>5. v \in DomainWishes(r)
  <2>1. \A u \in DomainWishes(r) : u.id \in Nat
    BY <1>1, DomainFields
  <2> HIDE DEF r
  <2> QED
    BY <2>1, RepresentativeIsMine
<1>6. PICK w \in wishes : /\ w.account = a /\ v.id = w.id /\ v.target = w.target
                          /\ v.saved = Funds(effects, w.id, end)
  BY <1>1, <1>5, DomainFields
<1>7. NetChange(w.id, start .. end - 1, r.transactions)
        = Funds(effects, w.id, end) - Funds(effects, w.id, start)
  <2>1. r.transactions = Told(w.account, end) /\ end <= end
    BY <1>1, <1>6, RequestFields DEF Told
  <2>2. NetChange(w.id, start .. end - 1, Told(w.account, end))
           = Funds(effects, w.id, end) - Funds(effects, w.id, start)
    BY <1>1, <2>1, RequestMoves
  <2> HIDE DEF r
  <2> QED
    BY <2>1, <2>2, Zenon
<1> HIDE DEF r
<1>8. Funds(effects, w.id, end) \in Int /\ Funds(effects, w.id, start) \in Int
  BY FundsInt DEF LedgerInv, RowsInv
<1>9. v.saved - NetChange(v.id, start .. end - 1, r.transactions) = Funds(effects, w.id, start)
  BY <1>6, <1>7, <1>8
<1>10. c.prev = Rounded(100 * Funds(effects, w.id, start), w.target)
       /\ c.curr = Rounded(100 * Funds(effects, w.id, end), w.target)
  BY <1>4, <1>6, <1>9
<1>11. WishOf(c.wish) = w
  BY <1>4, <1>6, WishOfId
<1>12. /\ Rate(w, start) = Rounded(100 * Funds(effects, w.id, start), w.target)
       /\ Rate(w, end) = Rounded(100 * Funds(effects, w.id, end), w.target)
  BY BalanceIsFunds DEF Rate
<1> QED
  BY <1>10, <1>11, <1>12 DEF start, end

(* A wish that did not move since a day held then what it holds.           *)
LEMMA FundsSince ==
  ASSUME LedgerInv, NEW w \in wishes, NEW b \in Int,
         \A e \in effects : e.wish = w.id => e.day < b
  PROVE  Funds(effects, w.id, b) = w.saved
<1>1. today \in Int /\ today + 1 \in Int /\ today < today + 1
  BY LastMonthKnown
<1>2. \A e \in effects : e.day \in Int /\ e.day <= today
  BY DEF LedgerInv, RowsInv, EffectRows
<1>3. Until(effects, w.id, b) = Until(effects, w.id, today + 1)
  BY <1>1, <1>2 DEF Until
<1>4. Funds(effects, w.id, today + 1) = w.saved
  BY <1>1 DEF LedgerInv, FundsInv
<1> QED
  BY <1>3, <1>4 DEF Funds

(* A month's progress in the batch, of a wish that stayed as it was.       *)
LEMMA BatchBack ==
  ASSUME LedgerInv, NEW academy, NEW m, m = LastMonth, NEW all,
         all = RunMonthly(academy, m, {t \in Transactions : t.day \in Month(m)}),
         NEW a \in DOMAIN all, NEW c \in all[a].objective.change,
         \A e \in effects : e.wish = c.wish => e.day < EndOfMonth(m)
  PROVE  /\ c.prev = Rate(WishOf(c.wish), MonthStart[m])
         /\ c.curr = Rate(WishOf(c.wish), EndOfMonth(m))
<1> DEFINE start == MonthStart[m]  end == EndOfMonth(m)
           rows == Among(ExportedWishes, academy)  own == MonthRows(academy, m)
<1>1. start \in Int /\ end \in Int /\ start <= end /\ Month(m) = start .. end - 1
  BY LastMonthKnown DEF EndOfMonth, Month
<1>2. /\ c \in ObjectivePerformance(a, m, rows, own).change
      /\ \A v \in RepresentativeWish(a, rows) : \E w \in wishes :
           /\ w.account = a /\ v.id = w.id /\ v.target = w.target /\ v.saved = w.saved
           /\ NetChange(w.id, start .. end - 1, own)
                = Funds(effects, w.id, end) - Funds(effects, w.id, start)
  BY BatchReads
<1> HIDE DEF start, end, rows, own
<1>3. PICK v \in RepresentativeWish(a, rows) :
        /\ c.wish = v.id
        /\ c.prev = Rounded(100 * (v.saved - NetChange(v.id, start .. end - 1, own)), v.target)
        /\ c.curr = Rounded(100 * v.saved, v.target)
  BY <1>1, <1>2 DEF ObjectivePerformance
<1>4. PICK w \in wishes :
        /\ v.id = w.id /\ v.target = w.target /\ v.saved = w.saved
        /\ NetChange(w.id, start .. end - 1, own)
             = Funds(effects, w.id, end) - Funds(effects, w.id, start)
  BY <1>2
<1>5. v.saved = Funds(effects, w.id, end)
  <2>1. \A e \in effects : e.wish = w.id => e.day < end
    BY <1>3, <1>4 DEF end
  <2> QED
    BY <1>1, <1>4, <2>1, FundsSince
<1>6. Funds(effects, w.id, end) \in Int /\ Funds(effects, w.id, start) \in Int
  BY FundsInt DEF LedgerInv, RowsInv
<1>7. v.saved - NetChange(v.id, start .. end - 1, own) = Funds(effects, w.id, start)
  BY <1>4, <1>5, <1>6
<1>8. c.prev = Rounded(100 * Funds(effects, w.id, start), w.target)
      /\ c.curr = Rounded(100 * Funds(effects, w.id, end), w.target)
  BY <1>3, <1>4, <1>5, <1>7
<1>9. WishOf(c.wish) = w
  BY <1>3, <1>4, WishOfId
<1>10. /\ Rate(w, start) = Rounded(100 * Funds(effects, w.id, start), w.target)
       /\ Rate(w, end) = Rounded(100 * Funds(effects, w.id, end), w.target)
  BY BalanceIsFunds DEF Rate
<1> QED
  BY <1>8, <1>9, <1>10 DEF start, end

(* What a recap is compared with is of the ledger alone.                   *)
LEMMA SameLedger ==
  ASSUME UNCHANGED ledger
  PROVE  /\ today' = today
         /\ \A i, b : Balance(i, b)' = Balance(i, b)
         /\ \A w, b : Rate(w, b)' = Rate(w, b)
         /\ \A i : WishOf(i)' = WishOf(i)
<1>1. UNCHANGED <<now, wishes, effects>>
  BY DEF ledger
<1>2. \A i, b : Balance(i, b)' = Balance(i, b)
  BY <1>1 DEF Balance, Deltas
<1>3. \A w, b : Rate(w, b)' = Rate(w, b)
  <2> TAKE w, b
  <2>1. Balance(w.id, b)' = Balance(w.id, b)
    BY <1>2
  <2> QED
    BY <2>1 DEF Rate
<1> QED
  BY <1>1, <1>2, <1>3 DEF today, WishOf

(* A recap, however late it is asked for, shows the amounts of its own     *)
(* week or month: what is calculated backwards is what the wish held.      *)
THEOREM ProgressIsTrue == Spec => []BackCalculated
<1>1. Init => BackCalculated
  BY DEF Init, NoReport, BackCalculated, Shown
<1>2. LedgerInv /\ BackCalculated /\ [Next]_vars => BackCalculated'
  <2> SUFFICES ASSUME LedgerInv, BackCalculated, [Next]_vars PROVE BackCalculated'
    OBVIOUS
  <2>1. CASE report'.kind \notin {"weekly", "monthly", "monthly_batch"}
    BY <2>1 DEF BackCalculated, Shown
  <2>2. CASE UNCHANGED vars
    <3>1. UNCHANGED ledger /\ UNCHANGED report
      BY <2>2 DEF vars
    <3>2. /\ \A i, b : Balance(i, b)' = Balance(i, b)
          /\ \A w, b : Rate(w, b)' = Rate(w, b)
          /\ \A i : WishOf(i)' = WishOf(i)
          /\ effects' = effects
      BY <3>1, SameLedger DEF ledger
    <3> QED
      BY <3>1, <3>2 DEF BackCalculated, Shown, EndOfWeek, EndOfMonth
  <2>3. CASE WeeklyService /\ UNCHANGED ledger
    <3> DEFINE k == LastWeek(today)
    <3>1. PICK a, r : /\ r = RequestFor(a, 7 * k, EndOfWeek(k))
                      /\ report' = [kind |-> "weekly", account |-> a, week |-> k,
                                    reply |-> [status |-> 200, view |-> WeeklyView(r, k)]]
      BY <2>3, WeeklyAnswered, Zenon
    <3>2. \A c \in WeeklyView(r, k).page1.milestone :
            c.before = Balance(c.wish, 7 * k) /\ c.after = Balance(c.wish, EndOfWeek(k))
      BY <3>1, WeeklyBack
    <3> HIDE DEF k
    <3>3. /\ report'.kind = "weekly" /\ report'.week = k
          /\ report'.reply.view.page1.milestone = WeeklyView(r, k).page1.milestone
      BY <3>1
    <3>4. \A i, b : Balance(i, b)' = Balance(i, b)
      BY <2>3, SameLedger
    <3> QED
      BY <3>2, <3>3, <3>4 DEF BackCalculated, Shown, EndOfWeek
  <2>4. CASE MonthlyService /\ UNCHANGED ledger
    <3> DEFINE m == LastMonth
    <3>1. PICK a, r, reply :
            /\ r = RequestFor(a, MonthStart[m], EndOfMonth(m))
            /\ report' = [kind |-> "monthly", account |-> a, month |-> m, reply |-> reply]
            /\ reply = [status |-> 500] \/ reply = [status |-> 200, view |-> MonthlyView(r, m)]
      BY <2>4, MonthlyAnswered, Zenon
    <3>2. \A c \in MonthlyView(r, m).objective.change :
            /\ c.prev = Rate(WishOf(c.wish), MonthStart[m])
            /\ c.curr = Rate(WishOf(c.wish), EndOfMonth(m))
      BY <3>1, MonthlyBack
    <3> HIDE DEF m
    <3>3. /\ report'.kind = "monthly" /\ report'.month = m /\ report'.reply = reply
          /\ reply.status = 200 =>
               reply.view.objective.change = MonthlyView(r, m).objective.change
      BY <3>1
    <3>4. (\A w, b : Rate(w, b)' = Rate(w, b)) /\ (\A i : WishOf(i)' = WishOf(i))
      BY <2>4, SameLedger
    <3> QED
      BY <3>2, <3>3, <3>4 DEF BackCalculated, Shown, EndOfMonth
  <2>5. CASE MonthlyBatch /\ UNCHANGED ledger
    <3> DEFINE m == LastMonth
    <3>1. PICK academy, all :
            /\ all = RunMonthly(academy, m, {t \in Transactions : t.day \in Month(m)})
            /\ report' = [kind |-> "monthly_batch", academy |-> academy, month |-> m, students |-> all]
      BY <2>5, Zenon DEF MonthlyBatch
    <3>2. \A a \in DOMAIN all : \A c \in all[a].objective.change :
            (\A e \in effects : e.wish = c.wish => e.day < EndOfMonth(m)) =>
              /\ c.prev = Rate(WishOf(c.wish), MonthStart[m])
              /\ c.curr = Rate(WishOf(c.wish), EndOfMonth(m))
      BY <3>1, BatchBack
    <3> HIDE DEF m
    <3>3. report'.kind = "monthly_batch" /\ report'.month = m /\ report'.students = all
      BY <3>1
    <3>4. /\ \A w, b : Rate(w, b)' = Rate(w, b)
          /\ \A i : WishOf(i)' = WishOf(i)
          /\ effects' = effects
      BY <2>5, SameLedger DEF ledger
    <3> QED
      BY <3>2, <3>3, <3>4 DEF BackCalculated, Shown, EndOfMonth
  <2>6. report' = NoReport => report'.kind = "none"
    BY DEF NoReport
  <2>7. WeeklyBatch => report'.kind = "weekly_batch"
    BY DEF WeeklyBatch
  <2> QED
    BY <2>1, <2>2, <2>3, <2>4, <2>5, <2>6, <2>7, ReportSteps
<1> QED
  BY <1>1, <1>2, LedgerInvariant, PTL DEF Spec

-----------------------------------------------------------------------------
(* The pace of a wish that ended.                                          *)

(* A predicted wish is a representative that gained something.             *)
LEMMA PacesGain ==
  ASSUME NEW S, NEW m, NEW day, NEW txs, NEW p \in PacePrediction(S, m, day, txs)
  PROVE  \E v \in S : p.wish = v.id /\ NetChange(v.id, Month(m), txs) > 0
<1>1. PICK v \in S : p.wish = v.id /\ WishPace(v, m, txs) > 0
  BY DEF PacePrediction
<1> QED
  BY <1>1 DEF WishPace

(* A wish that ended before the month did gained nothing in it.            *)
LEMMA GainersStay ==
  ASSUME LedgerInv, NEW w \in wishes, NEW b \in Int, NEW c \in Int, b <= c,
         Funds(effects, w.id, c) - Funds(effects, w.id, b) > 0
  PROVE  WishOf(w.id) = w /\ (w.closed = Never \/ w.closed >= c)
<1>1. w.id \in Nat /\ w.closed \in Int
  BY DEF LedgerInv, WishesInv, WishRows
<1>2. /\ Funds(effects, w.id, b) \in Int /\ Funds(effects, w.id, b) >= 0
      /\ w.closed # Never /\ w.closed < c => Funds(effects, w.id, c) = 0
  BY <1>1, FundsInt DEF LedgerInv, RowsInv, FundsInv
<1> QED
  BY <1>1, <1>2, WishOfId

(* The service, for the month that is over.                                *)
LEMMA ServicePromises ==
  ASSUME LedgerInv, NEW a, NEW m, m = LastMonth,
         NEW p \in MonthlyView(RequestFor(a, MonthStart[m], EndOfMonth(m)), m).pace
  PROVE  WishOf(p.wish).closed = Never \/ WishOf(p.wish).closed >= EndOfMonth(m)
<1> DEFINE start == MonthStart[m]  end == EndOfMonth(m)  r == RequestFor(a, start, end)
<1>1. start \in Int /\ end \in Int /\ start <= end /\ end <= end /\ Month(m) = start .. end - 1
  BY LastMonthKnown DEF EndOfMonth, Month
<1>2. r.account = a /\ r.end = end /\ r.transactions = Told(a, end)
  BY <1>1, RequestFields DEF Told
<1>3. p \in PacePrediction(RepresentativeWish(a, DomainWishes(r)), m, end - 1, Told(a, end))
  BY <1>2, MonthlySections
<1> HIDE DEF start, end
<1>4. PICK v \in RepresentativeWish(a, DomainWishes(r)) :
        p.wish = v.id /\ NetChange(v.id, start .. end - 1, Told(a, end)) > 0
  <2> HIDE DEF r
  <2> QED
    BY <1>1, <1>3, PacesGain
<1>5. v \in DomainWishes(r)
  <2>1. \A u \in DomainWishes(r) : u.id \in Nat
    BY <1>1, DomainFields
  <2> HIDE DEF r
  <2> QED
    BY <2>1, RepresentativeIsMine
<1>6. PICK w \in wishes : w.account = a /\ v.id = w.id
  BY <1>1, <1>5, DomainFields
<1>7. NetChange(w.id, start .. end - 1, Told(w.account, end))
        = Funds(effects, w.id, end) - Funds(effects, w.id, start)
  BY <1>1, RequestMoves
<1>8. WishOf(w.id) = w /\ (w.closed = Never \/ w.closed >= end)
  BY <1>1, <1>4, <1>6, <1>7, GainersStay
<1> QED
  BY <1>4, <1>6, <1>8 DEF end

(* The batch, for the same month.                                          *)
LEMMA BatchPromises ==
  ASSUME LedgerInv, NEW academy, NEW m, m = LastMonth, NEW all,
         all = RunMonthly(academy, m, {t \in Transactions : t.day \in Month(m)}),
         NEW a \in DOMAIN all, NEW p \in all[a].pace
  PROVE  WishOf(p.wish).closed = Never \/ WishOf(p.wish).closed >= EndOfMonth(m)
<1> DEFINE start == MonthStart[m]  end == EndOfMonth(m)
           rows == Among(ExportedWishes, academy)  own == MonthRows(academy, m)
<1>1. start \in Int /\ end \in Int /\ start <= end /\ Month(m) = start .. end - 1
  BY LastMonthKnown DEF EndOfMonth, Month
<1>2. /\ p \in PacePrediction(RepresentativeWish(a, rows), m, today, own)
      /\ \A v \in RepresentativeWish(a, rows) : \E w \in wishes :
           /\ w.account = a /\ v.id = w.id /\ v.target = w.target /\ v.saved = w.saved
           /\ NetChange(w.id, start .. end - 1, own)
                = Funds(effects, w.id, end) - Funds(effects, w.id, start)
  BY BatchReads
<1> HIDE DEF start, end, rows, own
<1>3. PICK v \in RepresentativeWish(a, rows) :
        p.wish = v.id /\ NetChange(v.id, start .. end - 1, own) > 0
  BY <1>1, <1>2, PacesGain
<1>4. PICK w \in wishes :
        /\ v.id = w.id
        /\ NetChange(w.id, start .. end - 1, own)
             = Funds(effects, w.id, end) - Funds(effects, w.id, start)
  BY <1>2
<1>5. WishOf(w.id) = w /\ (w.closed = Never \/ w.closed >= end)
  BY <1>1, <1>3, <1>4, GainersStay
<1> QED
  BY <1>3, <1>4, <1>5 DEF end

(* No date is predicted for a wish that ended before its month did: what   *)
(* it paid out stops its pace, in the service and in the batch.            *)
THEOREM NoDateForTheEnded == Spec => []ClosedNotPromised
<1>1. Init => ClosedNotPromised
  BY DEF Init, NoReport, ClosedNotPromised, Shown
<1>2. LedgerInv /\ ClosedNotPromised /\ [Next]_vars => ClosedNotPromised'
  <2> SUFFICES ASSUME LedgerInv, ClosedNotPromised, [Next]_vars PROVE ClosedNotPromised'
    OBVIOUS
  <2>1. CASE report'.kind \notin {"monthly", "monthly_batch"}
    BY <2>1 DEF ClosedNotPromised, Shown
  <2>2. CASE UNCHANGED vars
    <3>1. UNCHANGED ledger /\ UNCHANGED report
      BY <2>2 DEF vars
    <3>2. \A i : WishOf(i)' = WishOf(i)
      BY <3>1, SameLedger
    <3> QED
      BY <3>1, <3>2 DEF ClosedNotPromised, Shown, EndOfMonth
  <2>3. CASE MonthlyService /\ UNCHANGED ledger
    <3> DEFINE m == LastMonth
    <3>1. PICK b, r, reply :
            /\ r = RequestFor(b, MonthStart[m], EndOfMonth(m))
            /\ report' = [kind |-> "monthly", account |-> b, month |-> m, reply |-> reply]
            /\ reply = [status |-> 500] \/ reply = [status |-> 200, view |-> MonthlyView(r, m)]
      BY <2>3, MonthlyAnswered, Zenon
    <3>2. \A p \in MonthlyView(r, m).pace :
            WishOf(p.wish).closed = Never \/ WishOf(p.wish).closed >= EndOfMonth(m)
      BY <3>1, ServicePromises
    <3> HIDE DEF m
    <3>3. /\ report'.kind = "monthly" /\ report'.month = m /\ report'.reply = reply
          /\ reply.status = 200 => reply.view = MonthlyView(r, m)
      BY <3>1
    <3>4. \A i : WishOf(i)' = WishOf(i)
      BY <2>3, SameLedger
    <3> QED
      BY <3>2, <3>3, <3>4 DEF ClosedNotPromised, Shown, EndOfMonth
  <2>4. CASE MonthlyBatch /\ UNCHANGED ledger
    <3> DEFINE m == LastMonth
    <3>1. PICK academy, all :
            /\ all = RunMonthly(academy, m, {t \in Transactions : t.day \in Month(m)})
            /\ report' = [kind |-> "monthly_batch", academy |-> academy, month |-> m, students |-> all]
      BY <2>4, Zenon DEF MonthlyBatch
    <3>2. \A a \in DOMAIN all : \A p \in all[a].pace :
            WishOf(p.wish).closed = Never \/ WishOf(p.wish).closed >= EndOfMonth(m)
      BY <3>1, BatchPromises
    <3> HIDE DEF m
    <3>3. report'.kind = "monthly_batch" /\ report'.month = m /\ report'.students = all
      BY <3>1
    <3>4. \A i : WishOf(i)' = WishOf(i)
      BY <2>4, SameLedger
    <3> QED
      BY <3>2, <3>3, <3>4 DEF ClosedNotPromised, Shown, EndOfMonth
  <2>5. report' = NoReport => report'.kind = "none"
    BY DEF NoReport
  <2>6. WeeklyBatch => report'.kind = "weekly_batch"
    BY DEF WeeklyBatch
  <2>7. WeeklyService => report'.kind = "weekly"
    BY WeeklyAnswered
  <2> QED
    <3>1. report'.kind \notin {"monthly", "monthly_batch"} \/ UNCHANGED vars
            \/ ((MonthlyService \/ MonthlyBatch) /\ UNCHANGED ledger)
      BY <2>5, <2>6, <2>7, ReportSteps
    <3> QED
      BY <2>1, <2>2, <2>3, <2>4, <3>1
<1> QED
  BY <1>1, <1>2, LedgerInvariant, PTL DEF Spec

-----------------------------------------------------------------------------
(* What moves between the wishes of an account.                            *)

(* The rows of an account of certain events until day b, and their sum.    *)
Of(E, a, events, b)    == {e \in E : e.account = a /\ e.event \in events /\ e.day < b}
Total(E, a, events, b) == SumFunctionOnSet(DeltasOf(E), Of(E, a, events, b))

(* What leaves one wish of an account enters another on the same day.      *)
TransfersEven == \A a \in Students : \A b \in Int : Total(effects, a, {"WISH_TRANSFER"}, b) = 0

(* One row more changes the total of its account and event.                *)
LEMMA TotalAdded ==
  ASSUME NEW E, IsFiniteSet(E), E \subseteq EffectRows, NEW r \in EffectRows, r \notin E,
         NEW a, NEW events, NEW b \in Int
  PROVE  /\ Total(E, a, events, b) \in Int
         /\ Total(E \union {r}, a, events, b) =
              Total(E, a, events, b)
                + (IF r.account = a /\ r.event \in events /\ r.day < b THEN r.delta ELSE 0)
<1> DEFINE F == E \union {r}  S == Of(E, a, events, b)
<1>1. /\ IsFiniteSet(S) /\ r \notin S /\ S \subseteq E
      /\ \A e \in S : DeltasOf(F)[e] = DeltasOf(E)[e] /\ DeltasOf(E)[e] \in Int
      /\ DeltasOf(F)[r] = r.delta /\ r.delta \in Int
  BY FS_Subset DEF Of, DeltasOf, EffectRows
<1>2. SumFunctionOnSet(DeltasOf(F), S) = Total(E, a, events, b)
  BY <1>1, SumAgrees DEF Total
<1>3. Total(E, a, events, b) \in Int
  BY <1>1, SumRemoved DEF Total
<1>4. CASE r.account = a /\ r.event \in events /\ r.day < b
  <2>1. Of(F, a, events, b) = S \union {r}
    BY <1>4 DEF Of
  <2>2. \A e \in S \union {r} : DeltasOf(F)[e] \in Int
    BY <1>1
  <2>3. SumFunctionOnSet(DeltasOf(F), S \union {r}) = SumFunctionOnSet(DeltasOf(F), S) + DeltasOf(F)[r]
    BY <1>1, <2>2, SumExtended
  <2> HIDE DEF F, S
  <2>4. Total(F, a, events, b) = Total(E, a, events, b) + r.delta
    BY <1>1, <1>2, <2>1, <2>3 DEF Total
  <2> QED
    BY <1>3, <1>4, <2>4 DEF F
<1>5. CASE ~(r.account = a /\ r.event \in events /\ r.day < b)
  <2>1. Of(F, a, events, b) = S
    BY <1>5 DEF Of
  <2> HIDE DEF F, S
  <2>2. Total(F, a, events, b) = Total(E, a, events, b)
    BY <1>2, <2>1 DEF Total
  <2> QED
    BY <1>3, <1>5, <2>2 DEF F
<1> QED
  BY <1>4, <1>5

(* A posting of at most one row that is no transfer.                       *)
LEMMA OneRowEven ==
  ASSUME LedgerInv, TransfersEven, NEW w \in wishes, NEW event \in Events, NEW delta \in Int,
         event # "WISH_TRANSFER", NEW rows, NEW changed,
         rows = {} \/ rows = {Row(1, w, event, delta)}, Post(rows, changed)
  PROVE  TransfersEven'
<1>1. effects' = effects \union rows
  BY DEF Post
<1>2. SUFFICES ASSUME NEW a \in Students, NEW b \in Int
               PROVE  Total(effects', a, {"WISH_TRANSFER"}, b) = 0
  BY DEF TransfersEven
<1>3. Total(effects, a, {"WISH_TRANSFER"}, b) = 0
  BY DEF TransfersEven
<1>4. CASE rows = {}
  <2>1. effects' = effects
    BY <1>1, <1>4
  <2> QED
    BY <1>3, <2>1
<1>5. CASE rows = {Row(1, w, event, delta)}
  <2> DEFINE r == Row(1, w, event, delta)
  <2>1. r \in EffectRows /\ r.id = Cardinality(effects) + 1 /\ r.event = event
    BY RowFields
  <2> HIDE DEF r
  <2>2. r \notin effects /\ IsFiniteSet(effects) /\ effects \subseteq EffectRows
    BY <2>1, FS_CardinalityType DEF LedgerInv, RowsInv
  <2>3. effects' = effects \union {r} /\ r.event \notin {"WISH_TRANSFER"}
    BY <1>1, <1>5, <2>1 DEF r
  <2>4. Total(effects \union {r}, a, {"WISH_TRANSFER"}, b) = Total(effects, a, {"WISH_TRANSFER"}, b) + 0
    BY <2>1, <2>2, <2>3, TotalAdded
  <2> QED
    BY <1>3, <2>3, <2>4
<1> QED
  BY <1>4, <1>5

(* A transfer, whose wishes are of one account.                            *)
LEMMA TransferEven == LedgerInv /\ TransfersEven /\ Transfer => TransfersEven'
<1> SUFFICES ASSUME LedgerInv, TransfersEven, Transfer PROVE TransfersEven'
  OBVIOUS
<1>1. PICK v \in wishes, w \in wishes, n \in Deposits :
        /\ v.account = w.account
        /\ effects' = effects \union {Row(1, v, "WISH_TRANSFER", -n), Row(2, w, "WISH_TRANSFER", n)}
  BY DEF Transfer, Post
<1> DEFINE m == -n  q == Row(1, v, "WISH_TRANSFER", m)  r == Row(2, w, "WISH_TRANSFER", n)
<1>2. n \in Int /\ m \in Int /\ m + n = 0 /\ 1 \in Nat /\ 2 \in Nat /\ "WISH_TRANSFER" \in Events
  BY DepositsPositive DEF Events
<1> HIDE DEF m
<1>3. /\ q \in EffectRows /\ q.id = Cardinality(effects) + 1 /\ q.event = "WISH_TRANSFER"
      /\ q.account = v.account /\ q.day = today /\ q.delta = m
  BY <1>2, RowFields
<1>4. /\ r \in EffectRows /\ r.id = Cardinality(effects) + 2 /\ r.event = "WISH_TRANSFER"
      /\ r.account = v.account /\ r.day = today /\ r.delta = n
  BY <1>1, <1>2, RowFields
<1>5. effects' = effects \union {q, r}
  BY <1>1 DEF m
<1> HIDE DEF q, r
<1>6. Cardinality(effects) \in Nat /\ IsFiniteSet(effects) /\ effects \subseteq EffectRows
  BY FS_CardinalityType DEF LedgerInv, RowsInv
<1>7. q # r /\ q \notin effects /\ r \notin effects
  BY <1>3, <1>4, <1>6 DEF LedgerInv, RowsInv
<1> SUFFICES ASSUME NEW a \in Students, NEW b \in Int
             PROVE  Total(effects', a, {"WISH_TRANSFER"}, b) = 0
  BY DEF TransfersEven
<1> DEFINE E == effects \union {q}
<1>8. IsFiniteSet(E) /\ E \subseteq EffectRows /\ r \notin E /\ E \union {r} = effects'
  BY <1>3, <1>5, <1>6, <1>7, FS_AddElement
<1>9. Total(E, a, {"WISH_TRANSFER"}, b)
        = Total(effects, a, {"WISH_TRANSFER"}, b) + (IF v.account = a /\ today < b THEN m ELSE 0)
  BY <1>3, <1>6, <1>7, TotalAdded
<1> HIDE DEF E
<1>10. Total(E \union {r}, a, {"WISH_TRANSFER"}, b)
         = Total(E, a, {"WISH_TRANSFER"}, b) + (IF v.account = a /\ today < b THEN n ELSE 0)
  BY <1>4, <1>8, TotalAdded
<1>11. Total(effects, a, {"WISH_TRANSFER"}, b) = 0
  BY DEF TransfersEven
<1> QED
  BY <1>2, <1>8, <1>9, <1>10, <1>11

(* Every step keeps the transfers even.                                    *)
LEMMA EvenInductive == LedgerInv /\ TransfersEven /\ [Next]_vars => TransfersEven'
<1> SUFFICES ASSUME LedgerInv, TransfersEven, [Next]_vars PROVE TransfersEven'
  OBVIOUS
<1>1. UNCHANGED effects => TransfersEven'
  BY DEF TransfersEven
<1>2. CASE Open
  <2>1. effects' = effects \union {}
    BY <1>2 DEF Open, Post
  <2> QED
    BY <1>1, <2>1
<1>3. CASE Deposit
  <2>1. PICK w \in wishes, n \in Deposits : \E changed : Post({Row(1, w, "WISH_DEPOSIT", n)}, changed)
    BY <1>3 DEF Deposit
  <2>2. n \in Int /\ "WISH_DEPOSIT" \in Events
    BY DepositsPositive DEF Events
  <2> QED
    BY <2>1, <2>2, OneRowEven
<1>4. CASE Withdraw
  <2>1. PICK w \in wishes, n \in Deposits : \E changed : Post({Row(1, w, "WISH_WITHDRAWAL", -n)}, changed)
    BY <1>4 DEF Withdraw
  <2>2. -n \in Int /\ "WISH_WITHDRAWAL" \in Events
    BY DepositsPositive DEF Events
  <2> QED
    BY <2>1, <2>2, OneRowEven
<1>5. CASE Transfer
  BY <1>5, TransferEven
<1>6. CASE Complete \/ Abandon \/ Delete
  <2>1. PICK w \in wishes, event \in Events :
          event # "WISH_TRANSFER" /\ \E ended : End(w, event, ended)
    <3>1. /\ "WISH_COMPLETION_RETURN" \in Events /\ "WISH_ABANDONMENT_RETURN" \in Events
          /\ "WISH_DELETION_RETURN" \in Events
      BY DEF Events
    <3>2. CASE Complete
      BY <3>1, <3>2 DEF Complete
    <3>3. CASE Abandon
      BY <3>1, <3>3 DEF Abandon
    <3>4. CASE Delete
      BY <3>1, <3>4 DEF Delete
    <3> QED
      BY <1>6, <3>2, <3>3, <3>4
  <2>2. PICK rows, changed : /\ rows = {} \/ rows = {Row(1, w, event, -w.saved)}
                             /\ Post(rows, changed)
    BY <2>1, Zenon DEF End
  <2>3. -w.saved \in Int
    <3>1. w.saved \in Nat
      BY DEF LedgerInv, WishesInv, WishRows
    <3> QED
      BY <3>1
  <2> QED
    BY <2>1, <2>2, <2>3, OneRowEven
<1>7. CASE Visit \/ Share \/ NextDay \/ Deliver \/ UNCHANGED vars
  BY <1>1, <1>7 DEF Visit, Share, NextDay, Deliver, vars, ledger
<1>8. WeeklyBatch => UNCHANGED ledger
  BY Zenon DEF WeeklyBatch
<1>9. MonthlyBatch => UNCHANGED ledger
  BY Zenon DEF MonthlyBatch
<1>10. WeeklyService => UNCHANGED ledger
  BY Zenon DEF WeeklyService
<1>11. MonthlyService => UNCHANGED ledger
  BY Zenon DEF MonthlyService
<1>12. UNCHANGED ledger => UNCHANGED effects
  BY DEF ledger
<1> QED
  BY <1>1, <1>2, <1>3, <1>4, <1>5, <1>6, <1>7, <1>8, <1>9, <1>10, <1>11, <1>12 DEF Next

(* At the beginning nothing was transferred.                               *)
LEMMA EvenInitially == Init => TransfersEven
<1> SUFFICES ASSUME Init, NEW a \in Students, NEW b \in Int
             PROVE  Total(effects, a, {"WISH_TRANSFER"}, b) = 0
  BY DEF TransfersEven
<1>1. Of(effects, a, {"WISH_TRANSFER"}, b) = {}
  BY RecapAssumption DEF Init, Of
<1> QED
  BY <1>1, SumOfNone DEF Total

(* What all wishes of an account hold when a day begins is what its rows   *)
(* until then add up to.                                                   *)
Together(a, b) == SumFunctionOnSet([w \in wishes |-> Balance(w.id, b)], Mine(a))
LEMMA TogetherIsTotal ==
  ASSUME LedgerInv, NEW a, NEW b \in Int
  PROVE  Together(a, b) = Total(effects, a, Events, b)
<1> DEFINE f == DeltasOf(effects)  P == Mine(a)
           g == [w \in wishes |-> Balance(w.id, b)]
           part == [w \in wishes |-> Until(effects, w.id, b)]
<1>1. /\ IsFiniteSet(effects) /\ \A e \in effects : f[e] \in Int
      /\ IsFiniteSet(P) /\ P \subseteq wishes
  BY FS_Subset DEF LedgerInv, RowsInv, WishesInv, EffectRows, DeltasOf, Mine
<1>2. \A w \in P : part[w] \in SUBSET effects /\ g[w] = SumFunctionOnSet(f, part[w])
  <2> TAKE w \in P
  <2>1. w \in wishes /\ part[w] = Until(effects, w.id, b) /\ g[w] = Balance(w.id, b)
    BY <1>1
  <2>2. Balance(w.id, b) = Funds(effects, w.id, b)
    BY BalanceIsFunds
  <2> HIDE DEF part, g
  <2> QED
    BY <2>1, <2>2 DEF Until, Funds
<1>3. \A v, w \in P : v # w => part[v] \cap part[w] = {}
  BY <1>1 DEF LedgerInv, WishesInv, Until
<1>4. UNION {part[w] : w \in P} = Of(effects, a, Events, b)
  <2>1. ASSUME NEW e \in Of(effects, a, Events, b) PROVE \E w \in P : e \in part[w]
    <3>1. PICK w \in wishes : w.id = e.wish /\ w.account = a
      BY DEF Of, LedgerInv, WishesInv
    <3> QED
      BY <3>1 DEF Of, Until, Mine
  <2>2. ASSUME NEW w \in P, NEW e \in part[w] PROVE e \in Of(effects, a, Events, b)
    <3>1. w \in wishes /\ w.account = a /\ e \in effects /\ e.wish = w.id /\ e.day < b
      BY DEF Mine, Until
    <3>2. e.account = a /\ e.event \in Events
      BY <3>1 DEF LedgerInv, WishesInv, RowsInv, EffectRows
    <3> QED
      BY <3>1, <3>2 DEF Of
  <2> HIDE DEF part, P
  <2> QED
    BY <2>1, <2>2
<1> HIDE DEF f, P, g, part
<1>5. SumFunctionOnSet(g, P) = SumFunctionOnSet(f, UNION {part[w] : w \in P})
  BY <1>1, <1>2, <1>3, SumOfParts
<1> QED
  BY <1>4, <1>5 DEF Together, Total, f, g, P

(* The rows of an account of certain events in a period.                   *)
During(a, events, b, c) == {e \in effects : e.account = a /\ e.event \in events /\ e.day \in b .. c - 1}
Gained(a, events, b, c) == SumFunctionOnSet(DeltasOf(effects), During(a, events, b, c))

(* They add up to what the total changed by.                               *)
LEMMA GainedIsDifference ==
  ASSUME LedgerInv, NEW a, NEW events, NEW b \in Int, NEW c \in Int, b <= c
  PROVE  /\ Gained(a, events, b, c) = Total(effects, a, events, c) - Total(effects, a, events, b)
         /\ Total(effects, a, events, c) \in Int /\ Total(effects, a, events, b) \in Int
<1> DEFINE f == DeltasOf(effects)  S == Of(effects, a, events, c)  T == Of(effects, a, events, b)
<1>1. IsFiniteSet(effects) /\ \A e \in effects : f[e] \in Int /\ e.day \in Int
  BY DEF LedgerInv, RowsInv, EffectRows, DeltasOf
<1>2. /\ IsFiniteSet(S) /\ T \in SUBSET S /\ S \ T = During(a, events, b, c)
      /\ \A e \in S : f[e] \in Int
  BY <1>1, FS_Subset DEF Of, During
<1> HIDE DEF f, S, T
<1>3. /\ SumFunctionOnSet(f, T) \in Int /\ SumFunctionOnSet(f, S \ T) \in Int
      /\ SumFunctionOnSet(f, S) = SumFunctionOnSet(f, T) + SumFunctionOnSet(f, S \ T)
  BY <1>2, SumSplit
<1>4. /\ Total(effects, a, events, c) = SumFunctionOnSet(f, S)
      /\ Total(effects, a, events, b) = SumFunctionOnSet(f, T)
      /\ Gained(a, events, b, c) = SumFunctionOnSet(f, S \ T)
  BY <1>2 DEF Total, Gained, f, S, T
<1> QED
  BY <1>3, <1>4

(* Different events add up.                                                *)
LEMMA GainedSplit ==
  ASSUME LedgerInv, NEW a, NEW X, NEW Y, X \cap Y = {}, NEW b, NEW c
  PROVE  /\ Gained(a, X \union Y, b, c) = Gained(a, X, b, c) + Gained(a, Y, b, c)
         /\ Gained(a, X, b, c) \in Int /\ Gained(a, Y, b, c) \in Int
<1> DEFINE f == DeltasOf(effects)  S == During(a, X \union Y, b, c)  T == During(a, X, b, c)
<1>1. IsFiniteSet(effects) /\ \A e \in effects : f[e] \in Int
  BY DEF LedgerInv, RowsInv, EffectRows, DeltasOf
<1>2. T \in SUBSET S /\ S \in SUBSET effects
  BY DEF During
<1>3. S \ T = During(a, Y, b, c)
  BY DEF During
<1> HIDE DEF f, S, T
<1>4. IsFiniteSet(S) /\ \A e \in S : f[e] \in Int
  BY <1>1, <1>2, FS_Subset
<1>5. /\ SumFunctionOnSet(f, T) \in Int /\ SumFunctionOnSet(f, S \ T) \in Int
      /\ SumFunctionOnSet(f, S) = SumFunctionOnSet(f, T) + SumFunctionOnSet(f, S \ T)
  BY <1>2, <1>4, SumSplit
<1> QED
  BY <1>3, <1>5 DEF Gained, f, S, T

(* The amounts of rows that came in, or of rows that went out.             *)
LEMMA AmountsMoved ==
  ASSUME LedgerInv, NEW E \in SUBSET effects, NEW S, S = {TransactionOf(e) : e \in E}
  PROVE  /\ (\A e \in E : e.delta > 0) => Amounts(S) = SumFunctionOnSet(DeltasOf(effects), E)
         /\ (\A e \in E : e.delta < 0) => Amounts(S) = -SumFunctionOnSet(DeltasOf(effects), E)
         /\ SumFunctionOnSet(DeltasOf(effects), E) \in Int
<1> DEFINE f == DeltasOf(effects)  g == [t \in S |-> t.amount]
           h == [e \in effects |-> TransactionOf(e)]  back == [e \in effects |-> -e.delta]
<1>1. /\ IsFiniteSet(E) /\ \A e \in E : f[e] = e.delta /\ f[e] \in Int /\ back[e] = -f[e] /\ back[e] \in Int
  <2>1. IsFiniteSet(effects) /\ \A e \in effects : e.delta \in Int
    BY DEF LedgerInv, RowsInv, EffectRows
  <2> QED
    BY <2>1, FS_Subset DEF DeltasOf
<1>2. S = {h[e] : e \in E} /\ \A e \in E : h[e] = TransactionOf(e) /\ h[e] \in S
  OBVIOUS
<1>3. \A d, e \in E : h[d] = h[e] => d = e
  BY <1>2, TransactionsApart
<1>4. \A e \in E : g[h[e]] = IF e.delta < 0 THEN -e.delta ELSE e.delta
  <2> TAKE e \in E
  <2>1. TransactionOf(e).amount = IF e.delta < 0 THEN -e.delta ELSE e.delta
    BY DEF TransactionOf
  <2> QED
    BY <1>2, <2>1
<1>5. Amounts(S) = SumFunctionOnSet(g, {h[e] : e \in E})
  BY <1>2 DEF Amounts
<1>6. back \in [effects -> Int] /\ f \in [effects -> Int]
  BY DEF LedgerInv, RowsInv, EffectRows, DeltasOf
<1> HIDE DEF f, g, h, back
<1>7. ASSUME \A e \in E : e.delta > 0 PROVE Amounts(S) = SumFunctionOnSet(f, E)
  <2>1. \A e \in E : g[h[e]] = f[e] /\ f[e] \in Int
    BY <1>1, <1>4, <1>7
  <2>2. SumFunctionOnSet(g, {h[e] : e \in E}) = SumFunctionOnSet(f, E)
    BY <1>1, <1>3, <2>1, SumRenamed
  <2> QED
    BY <1>5, <2>2
<1>8. ASSUME \A e \in E : e.delta < 0 PROVE Amounts(S) = -SumFunctionOnSet(f, E)
  <2>1. \A e \in E : g[h[e]] = back[e] /\ back[e] \in Int
    BY <1>1, <1>4, <1>8
  <2>2. SumFunctionOnSet(g, {h[e] : e \in E}) = SumFunctionOnSet(back, E)
    BY <1>1, <1>3, <2>1, SumRenamed
  <2>3. SumFunctionOnSet(back, E) = -SumFunctionOnSet(f, E)
    BY <1>1, SumOpposite
  <2> QED
    BY <1>5, <2>2, <2>3
<1>9. SumFunctionOnSet(f, E) \in Int
  BY <1>1, SumRemoved
<1> QED
  BY <1>7, <1>8, <1>9 DEF f

(* There are as many transactions as effects they are made from.           *)
LEMMA AsManyRows ==
  ASSUME LedgerInv, NEW E \in SUBSET effects, IsFiniteSet(E)
  PROVE  Cardinality({TransactionOf(e) : e \in E}) = Cardinality(E)
<1> DEFINE S == {TransactionOf(e) : e \in E}  f == [e \in E |-> TransactionOf(e)]
<1>1. f \in [E -> S] /\ \A e \in E : f[e] = TransactionOf(e)
  OBVIOUS
<1>2. \A d, e \in E : f[d] = f[e] => d = e
  BY <1>1, TransactionsApart
<1>3. \A t \in S : \E e \in E : f[e] = t
  BY <1>1
<1> HIDE DEF f
<1>4. f \in Bijection(E, S)
  BY <1>1, <1>2, <1>3 DEF Bijection, Injection, Surjection, IsInjective
<1> QED
  BY <1>4, FS_Bijection DEF ExistsBijection

(* The deposits and withdrawals of a month are those of the ledger.        *)
LEMMA TypedRows ==
  ASSUME LedgerInv, NEW a, NEW m, m = LastMonth, NEW type \in {"DEPOSIT", "WITHDRAWAL"},
         NEW event, event = IF type = "DEPOSIT" THEN "WISH_DEPOSIT" ELSE "WISH_WITHDRAWAL"
  PROVE  TypedIn(OwnTransactions(a, m, Told(a, EndOfMonth(m))), type, Month(m))
           = {TransactionOf(e) : e \in During(a, {event}, MonthStart[m], EndOfMonth(m))}
<1> DEFINE b == MonthStart[m]  c == EndOfMonth(m)  mine == OwnTransactions(a, m, Told(a, c))
<1>1. b \in Int /\ c \in Int /\ Month(m) = b .. c - 1
  BY LastMonthKnown DEF EndOfMonth, Month
<1>2. \A e \in effects : ResolveTransactionType(e.event, e.delta) = type <=> e.event = event
  BY DEF LedgerInv, RowsInv, EffectRows, Events, Signed, ResolveTransactionType
<1>3. ASSUME NEW t \in TypedIn(mine, type, Month(m))
      PROVE  \E e \in During(a, {event}, b, c) : t = TransactionOf(e)
  <2>1. PICK e \in effects : t = TransactionOf(e) /\ t.account = a /\ t.type = type /\ t.day \in b .. c - 1
    BY <1>1 DEF TypedIn, OwnTransactions, Told, Transactions
  <2>2. t.account = e.account /\ t.type = ResolveTransactionType(e.event, e.delta) /\ t.day = e.day
    BY <2>1, TransactionFields
  <2> QED
    BY <1>2, <2>1, <2>2 DEF During
<1>4. ASSUME NEW e \in During(a, {event}, b, c)
      PROVE  TransactionOf(e) \in TypedIn(mine, type, Month(m))
  <2>1. e \in effects /\ e.account = a /\ e.event = event /\ e.day \in b .. c - 1 /\ e.day < c
    BY <1>1 DEF During
  <2>2. /\ TransactionOf(e).account = a /\ TransactionOf(e).day = e.day
        /\ TransactionOf(e).type = type
    BY <1>2, <2>1, TransactionFields
  <2> QED
    BY <1>1, <2>1, <2>2 DEF TypedIn, OwnTransactions, Told, Transactions
<1> QED
  BY <1>3, <1>4

(* The savings of a month, and their number, by the rows of the account.   *)
LEMMA SavedIsGained ==
  ASSUME LedgerInv, NEW a, NEW m, m = LastMonth, NEW rows, NEW seen
  PROVE  LET core == CoreMetrics(a, m, rows, Told(a, EndOfMonth(m)), seen) IN
         /\ core.total_savings = Gained(a, {"WISH_DEPOSIT"}, MonthStart[m], EndOfMonth(m))
                                   + Gained(a, {"WISH_WITHDRAWAL"}, MonthStart[m], EndOfMonth(m))
         /\ core.save_count = Cardinality(During(a, {"WISH_DEPOSIT"}, MonthStart[m], EndOfMonth(m)))
<1> DEFINE b == MonthStart[m]  c == EndOfMonth(m)  txs == Told(a, c)
           mine == OwnTransactions(a, m, txs)
           D == During(a, {"WISH_DEPOSIT"}, b, c)  W == During(a, {"WISH_WITHDRAWAL"}, b, c)
<1>1. /\ CoreMetrics(a, m, rows, txs, seen).total_savings
            = Amounts(TypedIn(mine, "DEPOSIT", Month(m))) - Amounts(TypedIn(mine, "WITHDRAWAL", Month(m)))
      /\ CoreMetrics(a, m, rows, txs, seen).save_count
            = Cardinality(TypedIn(mine, "DEPOSIT", Month(m)))
  BY DEF CoreMetrics, Saved
<1>2. /\ TypedIn(mine, "DEPOSIT", Month(m)) = {TransactionOf(e) : e \in D}
      /\ TypedIn(mine, "WITHDRAWAL", Month(m)) = {TransactionOf(e) : e \in W}
  BY TypedRows
<1> HIDE DEF b, c, txs, mine
<1>3. D \in SUBSET effects /\ W \in SUBSET effects /\ IsFiniteSet(D)
  <2>1. D \in SUBSET effects /\ W \in SUBSET effects
    BY DEF During
  <2> QED
    BY <2>1, FS_Subset DEF LedgerInv, RowsInv
<1>4. (\A e \in D : e.delta > 0) /\ (\A e \in W : e.delta < 0)
  <2>1. \A e \in W : e.event \notin {"WISH_DEPOSIT", "WISH_TRANSFER"}
    BY DEF During
  <2> QED
    BY <2>1 DEF During, LedgerInv, RowsInv, Signed
<1> HIDE DEF D, W
<1>5. /\ Amounts(TypedIn(mine, "DEPOSIT", Month(m))) = SumFunctionOnSet(DeltasOf(effects), D)
      /\ SumFunctionOnSet(DeltasOf(effects), D) \in Int
  BY <1>2, <1>3, <1>4, AmountsMoved
<1>6. /\ Amounts(TypedIn(mine, "WITHDRAWAL", Month(m))) = -SumFunctionOnSet(DeltasOf(effects), W)
      /\ SumFunctionOnSet(DeltasOf(effects), W) \in Int
  BY <1>2, <1>3, <1>4, AmountsMoved
<1>7. \A x, y \in Int : x - (-y) = x + y
  OBVIOUS
<1>8. CoreMetrics(a, m, rows, txs, seen).total_savings
        = SumFunctionOnSet(DeltasOf(effects), D) + SumFunctionOnSet(DeltasOf(effects), W)
  BY <1>1, <1>5, <1>6, <1>7
<1>9. Cardinality(TypedIn(mine, "DEPOSIT", Month(m))) = Cardinality(D)
  BY <1>2, <1>3, AsManyRows
<1> QED
  BY <1>1, <1>8, <1>9 DEF Gained, D, W, txs, b, c

(* What moved in a month, and what ended wishes of it paid out.            *)
Moved(a, m) == {e \in effects : e.account = a /\ e.day \in Month(m)}
Paid(a, m) == {e \in Moved(a, m) :
                 e.event \notin {"WISH_DEPOSIT", "WISH_WITHDRAWAL", "WISH_TRANSFER"}}
Explained(a, m, core) ==
  /\ core.total_savings =
       Together(a, EndOfMonth(m)) - Together(a, MonthStart[m]) - SumFunctionOnSet(Deltas, Paid(a, m))
  /\ core.save_count = Cardinality({e \in Moved(a, m) : e.event = "WISH_DEPOSIT"})

(* The savings that the service shows.                                     *)
LEMMA MonthlySavings ==
  ASSUME NEW r, NEW m
  PROVE  LET core == CoreMetrics(r.account, m, DomainWishes(r), r.transactions, {}) IN
         /\ MonthlyView(r, m).core.total_savings = core.total_savings
         /\ MonthlyView(r, m).core.save_count = core.save_count
<1> DEFINE core == CoreMetrics(r.account, m, DomainWishes(r), r.transactions, {})
<1>1. \E n : MonthlyView(r, m).core = [core EXCEPT !.visit_count = n]
  BY DEF MonthlyView
<1>2. \A n : /\ [core EXCEPT !.visit_count = n].total_savings = core.total_savings
             /\ [core EXCEPT !.visit_count = n].save_count = core.save_count
  BY DEF CoreMetrics
<1> HIDE DEF core
<1> QED
  BY <1>1, <1>2 DEF core

LEMMA SavingsOfTheMonth ==
  ASSUME LedgerInv, TransfersEven, NEW a \in Students, NEW m, m = LastMonth
  PROVE  Explained(a, m, MonthlyView(RequestFor(a, MonthStart[m], EndOfMonth(m)), m).core)
<1> DEFINE b == MonthStart[m]  c == EndOfMonth(m)  r == RequestFor(a, b, c)
           D == {"WISH_DEPOSIT"}  W == {"WISH_WITHDRAWAL"}  T == {"WISH_TRANSFER"}
           R == Events \ {"WISH_DEPOSIT", "WISH_WITHDRAWAL", "WISH_TRANSFER"}
           core == MonthlyView(r, m).core  total == core.total_savings
<1>1. b \in Int /\ c \in Int /\ b <= c /\ Month(m) = b .. c - 1
  BY LastMonthKnown DEF EndOfMonth, Month
<1>2. r.account = a /\ r.transactions = Told(a, c)
  BY <1>1, RequestFields DEF Told
<1>3. /\ total = Gained(a, D, b, c) + Gained(a, W, b, c)
      /\ core.save_count = Cardinality(During(a, D, b, c))
  <2>1. /\ total = CoreMetrics(a, m, DomainWishes(r), Told(a, c), {}).total_savings
        /\ core.save_count = CoreMetrics(a, m, DomainWishes(r), Told(a, c), {}).save_count
    BY <1>2, MonthlySavings
  <2> HIDE DEF r, core, total, D, W
  <2> QED
    BY <2>1, SavedIsGained DEF D, W
<1>4. SumFunctionOnSet(Deltas, Paid(a, m)) = Gained(a, R, b, c)
  <2>1. \A e \in effects : e.event \in Events
    BY DEF LedgerInv, RowsInv, EffectRows
  <2>2. Paid(a, m) = During(a, R, b, c)
    BY <1>1, <2>1 DEF Paid, Moved, During
  <2>3. Deltas = DeltasOf(effects)
    BY DEF Deltas, DeltasOf
  <2> QED
    BY <2>2, <2>3 DEF Gained
<1>5. Together(a, c) - Together(a, b) = Gained(a, Events, b, c)
  BY <1>1, TogetherIsTotal, GainedIsDifference
<1>6. Gained(a, T, b, c) = 0
  <2>1. Total(effects, a, T, c) = 0 /\ Total(effects, a, T, b) = 0
    BY <1>1 DEF TransfersEven
  <2> HIDE DEF T, b, c
  <2>2. Gained(a, T, b, c) = Total(effects, a, T, c) - Total(effects, a, T, b)
    BY <1>1, GainedIsDifference
  <2> QED
    BY <2>1, <2>2
<1>7. /\ Events = D \union (W \union (T \union R))
      /\ D \cap (W \union (T \union R)) = {} /\ W \cap (T \union R) = {} /\ T \cap R = {}
  BY DEF Events
<1>8. During(a, D, b, c) = {e \in Moved(a, m) : e.event = "WISH_DEPOSIT"}
  BY <1>1 DEF Moved, During
<1> HIDE DEF b, c, r, D, W, T, R, core, total
<1> DEFINE X == W \union (T \union R)  Y == T \union R
<1>9. Events = D \union X /\ X = W \union Y /\ D \cap X = {} /\ W \cap Y = {}
  BY <1>7
<1> HIDE DEF X
<1>10. /\ Gained(a, D \union X, b, c) = Gained(a, D, b, c) + Gained(a, X, b, c)
      /\ Gained(a, D, b, c) \in Int
  BY <1>9, GainedSplit
<1>11. /\ Gained(a, T \union R, b, c) = Gained(a, T, b, c) + Gained(a, R, b, c)
       /\ Gained(a, R, b, c) \in Int
  BY <1>7, GainedSplit
<1> HIDE DEF Y
<1>12. /\ Gained(a, W \union Y, b, c) = Gained(a, W, b, c) + Gained(a, Y, b, c)
       /\ Gained(a, W, b, c) \in Int
  BY <1>9, GainedSplit
<1>13. Gained(a, Y, b, c) = Gained(a, R, b, c)
  BY <1>6, <1>11 DEF Y
<1>14. total = Together(a, c) - Together(a, b) - SumFunctionOnSet(Deltas, Paid(a, m))
  BY <1>3, <1>4, <1>5, <1>9, <1>10, <1>11, <1>12, <1>13
<1> QED
  BY <1>3, <1>14, <1>8 DEF Explained, total, core, r, b, c

(* The savings of a month are what the account's wishes gained together,   *)
(* but for what ended wishes paid out, and whatever moved between them;    *)
(* a saving is counted for each deposit of the ledger, transfers are none. *)
THEOREM SavingsAreGains == Spec => []SavingsExplained
<1> DEFINE Inv == LedgerInv /\ TransfersEven
<1>1. Init => Inv /\ SavingsExplained
  BY LedgerInitially, EvenInitially DEF Init, NoReport, SavingsExplained, Shown
<1>2. Inv /\ [Next]_vars => Inv'
  BY LedgerInductive, EvenInductive
<1>3. SavingsExplained <=> (Shown("monthly") =>
        Explained(report.account, report.month, report.reply.view.core))
  BY Zenon DEF SavingsExplained, Explained, Together, Paid, Moved
<1>4. UNCHANGED ledger => \A a, m, core : Explained(a, m, core)' <=> Explained(a, m, core)
  <2> SUFFICES ASSUME UNCHANGED ledger, NEW a, NEW m, NEW core
               PROVE  Explained(a, m, core)' <=> Explained(a, m, core)
    OBVIOUS
  <2>1. UNCHANGED <<wishes, effects>> /\ \A i, b : Balance(i, b)' = Balance(i, b)
    BY SameLedger DEF ledger
  <2>2. \A b : Together(a, b)' = Together(a, b)
    BY <2>1 DEF Together, Mine
  <2>3. Deltas' = Deltas /\ Paid(a, m)' = Paid(a, m) /\ Moved(a, m)' = Moved(a, m)
    BY <2>1 DEF Deltas, Paid, Moved
  <2> QED
    BY <2>2, <2>3 DEF Explained, EndOfMonth
<1>5. Inv /\ SavingsExplained /\ [Next]_vars => SavingsExplained'
  <2> SUFFICES ASSUME Inv, SavingsExplained, [Next]_vars PROVE SavingsExplained'
    OBVIOUS
  <2> HIDE DEF Inv
  <2>1. SavingsExplained' <=> (Shown("monthly")' =>
          Explained(report.account, report.month, report.reply.view.core)')
    BY Zenon DEF SavingsExplained, Explained, Together, Paid, Moved
  <2>2. CASE report'.kind # "monthly"
    BY <2>1, <2>2 DEF Shown
  <2>3. CASE UNCHANGED vars
    <3>1. UNCHANGED ledger /\ UNCHANGED report
      BY <2>3 DEF vars
    <3>2. \A a, m, core : Explained(a, m, core)' <=> Explained(a, m, core)
      BY <1>4, <3>1
    <3> QED
      BY <1>3, <2>1, <3>1, <3>2 DEF Shown
  <2>4. CASE MonthlyService /\ UNCHANGED ledger
    <3>1. PICK a, m, r, reply :
            /\ a \in Students /\ m = LastMonth /\ r = RequestFor(a, MonthStart[m], EndOfMonth(m))
            /\ report' = [kind |-> "monthly", account |-> a, month |-> m, reply |-> reply]
            /\ reply = [status |-> 500] \/ reply = [status |-> 200, view |-> MonthlyView(r, m)]
      BY <2>4, MonthlyAnswered, Zenon DEF Inv
    <3>2. PICK core : core = MonthlyView(r, m).core /\ Explained(a, m, core)
      BY <3>1, SavingsOfTheMonth DEF Inv
    <3>3. /\ report'.account = a /\ report'.month = m /\ report'.reply = reply
          /\ reply.status = 200 => reply.view.core = core
      BY <3>1, <3>2
    <3>4. Explained(a, m, core)'
      BY <1>4, <2>4, <3>2
    <3>5. Shown("monthly")' => reply.status = 200
      BY <3>3 DEF Shown
    <3>6. Explained(report.account, report.month, report.reply.view.core)'
            <=> Explained(a, m, reply.view.core)'
      BY <3>3 DEF Explained
    <3> QED
      BY <2>1, <3>3, <3>4, <3>5, <3>6 DEF Shown
  <2>5. report' = NoReport => report'.kind = "none"
    BY DEF NoReport
  <2>6. WeeklyBatch => report'.kind = "weekly_batch"
    BY DEF WeeklyBatch
  <2>7. MonthlyBatch => report'.kind = "monthly_batch"
    BY DEF MonthlyBatch
  <2>8. WeeklyService => report'.kind = "weekly"
    BY WeeklyAnswered DEF Inv
  <2> QED
    <3>1. report'.kind # "monthly" \/ UNCHANGED vars \/ (MonthlyService /\ UNCHANGED ledger)
      BY <2>5, <2>6, <2>7, <2>8, ReportSteps
    <3> QED
      BY <2>2, <2>3, <2>4, <3>1
<1> HIDE DEF Inv
<1> QED
  BY <1>1, <1>2, <1>5, PTL DEF Spec

-----------------------------------------------------------------------------
(* The windows of the weekly batch.                                        *)

(* The month of a day that a known month begins before or on.              *)
LEMMA MonthOfDay ==
  ASSUME NEW d \in Int, NEW n \in DOMAIN MonthStart, MonthStart[n] <= d
  PROVE  /\ MonthOf(d) \in DOMAIN MonthStart /\ n <= MonthOf(d)
         /\ MonthStart[MonthOf(d)] <= d
         /\ \A m \in DOMAIN MonthStart : MonthStart[m] <= d => m <= MonthOf(d)
<1> DEFINE S == {m \in DOMAIN MonthStart : MonthStart[m] <= d}
<1>1. n \in S /\ S \in SUBSET (1 .. Len(MonthStart)) /\ Len(MonthStart) \in Nat
  BY MonthsOrdered
<1>2. MonthOf(d) = Max(S)
  BY DEF MonthOf
<1> HIDE DEF S
<1>3. Max(S) \in S /\ \A m \in S : m <= Max(S)
  BY <1>1, LastPlace
<1> QED
  BY <1>1, <1>2, <1>3 DEF S

(* The starting days of the weekly batch reach the week before, the weeks  *)
(* of a streak, and the month before the one of any day of the week.       *)
LEMMA WindowsReach ==
  ASSUME LedgerInv, NEW k, k = LastWeek(today), 7 * k > MonthStart[2]
  PROVE  /\ k \in Int /\ StreakSince(k) \in Int /\ VisitsSince(k) \in Int
         /\ StreakSince(k) <= 7 * k /\ VisitsSince(k) <= 7 * (k - 1)
         /\ \A i \in 0 .. Lookback - 1 : StreakSince(k) <= 7 * (k - i)
         /\ \A d \in Week(k) : /\ StreakSince(k) <= MonthStart[MonthOf(d) - 1]
                               /\ VisitsSince(k) <= MonthStart[MonthOf(d) - 1]
                               /\ MonthStart[MonthOf(d) - 1] \in Int
<1>1. k \in Int /\ 7 * k \in Int /\ 7 * (k + 1) <= today /\ today \in Int
  BY WeekOver, LastMonthKnown DEF EndOfWeek
<1>2. Lookback \in Nat /\ Lookback >= 9 /\ 2 \in DOMAIN MonthStart
  BY RecapAssumption, WeeklyRecapAssumption
<1>3. StreakSince(k) = 7 * k - 7 * Lookback
  BY DEF StreakSince
<1>4. StreakSince(k) \in Int /\ StreakSince(k) <= 7 * k - 63
  BY <1>1, <1>2, <1>3
<1>5. \A i \in 0 .. Lookback - 1 : StreakSince(k) <= 7 * (k - i)
  BY <1>1, <1>2, <1>3
<1> DEFINE Before(d) == MonthOf(d) - 1
<1>6. ASSUME NEW d \in Week(k)
      PROVE  /\ Before(d) \in DOMAIN MonthStart /\ MonthOf(d) \in DOMAIN MonthStart
             /\ MonthStart[Before(d)] \in Int /\ 7 * k - 61 <= MonthStart[Before(d)]
             /\ d \in Int /\ 7 * k <= d
  <2>1. d \in Int /\ 7 * k <= d /\ d < today
    BY <1>1 DEF Week
  <2>2. MonthStart[2] \in Int /\ MonthStart[2] <= d
    BY <1>1, <1>2, <2>1, MonthsOrdered
  <2>3. /\ MonthOf(d) \in DOMAIN MonthStart /\ 2 <= MonthOf(d) /\ MonthStart[MonthOf(d)] <= d
        /\ \A m \in DOMAIN MonthStart : MonthStart[m] <= d => m <= MonthOf(d)
    BY <1>2, <2>1, <2>2, MonthOfDay
  <2>4. PICK n : n = MonthOf(d)
    OBVIOUS
  <2>5. n \in Nat /\ n - 1 \in DOMAIN MonthStart /\ n - 1 + 1 = n /\ n \in DOMAIN MonthStart
    BY <2>3, <2>4, MonthsOrdered
  <2>6. today < MonthStart[Len(MonthStart)]
    <3>1. now \in DOMAIN Days
      BY DEF LedgerInv, WishesInv
    <3> QED
      BY <3>1, RecapAssumption DEF today
  <2>7. Len(MonthStart) \in DOMAIN MonthStart
    BY <1>2, MonthsOrdered
  <2>8. n < Len(MonthStart)
    <3>1. n \in 1 .. Len(MonthStart) /\ Len(MonthStart) \in Nat
      BY <2>5, MonthsOrdered
    <3>2. MonthStart[n] \in Int /\ MonthStart[Len(MonthStart)] \in Int /\ MonthStart[n] <= d
      BY <2>3, <2>4, <2>5, <2>7, MonthsOrdered
    <3>3. MonthStart[n] < MonthStart[Len(MonthStart)]
      BY <1>1, <2>1, <2>6, <3>2
    <3>4. n # Len(MonthStart)
      BY <3>2, <3>3
    <3> QED
      BY <3>1, <3>4
  <2>9. n + 1 \in DOMAIN MonthStart
    BY <2>5, <2>8, MonthsOrdered
  <2>10. MonthStart[n + 1] - MonthStart[n] <= 31 /\ MonthStart[n] - MonthStart[n - 1] <= 31
    BY <2>5, <2>9, RecapMetricsAssumption
  <2>11. MonthStart[n + 1] \in Int /\ MonthStart[n] \in Int /\ MonthStart[n - 1] \in Int
    BY <2>5, <2>9, MonthsOrdered
  <2>12. d < MonthStart[n + 1]
    <3>1. MonthStart[n + 1] <= d => n + 1 <= n
      BY <2>3, <2>4, <2>9
    <3> QED
      BY <2>1, <2>5, <2>11, <3>1
  <2>13. 7 * k - 61 <= MonthStart[n - 1]
    BY <1>1, <2>1, <2>10, <2>11, <2>12
  <2> QED
    BY <2>1, <2>4, <2>5, <2>11, <2>13
<1>7. 7 * k \in Week(k)
  BY <1>1 DEF Week
<1>8. \A d \in Week(k) : MonthStart[Before(7 * k)] <= MonthStart[Before(d)]
  <2> TAKE d \in Week(k)
  <2>1. /\ MonthOf(7 * k) \in DOMAIN MonthStart /\ MonthStart[MonthOf(7 * k)] <= 7 * k
        /\ MonthStart[MonthOf(7 * k)] \in Int
    <3>1. MonthStart[2] \in Int /\ MonthStart[2] <= 7 * k
      BY <1>1, <1>2, MonthsOrdered
    <3> QED
      BY <1>1, <1>2, <3>1, MonthOfDay, MonthsOrdered
  <2>2. d \in Int /\ 7 * k <= d /\ MonthOf(d) \in DOMAIN MonthStart
    BY <1>6
  <2>3. MonthStart[MonthOf(7 * k)] <= d
    BY <1>1, <2>1, <2>2
  <2>4. MonthOf(7 * k) <= MonthOf(d)
    BY <2>1, <2>2, <2>3, MonthOfDay
  <2>5. PICK p \in Int, q \in Int : p = Before(7 * k) /\ q = Before(d) /\ p <= q
    BY <2>1, <2>2, <2>4, MonthsOrdered
  <2>6. p \in DOMAIN MonthStart /\ q \in DOMAIN MonthStart /\ (p = q \/ p < q)
    BY <1>6, <1>7, <2>5
  <2>7. MonthStart[p] \in Int /\ MonthStart[q] \in Int /\ MonthStart[p] <= MonthStart[q]
    BY <2>6, MonthsOrdered
  <2> QED
    BY <2>5, <2>7
<1>9. /\ VisitsSince(k) \in Int /\ VisitsSince(k) <= 7 * (k - 1)
      /\ VisitsSince(k) <= MonthStart[Before(7 * k)]
  <2>1. PICK x \in Int, y \in Int : x = 7 * (k - 1) /\ y = MonthStart[Before(7 * k)]
    BY <1>1, <1>6, <1>7
  <2>2. VisitsSince(k) = Min({x, y})
    BY <2>1 DEF VisitsSince, TypeLookbackStart
  <2>3. \E z \in {x, y} : \A u \in {x, y} : z <= u
    <3>1. CASE x <= y
      BY <3>1
    <3>2. CASE y <= x
      BY <3>2
    <3> QED
      BY <3>1, <3>2
  <2>4. Min({x, y}) \in {x, y} /\ \A u \in {x, y} : Min({x, y}) <= u
    BY <2>3, Zenon DEF Min
  <2> QED
    BY <2>1, <2>2, <2>4
<1>10. ASSUME NEW d \in Week(k)
       PROVE  /\ StreakSince(k) <= MonthStart[MonthOf(d) - 1]
              /\ VisitsSince(k) <= MonthStart[MonthOf(d) - 1]
              /\ MonthStart[MonthOf(d) - 1] \in Int
  <2>1. PICK x \in Int, y \in Int, z \in Int, u \in Int :
          /\ x = StreakSince(k) /\ y = VisitsSince(k)
          /\ z = MonthStart[Before(7 * k)] /\ u = MonthStart[Before(d)]
    BY <1>4, <1>6, <1>7, <1>9
  <2>2. x <= 7 * k - 63 /\ 7 * k - 61 <= u /\ y <= z /\ z <= u
    BY <1>4, <1>6, <1>8, <1>9, <2>1
  <2> QED
    BY <1>1, <2>1, <2>2
<1>11. StreakSince(k) <= 7 * k
  BY <1>1, <1>4
<1> QED
  BY <1>1, <1>4, <1>5, <1>9, <1>10, <1>11

(* Rows that agree on an account in a period.                              *)
OwnIn(txs, a, period) == {t \in txs : t.account = a /\ t.day \in period}

(* What page 1 says of the week depends on the rows of the week.           *)
LEMMA AchievementAgrees ==
  ASSUME NEW txs, NEW others, NEW a, NEW k, NEW W,
         OwnIn(txs, a, Week(k)) = OwnIn(others, a, Week(k))
  PROVE  WeeklyAchievement(a, k, W, txs) = WeeklyAchievement(a, k, W, others)
<1>1. \A type : TypedIn({t \in txs : t.account = a}, type, Week(k))
                  = TypedIn({t \in others : t.account = a}, type, Week(k))
  <2> TAKE type
  <2>1. TypedIn({t \in txs : t.account = a}, type, Week(k))
          = {t \in OwnIn(txs, a, Week(k)) : t.type = type}
    BY DEF TypedIn, OwnIn
  <2>2. TypedIn({t \in others : t.account = a}, type, Week(k))
          = {t \in OwnIn(others, a, Week(k)) : t.type = type}
    BY DEF TypedIn, OwnIn
  <2> QED
    BY <2>1, <2>2
<1> DEFINE own == {t \in txs : t.account = a}  theirs == {t \in others : t.account = a}
           new == Cardinality({w \in W : w.account = a /\ w.created \in Week(k)})
<1>2. /\ WeeklyAchievement(a, k, W, txs) =
           [save_count |-> Cardinality(TypedIn(own, "DEPOSIT", Week(k))),
            net_savings |-> Saved(TypedIn(own, "DEPOSIT", Week(k)), TypedIn(own, "WITHDRAWAL", Week(k))),
            new_wishes |-> new]
      /\ WeeklyAchievement(a, k, W, others) =
           [save_count |-> Cardinality(TypedIn(theirs, "DEPOSIT", Week(k))),
            net_savings |-> Saved(TypedIn(theirs, "DEPOSIT", Week(k)),
                                  TypedIn(theirs, "WITHDRAWAL", Week(k))),
            new_wishes |-> new]
  BY Zenon DEF WeeklyAchievement
<1> HIDE DEF own, theirs, new
<1> QED
  BY <1>1, <1>2 DEF own, theirs

(* A streak depends on the rows of the weeks it may be followed back.      *)
LEMMA StreakAgrees ==
  ASSUME NEW txs, NEW others, NEW a, NEW k,
         \A i \in 0 .. Lookback - 1 : OwnIn(txs, a, Week(k - i)) = OwnIn(others, a, Week(k - i))
  PROVE  Streak(a, k, txs) = Streak(a, k, others)
<1>1. \A i \in 0 .. Lookback - 1 : WeekHasDeposit(a, k - i, txs) <=> WeekHasDeposit(a, k - i, others)
  <2> TAKE i \in 0 .. Lookback - 1
  <2>1. OwnIn(txs, a, Week(k - i)) = OwnIn(others, a, Week(k - i))
    OBVIOUS
  <2>2. PICK w : w = Week(k - i)
    OBVIOUS
  <2>3. TypedIn({t \in txs : t.account = a}, "DEPOSIT", w) = {t \in OwnIn(txs, a, w) : t.type = "DEPOSIT"}
    BY DEF TypedIn, OwnIn
  <2>4. TypedIn({t \in others : t.account = a}, "DEPOSIT", w)
          = {t \in OwnIn(others, a, w) : t.type = "DEPOSIT"}
    BY DEF TypedIn, OwnIn
  <2> QED
    BY <2>1, <2>2, <2>3, <2>4 DEF WeekHasDeposit
<1>2. Lookback \in Nat
  BY WeeklyRecapAssumption
<1>3. \A n \in 0 .. Lookback : \A i \in 0 .. n - 1 : i \in 0 .. Lookback - 1
  BY <1>2
<1>4. {n \in 0 .. Lookback : \A i \in 0 .. n - 1 : WeekHasDeposit(a, k - i, txs)}
        = {n \in 0 .. Lookback : \A i \in 0 .. n - 1 : WeekHasDeposit(a, k - i, others)}
  BY <1>1, <1>3
<1> QED
  BY <1>4 DEF Streak

(* The type of a month depends on the rows and the visits of the month.    *)
LEMMA TypeAgrees ==
  ASSUME NEW txs, NEW others, NEW seen, NEW known, NEW a, NEW m, NEW W,
         OwnIn(txs, a, Month(m)) = OwnIn(others, a, Month(m)),
         {v \in seen : v.visitor = a /\ v.day \in Month(m)}
           = {v \in known : v.visitor = a /\ v.day \in Month(m)}
  PROVE  CoreMetrics(a, m, W, txs, seen) = CoreMetrics(a, m, W, others, known)
<1>1. OwnTransactions(a, m, txs) = OwnTransactions(a, m, others)
  BY DEF OwnTransactions, OwnIn
<1> QED
  BY <1>1, Zenon DEF CoreMetrics

(* The stories depend on the months before the completions of the week.    *)
LEMMA StoriesAgree ==
  ASSUME NEW academy, NEW k, NEW W, NEW txs, NEW others, NEW seen, NEW known, NEW shared,
         NEW accounts, NEW viewers,
         \A w \in W : w.closed \in Week(k) /\ (\E p \in accounts : p.id = w.account /\ p.academy = academy) =>
           CoreMetrics(w.account, MonthOf(w.closed) - 1, W, txs, seen)
             = CoreMetrics(w.account, MonthOf(w.closed) - 1, W, others, known)
  PROVE  Stories(academy, k, W, txs, seen, shared, accounts, viewers)
           = Stories(academy, k, W, others, known, shared, accounts, viewers)
<1> DEFINE told == {w \in W :
             /\ \E p \in accounts : p.id = w.account /\ p.academy = academy
             /\ w.account \notin viewers
             /\ w.status = "COMPLETED" /\ w.closed \in Week(k)
             /\ \E p \in shared : p.wish = w.id}
           few == {v \in told : Cardinality({u \in told : u.id < v.id}) < MaxStories}
           Told1(w) == [wish |-> w.id, type |-> TypeSection(
             CoreMetrics(w.account, MonthOf(w.closed) - 1, W, txs, seen)).title]
           Told2(w) == [wish |-> w.id, type |-> TypeSection(
             CoreMetrics(w.account, MonthOf(w.closed) - 1, W, others, known)).title]
<1>1. Stories(academy, k, W, txs, seen, shared, accounts, viewers) = {Told1(w) : w \in few}
  BY Zenon DEF Stories
<1>2. Stories(academy, k, W, others, known, shared, accounts, viewers) = {Told2(w) : w \in few}
  BY Zenon DEF Stories
<1>3. \A w \in few : Told1(w) = Told2(w)
  <2> TAKE w \in few
  <2>1. w \in W /\ w.closed \in Week(k) /\ \E p \in accounts : p.id = w.account /\ p.academy = academy
    OBVIOUS
  <2> QED
    BY <2>1
<1> HIDE DEF few, Told1, Told2
<1>4. {Told1(w) : w \in few} = {Told2(w) : w \in few}
  BY <1>3
<1> QED
  BY <1>1, <1>2, <1>4

(* A milestone depends on the progress of the representative wish.         *)
LEMMA MilestoneAgrees ==
  ASSUME NEW txs, NEW others, NEW a, NEW k, NEW W, NEW anchor,
         \A w \in RepresentativeWish(a, W) :
           /\ ProgressAsOf(w, 7 * k, anchor, txs) = ProgressAsOf(w, 7 * k, anchor, others)
           /\ ProgressAsOf(w, 7 * (k + 1), anchor, txs) = ProgressAsOf(w, 7 * (k + 1), anchor, others)
  PROVE  Milestone(a, k, W, txs, anchor) = Milestone(a, k, W, others, anchor)
<1> DEFINE Told1(w, before, after) ==
             [wish |-> w.id, before |-> before, after |-> after,
              crossed |-> {t \in Milestones : 100 * before < t * w.target /\ t * w.target <= 100 * after}]
           S == {v \in RepresentativeWish(a, W) : v.target > 0}
           Then(w, rows) == Told1(w, ProgressAsOf(w, 7 * k, anchor, rows),
                                  ProgressAsOf(w, 7 * (k + 1), anchor, rows))
<1>1. /\ Milestone(a, k, W, txs, anchor) = {Then(w, txs) : w \in S}
      /\ Milestone(a, k, W, others, anchor) = {Then(w, others) : w \in S}
  BY Zenon DEF Milestone
<1>2. \A w \in S : Then(w, txs) = Then(w, others)
  <2> TAKE w \in S
  <2>1. w \in RepresentativeWish(a, W)
    OBVIOUS
  <2> HIDE DEF Told1
  <2> QED
    BY <2>1
<1> HIDE DEF S, Then
<1>3. {Then(w, txs) : w \in S} = {Then(w, others) : w \in S}
  BY <1>2
<1> QED
  BY <1>1, <1>3

(* The rows that the batch fetched and the rows there are.                 *)
Fetched(academy, k) == Among({t \in Transactions : t.day >= StreakSince(k)}, academy)
Seen(academy, k)    == VisitsAmong({v \in visits : v.day >= VisitsSince(k)}, academy)
LEMMA WindowAgrees ==
  ASSUME NEW academy, NEW k, NEW a, NEW period
  PROVE  /\ (\A d \in period : d >= StreakSince(k)) =>
              OwnIn(Fetched(academy, k), a, period) = OwnIn(Among(Transactions, academy), a, period)
         /\ (\A d \in period : d >= VisitsSince(k)) =>
              /\ {v \in Seen(academy, k) : v.visitor = a /\ v.day \in period}
                   = {v \in VisitsAmong(visits, academy) : v.visitor = a /\ v.day \in period}
              /\ {v \in Seen(academy, k) : v.visited = a /\ v.day \in period}
                   = {v \in VisitsAmong(visits, academy) : v.visited = a /\ v.day \in period}
BY DEF OwnIn, Fetched, Seen, Among, VisitsAmong

(* What a wish of the academy moved until today is among the rows.         *)
LEMMA BatchMoves ==
  ASSUME LedgerInv, NEW academy, NEW w \in wishes, w.account \in IdsOf(academy),
         NEW b \in Int, b <= today, NEW k, StreakSince(k) \in Int
  PROVE  /\ NetChange(w.id, b .. today - 1, Among(Transactions, academy))
              = Funds(effects, w.id, today) - Funds(effects, w.id, b)
         /\ StreakSince(k) <= b => NetChange(w.id, b .. today - 1, Fetched(academy, k))
              = Funds(effects, w.id, today) - Funds(effects, w.id, b)
<1>1. w.id \in Nat /\ today \in Int
  BY LastMonthKnown DEF LedgerInv, WishesInv, WishRows
<1>2. ASSUME NEW e \in Between(w.id, b, today)
      PROVE  /\ TransactionOf(e) \in Among(Transactions, academy)
             /\ StreakSince(k) <= b => TransactionOf(e) \in Fetched(academy, k)
  <2>1. e \in effects /\ e.wish = w.id /\ e.day \in Int /\ b <= e.day
    BY DEF Between
  <2>2. e.account = w.account
    BY <2>1 DEF LedgerInv, WishesInv
  <2>3. TransactionOf(e).account \in IdsOf(academy) /\ TransactionOf(e).day = e.day
    BY <2>1, <2>2, TransactionFields
  <2>4. TransactionOf(e) \in Transactions
    BY <2>1 DEF Transactions
  <2>5. StreakSince(k) <= b => TransactionOf(e).day >= StreakSince(k)
    BY <2>1, <2>3
  <2> QED
    BY <2>3, <2>4, <2>5 DEF Among, Fetched
<1>3. Among(Transactions, academy) \subseteq Transactions /\ Fetched(academy, k) \subseteq Transactions
  BY DEF Among, Fetched
<1>4. NetChange(w.id, b .. today - 1, Among(Transactions, academy))
        = Funds(effects, w.id, today) - Funds(effects, w.id, b)
  BY <1>1, <1>2, <1>3, NetMoved
<1>5. StreakSince(k) <= b => NetChange(w.id, b .. today - 1, Fetched(academy, k))
        = Funds(effects, w.id, today) - Funds(effects, w.id, b)
  BY <1>1, <1>2, <1>3, NetMoved
<1> QED
  BY <1>4, <1>5

(* With the rows that it fetched the batch tells what it would with all.   *)
LEMMA WindowsTellAll ==
  ASSUME LedgerInv, NEW academy, NEW a \in IdsOf(academy), NEW k, k = LastWeek(today),
         7 * k > MonthStart[2], NEW shared, NEW accounts
  PROVE  WeeklyReport(a, academy, today, Among(ExportedWishes, academy), Fetched(academy, k),
                      Seen(academy, k), shared, accounts)
           = WeeklyReport(a, academy, today, Among(ExportedWishes, academy),
                          Among(Transactions, academy), VisitsAmong(visits, academy), shared, accounts)
<1> DEFINE W == Among(ExportedWishes, academy)
           some == Fetched(academy, k)      all == Among(Transactions, academy)
           few  == Seen(academy, k)         known == VisitsAmong(visits, academy)
<1>1. /\ k \in Int /\ StreakSince(k) \in Int /\ VisitsSince(k) \in Int
      /\ StreakSince(k) <= 7 * k /\ VisitsSince(k) <= 7 * (k - 1)
      /\ \A i \in 0 .. Lookback - 1 : StreakSince(k) <= 7 * (k - i)
      /\ \A d \in Week(k) : /\ StreakSince(k) <= MonthStart[MonthOf(d) - 1]
                            /\ VisitsSince(k) <= MonthStart[MonthOf(d) - 1]
                            /\ MonthStart[MonthOf(d) - 1] \in Int
  BY WindowsReach
<1>2. WeeklyAchievement(a, k, W, some) = WeeklyAchievement(a, k, W, all)
  <2>1. \A d \in Week(k) : d >= StreakSince(k)
    BY <1>1 DEF Week
  <2> QED
    BY <2>1, WindowAgrees, AchievementAgrees
<1>3. Streak(a, k, some) = Streak(a, k, all)
  <2>1. ASSUME NEW i \in 0 .. Lookback - 1
        PROVE  OwnIn(some, a, Week(k - i)) = OwnIn(all, a, Week(k - i))
    <3>1. i \in Int /\ StreakSince(k) <= 7 * (k - i)
      BY <1>1
    <3>2. \A d \in Week(k - i) : d >= StreakSince(k)
      BY <1>1, <3>1 DEF Week
    <3> QED
      BY <3>2, WindowAgrees
  <2> HIDE DEF some, all
  <2> QED
    BY <2>1, StreakAgrees
<1>4. Milestone(a, k, W, some, today) = Milestone(a, k, W, all, today)
  <2>1. /\ 7 * k \in Int /\ 7 * (k + 1) \in Int /\ 7 * k <= today /\ 7 * (k + 1) <= today
        /\ StreakSince(k) <= 7 * (k + 1) /\ today \in Int
    BY <1>1, WeekOver, LastMonthKnown DEF EndOfWeek
  <2>2. ASSUME NEW v \in RepresentativeWish(a, W), NEW b \in Int, b <= today, StreakSince(k) <= b
        PROVE  ProgressAsOf(v, b, today, some) = ProgressAsOf(v, b, today, all)
    <3>1. v \in W
      <4>1. \A w \in W : w.id \in Nat
        BY ExportedFields
      <4> HIDE DEF W
      <4> QED
        BY <4>1, RepresentativeIsMine
    <3>2. PICK w \in wishes : v.id = w.id /\ w.account \in IdsOf(academy)
      BY <3>1, ExportedFields
    <3>3. NetChange(w.id, b .. today - 1, some) = NetChange(w.id, b .. today - 1, all)
      BY <1>1, <2>2, <3>2, BatchMoves
    <3> QED
      BY <3>2, <3>3 DEF ProgressAsOf
  <2>3. \A v \in RepresentativeWish(a, W) :
          /\ ProgressAsOf(v, 7 * k, today, some) = ProgressAsOf(v, 7 * k, today, all)
          /\ ProgressAsOf(v, 7 * (k + 1), today, some) = ProgressAsOf(v, 7 * (k + 1), today, all)
    BY <1>1, <2>1, <2>2
  <2> HIDE DEF W, some, all
  <2> QED
    BY <2>3, MilestoneAgrees
<1>5. Page1(a, k, W, some, today) = Page1(a, k, W, all, today)
  BY <1>2, <1>3, <1>4, Zenon DEF Page1
<1>6. Page2(a, k, few) = Page2(a, k, known)
  <2>1. \A d \in Week(k) : d >= VisitsSince(k)
    BY <1>1 DEF Week
  <2>2. \A d \in Week(k - 1) : d >= VisitsSince(k)
    BY <1>1 DEF Week
  <2>3. ASSUME NEW i, \A d \in Week(i) : d >= VisitsSince(k)
        PROVE  Visits(a, i, few) = Visits(a, i, known)
    <3>1. PICK w : w = Week(i)
      OBVIOUS
    <3>2. {v \in few : v.visited = a /\ v.day \in w} = {v \in known : v.visited = a /\ v.day \in w}
      BY <2>3, <3>1 DEF Seen, VisitsAmong
    <3> HIDE DEF few, known
    <3>3. \A seen : Visits(a, i, seen) = {v \in seen : v.visited = a /\ v.day \in w}
      BY <3>1 DEF Visits
    <3> QED
      BY <3>2, <3>3
  <2>4. Visits(a, k, few) = Visits(a, k, known) /\ Visits(a, k - 1, few) = Visits(a, k - 1, known)
    BY <2>1, <2>2, <2>3
  <2> QED
    BY <2>4, Zenon DEF Page2
<1>7. Stories(academy, k, W, some, few, shared, accounts, {a})
        = Stories(academy, k, W, all, known, shared, accounts, {a})
  <2>1. ASSUME NEW v \in W, v.closed \in Week(k)
        PROVE  CoreMetrics(v.account, MonthOf(v.closed) - 1, W, some, few)
                 = CoreMetrics(v.account, MonthOf(v.closed) - 1, W, all, known)
    <3> DEFINE m == MonthOf(v.closed) - 1
    <3>1. \A d \in Month(m) : d >= StreakSince(k) /\ d >= VisitsSince(k)
      <4>1. PICK x \in Int, y \in Int, z \in Int :
              x = MonthStart[m] /\ y = StreakSince(k) /\ z = VisitsSince(k) /\ y <= x /\ z <= x
        BY <1>1, <2>1
      <4>2. \A d \in Month(m) : d \in Int /\ d >= x
        BY <4>1 DEF Month
      <4> QED
        BY <4>1, <4>2
    <3>2. /\ OwnIn(some, v.account, Month(m)) = OwnIn(all, v.account, Month(m))
          /\ {u \in few : u.visitor = v.account /\ u.day \in Month(m)}
               = {u \in known : u.visitor = v.account /\ u.day \in Month(m)}
      BY <3>1, WindowAgrees
    <3> HIDE DEF m, W, some, all, few, known
    <3>3. CoreMetrics(v.account, m, W, some, few) = CoreMetrics(v.account, m, W, all, known)
      BY <3>2, TypeAgrees
    <3> QED
      BY <3>3 DEF m
  <2> HIDE DEF W, some, all, few, known
  <2> QED
    BY <2>1, StoriesAgree
<1> HIDE DEF W, some, all, few, known
<1>8. \A txs, seen : WeeklyReport(a, academy, today, W, txs, seen, shared, accounts) =
        [week |-> k, page1 |-> Page1(a, k, W, txs, today), page2 |-> Page2(a, k, seen),
         page3 |-> Stories(academy, k, W, txs, seen, shared, accounts, {a})]
  BY DEF WeeklyReport, AnchorDay
<1> QED
  BY <1>5, <1>6, <1>7, <1>8 DEF W, some, all, few, known

(* What the weekly batch would write with every row there is.              *)
PostsOf(k)          == {p \in posts : p.day \in Week(k)}
WholeWeek(academy)  == RunWeekly(academy, Transactions, visits, PostsOf(LastWeek(today)))
LEMMA WindowsWriteAll ==
  ASSUME LedgerInv, NEW academy, NEW k, k = LastWeek(today), 7 * k > MonthStart[2]
  PROVE  RunWeekly(academy, {t \in Transactions : t.day >= StreakSince(k)},
                   {v \in visits : v.day >= VisitsSince(k)}, PostsOf(k)) = WholeWeek(academy)
<1> DEFINE Of1(a) == WeeklyReport(a, academy, today, Among(ExportedWishes, academy),
                       Fetched(academy, k), Seen(academy, k), Among(PostsOf(k), academy),
                       OfAcademy(academy))
           Of2(a) == WeeklyReport(a, academy, today, Among(ExportedWishes, academy),
                       Among(Transactions, academy), VisitsAmong(visits, academy),
                       Among(PostsOf(k), academy), OfAcademy(academy))
<1>1. RunWeekly(academy, {t \in Transactions : t.day >= StreakSince(k)},
                {v \in visits : v.day >= VisitsSince(k)}, PostsOf(k)) = [a \in IdsOf(academy) |-> Of1(a)]
  BY Zenon DEF RunWeekly, Fetched, Seen
<1>2. WholeWeek(academy) = [a \in IdsOf(academy) |-> Of2(a)]
  BY Zenon DEF RunWeekly, WholeWeek
<1>3. \A a \in IdsOf(academy) : Of1(a) = Of2(a)
  BY WindowsTellAll
<1> HIDE DEF Of1, Of2
<1> QED
  BY <1>1, <1>2, <1>3

(* A weekly batch, with what it writes.                                    *)
LEMMA WeeklyBatchWrites ==
  ASSUME LedgerInv, WeeklyBatch
  PROVE  \E academy \in {a.academy : a \in Accounts} :
           /\ 7 * LastWeek(today) > MonthStart[2]
           /\ report' = [kind |-> "weekly_batch", academy |-> academy, students |-> WholeWeek(academy)]
<1> DEFINE k == LastWeek(today)
<1>1. PICK academy \in {a.academy : a \in Accounts} :
        /\ 7 * k > MonthStart[2]
        /\ report' = [kind |-> "weekly_batch", academy |-> academy,
             students |-> RunWeekly(academy, {t \in Transactions : t.day >= StreakSince(k)},
                                    {v \in visits : v.day >= VisitsSince(k)}, PostsOf(k))]
  BY Zenon DEF WeeklyBatch, PostsOf
<1> QED
  BY <1>1, WindowsWriteAll, Zenon

(* The rows that the weekly batch fetches are enough: with every row there *)
(* is, it would write the same.                                            *)
THEOREM WindowsReachFarEnough == Spec => []WindowsSuffice
<1>1. Init => WindowsSuffice
  BY DEF Init, NoReport, WindowsSuffice
<1>2. WindowsSuffice <=> (report.kind = "weekly_batch" => report.students = WholeWeek(report.academy))
  BY Zenon DEF WindowsSuffice, WholeWeek, PostsOf
<1>3. UNCHANGED ledger => \A academy : WholeWeek(academy)' = WholeWeek(academy)
  <2> SUFFICES ASSUME UNCHANGED ledger PROVE \A academy : WholeWeek(academy)' = WholeWeek(academy)
    OBVIOUS
  <2>1. UNCHANGED <<wishes, effects, visits, posts>> /\ today' = today
    BY DEF ledger, today
  <2>2. /\ ExportedWishes' = ExportedWishes /\ Transactions' = Transactions
        /\ PostsOf(LastWeek(today))' = PostsOf(LastWeek(today))
    BY <2>1 DEF ExportedWishes, Transactions, PostsOf
  <2> QED
    BY <2>1, <2>2, Zenon DEF WholeWeek, RunWeekly
<1>4. LedgerInv /\ WindowsSuffice /\ [Next]_vars => WindowsSuffice'
  <2> SUFFICES ASSUME LedgerInv, WindowsSuffice, [Next]_vars PROVE WindowsSuffice'
    OBVIOUS
  <2>1. WindowsSuffice' <=>
          (report'.kind = "weekly_batch" => report'.students = WholeWeek(report.academy)')
    BY Zenon DEF WindowsSuffice, WholeWeek, PostsOf
  <2>2. CASE report'.kind # "weekly_batch"
    BY <2>1, <2>2
  <2>3. CASE UNCHANGED vars
    <3>1. UNCHANGED ledger /\ UNCHANGED report
      BY <2>3 DEF vars
    <3>2. WholeWeek(report.academy)' = WholeWeek(report.academy)
      <4>1. PICK c : c = report.academy /\ c = report'.academy
        BY <3>1
      <4>2. WholeWeek(report.academy)' = WholeWeek(c)'
        BY <4>1, Zenon DEF WholeWeek, RunWeekly
      <4> QED
        BY <1>3, <3>1, <4>1, <4>2
    <3> QED
      BY <1>2, <2>1, <3>1, <3>2
  <2>4. CASE WeeklyBatch /\ UNCHANGED ledger
    <3>1. PICK c : report' = [kind |-> "weekly_batch", academy |-> c, students |-> WholeWeek(c)]
      BY <2>4, WeeklyBatchWrites
    <3>2. report'.academy = c /\ report'.students = WholeWeek(c)
      BY <3>1
    <3>3. WholeWeek(report.academy)' = WholeWeek(c)'
      BY <3>2
    <3> QED
      BY <1>3, <2>1, <2>4, <3>2, <3>3
  <2>5. report' = NoReport => report'.kind = "none"
    BY DEF NoReport
  <2>6. MonthlyBatch => report'.kind = "monthly_batch"
    BY DEF MonthlyBatch
  <2>7. WeeklyService => report'.kind = "weekly"
    BY WeeklyAnswered
  <2>8. MonthlyService => report'.kind = "monthly"
    BY MonthlyAnswered
  <2> QED
    <3>1. report'.kind # "weekly_batch" \/ UNCHANGED vars \/ (WeeklyBatch /\ UNCHANGED ledger)
      BY <2>5, <2>6, <2>7, <2>8, ReportSteps
    <3> QED
      BY <2>2, <2>3, <2>4, <3>1
<1> QED
  BY <1>1, <1>4, LedgerInvariant, PTL DEF Spec

-----------------------------------------------------------------------------
(* The batch and the service tell the same.                                *)

(* Two sets of rows with the same ids, each its own, are as large.         *)
LEMMA SameCount ==
  ASSUME NEW S, NEW T, IsFiniteSet(S),
         \A r \in S : \E q \in T : q.id = r.id, \A q \in T : \E r \in S : r.id = q.id,
         \A q, r \in S : q # r => q.id # r.id, \A q, r \in T : q # r => q.id # r.id
  PROVE  Cardinality(T) = Cardinality(S)
<1> DEFINE f == [r \in S |-> CHOOSE q \in T : q.id = r.id]
<1>1. \A r \in S : f[r] \in T /\ f[r].id = r.id
  OBVIOUS
<1>2. f \in Bijection(S, T)
  <2>1. DOMAIN f = S /\ f \in [S -> T]
    BY <1>1
  <2> HIDE DEF f
  <2>2. \A q, r \in S : f[q] = f[r] => q = r
    <3> TAKE q, r \in S
    <3>1. f[q].id = q.id /\ f[r].id = r.id
      BY <1>1
    <3> QED
      BY <3>1
  <2>3. \A q \in T : \E r \in S : f[r] = q
    <3> TAKE q \in T
    <3>1. PICK r \in S : r.id = q.id
      OBVIOUS
    <3>2. f[r] \in T /\ f[r].id = q.id
      BY <1>1, <3>1
    <3> QED
      BY <3>1, <3>2
  <2> QED
    BY <2>1, <2>2, <2>3 DEF Bijection, Injection, Surjection, IsInjective
<1> QED
  BY <1>2, FS_Bijection DEF ExistsBijection

(* The first row of some.                                                  *)
LEMMA FirstOfSome ==
  ASSUME NEW S, S # {}, \A r \in S : r.id \in Nat
  PROVE  Option(S) = {First(S)} /\ First(S) \in S /\ \A q \in S : First(S).id <= q.id
<1> DEFINE ids == {r.id : r \in S}
<1>1. ids \in SUBSET Nat /\ ids # {}
  OBVIOUS
<1>2. PICK n \in ids : \A m \in ids : n <= m
  BY <1>1, LeastNatural
<1>3. \E r \in S : \A q \in S : r.id <= q.id
  BY <1>2
<1> QED
  BY <1>3 DEF First, Option

(* A wish of the account is a row of the batch, and one of the request.    *)
LEMMA BothHaveIt ==
  ASSUME LedgerInv, NEW academy, NEW w \in wishes, w.account \in IdsOf(academy),
         NEW start, NEW end \in Int
  PROVE  /\ \E x \in Among(ExportedWishes, academy) : x.id = w.id
         /\ \E y \in DomainWishes(RequestFor(w.account, start, end)) : y.id = w.id
<1>1. w \in WishRows
  BY DEF LedgerInv, WishesInv
<1>2. \E x \in Among(ExportedWishes, academy) : x.id = w.id
  <2>1. PICK x : x = [w EXCEPT !.status = IF @ = "AMOUNT_REACHED" THEN "IN_PROGRESS" ELSE @]
    OBVIOUS
  <2>2. x.id = w.id /\ x.account = w.account
    BY <1>1, <2>1 DEF WishRows
  <2>3. x \in ExportedWishes
    BY <2>1 DEF ExportedWishes
  <2> QED
    BY <2>2, <2>3 DEF Among
<1>3. \E y \in DomainWishes(RequestFor(w.account, start, end)) : y.id = w.id
  <2>1. PICK r : r = RequestFor(w.account, start, end)
    OBVIOUS
  <2>2. PICK v \in r.wishes : v.id = w.id /\ v \in WishRows
    BY <2>1, RequestFields
  <2>3. PICK y : y = [v EXCEPT !.status = Status(@), !.due = Never]
    OBVIOUS
  <2>4. y.id = w.id
    BY <2>2, <2>3 DEF WishRows
  <2>5. y \in DomainWishes(r)
    BY <2>3 DEF DomainWishes
  <2> QED
    BY <2>1, <2>4, <2>5
<1> QED
  BY <1>2, <1>3

(* Neither has two rows of one wish.                                       *)
LEMMA BothApart ==
  ASSUME LedgerInv, NEW academy, NEW a, NEW start, NEW end \in Int
  PROVE  /\ \A x, y \in Among(ExportedWishes, academy) : x # y => x.id # y.id
         /\ \A x, y \in DomainWishes(RequestFor(a, start, end)) : x # y => x.id # y.id
<1>1. ASSUME NEW x \in Among(ExportedWishes, academy), NEW y \in Among(ExportedWishes, academy),
             x.id = y.id
      PROVE  x = y
  <2> DEFINE Out(w) == [w EXCEPT !.status = IF @ = "AMOUNT_REACHED" THEN "IN_PROGRESS" ELSE @]
  <2>1. PICK v \in wishes, w \in wishes : x = Out(v) /\ y = Out(w)
    BY DEF Among, ExportedWishes
  <2>2. \A u \in wishes : Out(u).id = u.id
    BY DEF LedgerInv, WishesInv, WishRows
  <2> HIDE DEF Out
  <2>3. v = w
    BY <1>1, <2>1, <2>2 DEF LedgerInv, WishesInv
  <2> QED
    BY <2>1, <2>3
<1>2. ASSUME NEW x \in DomainWishes(RequestFor(a, start, end)),
             NEW y \in DomainWishes(RequestFor(a, start, end)), x.id = y.id
      PROVE  x = y
  <2> DEFINE Out(v) == [v EXCEPT !.status = Status(@), !.due = Never]
  <2>1. PICK r : r = RequestFor(a, start, end)
    OBVIOUS
  <2>2. PICK u \in r.wishes, v \in r.wishes : x = Out(u) /\ y = Out(v)
    BY <2>1, Zenon DEF DomainWishes
  <2>3. (\A q \in r.wishes : q \in WishRows) /\ \A q, s \in r.wishes : q # s => q.id # s.id
    BY <2>1, RequestFields
  <2>4. \A q \in r.wishes : Out(q).id = q.id
    BY <2>3 DEF WishRows
  <2> HIDE DEF Out
  <2>5. u = v
    BY <1>2, <2>2, <2>3, <2>4
  <2> QED
    BY <2>2, <2>5
<1> QED
  BY <1>1, <1>2

(* Both count the same wishes that are new.                                *)
NewOf(a, W, period) == {w \in W : w.account = a /\ w.created \in period}
LEMMA NewWishesAgree ==
  ASSUME LedgerInv, NEW academy, NEW a \in IdsOf(academy), NEW start, NEW end \in Int, NEW period
  PROVE  Cardinality(NewOf(a, Among(ExportedWishes, academy), period))
           = Cardinality(NewOf(a, DomainWishes(RequestFor(a, start, end)), period))
<1> DEFINE W == Among(ExportedWishes, academy)  D == DomainWishes(RequestFor(a, start, end))
           S == {w \in wishes : w.account = a /\ w.created \in period}
           X == {x \in W : x.account = a /\ x.created \in period}
           Y == {y \in D : y.account = a /\ y.created \in period}
<1>1. IsFiniteSet(S) /\ \A q, r \in S : q # r => q.id # r.id
  <2>1. S \subseteq wishes /\ IsFiniteSet(wishes)
    BY DEF LedgerInv, WishesInv
  <2> QED
    BY <2>1, FS_Subset DEF LedgerInv, WishesInv
<1>2. /\ \A q, r \in X : q # r => q.id # r.id
      /\ \A q, r \in Y : q # r => q.id # r.id
  <2>1. /\ \A q, r \in W : q # r => q.id # r.id
        /\ \A q, r \in D : q # r => q.id # r.id
    BY BothApart
  <2> HIDE DEF W, D
  <2> QED
    BY <2>1
<1>3. ASSUME NEW x \in W
      PROVE  \E w \in wishes : w.id = x.id /\ w.account = x.account /\ w.created = x.created
  BY ExportedFields
<1>4. ASSUME NEW y \in D
      PROVE  \E w \in wishes : w.id = y.id /\ w.account = y.account /\ w.created = y.created
  BY DomainFields
<1>5. ASSUME NEW w \in wishes, w.account = a
      PROVE  (\E x \in W : x.id = w.id) /\ (\E y \in D : y.id = w.id)
  BY <1>5, BothHaveIt
<1>6. \A v, w \in wishes : v.id = w.id => v = w
  BY DEF LedgerInv, WishesInv
<1> HIDE DEF W, D
<1>7. \A x \in X : \E w \in S : w.id = x.id
  BY <1>3
<1>8. \A y \in Y : \E w \in S : w.id = y.id
  BY <1>4
<1>9. \A w \in S : (\E x \in X : x.id = w.id) /\ (\E y \in Y : y.id = w.id)
  <2> TAKE w \in S
  <2>1. PICK x \in W, y \in D : x.id = w.id /\ y.id = w.id
    BY <1>5
  <2>2. PICK v \in wishes : v.id = x.id /\ v.account = x.account /\ v.created = x.created
    BY <1>3
  <2>3. PICK u \in wishes : u.id = y.id /\ u.account = y.account /\ u.created = y.created
    BY <1>4
  <2>4. v = w /\ u = w
    BY <1>6, <2>1, <2>2, <2>3
  <2> QED
    BY <2>1, <2>2, <2>3, <2>4
<1> HIDE DEF S, X, Y
<1>10. Cardinality(X) = Cardinality(S)
  BY <1>1, <1>2, <1>7, <1>9, SameCount
<1>11. Cardinality(Y) = Cardinality(S)
  BY <1>1, <1>2, <1>8, <1>9, SameCount
<1> QED
  BY <1>10, <1>11 DEF W, D, X, Y, NewOf

(* The wishes an account chose as its representative, in the backend and   *)
(* among the rows of a recap: the first of them is the representative.     *)
ChosenBy(a)    == {w \in Mine(a) : w.representative /\ w.deleted = Never}
ChosenOf(a, W) == {v \in W : v.account = a /\ v.deleted = Never /\ v.representative}
LEMMA ChosenFirst ==
  ASSUME NEW a, NEW W, \A w \in W : w.id \in Nat, ChosenOf(a, W) # {}
  PROVE  /\ RepresentativeWish(a, W) = {First(ChosenOf(a, W))} /\ First(ChosenOf(a, W)) \in W
         /\ First(ChosenOf(a, W)) \in ChosenOf(a, W)
         /\ \A q \in ChosenOf(a, W) : First(ChosenOf(a, W)).id <= q.id
<1> DEFINE mine     == {w \in W : w.account = a /\ w.deleted = Never}
           explicit == {w \in mine : w.representative}
           open     == {w \in mine : w.status = "IN_PROGRESS"}
           oldest   == {w \in open : \A v \in open : w.created <= v.created}
<1>1. RepresentativeWish(a, W) = IF explicit # {} THEN Option(explicit) ELSE Option(oldest)
  BY DEF RepresentativeWish
<1>2. explicit = ChosenOf(a, W)
  BY DEF ChosenOf
<1> HIDE DEF explicit, oldest
<1>3. RepresentativeWish(a, W) = Option(ChosenOf(a, W))
  BY <1>1, <1>2
<1>4. \A w \in ChosenOf(a, W) : w \in W /\ w.id \in Nat
  BY DEF ChosenOf
<1>5. PICK S : S = ChosenOf(a, W)
  OBVIOUS
<1>6. Option(S) = {First(S)} /\ First(S) \in S /\ \A q \in S : First(S).id <= q.id
  BY <1>4, <1>5, FirstOfSome
<1> QED
  BY <1>3, <1>4, <1>5, <1>6

(* A chosen representative is that of the batch and of the service.        *)
LEMMA SameRepresentative ==
  ASSUME LedgerInv, NEW academy, NEW a \in IdsOf(academy), NEW start, NEW end \in Int, ChosenBy(a) # {}
  PROVE  \E w \in wishes : \E x, y :
           /\ RepresentativeWish(a, Among(ExportedWishes, academy)) = {x}
           /\ RepresentativeWish(a, DomainWishes(RequestFor(a, start, end))) = {y}
           /\ w.account = a /\ x.id = w.id /\ x.target = w.target /\ x.saved = w.saved
           /\ y.id = w.id /\ y.target = w.target /\ y.saved = Funds(effects, w.id, end)
<1>1. PICK W, D : W = Among(ExportedWishes, academy) /\ D = DomainWishes(RequestFor(a, start, end))
  OBVIOUS
<1>2. ASSUME NEW x \in W
      PROVE  /\ x.id \in Nat
             /\ \E w \in wishes :
                  /\ w.id = x.id /\ w.account = x.account /\ w.deleted = x.deleted
                  /\ w.representative = x.representative /\ x.target = w.target /\ x.saved = w.saved
  BY <1>1, ExportedFields
<1>3. ASSUME NEW y \in D
      PROVE  /\ y.id \in Nat
             /\ \E w \in wishes :
                  /\ w.id = y.id /\ w.account = y.account /\ w.deleted = y.deleted /\ w.account = a
                  /\ w.representative = y.representative /\ y.target = w.target
                  /\ y.saved = Funds(effects, w.id, end)
  BY <1>1, DomainFields
<1>4. ASSUME NEW w \in wishes, w.account = a
      PROVE  (\E x \in W : x.id = w.id) /\ (\E y \in D : y.id = w.id)
  BY <1>1, <1>4, BothHaveIt
<1>5. \A v, w \in wishes : v.id = w.id => v = w
  BY DEF LedgerInv, WishesInv
<1>6. ASSUME NEW w \in ChosenBy(a)
      PROVE  (\E x \in ChosenOf(a, W) : x.id = w.id) /\ (\E y \in ChosenOf(a, D) : y.id = w.id)
  <2>1. w \in wishes /\ w.account = a /\ w.representative /\ w.deleted = Never
    BY DEF ChosenBy, Mine
  <2>2. PICK x \in W, y \in D : x.id = w.id /\ y.id = w.id
    BY <1>4, <2>1
  <2>3. PICK v \in wishes : /\ v.id = x.id /\ v.account = x.account /\ v.deleted = x.deleted
                            /\ v.representative = x.representative
    BY <1>2
  <2>4. PICK u \in wishes : /\ u.id = y.id /\ u.account = y.account /\ u.deleted = y.deleted
                            /\ u.representative = y.representative
    BY <1>3
  <2>5. v = w /\ u = w
    BY <1>5, <2>1, <2>2, <2>3, <2>4
  <2> QED
    BY <2>1, <2>2, <2>3, <2>4, <2>5 DEF ChosenOf
<1>7. ChosenOf(a, W) # {} /\ ChosenOf(a, D) # {}
  BY <1>6
<1>8. PICK x, y : /\ RepresentativeWish(a, W) = {x} /\ x \in W /\ x \in ChosenOf(a, W)
                  /\ RepresentativeWish(a, D) = {y} /\ y \in D /\ y \in ChosenOf(a, D)
                  /\ \A q \in ChosenOf(a, W) : x.id <= q.id
                  /\ \A q \in ChosenOf(a, D) : y.id <= q.id
  BY <1>2, <1>3, <1>7, ChosenFirst
<1>9. PICK w \in wishes :
        /\ w.id = x.id /\ w.account = x.account /\ w.deleted = x.deleted
        /\ w.representative = x.representative /\ x.target = w.target /\ x.saved = w.saved
  BY <1>2, <1>8
<1>10. PICK v \in wishes :
        /\ v.id = y.id /\ v.account = y.account /\ v.deleted = y.deleted /\ v.account = a
        /\ v.representative = y.representative /\ y.target = v.target
        /\ y.saved = Funds(effects, v.id, end)
  BY <1>3, <1>8
<1>11. w \in ChosenBy(a) /\ v \in ChosenBy(a)
  BY <1>8, <1>9, <1>10 DEF ChosenBy, ChosenOf, Mine
<1>12. x.id <= v.id /\ y.id <= w.id
  BY <1>6, <1>8, <1>11
<1>13. x.id = y.id
  BY <1>2, <1>3, <1>8, <1>9, <1>10, <1>12
<1>14. v = w /\ w.account = a
  BY <1>5, <1>9, <1>10, <1>13
<1> QED
  BY <1>1, <1>8, <1>9, <1>10, <1>14

(* Before anything happened on a day, a wish holds what it did at night.   *)
LEMMA FundsToday ==
  ASSUME LedgerInv, ~EventsToday, NEW w \in wishes
  PROVE  Funds(effects, w.id, today) = w.saved
<1>1. today \in Int
  BY LastMonthKnown
<1>2. \A e \in effects : e.day \in Int /\ e.day <= today /\ e.day # today
  BY DEF EventsToday, LedgerInv, RowsInv, EffectRows
<1> QED
  BY <1>1, <1>2, FundsSince

(* The milestone of one representative wish.                               *)
Passed(i, target, before, after) ==
  [wish |-> i, before |-> before, after |-> after,
   crossed |-> {t \in Milestones : 100 * before < t * target /\ t * target <= 100 * after}]
LEMMA MilestoneOfOne ==
  ASSUME NEW a, NEW k, NEW W, NEW txs, NEW anchor, NEW x, RepresentativeWish(a, W) = {x}
  PROVE  Milestone(a, k, W, txs, anchor) =
           IF x.target > 0
           THEN {Passed(x.id, x.target, ProgressAsOf(x, 7 * k, anchor, txs),
                        ProgressAsOf(x, 7 * (k + 1), anchor, txs))}
           ELSE {}
<1> DEFINE Then(w) == Passed(w.id, w.target, ProgressAsOf(w, 7 * k, anchor, txs),
                             ProgressAsOf(w, 7 * (k + 1), anchor, txs))
<1>1. Milestone(a, k, W, txs, anchor) = {Then(w) : w \in {v \in RepresentativeWish(a, W) : v.target > 0}}
  BY Zenon DEF Milestone, Passed
<1> HIDE DEF Then
<1>2. Milestone(a, k, W, txs, anchor) = IF x.target > 0 THEN {Then(x)} ELSE {}
  BY <1>1
<1> QED
  BY <1>2 DEF Then

(* The rows of an account before a day are the same for both.              *)
LEMMA BothTold ==
  ASSUME LedgerInv, NEW academy, NEW a \in IdsOf(academy), NEW end, NEW period,
         \A d \in period : d < end
  PROVE  OwnIn(Among(Transactions, academy), a, period) = OwnIn(Told(a, end), a, period)
BY DEF OwnIn, Among, Told

(* So are the milestones, when nothing happened yet today: the batch takes *)
(* off what changed since, the service starts at the end of the week.      *)
LEMMA BothMilestones ==
  ASSUME LedgerInv, ~EventsToday, NEW academy, NEW a \in IdsOf(academy), ChosenBy(a) # {},
         NEW k, k = LastWeek(today), NEW end, end = EndOfWeek(k),
         NEW D, D = DomainWishes(RequestFor(a, 7 * k, end))
  PROVE  Milestone(a, k, Among(ExportedWishes, academy), Among(Transactions, academy), today)
           = Milestone(a, k, D, Told(a, end), end)
<1>1. PICK W, txs : W = Among(ExportedWishes, academy) /\ txs = Among(Transactions, academy)
  OBVIOUS
<1>2. /\ end \in Int /\ end <= today /\ 7 * k \in Int /\ 7 * (k + 1) = end /\ 7 * k <= end
      /\ today \in Int /\ end <= end /\ 7 * k <= today
  BY WeekOver, LastMonthKnown DEF EndOfWeek
<1>3. PICK w \in wishes : \E x, y :
        /\ RepresentativeWish(a, W) = {x} /\ RepresentativeWish(a, D) = {y}
        /\ w.account = a /\ x.id = w.id /\ x.target = w.target /\ x.saved = w.saved
        /\ y.id = w.id /\ y.target = w.target /\ y.saved = Funds(effects, w.id, end)
  BY <1>1, <1>2, SameRepresentative
<1>4. PICK x, y :
        /\ RepresentativeWish(a, W) = {x} /\ RepresentativeWish(a, D) = {y}
        /\ w.account = a /\ x.id = w.id /\ x.target = w.target /\ x.saved = w.saved
        /\ y.id = w.id /\ y.target = w.target /\ y.saved = Funds(effects, w.id, end)
  BY <1>3
<1>5. PICK F : \A b \in Int : F[b] = Funds(effects, w.id, b) /\ F[b] \in Int
  <2>1. \A b \in Int : Funds(effects, w.id, b) \in Int
    BY FundsInt DEF LedgerInv, RowsInv
  <2>2. PICK F : F = [b \in Int |-> Funds(effects, w.id, b)]
    OBVIOUS
  <2> QED
    BY <2>1, <2>2
<1>6. \A b \in Int : b <= today => ProgressAsOf(x, b, today, txs) = F[b]
  <2> TAKE b \in Int
  <2> HAVE b <= today
  <2>1. PICK j \in Int : j = today
    BY <1>2
  <2>2. StreakSince(0) \in Int
    BY WeeklyRecapAssumption DEF StreakSince
  <2>3. NetChange(w.id, b .. today - 1, txs) = F[today] - F[b]
    <3>1. w.account \in IdsOf(academy)
      BY <1>4
    <3>2. NetChange(w.id, b .. today - 1, Among(Transactions, academy))
            = Funds(effects, w.id, today) - Funds(effects, w.id, b)
      BY <2>2, <3>1, BatchMoves
    <3> QED
      BY <1>1, <1>2, <1>5, <3>2
  <2>4. w.saved = F[today]
    BY <1>2, <1>5, FundsToday
  <2>5. ProgressAsOf(x, b, today, txs) = F[today] - (F[today] - F[b])
    BY <1>4, <2>3, <2>4 DEF ProgressAsOf
  <2> QED
    BY <1>2, <1>5, <2>5
<1>7. \A b \in Int : b <= end => ProgressAsOf(y, b, end, Told(a, end)) = F[b]
  <2> TAKE b \in Int
  <2> HAVE b <= end
  <2>1. NetChange(w.id, b .. end - 1, Told(a, end)) = F[end] - F[b]
    <3>1. NetChange(w.id, b .. end - 1, Told(w.account, end))
            = Funds(effects, w.id, end) - Funds(effects, w.id, b)
      BY <1>2, RequestMoves
    <3> QED
      BY <1>2, <1>4, <1>5, <3>1
  <2>2. ProgressAsOf(y, b, end, Told(a, end)) = F[end] - (F[end] - F[b])
    BY <1>2, <1>4, <1>5, <2>1 DEF ProgressAsOf
  <2> QED
    BY <1>2, <1>5, <2>2
<1>8. /\ ProgressAsOf(x, 7 * k, today, txs) = ProgressAsOf(y, 7 * k, end, Told(a, end))
      /\ ProgressAsOf(x, 7 * (k + 1), today, txs) = ProgressAsOf(y, 7 * (k + 1), end, Told(a, end))
  BY <1>2, <1>6, <1>7
<1>9. Milestone(a, k, W, txs, today) = Milestone(a, k, D, Told(a, end), end)
  BY <1>4, <1>8, MilestoneOfOne
<1> QED
  BY <1>1, <1>9

(* The first two pages.                                                    *)
LEMMA BothPages ==
  ASSUME LedgerInv, ~EventsToday, NEW academy, NEW a \in IdsOf(academy), ChosenBy(a) # {},
         NEW k, k = LastWeek(today), NEW end, end = EndOfWeek(k),
         NEW D, D = DomainWishes(RequestFor(a, 7 * k, end))
  PROVE  /\ Page1(a, k, Among(ExportedWishes, academy), Among(Transactions, academy), today)
              = Page1(a, k, D, Told(a, end), end)
         /\ Page2(a, k, VisitsAmong(visits, academy)) = Page2(a, k, visits)
<1>1. PICK W, txs : W = Among(ExportedWishes, academy) /\ txs = Among(Transactions, academy)
  OBVIOUS
<1>2. end \in Int /\ k \in Int /\ end = 7 * k + 7
  BY WeekOver
<1>3. Milestone(a, k, W, txs, today) = Milestone(a, k, D, Told(a, end), end)
  BY <1>1, BothMilestones
<1>4. ASSUME NEW i \in Nat PROVE OwnIn(txs, a, Week(k - i)) = OwnIn(Told(a, end), a, Week(k - i))
  <2>1. \A d \in Week(k - i) : d < end
    BY <1>2 DEF Week
  <2> QED
    BY <1>1, <2>1, BothTold
<1>5. Streak(a, k, txs) = Streak(a, k, Told(a, end))
  <2>1. \A i \in 0 .. Lookback - 1 : i \in Nat
    BY WeeklyRecapAssumption
  <2>2. \A i \in 0 .. Lookback - 1 : OwnIn(txs, a, Week(k - i)) = OwnIn(Told(a, end), a, Week(k - i))
    BY <1>4, <2>1
  <2> QED
    BY <2>2, StreakAgrees
<1>6. WeeklyAchievement(a, k, W, txs) = WeeklyAchievement(a, k, D, Told(a, end))
  <2>1. OwnIn(txs, a, Week(k)) = OwnIn(Told(a, end), a, Week(k))
    <3>1. \A d \in Week(k) : d < end
      BY <1>2 DEF Week
    <3> QED
      BY <1>1, <3>1, BothTold
  <2>2. WeeklyAchievement(a, k, W, txs) = WeeklyAchievement(a, k, W, Told(a, end))
    BY <2>1, AchievementAgrees
  <2>3. Cardinality({x \in W : x.account = a /\ x.created \in Week(k)})
          = Cardinality({y \in D : y.account = a /\ y.created \in Week(k)})
    <3>1. PICK p, start : p = Week(k) /\ start = 7 * k
      OBVIOUS
    <3>2. Cardinality(NewOf(a, Among(ExportedWishes, academy), p))
            = Cardinality(NewOf(a, DomainWishes(RequestFor(a, start, end)), p))
      BY <1>2, NewWishesAgree
    <3> QED
      BY <1>1, <3>1, <3>2 DEF NewOf
  <2> DEFINE New(S) == Cardinality({x \in S : x.account = a /\ x.created \in Week(k)})
             own == {t \in Told(a, end) : t.account = a}
  <2>4. \A S : WeeklyAchievement(a, k, S, Told(a, end)) =
          [save_count |-> Cardinality(TypedIn(own, "DEPOSIT", Week(k))),
           net_savings |-> Saved(TypedIn(own, "DEPOSIT", Week(k)), TypedIn(own, "WITHDRAWAL", Week(k))),
           new_wishes |-> New(S)]
    BY Zenon DEF WeeklyAchievement
  <2>5. New(W) = New(D)
    BY <2>3
  <2> HIDE DEF New, own
  <2>6. WeeklyAchievement(a, k, W, Told(a, end)) = WeeklyAchievement(a, k, D, Told(a, end))
    BY <2>4, <2>5
  <2> QED
    BY <2>2, <2>6
<1>7. Page1(a, k, W, txs, today) = Page1(a, k, D, Told(a, end), end)
  BY <1>3, <1>5, <1>6, Zenon DEF Page1
<1>8. /\ Visits(a, k, VisitsAmong(visits, academy)) = Visits(a, k, visits)
      /\ Visits(a, k - 1, VisitsAmong(visits, academy)) = Visits(a, k - 1, visits)
  BY DEF Visits, VisitsAmong
<1>9. Page2(a, k, VisitsAmong(visits, academy)) = Page2(a, k, visits)
  BY <1>8, Zenon DEF Page2
<1> QED
  BY <1>1, <1>7, <1>9

(* The first two pages of the batch, and those of the service.             *)
Served(a) == WeeklyView(RequestFor(a, 7 * LastWeek(today), EndOfWeek(LastWeek(today))), LastWeek(today))
Tells(a, one, two) == ChosenBy(a) # {} => one = Served(a).page1 /\ two = Served(a).page2
LEMMA BatchTells ==
  ASSUME LedgerInv, ~EventsToday, NEW academy, NEW a \in DOMAIN WholeWeek(academy)
  PROVE  Tells(a, WholeWeek(academy)[a].page1, WholeWeek(academy)[a].page2)
<1> DEFINE Of2(b) == WeeklyReport(b, academy, today, Among(ExportedWishes, academy),
                       Among(Transactions, academy), VisitsAmong(visits, academy),
                       Among(PostsOf(LastWeek(today)), academy), OfAcademy(academy))
<1>1. WholeWeek(academy) = [b \in IdsOf(academy) |-> Of2(b)]
  BY Zenon DEF RunWeekly, WholeWeek
<1>2. a \in IdsOf(academy)
  <2> HIDE DEF Of2
  <2> QED
    BY <1>1
<1>3. PICK k, end, r : k = LastWeek(today) /\ end = EndOfWeek(k) /\ r = RequestFor(a, 7 * k, end)
  OBVIOUS
<1>4. end \in Int /\ r.account = a /\ r.end = end /\ r.transactions = Told(a, end)
  BY <1>3, WeekOver, RequestFields DEF Told
<1>5. /\ Of2(a).page1 = Page1(a, k, Among(ExportedWishes, academy), Among(Transactions, academy), today)
      /\ Of2(a).page2 = Page2(a, k, VisitsAmong(visits, academy))
  BY <1>3 DEF WeeklyReport, AnchorDay
<1>6. /\ Served(a).page1 = Page1(a, k, DomainWishes(r), Told(a, end), end)
      /\ Served(a).page2 = Page2(a, k, visits)
  BY <1>3, <1>4 DEF Served, WeeklyView
<1> HIDE DEF Of2
<1>7. WholeWeek(academy)[a] = Of2(a)
  BY <1>1, <1>2
<1>8. ChosenBy(a) # {} =>
        /\ Page1(a, k, Among(ExportedWishes, academy), Among(Transactions, academy), today)
             = Page1(a, k, DomainWishes(r), Told(a, end), end)
        /\ Page2(a, k, VisitsAmong(visits, academy)) = Page2(a, k, visits)
  BY <1>2, <1>3, BothPages
<1> QED
  BY <1>5, <1>6, <1>7, <1>8 DEF Tells

(* What is told is told of the ledger alone.                               *)
LEMMA TellsOfLedger ==
  ASSUME UNCHANGED ledger
  PROVE  (EventsToday' <=> EventsToday) /\ \A a, one, two : Tells(a, one, two)' <=> Tells(a, one, two)
<1>1. /\ UNCHANGED <<now, wishes, effects, visits, posts>> /\ today' = today
      /\ \A i, b : Balance(i, b)' = Balance(i, b)
  BY SameLedger DEF ledger
<1>2. Transactions' = Transactions /\ (EventsToday' <=> EventsToday)
  BY <1>1 DEF Transactions, EventsToday
<1>3. \A a, start, end : RequestFor(a, start, end)' = RequestFor(a, start, end)
  BY <1>1, <1>2 DEF RequestFor
<1>4. \A r, k : /\ WeeklyView(r, k)'.page1 = WeeklyView(r, k).page1
                /\ WeeklyView(r, k)'.page2 = WeeklyView(r, k).page2
  BY <1>1 DEF WeeklyView
<1>5. \A a : Served(a)'.page1 = Served(a).page1 /\ Served(a)'.page2 = Served(a).page2
  <2> TAKE a
  <2>1. PICK r, k : /\ k = LastWeek(today) /\ r = RequestFor(a, 7 * k, EndOfWeek(k))
    OBVIOUS
  <2>2. r = RequestFor(a, 7 * k, EndOfWeek(k))' /\ k = LastWeek(today')
    BY <1>1, <1>3, <2>1 DEF EndOfWeek
  <2>3. Served(a)' = WeeklyView(r, k)' /\ Served(a) = WeeklyView(r, k)
    BY <2>1, <2>2 DEF Served
  <2> QED
    BY <1>4, <2>3
<1>6. \A a : ChosenBy(a)' = ChosenBy(a)
  BY <1>1 DEF ChosenBy, Mine
<1> QED
  BY <1>2, <1>5, <1>6 DEF Tells

(* When nothing happened yet on the day the batch is run, a student with a *)
(* chosen representative gets the first two pages that the service gives.  *)
THEOREM BothTellTheSame == Spec => []Parity
<1>1. Init => Parity
  BY DEF Init, NoReport, Parity
<1>2. Parity <=> (report.kind = "weekly_batch" /\ ~EventsToday =>
        \A a \in DOMAIN report.students : Tells(a, report.students[a].page1, report.students[a].page2))
  BY Zenon DEF Parity, Tells, Served, ChosenBy
<1>3. LedgerInv /\ Parity /\ [Next]_vars => Parity'
  <2> SUFFICES ASSUME LedgerInv, Parity, [Next]_vars PROVE Parity'
    OBVIOUS
  <2>1. Parity' <=> (report'.kind = "weekly_batch" /\ ~EventsToday' =>
          \A a \in DOMAIN report'.students :
            Tells(a, report.students[a].page1, report.students[a].page2)')
    BY Zenon DEF Parity, Tells, Served, ChosenBy
  <2>2. CASE report'.kind # "weekly_batch"
    BY <2>1, <2>2
  <2>3. ASSUME NEW S, UNCHANGED ledger, report'.students = S,
               ~EventsToday => \A a \in DOMAIN S : Tells(a, S[a].page1, S[a].page2)
        PROVE  Parity'
    <3>1. ASSUME ~EventsToday', NEW a \in DOMAIN S
          PROVE  Tells(a, report.students[a].page1, report.students[a].page2)'
      <4>1. PICK one, two : one = S[a].page1 /\ two = S[a].page2
        OBVIOUS
      <4>2. Tells(a, one, two)'
        BY <2>3, <3>1, <4>1, TellsOfLedger
      <4>3. Tells(a, report.students[a].page1, report.students[a].page2)' <=> Tells(a, one, two)'
        BY <2>3, <4>1 DEF Tells
      <4> QED
        BY <4>2, <4>3
    <3> QED
      BY <2>1, <2>3, <3>1
  <2>4. CASE UNCHANGED vars /\ report'.kind = "weekly_batch"
    <3>1. UNCHANGED ledger /\ UNCHANGED report
      BY <2>4 DEF vars
    <3> QED
      BY <1>2, <2>3, <2>4, <3>1
  <2>5. CASE WeeklyBatch /\ UNCHANGED ledger
    <3>1. PICK c : report' = [kind |-> "weekly_batch", academy |-> c, students |-> WholeWeek(c)]
      BY <2>5, WeeklyBatchWrites
    <3>2. report'.students = WholeWeek(c)
      BY <3>1
    <3> QED
      BY <2>3, <2>5, <3>2, BatchTells
  <2>6. report' = NoReport => report'.kind = "none"
    BY DEF NoReport
  <2>7. MonthlyBatch => report'.kind = "monthly_batch"
    BY DEF MonthlyBatch
  <2>8. WeeklyService => report'.kind = "weekly"
    BY WeeklyAnswered
  <2>9. MonthlyService => report'.kind = "monthly"
    BY MonthlyAnswered
  <2> QED
    <3>1. \/ report'.kind # "weekly_batch" \/ (UNCHANGED vars /\ report'.kind = "weekly_batch")
          \/ (WeeklyBatch /\ UNCHANGED ledger)
      BY <2>6, <2>7, <2>8, <2>9, ReportSteps
    <3> QED
      BY <2>2, <2>4, <2>5, <3>1
<1> QED
  BY <1>1, <1>3, LedgerInvariant, PTL DEF Spec

-----------------------------------------------------------------------------
(* The publication of the image.                                           *)

(* A run that passed its first checks has the image it tested under the    *)
(* local name, pushes only where the tag was free, and goes on with what   *)
(* the tag names.                                                          *)
RunState ==
  /\ pc \in {"lookup", "push", "read"} => local = Image(tested, "this", "linux/amd64", TRUE)
  /\ pc = "push" => tag = Nothing
  /\ pc = "read" => digest = tag /\ tag # Nothing
(* No run can report before the tag is taken, hence none after it pushes   *)
(* to a tag that is free.                                                  *)
Reported == outputs # {} => tag # Nothing
(* A run that reports tested what the tag names.                           *)
TestedAsTagged == \A o \in outputs : o.config = tag.config

(* OutputsAgree alone says nothing of a run that is about to push or to    *)
(* report.                                                                 *)
PublicationInv == RunState /\ Reported /\ TestedAsTagged /\ OutputsAgree

(* An image of the revision is not the absence of one.                     *)
LEMMA ImageNotNothing == ASSUME NEW c PROVE Image(c, "this", "linux/amd64", TRUE) # Nothing
BY DEF Image, Nothing

(* Whatever passes the workflow's own check of the local name is the image *)
(* that was tested.                                                        *)
LEMMA BuiltIsTested ==
  ASSUME NEW image \in Built PROVE image = Image(image.config, "this", "linux/amd64", TRUE)
BY DEF Built, Image

(* No run stands anywhere yet.                                             *)
LEMMA PublicationInitially == PublishInit => PublicationInv
BY DEF PublishInit, PublicationInv, RunState, Reported, TestedAsTagged, OutputsAgree

(* Every step of a run keeps the invariant.                                *)
LEMMA PublicationKept == PublicationInv /\ [PublishNext]_publishVars => PublicationInv'
<1> SUFFICES ASSUME PublicationInv, [PublishNext]_publishVars PROVE PublicationInv'
  OBVIOUS
<1> USE DEF PublicationInv, RunState, Reported
<1>1. CASE Dispatch
  <2>1. PICK c \in Configs, image \in Built \union Foreign :
          /\ tested' = c /\ local' = image /\ UNCHANGED <<tag, stored, outputs>>
          /\ pc' = IF image \in Built /\ image.config = c THEN "lookup" ELSE "idle"
    BY <1>1 DEF Dispatch
  <2>2. RunState'
    BY <2>1, BuiltIsTested
  <2> QED
    BY <2>1, <2>2 DEF TestedAsTagged, OutputsAgree
<1>2. CASE Lookup
  <2>1. /\ UNCHANGED <<tag, tested, local, outputs>> /\ pc = "lookup"
        /\ \/ tag # Nothing /\ digest' = tag /\ pc' = "read"
           \/ tag = Nothing /\ pc' = "push"
           \/ pc' = "idle"
    BY <1>2 DEF Lookup, Free
  <2> QED
    BY <2>1 DEF TestedAsTagged, OutputsAgree
<1>3. CASE Push
  <2>1. /\ outputs = {} /\ outputs' = {} /\ UNCHANGED <<local, tested>>
        /\ pc = "push" /\ local # Nothing
    BY <1>3, ImageNotNothing DEF Push
  <2>2. \/ Arrives /\ digest' = local /\ pc' = "read"
        \/ pc' = "idle"
    BY <1>3 DEF Push
  <2> QED
    BY <2>1, <2>2 DEF Arrives, TestedAsTagged, OutputsAgree
<1>4. CASE ReadBack
  <2> DEFINE claim == [run |-> runs, image |-> digest, config |-> tested, result |-> how]
  <2>1. /\ outputs' = outputs \union {claim} /\ pc' = "idle" /\ UNCHANGED tag
        /\ digest = tag /\ tag # Nothing /\ digest.config = tested
    BY <1>4 DEF ReadBack, Identified
  <2>2. claim.image = tag /\ claim.config = tag.config
    BY <2>1
  <2>3. TestedAsTagged' /\ OutputsAgree'
    <3> HIDE DEF claim
    <3> QED
      BY <2>1, <2>2 DEF TestedAsTagged, OutputsAgree
  <2> QED
    BY <2>1, <2>3
<1>5. CASE Stop
  BY <1>5 DEF Stop, GiveUp, TestedAsTagged, OutputsAgree
<1>6. CASE UNCHANGED publishVars
  BY <1>6 DEF publishVars, TestedAsTagged, OutputsAgree
<1> QED
  BY <1>1, <1>2, <1>3, <1>4, <1>5, <1>6 DEF PublishNext

(* The invariant of the workflow's runs holds whatever order they come in. *)
LEMMA PublicationInvariant == PublishSpec => []PublicationInv
<1>1. PublishInit => PublicationInv
  BY PublicationInitially
<1>2. PublicationInv /\ [PublishNext]_publishVars => PublicationInv'
  BY PublicationKept
<1> QED
  BY <1>1, <1>2, PTL DEF PublishSpec

(* All runs that succeed, before or after one whose push was ambiguous,    *)
(* report the image that the tag names and tested its configuration (the   *)
(* single push of publish-image.sh, after a lookup that found the tag      *)
(* free, and its read-back).                                               *)
THEOREM ReportsAgree == PublishSpec => []OutputsAgree
<1>1. PublicationInv => OutputsAgree
  BY DEF PublicationInv
<1> QED
  BY <1>1, PublicationInvariant, PTL
=============================================================================
