------------------------ MODULE SavingsPolicy_proof ------------------------
(***************************************************************************)
(* Proofs about SavingsPolicy, for any number of students and goals, any   *)
(* calendar and any amounts: the invariants of the recorded history, and   *)
(* that every step of Policy and the backend is a step of WishLifecycle.   *)
(***************************************************************************)
EXTENDS SavingsPolicy, NaturalsInduction, FiniteInduction

(* IInv, cut along what one kind of step disturbs: the money and the       *)
(* wishes, what else Policy remembers, and where Policy stands.            *)
Money ==
  /\ ledger \in [WishIds -> Wish] /\ wishes \in [WishIds -> Wish]
  /\ removed \subseteq WishIds /\ deleted \subseteq WishIds
  /\ funds \in [Students -> Int] /\ cash \in [Students -> Int]
  /\ goal_number \in [Students -> 0..MaxGoals]
  /\ OracleAccepts /\ MirrorsFaithful /\ GoalShape /\ Bookkeeping

Memory ==
  /\ joined \subseteq Students
  /\ influenced \subseteq Students \X Nat
  /\ wish_created \in [WishIds -> Nat] /\ last_goal_end \in [Students -> Nat]
  /\ preferred \in [Students -> WishIds \cup {NoWish}]

Control ==
  /\ day \in Nat /\ who \in 1..(N + 1) /\ pc \in Steps
  /\ todo \subseteq WishIds /\ chosen \in WishIds \cup {NoWish} /\ after \in Steps
  /\ LocalsLive

(* The inductive invariant falls into what the backend and the mirrors     *)
(* hold, what Policy remembers besides, and where it stands.               *)
LEMMA Parts == IInv <=> Money /\ Memory /\ Control
BY Zenon DEF IInv, Money, Memory, Control, TypeOK, OracleAccepts

(* The same after a step.                                                  *)
LEMMA PartsNext == Money' /\ Memory' /\ Control' <=> IInv'
BY Parts, PTL

-----------------------------------------------------------------------------
(* Wishes.                                                                 *)

(* What a command on the live wish w may store. *)
Fits(w, r) ==
  /\ r \in Wish
  /\ r.target = ledger[w].target
  /\ r.amount \in 0..r.target
  /\ r.state \in Open => (r.state = "AMOUNT_REACHED" <=> r.amount = r.target)
  /\ r.state \notin Open => r.amount = 0
  /\ r.state # "NONE"

(* How its life may go on. *)
Becomes(w, r) ==
  \/ r.state = ledger[w].state /\ r.amount = ledger[w].amount
  \/ r.state \in Open /\ ledger[w].state \in Open
  \/ r.state = "COMPLETED" /\ ledger[w].state = "AMOUNT_REACHED"
  \/ r.state = "ABANDONED" /\ ledger[w].state \in Open

Live(w) == w \in WishIds /\ ledger[w].state # "NONE" /\ w \notin removed

(* Versions stay in their range when they are counted on.                  *)
LEMMA NextVersion ==
  ASSUME NEW v \in 0..(VersionSpan - 1)
  PROVE  (v + 1) % VersionSpan \in 0..(VersionSpan - 1)
BY PolicyAssumption

(* A wish with the next version is a wish with everything else as before.  *)
LEMMA BumpedWish ==
  ASSUME NEW r \in Wish
  PROVE  /\ Bumped(r) \in Wish
         /\ Bumped(r).amount = r.amount
         /\ Bumped(r).target = r.target
         /\ Bumped(r).state = r.state
BY NextVersion DEF Bumped, Wish

(* A wish whose amount moved is a wish, AMOUNT_REACHED exactly when full.  *)
LEMMA MovedWish ==
  ASSUME NEW r \in Wish, NEW a \in Int
  PROVE  /\ Moved(r, a) \in Wish
         /\ Moved(r, a).amount = r.amount + a
         /\ Moved(r, a).target = r.target
         /\ Moved(r, a).state \in Open
         /\ Moved(r, a).state = "AMOUNT_REACHED" <=> r.amount + a = r.target
<1>1. DEFINE q == [Bumped(r) EXCEPT !.amount = @ + a]
<1>2. /\ q \in Wish /\ q.amount = r.amount + a /\ q.target = r.target
  BY BumpedWish DEF Wish
<1>3. Moved(r, a) = Settled(q)
  BY DEF Moved
<1> HIDE DEF q
<1> QED
  BY <1>2, <1>3 DEF Settled, Wish, States, Open

(* An ended wish is a wish that holds nothing.                             *)
LEMMA EndedWish ==
  ASSUME NEW r \in Wish, NEW how \in {"COMPLETED", "ABANDONED"}
  PROVE  /\ Ended(r, how) \in Wish
         /\ Ended(r, how).amount = 0
         /\ Ended(r, how).target = r.target
         /\ Ended(r, how).state = how
<1> DEFINE b == Bumped(r)
<1>1. b \in Wish /\ b.target = r.target
  BY BumpedWish
<1>2. Ended(r, how) = [b EXCEPT !.amount = 0, !.state = how]
  BY DEF Ended
<1> HIDE DEF b
<1>3. b = [state |-> b.state, amount |-> b.amount, target |-> b.target,
           version |-> b.version]
  BY <1>1 DEF Wish
<1>4. Ended(r, how) = [state |-> how, amount |-> 0, target |-> b.target,
                       version |-> b.version]
  BY <1>2, <1>3, Zenon
<1> QED
  BY <1>1, <1>4 DEF Wish, States

-----------------------------------------------------------------------------
(* Choices among goals.                                                    *)

(* The oldest of some goals is one of them. *)
LEMMA FirstIn ==
  ASSUME NEW S \in SUBSET WishIds, S # {}
  PROVE  First(S) \in S
<1> DEFINE T == {w[2] : w \in S}
<1>1. T \subseteq Nat /\ T # {}
  BY PolicyAssumption DEF WishIds
<1>2. PICK t \in T : \A u \in T : t <= u
  <2> HIDE DEF T
  <2>1. PICK t \in T : \A u \in T : <<u, t>> \notin OpToRel(<, Nat)
    BY <1>1, NatLessThanWellFounded, WFMin
  <2>2. \A u \in T : ~(u < t)
    BY <1>1, <2>1, Zenon DEF OpToRel
  <2> QED
    BY <1>1, <2>2
<1>4. PICK w \in S : w[2] = t
  BY <1>2
<1>5. \A v \in S : w[2] <= v[2]
  BY <1>2, <1>4
<1> QED
  BY <1>4, <1>5 DEF First

(* Of two or more goals, there is an oldest and another oldest. *)
LEMMA SecondIn ==
  ASSUME NEW S \in SUBSET WishIds, Cardinality(S) >= 2
  PROVE  First(S) \in S /\ Second(S) \in S /\ First(S) # Second(S)
<1>1. S # {}
  BY FS_EmptySet
<1>2. First(S) \in S
  BY <1>1, FirstIn
<1>3. S # {First(S)}
  BY FS_Singleton
<1>4. S \ {First(S)} # {} /\ S \ {First(S)} \in SUBSET WishIds
  BY <1>2, <1>3
<1>5. Second(S) \in S \ {First(S)}
  BY <1>4, FirstIn, Zenon DEF Second
<1> QED
  BY <1>2, <1>5

-----------------------------------------------------------------------------
(* Steps of WishLifecycle, seen through the refinement mapping.            *)

Promised == [Lifecycle!Next]_(Lifecycle!vars)

(* What life a wish is in, by its record in the ledger.                    *)
LEMMA LifeOf ==
  ASSUME Money, NEW w \in WishIds
  PROVE  /\ Life(w) = "removed" <=> w \in removed
         /\ Life(w) = "absent" <=> w \notin removed /\ ledger[w].state = "NONE"
         /\ Life(w) = "completed" <=> w \notin removed /\ ledger[w].state = "COMPLETED"
         /\ Life(w) = "abandoned" <=> w \notin removed /\ ledger[w].state = "ABANDONED"
         /\ Life(w) = "open" <=> w \notin removed /\ ledger[w].state \in Open
<1>1. ledger[w].state \in States
  BY DEF Money, Wish
<1> QED
  BY <1>1 DEF Life, States, Open

(* The same after a step.                                                  *)
LEMMA LifeOfNext ==
  ASSUME Money', NEW w \in WishIds
  PROVE  /\ Life(w)' = "removed" <=> w \in removed'
         /\ Life(w)' = "absent" <=> w \notin removed' /\ ledger'[w].state = "NONE"
         /\ Life(w)' = "completed" <=> w \notin removed' /\ ledger'[w].state = "COMPLETED"
         /\ Life(w)' = "abandoned" <=> w \notin removed' /\ ledger'[w].state = "ABANDONED"
         /\ Life(w)' = "open" <=> w \notin removed' /\ ledger'[w].state \in Open
<1>1. ledger'[w].state \in States
  BY DEF Money, Wish
<1> QED
  BY <1>1 DEF Life, States, Open

lives   == [w \in WishIds |-> Life(w)]
savings == [w \in WishIds |-> ledger[w].amount]
targets == [w \in WishIds |-> ledger[w].target]

(* A step of the abstract variables changes them as its functions do. *)
LEMMA LivesChange ==
  ASSUME NEW w \in WishIds, NEW e, Life(w)' = e,
         \A v \in WishIds : v # w => Life(v)' = Life(v)
  PROVE  lives' = [lives EXCEPT ![w] = e]
BY DEF lives

(* Storing one wish changes the abstract amounts at that wish only.        *)
LEMMA SavingsChange ==
  ASSUME NEW w \in WishIds, NEW e, ledger'[w].amount = e,
         \A v \in WishIds : v # w => ledger'[v].amount = ledger[v].amount
  PROVE  savings' = [savings EXCEPT ![w] = e]
BY DEF savings

(* Storing one wish changes the abstract targets at that wish only.        *)
LEMMA TargetsChange ==
  ASSUME NEW w \in WishIds, NEW e, ledger'[w].target = e,
         \A v \in WishIds : v # w => ledger'[v].target = ledger[v].target
  PROVE  targets' = [targets EXCEPT ![w] = e]
BY DEF targets

(* A step that leaves the wishes alone is none of the abstract life.       *)
LEMMA Stutter ==
  ASSUME UNCHANGED <<ledger, removed>>
  PROVE  Promised
<1>1. \A w : Life(w)' = Life(w)
  BY DEF Life
<1> QED
  BY <1>1 DEF Promised, Lifecycle!vars

(* One wish is stored again: its life goes on, or it ends. *)
LEMMA StoredPromise ==
  ASSUME Money, Money', NEW w, Live(w), NEW r, Fits(w, r),
         ledger' = [ledger EXCEPT ![w] = r], removed' = removed, Becomes(w, r)
  PROVE  Promised
<1>1. /\ w \in WishIds /\ w \notin removed
      /\ \A v \in WishIds : ledger'[v] = IF v = w THEN r ELSE ledger[v]
      /\ r.target = ledger[w].target
  BY DEF Live, Money, Fits
<1>2. \A v \in WishIds : v # w => Life(v)' = Life(v)
  BY <1>1 DEF Life
<1>3. targets' = targets
  BY <1>1 DEF targets
<1>4. CASE r.state = ledger[w].state /\ r.amount = ledger[w].amount
  <2>1. \A v \in WishIds : Life(v)' = Life(v) /\ ledger'[v].amount = ledger[v].amount
    BY <1>1, <1>4 DEF Life
  <2>2. lives' = lives /\ savings' = savings
    BY <2>1 DEF lives, savings
  <2> QED
    BY <1>3, <2>2, Zenon DEF Promised, Lifecycle!vars, lives, savings, targets
<1>5. CASE r.state \in Open /\ ledger[w].state \in Open
  <2>1. Life(w) = "open" /\ \A v \in WishIds : Life(v)' = Life(v)
    BY <1>1, <1>2, <1>5, LifeOf, LifeOfNext
  <2>2. r.amount \in 0..ledger[w].target
    BY DEF Fits
  <2>3. savings' = [savings EXCEPT ![w] = r.amount]
    BY <1>1, SavingsChange
  <2>4. lives' = lives /\ lives[w] = "open" /\ r.amount \in 0..targets[w]
    BY <1>1, <2>1, <2>2 DEF lives, targets
  <2>5. Lifecycle!Adjust(w)
    BY <1>3, <2>3, <2>4, Zenon DEF Lifecycle!Adjust, lives, savings, targets
  <2> QED
    BY <1>1, <2>5 DEF Promised, Lifecycle!Next
<1>6. CASE r.state = "COMPLETED" /\ ledger[w].state = "AMOUNT_REACHED"
  <2>1. Life(w) = "open" /\ Life(w)' = "completed"
    BY <1>1, <1>6, LifeOf, LifeOfNext DEF Open
  <2>2. r.amount = 0 /\ ledger[w].amount = ledger[w].target
    BY <1>1, <1>6 DEF Fits, Money, GoalShape, Open
  <2>3. lives' = [lives EXCEPT ![w] = "completed"] /\ savings' = [savings EXCEPT ![w] = 0]
    BY <1>1, <1>2, <2>1, <2>2, LivesChange, SavingsChange
  <2>4. lives[w] = "open" /\ savings[w] = targets[w]
    BY <1>1, <2>1, <2>2 DEF lives, savings, targets
  <2>5. Lifecycle!Complete(w)
    BY <1>3, <2>3, <2>4, Zenon DEF Lifecycle!Complete, lives, savings, targets
  <2> QED
    BY <1>1, <2>5 DEF Promised, Lifecycle!Next
<1>7. CASE r.state = "ABANDONED" /\ ledger[w].state \in Open
  <2>1. Life(w) = "open" /\ Life(w)' = "abandoned"
    BY <1>1, <1>7, LifeOf, LifeOfNext
  <2>2. r.amount = 0
    BY <1>7 DEF Fits, Open
  <2>3. lives' = [lives EXCEPT ![w] = "abandoned"] /\ savings' = [savings EXCEPT ![w] = 0]
    BY <1>1, <1>2, <2>1, <2>2, LivesChange, SavingsChange
  <2>4. lives[w] = "open"
    BY <1>1, <2>1 DEF lives
  <2>5. Lifecycle!Abandon(w)
    BY <1>3, <2>3, <2>4, Zenon DEF Lifecycle!Abandon, lives, savings, targets
  <2> QED
    BY <1>1, <2>5 DEF Promised, Lifecycle!Next
<1> QED
  BY <1>4, <1>5, <1>6, <1>7 DEF Becomes

(* A CREATE opens a wish in the abstract life.                             *)
LEMMA CreatedPromise ==
  ASSUME Money, Money', NEW w \in WishIds, NEW t \in Targets,
         ledger[w].state = "NONE", w \notin removed,
         ledger' = [ledger EXCEPT ![w] = NewWish(t)], removed' = removed
  PROVE  Promised
<1>1. /\ \A v \in WishIds : ledger'[v] = IF v = w THEN NewWish(t) ELSE ledger[v]
      /\ NewWish(t).state = "IN_PROGRESS" /\ NewWish(t).amount = 0 /\ NewWish(t).target = t
  BY DEF Money, NewWish
<1>2. t \in 1..TargetLimit /\ ledger[w].amount = 0
  BY PolicyAssumption DEF Money, GoalShape, Open
<1>3. Life(w) = "absent" /\ Life(w)' = "open" /\ \A v \in WishIds : v # w => Life(v)' = Life(v)
  <2>1. \A v \in WishIds : v # w => Life(v)' = Life(v)
    BY <1>1 DEF Life
  <2> QED
    BY <1>1, <2>1, LifeOf, LifeOfNext DEF Open
<1>4. lives' = [lives EXCEPT ![w] = "open"] /\ targets' = [targets EXCEPT ![w] = t]
  BY <1>1, <1>3, LivesChange, TargetsChange
<1>5. lives[w] = "absent" /\ savings' = savings
  BY <1>1, <1>2, <1>3 DEF lives, savings
<1>6. Lifecycle!Open(w)
  BY <1>2, <1>4, <1>5, Zenon DEF Lifecycle!Open, lives, savings, targets
<1> QED
  BY <1>6 DEF Promised, Lifecycle!Next

(* A TRANSFER is an exchange in the abstract life.                         *)
LEMMA MovedPromise ==
  ASSUME Money, Money', NEW v \in WishIds, NEW w \in WishIds, v # w,
         v \notin removed, w \notin removed,
         ledger[v].state \in Open, ledger[w].state \in Open,
         NEW out, NEW in, out.state \in Open, in.state \in Open,
         NEW a \in 1..ledger[v].amount,
         ledger[w].amount + a <= ledger[w].target,
         out.amount = ledger[v].amount - a, out.target = ledger[v].target,
         in.amount = ledger[w].amount + a, in.target = ledger[w].target,
         ledger' = [ledger EXCEPT ![v] = out, ![w] = in], removed' = removed
  PROVE  Promised
<1>1. \A u \in WishIds : ledger'[u] = IF u = w THEN in ELSE IF u = v THEN out ELSE ledger[u]
  BY DEF Money
<1>2. lives' = lives /\ lives[v] = "open" /\ lives[w] = "open"
  <2>1. \A u \in WishIds : u # v /\ u # w => Life(u)' = Life(u)
    BY <1>1 DEF Life
  <2>2. Life(v)' = "open" /\ Life(w)' = "open" /\ Life(v) = "open" /\ Life(w) = "open"
    BY <1>1, LifeOf, LifeOfNext
  <2>3. \A u \in WishIds : Life(u)' = Life(u)
    BY <2>1, <2>2
  <2> QED
    BY <2>2, <2>3 DEF lives
<1>3. targets' = targets
  <2>1. \A u \in WishIds : ledger'[u].target = ledger[u].target
    <3> SUFFICES ASSUME NEW u \in WishIds PROVE ledger'[u].target = ledger[u].target
      OBVIOUS
    <3>1. CASE u = w
      BY <1>1, <3>1
    <3>2. CASE u = v
      BY <1>1, <3>2
    <3>3. CASE u # w /\ u # v
      BY <1>1, <3>3
    <3> QED
      BY <3>1, <3>2, <3>3
  <2> QED
    BY <2>1 DEF targets
<1>4. /\ savings[v] = ledger[v].amount /\ savings[w] = ledger[w].amount
      /\ targets[w] = ledger[w].target
  BY DEF savings, targets
<1>5. savings' = [savings EXCEPT ![v] = savings[v] - a, ![w] = savings[w] + a]
  <2>1. /\ \A u \in WishIds : u # v /\ u # w => savings'[u] = savings[u]
        /\ savings'[v] = savings[v] - a /\ savings'[w] = savings[w] + a
    <3>1. \A u \in WishIds : savings'[u] = ledger'[u].amount /\ savings[u] = ledger[u].amount
      BY DEF savings
    <3>2. ledger'[v] = out /\ ledger'[w] = in
      BY <1>1
    <3>3. \A u \in WishIds : u # v /\ u # w => ledger'[u] = ledger[u]
      BY <1>1
    <3>4. \A u \in WishIds : u # v /\ u # w => savings'[u] = savings[u]
      <4> SUFFICES ASSUME NEW u \in WishIds, u # v, u # w PROVE savings'[u] = savings[u]
        OBVIOUS
      <4>1. ledger'[u] = ledger[u]
        BY <3>3
      <4>2. savings'[u] = ledger'[u].amount /\ savings[u] = ledger[u].amount
        BY <3>1
      <4> QED
        BY <4>1, <4>2
    <3>5. savings'[v] = savings[v] - a
      BY <1>4, <3>1, <3>2
    <3>6. savings'[w] = savings[w] + a
      BY <1>4, <3>1, <3>2
    <3> QED
      BY <3>4, <3>5, <3>6
  <2>2. /\ savings = [u \in WishIds |-> savings[u]]
        /\ savings' = [u \in WishIds |-> savings'[u]]
    BY DEF savings
  <2> QED
    BY <2>1, <2>2
<1>6. Lifecycle!Exchange(v, w)
  <2>1. a \in 1..savings[v] /\ savings[w] + a <= targets[w]
    BY <1>4
  <2> QED
    BY <1>2, <1>3, <1>5, <2>1, Zenon DEF Lifecycle!Exchange, lives, savings, targets
<1> QED
  BY <1>6 DEF Promised, Lifecycle!Next

(* A DELETE of an ended wish removes it in the abstract life.              *)
LEMMA RemovedPromise ==
  ASSUME Money, Money', NEW w \in WishIds, w \notin removed,
         ledger[w].state \in {"COMPLETED", "ABANDONED"},
         NEW r, r.amount = 0, r.target = ledger[w].target,
         ledger' = [ledger EXCEPT ![w] = r], removed' = removed \cup {w}
  PROVE  Promised
<1>1. \A v \in WishIds : ledger'[v] = IF v = w THEN r ELSE ledger[v]
  BY DEF Money
<1>2. ledger[w].amount = 0
  BY DEF Money, GoalShape, Open
<1>3. /\ Life(w) \in {"completed", "abandoned"} /\ Life(w)' = "removed"
      /\ \A v \in WishIds : v # w => Life(v)' = Life(v)
  <2>1. \A v \in WishIds : v # w => Life(v)' = Life(v)
    BY <1>1 DEF Life
  <2> QED
    BY <1>1, <2>1, LifeOf, LifeOfNext
<1>4. lives' = [lives EXCEPT ![w] = "removed"] /\ lives[w] \in {"completed", "abandoned"}
  BY <1>3, LivesChange DEF lives
<1>5. savings' = savings /\ targets' = targets
  BY <1>1, <1>2 DEF savings, targets
<1>6. Lifecycle!Remove(w)
  BY <1>4, <1>5, Zenon DEF Lifecycle!Remove, lives, savings, targets
<1> QED
  BY <1>6 DEF Promised, Lifecycle!Next

-----------------------------------------------------------------------------
(* Effects of a command on the wishes.                                     *)

(* Storing a fitting wish over a live one, in the backend and the mirror.  *)
LEMMA StoreOne ==
  ASSUME Money, NEW w, Live(w), NEW r, Fits(w, r),
         ledger' = [ledger EXCEPT ![w] = r], wishes' = [wishes EXCEPT ![w] = r],
         UNCHANGED <<verdict, removed, deleted, funds, cash, goal_number>>
  PROVE  Money' /\ \A v : Live(v) => Live(v)'
<1>1. ledger' \in [WishIds -> Wish] /\ wishes' \in [WishIds -> Wish]
  BY DEF Money, Fits
<1>2. MirrorsFaithful'
  BY DEF Money, MirrorsFaithful
<1>3. \A v \in WishIds : ledger'[v] = IF v = w THEN r ELSE ledger[v]
  BY DEF Money
<1>4. GoalShape'
  BY <1>3 DEF Money, GoalShape, Live, Fits
<1>5. Bookkeeping'
  BY <1>3 DEF Money, Bookkeeping, Live, Fits
<1>6. \A v : Live(v) => Live(v)'
  BY <1>3 DEF Live, Fits
<1> QED
  BY <1>1, <1>2, <1>4, <1>5, <1>6 DEF Money, OracleAccepts

(* A lawful command on a live goal of the student whose turn it is keeps   *)
(* the history lawful, applied or refused.                                 *)
LEMMA ApplyStep ==
  ASSUME Money, NEW w, Own(w), NEW r, Fits(w, r), Becomes(w, r),
         NEW rule \in BOOLEAN, rule,
         Apply(w, r, rule) \/ Refuse,
         UNCHANGED <<removed, deleted, funds, cash, goal_number>>
  PROVE  Money' /\ Promised /\ \A v : Live(v) => Live(v)'
<1>1. Live(w)
  BY DEF Own, Live
<1>2. Lawful(w, r, rule)
  BY DEF Lawful, OwnLive, InRange, Own, Fits, Money, GoalShape, Wish
<1>3. CASE Refuse
  <2>1. Money' /\ \A v : Live(v) => Live(v)'
    BY <1>3, Zenon DEF Refuse, Money, Live, OracleAccepts, MirrorsFaithful,
       GoalShape, Bookkeeping
  <2>2. Promised
    BY <1>3, Stutter DEF Refuse
  <2> QED
    BY <2>1, <2>2, Zenon
<1>4. CASE Apply(w, r, rule)
  <2>1. Money' /\ \A v : Live(v) => Live(v)'
    BY <1>1, <1>2, <1>4, StoreOne, Zenon DEF Apply, Judge
  <2>2. Promised
    BY <1>1, <1>4, <2>1, StoredPromise DEF Apply
  <2> QED
    BY <2>1, <2>2, Zenon
<1> QED
  BY <1>3, <1>4, Zenon

(* A lawful command that changes a wish and nothing else, applied or       *)
(* refused, keeps both mirrors and the promise.                            *)
LEMMA MutateStep ==
  ASSUME Money, Memory, NEW w, Own(w), NEW r, Fits(w, r), Becomes(w, r),
         NEW rule \in BOOLEAN, rule,
         Mutate(w, r, rule)
  PROVE  Money' /\ Memory' /\ Promised /\ \A v : Live(v) => Live(v)'
<1>1. Money' /\ Promised /\ \A v : Live(v) => Live(v)'
  BY ApplyStep, Zenon DEF Mutate, memory
<1>2. Memory'
  BY Zenon DEF Mutate, memory, Memory
<1> QED
  BY <1>1, <1>2, Zenon

(* So does COMPLETE or ABANDON, which also start the wait.                 *)
LEMMA EndStep ==
  ASSUME Money, Memory, Control, who \in Students, NEW w, Own(w),
         NEW how \in {"COMPLETED", "ABANDONED"}, NEW rule \in BOOLEAN, rule,
         ledger[w].state \in Open, how = "COMPLETED" => ledger[w].state = "AMOUNT_REACHED",
         End(w, how, rule)
  PROVE  Money' /\ Memory' /\ Promised /\ \A v : Live(v) => Live(v)'
<1>1. Fits(w, Ended(ledger[w], how)) /\ Becomes(w, Ended(ledger[w], how))
  BY EndedWish DEF Fits, Becomes, Own, Money, GoalShape, Wish, Open
<1>2. Money' /\ Promised /\ \A v : Live(v) => Live(v)'
  BY <1>1, ApplyStep, Zenon DEF End, memory
<1>3. last_goal_end' \in [Students -> Nat]
  BY DEF End, Memory, Control
<1>4. Memory'
  BY <1>3 DEF End, memory, Memory
<1> QED
  BY <1>2, <1>4, Zenon

(* Money moved into or out of an open goal. *)
LEMMA MovedFits ==
  ASSUME Money, NEW w, Own(w), NEW a \in Int, ledger[w].state \in Open,
         0 <= ledger[w].amount + a, ledger[w].amount + a <= ledger[w].target
  PROVE  Fits(w, Moved(ledger[w], a)) /\ Becomes(w, Moved(ledger[w], a))
<1> DEFINE m == Moved(ledger[w], a)
<1>1. ledger[w] \in Wish
  BY DEF Money, Own
<1>2. /\ m \in Wish /\ m.amount = ledger[w].amount + a /\ m.target = ledger[w].target
      /\ m.state \in Open
      /\ m.state = "AMOUNT_REACHED" <=> ledger[w].amount + a = ledger[w].target
  BY <1>1, MovedWish
<1>3. ledger[w].amount \in Int /\ ledger[w].target \in Nat
  BY <1>1 DEF Wish
<1> HIDE DEF m
<1>4. Fits(w, m) /\ Becomes(w, m)
  BY <1>2, <1>3 DEF Fits, Becomes, Open
<1> QED
  BY <1>4 DEF m

(* A command that changes the wish's version only. *)
LEMMA BumpedFits ==
  ASSUME Money, NEW w, Own(w)
  PROVE  Fits(w, Bumped(ledger[w])) /\ Becomes(w, Bumped(ledger[w]))
<1>1. ledger[w] \in Wish
  BY DEF Money, Own
<1> QED
  BY <1>1, BumpedWish DEF Fits, Becomes, Own, Wish, Money, GoalShape

(* So does DELETE of an ended goal of the student.                         *)
LEMMA DeleteStep ==
  ASSUME Money, Memory, NEW w \in Ending(who), Delete(w)
  PROVE  Money' /\ Memory' /\ Promised
<1> DEFINE b == Bumped(ledger[w])
           r == [b EXCEPT !.amount = 0]
<1>1. /\ Own(w) /\ Live(w)
      /\ ledger[w] \in Wish /\ ledger[w].state \in {"COMPLETED", "ABANDONED"}
  BY DEF Ending, Money, MirrorsFaithful, Own, Live
<1>2. /\ r \in Wish /\ r.amount = 0 /\ r.target = ledger[w].target
      /\ r.state = ledger[w].state
  <2>1. b \in Wish /\ b.target = ledger[w].target /\ b.state = ledger[w].state
    BY <1>1, BumpedWish
  <2> HIDE DEF b
  <2> QED
    BY <2>1 DEF Wish
<1> HIDE DEF r
<1>3. Fits(w, r)
  BY <1>1, <1>2 DEF Fits, Wish, Open, Money, GoalShape
<1>4. Lawful(w, r, TRUE)
  BY <1>1, <1>3 DEF Lawful, OwnLive, InRange, Own, Fits, Wish
<1>5. Memory'
  BY Zenon DEF Delete, memory, Memory
<1>6. CASE Refuse /\ UNCHANGED <<removed, deleted>>
  <2>1. Money'
    BY <1>6, Zenon DEF Refuse, Delete, memory, Money, OracleAccepts, MirrorsFaithful,
       GoalShape, Bookkeeping
  <2>2. Promised
    BY <1>6, Stutter DEF Refuse
  <2> QED
    BY <2>1, <2>2, <1>5
<1>7. CASE Apply(w, r, TRUE) /\ removed' = removed \cup {w} /\ deleted' = deleted \cup {w}
  <2>1. /\ ledger' = [ledger EXCEPT ![w] = r] /\ wishes' = [wishes EXCEPT ![w] = r]
        /\ verdict' = verdict
    BY <1>4, <1>7, Zenon DEF Apply, Judge
  <2>2. UNCHANGED <<funds, cash, goal_number>>
    BY Zenon DEF Delete, memory
  <2>3. \A v \in WishIds : ledger'[v] = IF v = w THEN r ELSE ledger[v]
    BY <2>1 DEF Money
  <2>4. GoalShape'
    BY <1>3, <2>3 DEF Money, GoalShape, Fits
  <2>5. Bookkeeping'
    BY <1>1, <1>2, <1>7, <2>2, <2>3 DEF Money, Bookkeeping, Live
  <2>6. MirrorsFaithful'
    BY <1>7, <2>1, <2>2 DEF Money, MirrorsFaithful
  <2>7. ledger' \in [WishIds -> Wish] /\ wishes' \in [WishIds -> Wish]
    BY <1>2, <2>1 DEF Money
  <2>8. removed' \subseteq WishIds /\ deleted' \subseteq WishIds
    BY <1>1, <1>7 DEF Money, Live
  <2>9. Money'
    BY <2>1, <2>2, <2>4, <2>5, <2>6, <2>7, <2>8 DEF Money, OracleAccepts
  <2>10. Promised
    BY <1>1, <1>2, <1>7, <2>1, <2>9, RemovedPromise DEF Live
  <2> QED
    BY <1>5, <2>9, <2>10
<1> QED
  BY <1>6, <1>7, Zenon DEF Delete, r, b

(* Sending no command keeps everything.                                    *)
LEMMA QuietStep ==
  ASSUME Money, Memory, NoCommand
  PROVE  Money' /\ Memory' /\ Promised /\ \A v : Live(v) => Live(v)'
<1>1. Money' /\ \A v : Live(v) => Live(v)'
  BY Zenon DEF NoCommand, backend, goals, memory, Money, Live, OracleAccepts,
     MirrorsFaithful, GoalShape, Bookkeeping
<1>2. Memory'
  BY Zenon DEF NoCommand, goals, memory, Memory
<1>3. Promised
  BY Stutter DEF NoCommand, backend
<1> QED
  BY <1>1, <1>2, <1>3, Zenon

(* A grant, or a purchase of no more than the card holds. *)
LEMMA CashStep ==
  ASSUME Money, Memory, who \in Students, NEW a \in Int, a # 0, cash[who] + a >= 0,
         CashMoves(a)
  PROVE  Money' /\ Memory' /\ Promised
<1>1. Memory' /\ Promised
  <2>1. Memory'
    BY Zenon DEF CashMoves, goals, Memory
  <2> QED
    BY <2>1, Stutter DEF CashMoves
<1>2. CASE UNCHANGED <<funds, cash, verdict>>
  <2>1. Money'
    BY <1>2, Zenon DEF CashMoves, goals, Money, OracleAccepts, MirrorsFaithful, GoalShape,
       Bookkeeping
  <2> QED
    BY <1>1, <2>1
<1>3. CASE /\ funds' = [funds EXCEPT ![who] = @ + a]
           /\ cash'  = [cash EXCEPT ![who] = funds'[who]]
           /\ Judge(a # 0 /\ funds'[who] >= 0)
  <2>1. funds' \in [Students -> Int] /\ funds'[who] = funds[who] + a /\ cash' = funds'
    BY <1>3 DEF Money, MirrorsFaithful
  <2>2. verdict' = verdict
    BY <1>3, <2>1 DEF Judge, Money, MirrorsFaithful
  <2>3. \A s \in Students : funds'[s] >= 0
    BY <1>3, <2>1 DEF Money, MirrorsFaithful, Bookkeeping
  <2>4. UNCHANGED <<ledger, wishes, removed, deleted, goal_number>>
    BY DEF CashMoves, goals
  <2>5. GoalShape' /\ Bookkeeping'
    BY <2>3, <2>4 DEF Money, GoalShape, Bookkeeping
  <2> QED
    BY <1>1, <2>1, <2>2, <2>4, <2>5 DEF Money, OracleAccepts, MirrorsFaithful
<1> QED
  BY <1>2, <1>3, Zenon DEF CashMoves

(* A goal under a fresh number, or none; either way the number is spent.   *)
LEMMA CreateStep ==
  ASSUME Money, Memory, Control, who \in Students, NEW then \in Steps, Create(then)
  PROVE  /\ Money' /\ Memory' /\ Promised
         /\ UNCHANGED <<day, who, todo>>
         /\ \/ pc' = then /\ UNCHANGED <<chosen, after>>
            \/ pc' = "share" /\ Live(chosen)' /\ chosen'[1] = who /\ after' = then
<1>0. PICK w : w = <<who, goal_number[who] + 1>>
  OBVIOUS
<1> DEFINE Made(t) == /\ ledger' = [ledger EXCEPT ![w] = NewWish(t)]
                      /\ wishes' = [wishes EXCEPT ![w] = NewWish(t)]
<1>2. /\ goal_number[who] < MaxGoals
      /\ goal_number' = [goal_number EXCEPT ![who] = @ + 1]
  BY Zenon DEF Create
<1>1. /\ w \in WishIds /\ w[1] = who /\ w[2] = goal_number[who] + 1
      /\ goal_number[who] \in 0..MaxGoals
  BY <1>0, <1>2, PolicyAssumption DEF Money, WishIds
<1>3. /\ goal_number' \in [Students -> 0..MaxGoals]
      /\ \A s \in Students : goal_number[s] <= goal_number'[s]
      /\ goal_number'[who] = goal_number[who] + 1
  BY <1>1, <1>2, PolicyAssumption DEF Money
<1>4. UNCHANGED <<removed, deleted, funds, cash, last_goal_end, joined, influenced, day, who, todo>>
  BY DEF Create, memory
<1>5. CASE Refuse /\ pc' = then /\ UNCHANGED <<wish_created, preferred, chosen, after>>
  <2>1. Promised
    BY <1>4, <1>5, Stutter DEF Refuse
  <2>2. Memory'
    BY <1>4, <1>5, Zenon DEF Memory
  <2>3. Bookkeeping'
    BY <1>3, <1>4, <1>5 DEF Refuse, Money, Bookkeeping, WishIds
  <2>4. Money'
    BY <1>3, <1>4, <1>5, <2>3 DEF Refuse, Money, OracleAccepts, MirrorsFaithful, GoalShape
  <2> QED
    BY <1>4, <1>5, <2>1, <2>2, <2>4
<1>6. ASSUME /\ \E t \in Targets : Made(t)
             /\ Judge(ledger[w].state = "NONE")
             /\ wish_created' = [wish_created EXCEPT ![w] = day]
             /\ preferred' = [preferred EXCEPT ![who] = w]
      PROVE  Money' /\ Memory' /\ Promised /\ Live(w)'
  <2>1. PICK t \in Targets : Made(t)
    BY <1>6
  <2>2. t \in 1..TargetLimit
    BY PolicyAssumption
  <2>3. /\ NewWish(t) \in Wish /\ NewWish(t).state = "IN_PROGRESS"
        /\ NewWish(t).target = t /\ NewWish(t).amount = 0
    BY <2>2, PolicyAssumption DEF NewWish, Wish, States, Open
  <2>4. \A v \in WishIds : ledger'[v] = IF v = w THEN NewWish(t) ELSE ledger[v]
    BY <1>1, <2>1 DEF Money
  <2>5. ledger[w].state = "NONE" /\ w \notin removed
    BY <1>1 DEF Money, Bookkeeping
  <2>6. verdict' = verdict
    BY <1>6, <2>5, Zenon DEF Judge
  <2>8. Live(w)'
    BY <1>1, <1>4, <2>3, <2>4, <2>5 DEF Live
  <2>9. Memory'
    BY <1>1, <1>4, <1>6 DEF Memory, Control
  <2>10. MirrorsFaithful'
    BY <1>4, <2>1 DEF Money, MirrorsFaithful
  <2>11. GoalShape'
    BY <2>2, <2>3, <2>4 DEF Money, GoalShape, Open
  <2>12. Bookkeeping'
    <3>1. \A v \in WishIds : ledger'[v].state # "NONE" => v[2] <= goal_number'[v[1]]
      BY <1>1, <1>3, <2>4 DEF Money, Bookkeeping, WishIds
    <3> QED
      BY <1>4, <2>4, <2>5, <3>1 DEF Money, Bookkeeping
  <2>13. ledger' \in [WishIds -> Wish] /\ wishes' \in [WishIds -> Wish]
    BY <2>1, <2>3 DEF Money
  <2>7. Money'
    BY <1>3, <1>4, <2>6, <2>10, <2>11, <2>12, <2>13 DEF Money, OracleAccepts
  <2>14. Promised
    BY <1>1, <1>4, <2>1, <2>5, <2>7, CreatedPromise
  <2> QED
    BY <2>7, <2>8, <2>9, <2>14
<1>7. \/ Refuse /\ pc' = then /\ UNCHANGED <<wish_created, preferred, chosen, after>>
      \/ /\ /\ \E t \in Targets : Made(t)
            /\ Judge(ledger[w].state = "NONE")
            /\ wish_created' = [wish_created EXCEPT ![w] = day]
            /\ preferred' = [preferred EXCEPT ![who] = w]
         /\ IF who = Owner
            THEN pc' = then /\ UNCHANGED <<chosen, after>>
            ELSE pc' = "share" /\ chosen' = w /\ after' = then
  BY <1>0, Zenon DEF Create
<1> QED
  BY <1>1, <1>4, <1>5, <1>6, <1>7

(* A transfer is lawful when the source holds the amount and the           *)
(* destination has room for it.                                            *)
LEMMA MoveStep ==
  ASSUME Money, Memory, NEW v, NEW w, Own(v), Own(w), v # w,
         ledger[v].state \in Open, ledger[w].state \in Open,
         NEW a \in 1..ledger[v].amount, ledger[w].amount + a <= ledger[w].target,
         Move(v, w, a)
  PROVE  Money' /\ Memory' /\ Promised
<1>0. PICK out, in : out = Moved(ledger[v], -a) /\ in = Moved(ledger[w], a)
  OBVIOUS
<1>1. /\ ledger[v].amount \in Nat /\ ledger[w].amount \in Nat
      /\ ledger[v].amount <= ledger[v].target /\ ledger[v].target \in Nat
      /\ ledger[w].target \in Nat
  BY DEF Money, GoalShape, Own, Wish
<1>2. Fits(v, out)
  <2>1. /\ -a \in Int /\ 0 <= ledger[v].amount + (-a)
        /\ ledger[v].amount + (-a) <= ledger[v].target
    BY <1>1
  <2> QED
    BY <1>0, <2>1, MovedFits
<1>3. Fits(w, in)
  <2>1. a \in Int /\ 0 <= ledger[w].amount + a
    BY <1>1
  <2> QED
    BY <1>0, <2>1, MovedFits
<1>4. UNCHANGED <<removed, deleted, funds, cash, goal_number>>
  BY Zenon DEF Move, memory
<1>5. Memory'
  BY Zenon DEF Move, memory, Memory
<1>6. CASE Refuse
  <2>1. Money'
    BY <1>4, <1>6, Zenon DEF Refuse, Money, OracleAccepts, MirrorsFaithful, GoalShape,
       Bookkeeping
  <2>2. Promised
    BY <1>4, <1>6, Stutter DEF Refuse
  <2> QED
    BY <1>5, <2>1, <2>2
<1>7. CASE /\ ledger' = [ledger EXCEPT ![v] = out, ![w] = in]
           /\ wishes' = [wishes EXCEPT ![v] = out, ![w] = in]
           /\ Judge(/\ v[1] = who /\ w[1] = who /\ v # w
                    /\ ledger[v].state \in Open /\ ledger[w].state \in Open
                    /\ InRange(out) /\ InRange(in))
  <2>1. InRange(out) /\ InRange(in)
    BY <1>2, <1>3 DEF Fits, InRange, Wish
  <2>2. verdict' = verdict
    BY <1>7, <2>1, Zenon DEF Judge, Own
  <2>3. Live(v) /\ Live(w)
    BY DEF Own, Live
  <2>4. \A u \in WishIds : ledger'[u] = IF u = w THEN in ELSE IF u = v THEN out ELSE ledger[u]
    BY <1>7 DEF Money
  <2>5. ledger' \in [WishIds -> Wish] /\ wishes' \in [WishIds -> Wish]
    BY <1>2, <1>3, <1>7 DEF Money, Fits
  <2>6. MirrorsFaithful'
    BY <1>4, <1>7 DEF Money, MirrorsFaithful
  <2>7. GoalShape'
    BY <1>2, <1>3, <2>4 DEF Money, GoalShape, Fits
  <2>8. Bookkeeping'
    BY <1>2, <1>3, <1>4, <2>3, <2>4 DEF Money, Bookkeeping, Live, Fits
  <2>9. Money'
    BY <1>4, <2>2, <2>5, <2>6, <2>7, <2>8 DEF Money, OracleAccepts
  <2>10. /\ out.amount = ledger[v].amount - a /\ out.target = ledger[v].target
         /\ in.amount = ledger[w].amount + a /\ in.target = ledger[w].target
         /\ out.state \in Open /\ in.state \in Open
    <3>1. ledger[v] \in Wish /\ ledger[w] \in Wish /\ -a \in Int /\ a \in Int
      BY <1>1 DEF Money, Own
    <3> QED
      BY <1>0, <1>1, <3>1, MovedWish
  <2>11. Promised
    BY <1>4, <1>7, <2>3, <2>9, <2>10, MovedPromise DEF Live
  <2> QED
    BY <1>5, <2>9, <2>11
<1> QED
  BY <1>0, <1>6, <1>7, Zenon DEF Move

-----------------------------------------------------------------------------
(* Where Policy stands.                                                    *)

(* A live goal of the student whose turn it is, said in two ways.          *)
LEMMA OwnIsLive == \A w : Own(w) <=> Live(w) /\ w[1] = who
BY DEF Own, Live

(* Leaving a step with nothing in hand, for another such step. *)
LEMMA MoveOn ==
  ASSUME Control, todo = {}, who \in Students,
         pc' \in Steps \ {"share", "confirm"},
         chosen' \in {chosen, NoWish},
         UNCHANGED <<day, who, todo, after>>
  PROVE  Control'
BY DEF Control, LocalsLive

(* Going on to the next student. *)
LEMMA MoveOver ==
  ASSUME Control, todo = {}, who \in Students, NextPerson
  PROVE  Control'
<1>1. who + 1 \in 1..(N + 1)
  BY PolicyAssumption DEF Students
<1> QED
  BY <1>1 DEF NextPerson, Control, LocalsLive, Steps

(* Starting a goal on the way to the step then. *)
LEMMA CreateMoves ==
  ASSUME Money, Memory, Control, todo = {}, who \in Students,
         NEW then \in {"visit", "save", "decided"}, Create(then)
  PROVE  IInv' /\ Promised
<1>1. then \in Steps
  BY DEF Steps
<1>2. /\ Money' /\ Memory' /\ Promised
      /\ UNCHANGED <<day, who, todo>>
      /\ \/ pc' = then /\ UNCHANGED <<chosen, after>>
         \/ pc' = "share" /\ Live(chosen)' /\ chosen'[1] = who /\ after' = then
  BY <1>1, CreateStep
<1>3. CASE pc' = then /\ UNCHANGED <<chosen, after>>
  <2>1. Control'
    BY <1>2, <1>3, MoveOn DEF Steps
  <2> QED
    BY <1>2, <2>1, PartsNext
<1>4. CASE pc' = "share" /\ Live(chosen)' /\ chosen'[1] = who /\ after' = then
  <2>1. Own(chosen)'
    BY <1>2, <1>4 DEF Own, Live
  <2>2. Control'
    BY <1>1, <1>2, <1>4, <2>1 DEF Control, LocalsLive, Steps, Own
  <2> QED
    BY <1>2, <2>2, PartsNext
<1> QED
  BY <1>2, <1>3, <1>4

-----------------------------------------------------------------------------
(* The inductive invariant.                                                *)

(* The invariant holds before the first day.                               *)
LEMMA InitIInv == Init => IInv
<1> SUFFICES ASSUME Init PROVE IInv
  OBVIOUS
<1>1. NoGoal \in Wish
  BY PolicyAssumption DEF NoGoal, Wish, States
<1>2. Money
  BY <1>1, PolicyAssumption DEF Init, Money, OracleAccepts, MirrorsFaithful, GoalShape,
     Bookkeeping, NoGoal, Open
<1>3. Memory
  BY PolicyAssumption DEF Init, Memory
<1>4. Control
  BY PolicyAssumption DEF Init, Control, LocalsLive, Steps
<1> QED
  BY <1>2, <1>3, <1>4, Parts

(* The calendar: the steps of run() that touch no goal. *)
LEMMA CalendarStep ==
  ASSUME IInv,
         \/ Join \/ StartTurns \/ Absent \/ NextDay \/ Grant \/ Purchase \/ Visit \/ Observe
         \/ Reviewed \/ EndVisit
  PROVE  IInv' /\ Promised
<1>1. Money /\ Memory /\ Control
  BY Parts
<1>2. pc # "review" => todo = {}
  BY <1>1 DEF Control, LocalsLive
<1>3. pc \notin {"join", "grant", "done"} => who \in Students
  BY <1>1 DEF Control, LocalsLive
<1>4. who \in 1..(N + 1) /\ N \in Nat /\ joined \subseteq Students
  BY <1>1, PolicyAssumption DEF Control, Memory
<1>5. CASE Join
  <2>1. Money' /\ Promised
    <3>1. Money'
      BY <1>1, <1>5, Zenon DEF Join, backend, goals, Money, OracleAccepts, MirrorsFaithful,
         GoalShape, Bookkeeping
    <3> QED
      BY <1>5, <3>1, Stutter DEF Join, backend
  <2>2. Memory'
    BY <1>1, <1>5 DEF Join, goals, Memory
  <2>3. Control'
    BY <1>1, <1>4, <1>5 DEF Join, Control, LocalsLive, Students
  <2> QED
    BY <2>1, <2>2, <2>3, PartsNext
<1>6. CASE StartTurns \/ NextDay
  <2>1. NoCommand
    BY <1>6, Zenon DEF StartTurns, NextDay, NoCommand
  <2>2. Control'
    BY <1>1, <1>2, <1>4, <1>6 DEF StartTurns, NextDay, Control, LocalsLive, Steps
  <2> QED
    BY <1>1, <2>1, <2>2, QuietStep, PartsNext
<1>7. CASE Absent
  <2>1. who \in Students /\ todo = {} /\ NoCommand /\ NextPerson
    BY <1>2, <1>7 DEF Absent
  <2>2. Control'
    BY <1>1, <2>1, MoveOver
  <2> QED
    BY <1>1, <2>1, <2>2, QuietStep, PartsNext
<1>8. CASE Grant
  <2>1. who \in Students /\ todo = {}
    BY <1>2, <1>4, <1>8 DEF Grant
  <2>2. Control'
    BY <1>1, <1>8, <2>1, MoveOn DEF Grant, Goto, control, Steps
  <2>3. CASE NoCommand
    BY <1>1, <2>2, <2>3, QuietStep, PartsNext
  <2>4. ASSUME NEW a \in GrantAmounts, CashMoves(a) PROVE IInv' /\ Promised
    <3>1. a \in Int /\ a # 0 /\ cash[who] + a >= 0
      BY <1>1, <2>1, PolicyAssumption DEF Money, MirrorsFaithful, Bookkeeping
    <3>2. Money' /\ Memory' /\ Promised
      BY <1>1, <2>1, <2>4, <3>1, CashStep
    <3> QED
      BY <2>2, <3>2, PartsNext
  <2> QED
    BY <1>8, <2>3, <2>4 DEF Grant
<1>9. CASE Purchase
  <2>1. who \in Students /\ todo = {}
    BY <1>2, <1>3, <1>9 DEF Purchase
  <2>2. Control'
    BY <1>1, <1>9, <2>1, MoveOn DEF Purchase, Goto, control, Steps
  <2>3. CASE NoCommand
    BY <1>1, <2>2, <2>3, QuietStep, PartsNext
  <2>4. ASSUME NEW a \in 1..cash[who], CashMoves(-a) PROVE IInv' /\ Promised
    <3>1. -a \in Int /\ -a # 0 /\ cash[who] + (-a) >= 0
      BY <1>1, <2>1 DEF Money
    <3>2. Money' /\ Memory' /\ Promised
      BY <1>1, <2>1, <2>4, <3>1, CashStep
    <3> QED
      BY <2>2, <3>2, PartsNext
  <2> QED
    BY <1>9, <2>3, <2>4 DEF Purchase
<1>10. CASE Visit
  <2>1. who \in Students /\ todo = {} /\ NoCommand
    BY <1>2, <1>3, <1>10 DEF Visit
  <2>2. Control'
    <3>1. CASE Goto("observe")
      BY <1>1, <2>1, <3>1, MoveOn DEF Goto, control, Steps
    <3>2. CASE NextPerson
      BY <1>1, <2>1, <3>2, MoveOver
    <3> QED
      BY <1>10, <3>1, <3>2 DEF Visit
  <2> QED
    BY <1>1, <2>1, <2>2, QuietStep, PartsNext
<1>11. CASE Observe
  <2>1. who \in Students /\ todo = {}
    BY <1>2, <1>3, <1>11 DEF Observe
  <2>2. cash' = cash
    BY <1>1, <1>11, <2>1 DEF Observe, Money, MirrorsFaithful
  <2>3. NoCommand
    BY <1>11, <2>2 DEF Observe, NoCommand, memory
  <2>4. Control'
    BY <1>1, <1>11, <2>1, MoveOn DEF Observe, Goto, control, Steps
  <2> QED
    BY <1>1, <2>3, <2>4, QuietStep, PartsNext
<1>12. CASE Reviewed
  <2>1. who \in Students /\ todo = {} /\ NoCommand
    BY <1>3, <1>12 DEF Reviewed
  <2>2. Control'
    BY <1>1, <1>12, <2>1, MoveOn DEF Reviewed, Goto, control, Steps
  <2> QED
    BY <1>1, <2>1, <2>2, QuietStep, PartsNext
<1>13. CASE EndVisit
  <2>1. who \in Students /\ todo = {} /\ NoCommand /\ NextPerson
    BY <1>2, <1>3, <1>13 DEF EndVisit
  <2>2. Control'
    BY <1>1, <2>1, MoveOver
  <2> QED
    BY <1>1, <2>1, <2>2, QuietStep, PartsNext
<1> QED
  BY <1>5, <1>6, <1>7, <1>8, <1>9, <1>10, <1>11, <1>12, <1>13

(* What the mirrors show as an open goal is one in the backend. *)
LEMMA ActiveOwn ==
  ASSUME Money
  PROVE  /\ Active(who) \in SUBSET WishIds
         /\ \A w \in Active(who) : /\ Own(w) /\ ledger[w].state \in Open
                                   /\ ledger[w] = wishes[w]
                                   /\ ledger[w].amount \in 0..ledger[w].target
                                   /\ ledger[w].target \in Nat
BY DEF Active, Own, Money, MirrorsFaithful, GoalShape, Open, Wish

(* min() of three amounts is none of them exceeded. *)
LEMMA LeastOfThree ==
  ASSUME NEW a \in Int, NEW b \in Int, NEW c \in Int
  PROVE  /\ Least({a, b, c}) <= a /\ Least({a, b, c}) <= b /\ Least({a, b, c}) <= c
         /\ Least({a, b, c}) \in {a, b, c}
<1>1. \E x \in {a, b, c} : \A y \in {a, b, c} : x <= y
  OBVIOUS
<1> QED
  BY <1>1 DEF Least

(* What a deposit, a withdrawal or a share stores. *)
LEMMA DepositStep ==
  ASSUME Money, Memory, NEW w \in Active(who), wishes[w].state = "IN_PROGRESS",
         NEW a \in 1..Gap(w), Deposit(w, a)
  PROVE  Money' /\ Memory' /\ Promised /\ \A v : Live(v) => Live(v)'
<1>1. /\ Own(w) /\ ledger[w].state = "IN_PROGRESS" /\ ledger[w] = wishes[w]
      /\ ledger[w].amount \in 0..ledger[w].target /\ ledger[w].target \in Nat
  BY ActiveOwn
<1>2. /\ a \in Int /\ 0 <= ledger[w].amount + a
      /\ ledger[w].amount + a <= ledger[w].target
  BY <1>1 DEF Gap
<1>3. Fits(w, Moved(ledger[w], a)) /\ Becomes(w, Moved(ledger[w], a))
  BY <1>1, <1>2, MovedFits DEF Open
<1> QED
  BY <1>1, <1>3, MutateStep DEF Deposit

(* A withdrawal of no more than the goal holds.                            *)
LEMMA WithdrawStep ==
  ASSUME Money, Memory, NEW w, Own(w), ledger[w].state \in Open,
         NEW a \in Nat, a <= ledger[w].amount, Withdraw(w, a)
  PROVE  Money' /\ Memory' /\ Promised /\ \A v : Live(v) => Live(v)'
<1>1. ledger[w].amount \in 0..ledger[w].target /\ ledger[w].target \in Nat
  BY DEF Money, GoalShape, Own, Wish
<1>2. /\ -a \in Int /\ 0 <= ledger[w].amount + (-a)
      /\ ledger[w].amount + (-a) <= ledger[w].target
  BY <1>1
<1>3. Fits(w, Moved(ledger[w], -a)) /\ Becomes(w, Moved(ledger[w], -a))
  BY <1>2, MovedFits
<1> QED
  BY <1>3, MutateStep DEF Withdraw

(* A share, which changes the version only.                                *)
LEMMA BumpStep ==
  ASSUME Money, Memory, NEW w, Own(w), Mutate(w, Bumped(ledger[w]), TRUE)
  PROVE  Money' /\ Memory' /\ Promised /\ \A v : Live(v) => Live(v)'
BY BumpedFits, MutateStep

(* A visit: the steps of create(), share(), adjust_after_observation(),    *)
(* goal_actions() and influence().                                         *)
LEMMA GoalStep ==
  ASSUME IInv,
         \/ Arrive \/ Share \/ AdjustAfterObservation \/ Review \/ NewGoal \/ Save
         \/ Confirm \/ Transfer \/ Clean \/ Reveal
         \/ InfluencedCreate \/ InfluencedDeposit \/ Decided
  PROVE  IInv' /\ Promised
<1>1. Money /\ Memory /\ Control
  BY Parts
<1>2. pc # "review" => todo = {}
  BY <1>1 DEF Control, LocalsLive
<1>3. pc \notin {"join", "grant", "done"} => who \in Students
  BY <1>1 DEF Control, LocalsLive
<1>4. CASE Arrive
  <2>1. who \in Students /\ todo = {}
    BY <1>2, <1>3, <1>4 DEF Arrive
  <2>2. CASE Create("visit")
    BY <1>1, <2>1, <2>2, CreateMoves
  <2>3. CASE NoCommand /\ Goto("visit")
    <3>1. Control'
      BY <1>1, <2>1, <2>3, MoveOn DEF Goto, control, Steps
    <3> QED
      BY <1>1, <2>3, <3>1, QuietStep, PartsNext
  <2> QED
    BY <1>4, <2>2, <2>3 DEF Arrive
<1>5. CASE Share
  <2>1. who \in Students /\ todo = {} /\ Own(chosen)
    BY <1>1, <1>2, <1>3, <1>5 DEF Share, Control, LocalsLive
  <2>2. Money' /\ Memory' /\ Promised
    BY <1>1, <1>5, <2>1, BumpStep DEF Share
  <2>3. Control'
    BY <1>1, <1>5, <2>1, MoveOn DEF Share, Leave, Control, LocalsLive, Steps
  <2> QED
    BY <2>2, <2>3, PartsNext
<1>6. CASE AdjustAfterObservation
  <2>1. who \in Students
    BY <1>3, <1>6 DEF AdjustAfterObservation
  <2>2. Money' /\ Memory' /\ Promised /\ \A v : Live(v) => Live(v)'
    <3>1. CASE NoCommand
      BY <1>1, <3>1, QuietStep
    <3>2. ASSUME NEW w \in Active(who), NEW a \in 1..wishes[w].amount, Withdraw(w, a)
          PROVE  Money' /\ Memory' /\ Promised /\ \A v : Live(v) => Live(v)'
      <4>1. /\ Own(w) /\ ledger[w].state \in Open /\ ledger[w] = wishes[w]
            /\ ledger[w].amount \in 0..ledger[w].target /\ ledger[w].target \in Nat
        BY <1>1, ActiveOwn
      <4>2. a \in Nat /\ a <= ledger[w].amount
        BY <4>1
      <4> QED
        BY <1>1, <3>2, <4>1, <4>2, WithdrawStep
    <3> QED
      BY <1>6, <3>1, <3>2 DEF AdjustAfterObservation
  <2>3. todo' = Active(who) /\ pc' = "review" /\ UNCHANGED <<day, who, chosen, after>>
    BY <1>6 DEF AdjustAfterObservation
  <2>4. \A w \in Active(who) : w \in WishIds /\ Own(w)'
    BY <1>1, <2>2, <2>3, ActiveOwn DEF Own, Live
  <2>5. Control'
    BY <1>1, <2>1, <2>3, <2>4 DEF Control, LocalsLive, Steps
  <2> QED
    BY <2>2, <2>5, PartsNext
<1>7. CASE Review
  <2>1. who \in Students /\ todo \in SUBSET WishIds /\ todo # {} /\ pc = "review"
    BY <1>1, <1>3, <1>7 DEF Review, Control
  <2>2. PICK w : w = First(todo) /\ w \in todo
    BY <2>1, FirstIn
  <2>3. Own(w) /\ wishes[w] = ledger[w]
    BY <1>1, <2>2 DEF Control, LocalsLive, Money, MirrorsFaithful
  <2>4. Money' /\ Memory' /\ Promised /\ \A v : Live(v) => Live(v)'
    <3>1. CASE wishes[w].state = "AMOUNT_REACHED" /\ Complete(w)
      BY <1>1, <2>1, <2>3, <3>1, EndStep DEF Complete, Open
    <3>2. CASE wishes[w].state = "IN_PROGRESS" /\ Abandon(w)
      BY <1>1, <2>1, <2>3, <3>2, EndStep DEF Abandon, Open
    <3>3. CASE NoCommand
      BY <1>1, <3>3, QuietStep
    <3> QED
      BY <1>7, <2>2, <3>1, <3>2, <3>3 DEF Review
  <2>5. todo' \subseteq todo /\ UNCHANGED <<pc, day, who, chosen, after>>
    BY <1>7 DEF Review
  <2>6. \A v \in todo' : v \in WishIds /\ Own(v)'
    BY <1>1, <2>4, <2>5 DEF Control, LocalsLive, Own, Live
  <2>7. Control'
    BY <1>1, <2>1, <2>5, <2>6 DEF Control, LocalsLive
  <2> QED
    BY <2>4, <2>7, PartsNext
<1>8. CASE NewGoal
  <2>1. who \in Students /\ todo = {}
    BY <1>2, <1>3, <1>8 DEF NewGoal
  <2>2. CASE Create("save")
    BY <1>1, <2>1, <2>2, CreateMoves
  <2>3. CASE NoCommand /\ Goto("save")
    <3>1. Control'
      BY <1>1, <2>1, <2>3, MoveOn DEF Goto, control, Steps
    <3> QED
      BY <1>1, <2>3, <3>1, QuietStep, PartsNext
  <2> QED
    BY <1>8, <2>2, <2>3 DEF NewGoal
<1>9. CASE Save
  <2>1. who \in Students /\ todo = {}
    BY <1>2, <1>3, <1>9 DEF Save
  <2>2. CASE NoCommand /\ Goto("feed")
    <3>1. Control'
      BY <1>1, <2>1, <2>2, MoveOn DEF Goto, control, Steps
    <3> QED
      BY <1>1, <2>2, <3>1, QuietStep, PartsNext
  <2>3. CASE Active(who) # {}
    <3>1. PICK w : w = Preferred(who) /\ w \in Active(who)
      BY <1>1, <2>3, ActiveOwn, FirstIn DEF Preferred
    <3>2. Money' /\ Memory' /\ Promised /\ \A v : Live(v) => Live(v)'
      <4>1. CASE NoCommand
        BY <1>1, <4>1, QuietStep
      <4>2. ASSUME wishes[w].state = "IN_PROGRESS", NEW a \in 1..Gap(w), Deposit(w, a)
            PROVE  Money' /\ Memory' /\ Promised /\ \A v : Live(v) => Live(v)'
        BY <1>1, <3>1, <4>2, DepositStep
      <4> QED
        BY <1>9, <2>3, <3>1, <4>1, <4>2 DEF Save
    <3>3. Choose(w)
      BY <1>9, <2>3, <3>1 DEF Save
    <3>4. Own(w)'
      BY <1>1, <3>1, <3>2, <3>3, ActiveOwn DEF Choose, Own, Live
    <3>5. Own(chosen)' /\ chosen' \in WishIds
      BY <3>3, <3>4 DEF Choose, Own
    <3>6. Control'
      BY <1>1, <2>1, <3>3, <3>5 DEF Choose, Control, LocalsLive, Steps
    <3> QED
      BY <3>2, <3>6, PartsNext
  <2> QED
    BY <1>9, <2>2, <2>3 DEF Save
<1>10. CASE Confirm
  <2>1. /\ who \in Students /\ todo = {} /\ Own(chosen)
        /\ wishes[chosen] = ledger[chosen]
    BY <1>1, <1>2, <1>3, <1>10 DEF Confirm, Control, LocalsLive, Money, MirrorsFaithful
  <2>2. Money' /\ Memory' /\ Promised
    <3>1. CASE wishes[chosen].state = "AMOUNT_REACHED" /\ Complete(chosen)
      BY <1>1, <2>1, <3>1, EndStep DEF Complete, Open
    <3>2. CASE /\ wishes[chosen].state \in Open
               /\ wishes[chosen].amount >= WithdrawUnit
               /\ Withdraw(chosen, WithdrawUnit)
      <4>1. WithdrawUnit \in Nat /\ WithdrawUnit <= ledger[chosen].amount
        BY <1>1, <2>1, <3>2, PolicyAssumption DEF Money, GoalShape, Own, Wish
      <4> QED
        BY <1>1, <2>1, <3>2, <4>1, WithdrawStep
    <3>3. CASE NoCommand
      BY <1>1, <3>3, QuietStep
    <3> QED
      BY <1>10, <3>1, <3>2, <3>3 DEF Confirm
  <2>3. Control'
    BY <1>1, <1>10, <2>1, MoveOn DEF Confirm, Leave, Steps
  <2> QED
    BY <2>2, <2>3, PartsNext
<1>11. CASE Transfer
  <2>1. who \in Students /\ todo = {}
    BY <1>2, <1>3, <1>11 DEF Transfer
  <2>2. Control'
    BY <1>1, <1>11, <2>1, MoveOn DEF Transfer, Goto, control, Steps
  <2>3. CASE NoCommand
    BY <1>1, <2>2, <2>3, QuietStep, PartsNext
  <2>4. CASE Cardinality(Active(who)) >= 2
    <3>1. PICK v, w : /\ v = First(Active(who)) /\ w = Second(Active(who))
                      /\ v \in Active(who) /\ w \in Active(who) /\ v # w
      BY <1>1, <2>4, ActiveOwn, SecondIn
    <3>2. ASSUME NEW a \in 1..wishes[v].amount,
                 a = Least({TransferUnit, wishes[v].amount, Gap(w)}), Move(v, w, a)
          PROVE  Money' /\ Memory' /\ Promised
      <4>1. /\ Own(v) /\ ledger[v].state \in Open /\ ledger[v] = wishes[v]
            /\ ledger[v].amount \in 0..ledger[v].target /\ ledger[v].target \in Nat
        BY <1>1, <3>1, ActiveOwn
      <4>2. /\ Own(w) /\ ledger[w].state \in Open /\ ledger[w] = wishes[w]
            /\ ledger[w].amount \in 0..ledger[w].target /\ ledger[w].target \in Nat
        BY <1>1, <3>1, ActiveOwn
      <4>3. a <= Gap(w)
        <5>1. Gap(w) \in Int /\ wishes[v].amount \in Int /\ TransferUnit \in Int
          BY <4>1, <4>2, PolicyAssumption DEF Gap
        <5> QED
          BY <3>2, <5>1, LeastOfThree
      <4>4. a \in 1..ledger[v].amount /\ ledger[w].amount + a <= ledger[w].target
        BY <4>1, <4>2, <4>3 DEF Gap
      <4> QED
        BY <1>1, <3>1, <3>2, <4>1, <4>2, <4>4, MoveStep
    <3>3. CASE \E a \in 1..wishes[v].amount :
                 a = Least({TransferUnit, wishes[v].amount, Gap(w)}) /\ Move(v, w, a)
      <4>1. Money' /\ Memory' /\ Promised
        BY <3>2, <3>3
      <4> QED
        BY <2>2, <4>1, PartsNext
    <3>4. CASE NoCommand
      BY <2>3, <3>4
    <3> QED
      BY <1>11, <3>1, <3>3, <3>4 DEF Transfer
  <2> QED
    BY <1>11, <2>3, <2>4 DEF Transfer
<1>12. CASE Clean
  <2>1. who \in Students /\ todo = {}
    BY <1>2, <1>3, <1>12 DEF Clean
  <2>2. Control'
    BY <1>1, <1>12, <2>1, MoveOn DEF Clean, Goto, control, Steps
  <2>3. CASE NoCommand
    BY <1>1, <2>2, <2>3, QuietStep, PartsNext
  <2>4. CASE \E w \in Ending(who) : Delete(w)
    <3>1. Money' /\ Memory' /\ Promised
      BY <1>1, <2>4, DeleteStep
    <3> QED
      BY <2>2, <3>1, PartsNext
  <2> QED
    BY <1>12, <2>3, <2>4 DEF Clean
<1>13. CASE Reveal
  <2>1. who \in Students /\ todo = {}
    BY <1>2, <1>3, <1>13 DEF Reveal
  <2>2. Control'
    BY <1>1, <1>13, <2>1, MoveOn DEF Reveal, Goto, control, Steps
  <2>3. CASE NoCommand
    BY <1>1, <2>2, <2>3, QuietStep, PartsNext
  <2>4. CASE /\ Active(who) # {}
             /\ Mutate(First(Active(who)), Bumped(ledger[First(Active(who))]), TRUE)
    <3>1. Own(First(Active(who)))
      BY <1>1, <2>4, ActiveOwn, FirstIn
    <3>2. Money' /\ Memory' /\ Promised
      BY <1>1, <2>4, <3>1, BumpStep
    <3> QED
      BY <2>2, <3>2, PartsNext
  <2> QED
    BY <1>13, <2>3, <2>4 DEF Reveal
<1>14. CASE InfluencedCreate
  <2>1. who \in Students /\ todo = {} /\ Create("decided")
    BY <1>2, <1>3, <1>14 DEF InfluencedCreate
  <2> QED
    BY <1>1, <2>1, CreateMoves
<1>15. CASE InfluencedDeposit
  <2>1. who \in Students /\ todo = {}
    BY <1>2, <1>3, <1>15 DEF InfluencedDeposit
  <2> DEFINE Chose(w, a) ==
        /\ \/ /\ Apply(w, Moved(ledger[w], a), ledger[w].state = "IN_PROGRESS")
              /\ preferred' = [preferred EXCEPT ![who] = w]
           \/ Refuse /\ UNCHANGED preferred
        /\ UNCHANGED <<removed, funds, deleted, wish_created, goal_number,
                       last_goal_end, memory>>
  <2>2. PICK w \in Active(who) : \E a \in 1..Gap(w) : Chose(w, a)
    BY <1>15, Zenon DEF InfluencedDeposit
  <2>3. PICK a \in 1..Gap(w) : Chose(w, a)
    BY <2>2
  <2>4. /\ Own(w) /\ ledger[w].state \in Open /\ ledger[w] = wishes[w]
        /\ ledger[w].amount \in 0..ledger[w].target /\ ledger[w].target \in Nat
        /\ w \in WishIds
    BY <1>1, ActiveOwn
  <2>5. /\ a \in Int /\ 0 <= ledger[w].amount + a /\ ledger[w].amount + a <= ledger[w].target
        /\ ledger[w].amount # ledger[w].target
    BY <2>4 DEF Gap
  <2>6. ledger[w].state = "IN_PROGRESS"
    BY <1>1, <2>4, <2>5 DEF Money, GoalShape, Open
  <2>7. Fits(w, Moved(ledger[w], a)) /\ Becomes(w, Moved(ledger[w], a))
    BY <1>1, <2>4, <2>5, MovedFits
  <2>8. Money' /\ Promised
    BY <1>1, <2>3, <2>4, <2>6, <2>7, ApplyStep DEF memory
  <2>9. Memory'
    BY <1>1, <2>1, <2>3, <2>4 DEF memory, Memory
  <2>10. Control'
    BY <1>1, <1>15, <2>1, MoveOn DEF InfluencedDeposit, Goto, control, Steps
  <2> QED
    BY <2>8, <2>9, <2>10, PartsNext
<1>16. CASE Decided
  <2>1. who \in Students /\ todo = {}
    BY <1>2, <1>3, <1>16 DEF Decided
  <2>2. Control'
    BY <1>1, <1>16, <2>1, MoveOn DEF Decided, Goto, control, Steps
  <2>3. Money' /\ Promised
    <3>1. Money'
      BY <1>1, <1>16, Zenon DEF Decided, backend, goals, Money, OracleAccepts, MirrorsFaithful,
         GoalShape, Bookkeeping
    <3> QED
      BY <1>16, <3>1, Stutter DEF Decided, backend
  <2>4. Month(day) \in Nat
    BY <1>1, PolicyAssumption DEF Month, Control
  <2>5. Memory'
    BY <1>1, <1>16, <2>1, <2>4 DEF Decided, goals, Memory
  <2> QED
    BY <2>2, <2>3, <2>5, PartsNext
<1> QED
  BY <1>4, <1>5, <1>6, <1>7, <1>8, <1>9, <1>10, <1>11, <1>12, <1>13, <1>14, <1>15, <1>16

(* Every step of the simulation keeps the invariant, and is a step of the  *)
(* abstract life or none.                                                  *)
LEMMA AnyStep == IInv /\ [Next]_vars => IInv' /\ Promised
<1> SUFFICES ASSUME IInv, [Next]_vars PROVE IInv' /\ Promised
  OBVIOUS
<1>1. CASE UNCHANGED vars
  <2>1. IInv'
    BY <1>1, Zenon DEF vars, backend, goals, memory, control, IInv, TypeOK, OracleAccepts,
       MirrorsFaithful, GoalShape, Bookkeeping, LocalsLive, Own
  <2> QED
    BY <1>1, <2>1, Stutter DEF vars, backend
<1>2. CASE Finished
  BY <1>1, <1>2 DEF Finished
<1> QED
  BY <1>1, <1>2, CalendarStep, GoalStep DEF Next

(* The inductive invariant holds in every reachable state, whatever the    *)
(* students, the amounts, the days and the commands refused.               *)
THEOREM Invariance == Spec => []IInv
BY InitIInv, AnyStep, PTL DEF Spec

(* Every variable keeps its type. *)
THEOREM TypeCorrect == Spec => []TypeOK
BY Invariance, PTL DEF IInv

(* The oracle accepts every history Policy and the backend can record, with *)
(* any number of refused commands in it.                                    *)
THEOREM HistoryLawful == Spec => []OracleAccepts
BY Invariance, PTL DEF IInv

(* Policy never plans from a stale mirror. *)
THEOREM MirrorsAgree == Spec => []MirrorsFaithful
BY Invariance, PTL DEF IInv

(* The simulation implements the promised life of a goal. *)
THEOREM Refinement == Spec => ImplementsLifecycle
<1>1. Init => Lifecycle!Init
  <2> SUFFICES ASSUME Init PROVE Lifecycle!Init
    OBVIOUS
  <2>1. \A w \in WishIds : Life(w) = "absent"
    BY DEF Init, Life, NoGoal
  <2> QED
    BY <2>1 DEF Init, Lifecycle!Init, NoGoal
<1>2. IInv /\ [Next]_vars => [Lifecycle!Next]_(Lifecycle!vars)
  BY AnyStep DEF Promised
<1> QED
  BY <1>1, <1>2, Invariance, PTL DEF Spec, ImplementsLifecycle, Lifecycle!Spec

-----------------------------------------------------------------------------
(* The number of open goals.                                               *)

(* A student is present from the joining day on, and has started no goal   *)
(* before the turn of that day: the goal started at once is the first.     *)
Arrived(s) ==
  \/ JoinDay[s] < day
  \/ JoinDay[s] = day /\ pc # "join"
     /\ (s < who \/ (s = who /\ pc \notin {"grant", "purchase", "arrive"}))

Presence ==
  /\ \A s \in joined : JoinDay[s] <= day
  /\ pc \notin {"join", "grant", "done"} => who \in joined
  /\ pc = "done" => who = N + 1
  /\ \A s \in Students : goal_number[s] # 0 => Arrived(s)

CapacityInv == Presence /\ CapacityKept

(* The joining day of a student does not come after the day of a turn.     *)
LEMMA PresenceInTurn ==
  ASSUME IInv, Presence, UNCHANGED <<day, who, joined>>,
         \A s \in Students \ {who} : goal_number'[s] = goal_number[s],
         pc \notin {"join", "grant", "done"},
         pc' \in Steps \ {"join", "grant", "done", "purchase", "arrive"}
  PROVE  Presence'
<1>1. who \in joined /\ JoinDay[who] <= day
  BY DEF Presence
<1>2. day \in Nat /\ \A s \in Students : JoinDay[s] \in Nat
  BY PolicyAssumption DEF IInv, TypeOK
<1>3. \A s \in Students : Arrived(s) => Arrived(s)'
  BY DEF Arrived
<1>4. Arrived(who)'
  BY <1>1, <1>2 DEF Arrived, IInv, TypeOK
<1>5. \A s \in Students : goal_number'[s] # 0 => Arrived(s)'
  BY <1>3, <1>4 DEF Presence
<1> QED BY <1>1, <1>5 DEF Presence

(* Going on to the next student, all others have had their turn.           *)
LEMMA PresenceOver ==
  ASSUME IInv, Presence, NextPerson, UNCHANGED <<joined, goal_number>>,
         pc # "join", pc \in {"grant", "purchase", "arrive"} => goal_number[who] = 0 \/ JoinDay[who] < day,
         who \in Students
  PROVE  Presence'
<1>1. who \in Nat /\ day \in Nat /\ \A s \in Students : s \in Nat /\ JoinDay[s] \in Nat
  BY PolicyAssumption DEF IInv, TypeOK, Students
<1>2. who' = who + 1 /\ pc' = "grant" /\ day' = day
  BY DEF NextPerson
<1>3. \A s \in Students : goal_number'[s] # 0 => Arrived(s)'
  BY <1>1, <1>2 DEF Presence, Arrived
<1> QED BY <1>1, <1>2, <1>3 DEF Presence

(* Policy knows who is there.                                              *)
LEMMA PresenceKept == IInv /\ Presence /\ [Next]_vars => Presence'
<1> SUFFICES ASSUME IInv, Presence, [Next]_vars PROVE Presence'
  OBVIOUS
<1>1. /\ N \in Nat /\ who \in 1 .. (N + 1) /\ day \in Nat /\ joined \subseteq Students
      /\ \A s \in Students : s \in 1 .. N /\ JoinDay[s] \in Nat
      /\ pc \notin {"join", "grant", "done"} => who \in Students
      /\ after \in {"visit", "save", "decided", "observe"}
      /\ goal_number \in [Students -> 0 .. MaxGoals]
  BY PolicyAssumption DEF IInv, TypeOK, Students, LocalsLive
<1>2. CASE Join
  <2>1. /\ pc = "join" /\ who \in Students /\ UNCHANGED <<goal_number, day, pc>>
        /\ joined' = joined \/ (JoinDay[who] = day /\ joined' = joined \cup {who})
    BY <1>2, Zenon DEF Join, goals
  <2>2. (\A s \in joined : JoinDay[s] <= day) /\ day' = day
    BY <2>1 DEF Presence
  <2>3. \A s \in joined' : s \in joined \/ JoinDay[s] = day
    BY <2>1
  <2>4. \A s \in joined' : JoinDay[s] <= day'
    BY <1>1, <2>2, <2>3
  <2>5. \A s \in Students : goal_number'[s] # 0 => Arrived(s)'
    BY <2>1 DEF Presence, Arrived
  <2> QED BY <2>1, <2>4, <2>5 DEF Presence
<1>3. CASE StartTurns
  <2>1. pc = "join" /\ pc' = "grant" /\ UNCHANGED <<goal_number, day, joined>>
    BY <1>3, Zenon DEF StartTurns, goals, memory
  <2>2. \A s \in Students : goal_number'[s] # 0 => Arrived(s)'
    BY <2>1 DEF Presence, Arrived
  <2> QED BY <2>1, <2>2 DEF Presence
<1>4. CASE NextDay
  <2>1. /\ pc = "grant" /\ who > N /\ UNCHANGED <<goal_number, joined>>
        /\ \/ day' = day + 1 /\ pc' = "join"
           \/ pc' = "done" /\ UNCHANGED <<day, who>>
    BY <1>4, Zenon DEF NextDay, goals, memory
  <2>2. day' \in Nat /\ day <= day'
    BY <1>1, <2>1
  <2>3. \A s \in joined : JoinDay[s] \in Nat /\ JoinDay[s] <= day
    BY <1>1 DEF Presence
  <2>4. \A s \in joined' : JoinDay[s] <= day'
    BY <1>1, <2>1, <2>2, <2>3
  <2>5. \A s \in Students : goal_number'[s] # 0 => Arrived(s)'
    BY <1>1, <2>1 DEF Presence, Arrived
  <2> QED BY <1>1, <2>1, <2>4, <2>5 DEF Presence
<1>5. CASE Absent
  <2>1. /\ pc = "grant" /\ who \in Students /\ who \notin joined /\ NextPerson
        /\ UNCHANGED <<joined, goal_number>>
    BY <1>5, Zenon DEF Absent, NoCommand, goals, memory
  <2>2. goal_number[who] = 0 \/ JoinDay[who] < day
    BY <1>1, <2>1 DEF Presence, Arrived
  <2> QED BY <2>1, <2>2, PresenceOver
<1>6. CASE Grant \/ Purchase
  <2>1. /\ (pc = "grant" /\ pc' = "purchase" /\ who \in joined) \/ (pc = "purchase" /\ pc' = "arrive")
        /\ UNCHANGED <<day, who>>
    BY <1>6, Zenon DEF Grant, Purchase, Goto, control
  <2>2. UNCHANGED <<joined, goal_number>>
    BY <1>6, Zenon DEF Grant, Purchase, CashMoves, NoCommand, goals, memory
  <2>3. \A s \in Students : goal_number'[s] # 0 => Arrived(s)'
    BY <2>1, <2>2 DEF Presence, Arrived
  <2> QED BY <2>1, <2>2, <2>3 DEF Presence
<1>7. ASSUME NEW then \in {"visit", "save", "decided"}, Create(then), pc \notin {"join", "grant", "done"}
      PROVE  Presence'
  <2>1. /\ UNCHANGED <<day, who, joined>> /\ pc' \in {then, "share"}
        /\ goal_number' = [goal_number EXCEPT ![who] = @ + 1]
    BY <1>7, Zenon DEF Create, memory
  <2>2. \A s \in Students \ {who} : goal_number'[s] = goal_number[s]
    BY <1>1, <2>1
  <2>3. pc' \in Steps \ {"join", "grant", "done", "purchase", "arrive"}
    BY <2>1 DEF Steps
  <2> QED BY <1>7, <2>1, <2>2, <2>3, PresenceInTurn
<1>8. CASE \/ Arrive \/ NewGoal \/ InfluencedCreate
  <2>1. pc \notin {"join", "grant", "done"}
    BY <1>8 DEF Arrive, NewGoal, InfluencedCreate
  <2>2. CASE Create("visit") \/ Create("save") \/ Create("decided")
    BY <1>7, <2>1, <2>2
  <2>3. CASE NoCommand /\ (Goto("visit") \/ Goto("save"))
    BY <2>1, <2>3, PresenceInTurn DEF NoCommand, Goto, control, goals, memory, Steps
  <2> QED BY <1>8, <2>2, <2>3, Zenon DEF Arrive, NewGoal, InfluencedCreate
<1>9. CASE (Visit /\ NextPerson) \/ EndVisit
  <2>1. /\ pc \in {"visit", "feed"} /\ NextPerson /\ UNCHANGED <<joined, goal_number>>
    BY <1>9, Zenon DEF Visit, EndVisit, NoCommand, goals, memory
  <2> QED BY <1>1, <2>1, PresenceOver
<1>10. CASE \/ Share \/ (Visit /\ Goto("observe")) \/ Observe \/ AdjustAfterObservation
            \/ Review \/ Reviewed \/ Save \/ Confirm \/ Transfer \/ Clean \/ Reveal
            \/ InfluencedDeposit \/ Decided
  <2>1. UNCHANGED <<joined, goal_number>>
    BY <1>10, Zenon DEF Share, Visit, Observe, AdjustAfterObservation, Review, Reviewed, Save, Confirm,
       Transfer, Clean, Reveal, InfluencedDeposit, Decided, Mutate, End, Complete, Abandon, Deposit,
       Withdraw, Move, Delete, NoCommand, goals, memory
  <2>2. UNCHANGED <<day, who>> /\ pc \notin {"join", "grant", "done"}
    BY <1>10 DEF Share, Visit, Observe, AdjustAfterObservation, Review, Reviewed, Save, Confirm,
       Transfer, Clean, Reveal, InfluencedDeposit, Decided, Goto, Leave, Choose, control
  <2>3. pc' \in Steps \ {"join", "grant", "done", "purchase", "arrive"}
    BY <1>1, <1>10 DEF Share, Visit, Observe, AdjustAfterObservation, Review, Reviewed, Save, Confirm,
       Transfer, Clean, Reveal, InfluencedDeposit, Decided, Goto, Leave, Choose, Steps
  <2> QED BY <2>1, <2>2, <2>3, PresenceInTurn
<1>11. CASE UNCHANGED vars \/ Finished
  BY <1>11 DEF Finished, vars, goals, memory, control, Presence, Arrived
<1> QED
  <2>1. Visit => (Visit /\ NextPerson) \/ (Visit /\ Goto("observe"))
    BY DEF Visit
  <2> QED BY <1>2, <1>3, <1>4, <1>5, <1>6, <1>8, <1>9, <1>10, <1>11, <2>1 DEF Next

(* No command but CREATE touches a wish that was never created.            *)
Touched == \A w \in WishIds : ledger[w].state = "NONE" => ledger'[w] = ledger[w]

(* A command on a goal of the student touches no other wish.               *)
LEMMA TouchesOne ==
  ASSUME NEW w, Own(w), NEW r, NEW rule, Apply(w, r, rule) \/ Refuse, Money
  PROVE  Touched
<1>1. ledger' = [ledger EXCEPT ![w] = r] \/ ledger' = ledger
  BY Zenon DEF Apply, Refuse
<1> QED BY <1>1 DEF Touched, Money, Own

(* The open goals are the wishes whose life is open.                       *)
OpenGoals(s) == {w \in WishIds : w[1] = s /\ Life(w) = "open"}

(* The mirrors show them before a step and after it.                       *)
LEMMA ActiveIsOpen ==
  ASSUME Money, NEW s
  PROVE  Active(s) = OpenGoals(s)
BY LifeOf DEF Active, OpenGoals, Money, MirrorsFaithful

(* The same after a step.                                                  *)
LEMMA ActiveIsOpenNext ==
  ASSUME Money', NEW s
  PROVE  Active(s)' = {w \in WishIds : w[1] = s /\ Life(w)' = "open"}
BY LifeOfNext DEF Active, Money, MirrorsFaithful

(* A command that creates nothing opens nothing.                           *)
LEMMA NothingOpened ==
  ASSUME Money, Money', Promised, Touched, NEW s
  PROVE  Active(s)' \subseteq Active(s)
<1> SUFFICES ASSUME NEW w \in WishIds, Life(w)' = "open" PROVE Life(w) = "open"
  BY ActiveIsOpen, ActiveIsOpenNext DEF OpenGoals
<1>1. lives[w] = Life(w) /\ lives'[w] = Life(w)'
  BY DEF lives
<1>2. CASE Life(w) = "absent"
  <2>1. ledger[w].state = "NONE" /\ ledger'[w] = ledger[w]
    BY <1>2, LifeOf DEF Touched
  <2> QED BY <2>1, LifeOfNext DEF Open
<1>3. CASE lives' = lives
  BY <1>1, <1>3
<1>4. ASSUME NEW v \in WishIds, NEW e, e # "open", lives' = [lives EXCEPT ![v] = e]
      PROVE  Life(w) = "open"
  BY <1>1, <1>4 DEF lives
<1>5. ASSUME NEW v \in WishIds, Lifecycle!Open(v) PROVE Life(w) = "open"
  <2>1. lives[v] = "absent" /\ lives' = [lives EXCEPT ![v] = "open"]
    BY <1>5, Zenon DEF Lifecycle!Open, lives
  <2>2. Life(v) = "absent" /\ ledger[v].state = "NONE" /\ ledger'[v] = ledger[v]
    BY <2>1, LifeOf DEF lives, Touched
  <2>3. v # w
    BY <2>2, LifeOfNext DEF Open
  <2> QED BY <1>1, <2>1, <2>3 DEF lives
<1>6. ASSUME Lifecycle!Next PROVE Life(w) = "open"
  <2>1. CASE \E v \in WishIds : Lifecycle!Complete(v)
    BY <1>4, <2>1, Zenon DEF Lifecycle!Complete, lives
  <2>2. CASE \E v \in WishIds : Lifecycle!Abandon(v)
    BY <1>4, <2>2, Zenon DEF Lifecycle!Abandon, lives
  <2>3. CASE \E v \in WishIds : Lifecycle!Remove(v)
    BY <1>4, <2>3, Zenon DEF Lifecycle!Remove, lives
  <2>4. CASE \E v \in WishIds : Lifecycle!Adjust(v)
    BY <1>3, <2>4, Zenon DEF Lifecycle!Adjust, lives
  <2>5. CASE \E u, v \in WishIds : Lifecycle!Exchange(u, v)
    BY <1>3, <2>5, Zenon DEF Lifecycle!Exchange, lives
  <2> QED BY <1>5, <1>6, <2>1, <2>2, <2>3, <2>4, <2>5 DEF Lifecycle!Next
<1> QED BY <1>3, <1>6, Zenon DEF Promised, Lifecycle!vars, lives

(* Every step but the start of a goal leaves what was never created alone. *)
LEMMA TouchedStep ==
  ASSUME IInv,
         \/ Join \/ StartTurns \/ Absent \/ NextDay \/ Grant \/ Purchase \/ Visit \/ Observe
         \/ Reviewed \/ EndVisit \/ Share \/ AdjustAfterObservation \/ Review \/ Save
         \/ Confirm \/ Transfer \/ Clean \/ Reveal \/ InfluencedDeposit \/ Decided
  PROVE  Touched
<1>1. Money /\ Memory /\ Control
  BY Parts
<1>2. UNCHANGED ledger => Touched
  BY DEF Touched
<1>3. CASE \/ Join \/ StartTurns \/ Absent \/ NextDay \/ Grant \/ Purchase \/ Visit \/ Observe
           \/ Reviewed \/ EndVisit \/ Decided \/ NoCommand
  BY <1>2, <1>3, Zenon DEF Join, StartTurns, Absent, NextDay, Grant, Purchase, CashMoves, Visit,
     Observe, Reviewed, EndVisit, Decided, NoCommand, backend
<1>4. ASSUME NEW w, Own(w), NEW r, NEW rule, Mutate(w, r, rule) PROVE Touched
  BY <1>1, <1>4, TouchesOne, Zenon DEF Mutate
<1>5. ASSUME NEW w, Own(w), Complete(w) \/ Abandon(w) PROVE Touched
  BY <1>1, <1>5, TouchesOne, Zenon DEF Complete, Abandon, End
<1>6. ASSUME NEW w, Own(w), NEW a, Deposit(w, a) \/ Withdraw(w, a) PROVE Touched
  BY <1>4, <1>6, Zenon DEF Deposit, Withdraw
<1>7. Active(who) \in SUBSET WishIds /\ \A w \in Active(who) : Own(w)
  BY <1>1, ActiveOwn
<1>8. pc \in {"share", "confirm"} => Own(chosen)
  BY <1>1 DEF Control, LocalsLive
<1>9. CASE Share
  BY <1>4, <1>8, <1>9 DEF Share
<1>10. CASE AdjustAfterObservation
  BY <1>3, <1>6, <1>7, <1>10, Zenon DEF AdjustAfterObservation
<1>11. CASE Review
  <2>1. First(todo) \in todo /\ Own(First(todo))
    BY <1>1, <1>11, FirstIn DEF Review, Control, LocalsLive
  <2> QED BY <1>3, <1>5, <1>11, <2>1, Zenon DEF Review
<1>12. CASE Save
  <2>1. CASE Active(who) = {}
    BY <1>3, <1>12, <2>1, Zenon DEF Save
  <2>2. CASE Active(who) # {}
    <3>1. Own(Preferred(who))
      BY <1>7, <2>2, FirstIn DEF Preferred
    <3> QED BY <1>3, <1>6, <1>12, <2>2, <3>1, Zenon DEF Save
  <2> QED BY <2>1, <2>2
<1>13. CASE Confirm
  BY <1>3, <1>5, <1>6, <1>8, <1>13 DEF Confirm
<1>14. CASE Transfer
  <2>1. CASE Cardinality(Active(who)) >= 2
    <3>1. PICK v, w : /\ v = First(Active(who)) /\ w = Second(Active(who)) /\ Own(v) /\ Own(w)
      BY <1>7, <2>1, SecondIn
    <3>2. ASSUME NEW a, Move(v, w, a) PROVE Touched
      <4>1. ledger' = ledger \/ ledger' = [ledger EXCEPT ![v] = Moved(ledger[v], -a), ![w] = Moved(ledger[w], a)]
        BY <3>2, Zenon DEF Move, Refuse
      <4> QED BY <1>1, <3>1, <4>1 DEF Touched, Money, Own
    <3> QED BY <1>3, <1>14, <3>1, <3>2, Zenon DEF Transfer
  <2> QED BY <1>3, <1>14, <2>1, Zenon DEF Transfer
<1>15. CASE Clean
  <2>1. \A w \in Ending(who) : Own(w)
    BY <1>1 DEF Ending, Own, Money, MirrorsFaithful
  <2>2. ASSUME NEW w, Own(w), Delete(w) PROVE Touched
    BY <1>1, <2>2, TouchesOne, Zenon DEF Delete
  <2> QED BY <1>3, <1>15, <2>1, <2>2, Zenon DEF Clean
<1>16. CASE Reveal
  BY <1>3, <1>4, <1>7, <1>16, FirstIn DEF Reveal
<1>17. CASE InfluencedDeposit
  BY <1>1, <1>7, <1>17, TouchesOne, Zenon DEF InfluencedDeposit
<1> QED
  BY <1>3, <1>9, <1>10, <1>11, <1>12, <1>13, <1>14, <1>15, <1>16, <1>17

(* There are only so many wishes.                                          *)
LEMMA WishIdsFinite == IsFiniteSet(WishIds)
<1>1. IsFiniteSet(1 .. N) /\ IsFiniteSet(1 .. MaxGoals)
  BY FS_Interval, PolicyAssumption
<1> QED BY <1>1, FS_Product DEF WishIds, Students

(* A goal that is started joins the student's open goals, and no other.    *)
LEMMA CreateOpens ==
  ASSUME Money, Money', who \in Students, NEW then, Create(then), NEW s \in Students
  PROVE  /\ Active(s)' \subseteq Active(s) \cup {<<who, goal_number[who] + 1>>}
         /\ s # who => Active(s)' \subseteq Active(s)
<1>1. PICK w : w = <<who, goal_number[who] + 1>>
  OBVIOUS
<1>2. /\ (\E t \in Targets : ledger' = [ledger EXCEPT ![w] = NewWish(t)]) \/ ledger' = ledger
      /\ removed' = removed
  BY <1>1, Zenon DEF Create, Refuse
<1>3. \A v \in WishIds : v # w => Life(v)' = Life(v)
  BY <1>2 DEF Money, Life
<1>4. Active(s)' \subseteq Active(s) \cup {w} /\ (s # who => w \notin Active(s)')
  BY <1>1, <1>3, ActiveIsOpen, ActiveIsOpenNext DEF OpenGoals
<1> QED BY <1>1, <1>4

(* A student gains an open goal only beside less than capacity of them.    *)
LEMMA CapacityStep == IInv /\ CapacityInv /\ [Next]_vars => CapacityKept'
<1> SUFFICES ASSUME IInv, CapacityInv, [Next]_vars, NEW s \in Students
             PROVE  Cardinality(Active(s))' <= GoalCapacity[s]
  BY DEF CapacityKept
<1>1. /\ Money /\ Memory /\ Control /\ Money' /\ Promised
      /\ Cardinality(Active(s)) <= GoalCapacity[s] /\ GoalCapacity[s] \in Nat \ {0}
  <2>1. IInv' /\ Promised
    BY AnyStep
  <2> QED BY <2>1, Parts, PartsNext, PolicyAssumption DEF CapacityInv, CapacityKept
<1>2. Active(s) \in SUBSET WishIds /\ IsFiniteSet(Active(s)) /\ Cardinality(Active(s)) \in Nat
  BY WishIdsFinite, FS_Subset, FS_CardinalityType DEF Active
<1>3. ASSUME Active(s)' \subseteq Active(s) PROVE Cardinality(Active(s))' <= GoalCapacity[s]
  <2>1. Cardinality(Active(s)') <= Cardinality(Active(s)) /\ Cardinality(Active(s)') \in Nat
    BY <1>2, <1>3, FS_Subset, FS_CardinalityType
  <2> QED BY <1>1, <1>2, <2>1
<1>4. ASSUME NEW w, Active(s)' \subseteq Active(s) \cup {w}, Active(s) = {} \/ Room(s)
      PROVE Cardinality(Active(s))' <= GoalCapacity[s]
  <2>1. IsFiniteSet(Active(s) \cup {w}) /\ Cardinality(Active(s) \cup {w}) <= Cardinality(Active(s)) + 1
    BY <1>2, FS_AddElement
  <2>2. /\ Cardinality(Active(s)') <= Cardinality(Active(s) \cup {w})
        /\ Cardinality(Active(s)') \in Nat /\ Cardinality(Active(s) \cup {w}) \in Nat
    BY <1>4, <2>1, FS_Subset, FS_CardinalityType
  <2>3. Cardinality(Active(s)) < GoalCapacity[s]
    BY <1>1, <1>4, FS_EmptySet DEF Room
  <2> QED BY <1>1, <1>2, <2>1, <2>2, <2>3
<1>5. ASSUME NEW then, Create(then), who \in Students, Active(who) = {} \/ Room(who)
      PROVE Cardinality(Active(s))' <= GoalCapacity[s]
  <2>1. /\ Active(s)' \subseteq Active(s) \cup {<<who, goal_number[who] + 1>>}
        /\ s # who => Active(s)' \subseteq Active(s)
    BY <1>1, <1>5, CreateOpens
  <2> QED BY <1>3, <1>4, <1>5, <2>1
<1>6. CASE Touched
  BY <1>1, <1>3, <1>6, NothingOpened
<1>7. pc \notin {"join", "grant", "done"} => who \in Students
  BY <1>1 DEF Control, LocalsLive
<1>8. CASE Arrive
  <2>1. CASE NoCommand
    BY <1>6, <2>1 DEF NoCommand, backend, Touched
  <2>2. CASE Create("visit") /\ JoinDay[who] = day
    <3>1. who \in Students /\ pc = "arrive"
      BY <1>7, <1>8 DEF Arrive
    <3>2. goal_number[who] = 0
      BY <1>1, <2>2, <3>1, PolicyAssumption DEF CapacityInv, Presence, Arrived, Control, Students
    <3>3. \A w \in WishIds : w[1] = who => ledger[w].state = "NONE"
      BY <1>1, <3>2 DEF Money, Bookkeeping, WishIds
    <3>4. Active(who) = {}
      BY <1>1, <3>3 DEF Active, Money, MirrorsFaithful, Open
    <3> QED BY <1>5, <2>2, <3>1, <3>4
  <2> QED BY <1>8, <2>1, <2>2 DEF Arrive
<1>9. CASE NewGoal
  <2>1. CASE NoCommand
    BY <1>6, <2>1 DEF NoCommand, backend, Touched
  <2>2. CASE Create("save") /\ (Active(who) = {} \/ Room(who))
    BY <1>5, <1>7, <1>9, <2>2 DEF NewGoal
  <2> QED BY <1>9, <2>1, <2>2 DEF NewGoal
<1>10. CASE InfluencedCreate
  BY <1>5, <1>7, <1>10 DEF InfluencedCreate
<1>11. CASE UNCHANGED vars \/ Finished
  BY <1>6, <1>11 DEF Finished, vars, backend, Touched
<1> QED
  BY <1>6, <1>8, <1>9, <1>10, <1>11, TouchedStep DEF Next

(* However the commands are answered, no student ever has more open goals  *)
(* than goalCapacity, although joining, goal_actions() and influence()     *)
(* start goals, and joining does not look at the capacity.                 *)
THEOREM CapacityRespected == Spec => []CapacityKept
<1>1. Init => CapacityInv
  <2> SUFFICES ASSUME Init PROVE CapacityInv
    OBVIOUS
  <2>1. \A s : Active(s) = {}
    BY DEF Init, Active, NoGoal, Open
  <2> QED BY <2>1, FS_EmptySet, PolicyAssumption DEF Init, CapacityInv, CapacityKept, Presence
<1>2. IInv /\ CapacityInv /\ [Next]_vars => CapacityInv'
  BY PresenceKept, CapacityStep DEF CapacityInv
<1>3. CapacityInv => CapacityKept
  BY DEF CapacityInv
<1> QED BY <1>1, <1>2, <1>3, Invariance, PTL DEF Spec

-----------------------------------------------------------------------------
(* Money put aside, and where a deficit comes from.                        *)

(* What a student's wishes hold, those included that ended or are removed. *)
Of(s)    == {w \in WishIds : w[1] = s}
Total(s) == SumFunctionOnSet(Amounts(ledger), Of(s))
Totals   == \A s \in Students : /\ Total(s) \in Nat
                                 /\ SetAside(s) = Total(s)
                                 /\ Allocation(s) = Total(s)

(* A wish that is left out of a sum does not count when it holds nothing.  *)
LEMMA SumOverOf ==
  ASSUME NEW table, \A w \in WishIds : table[w].amount \in Nat, NEW s,
         NEW T \in SUBSET Of(s), \A w \in Of(s) \ T : table[w].amount = 0
  PROVE  /\ SumFunctionOnSet(Amounts(table), T) = SumFunctionOnSet(Amounts(table), Of(s))
         /\ SumFunctionOnSet(Amounts(table), Of(s)) \in Nat
<1> DEFINE f == Amounts(table)
<1>1. IsFiniteSet(Of(s)) /\ Of(s) \subseteq WishIds
  BY WishIdsFinite, FS_Subset DEF Of
<1>2. /\ \A x \in Of(s) : f[x] \in Nat /\ f[x] \in Int
      /\ \A x \in Of(s) \ T : f[x] = 0
  BY <1>1 DEF Amounts
<1> HIDE DEF f
<1>3. SumFunctionOnSet(f, T) = SumFunctionOnSet(f, Of(s))
  BY <1>1, <1>2, SumOverPart
<1>4. SumFunctionOnSet(f, Of(s)) \in Nat
  BY <1>1, <1>2, SumOfPart
<1> QED
  BY <1>3, <1>4 DEF f

(* Ended and removed wishes hold nothing, so that allocation() adds up as  *)
(* much as the backend stores for the student.                             *)
LEMMA TotalsAgree == Money => Totals
<1> SUFFICES ASSUME Money, NEW s \in Students
             PROVE  Total(s) \in Nat /\ SetAside(s) = Total(s) /\ Allocation(s) = Total(s)
  BY DEF Totals
<1>1. /\ \A w \in WishIds : ledger[w].amount \in Nat
      /\ \A w \in WishIds : ledger[w].state \notin Open \/ w \in removed => ledger[w].amount = 0
      /\ wishes = ledger /\ deleted = removed
  BY DEF Money, GoalShape, Bookkeeping, MirrorsFaithful, Open
<1> DEFINE Kept == {w \in WishIds \ removed : w[1] = s}
<1>2. Kept \in SUBSET Of(s) /\ \A w \in Of(s) \ Kept : ledger[w].amount = 0
  BY <1>1 DEF Of
<1>3. Active(s) \in SUBSET Of(s) /\ \A w \in Of(s) \ Active(s) : ledger[w].amount = 0
  BY <1>1 DEF Of, Active
<1>4. SetAside(s) = Total(s) /\ Total(s) \in Nat
  BY <1>1, <1>2, SumOverOf DEF SetAside, Total
<1>5. Allocation(s) = Total(s)
  BY <1>1, <1>3, SumOverOf DEF Allocation, Total
<1> QED
  BY <1>4, <1>5

(* The same after a step. *)
LEMMA TotalsAgreeNext == Money' => Totals'
BY TotalsAgree, PTL

(* What the property says of one step.                                     *)
SpendingOnly == \A s \in Students : Overdraft(s)' > Overdraft(s) => funds'[s] < funds[s]

(* With no more put aside, or no more than the funds cover, a deficit      *)
(* grows only with the funds falling.                                      *)
LEMMA NoMoreAside ==
  ASSUME Money, Money', \A s \in Students : Total(s)' <= Total(s) \/ Total(s)' <= funds'[s]
  PROVE  SpendingOnly
<1> SUFFICES ASSUME NEW s \in Students, Overdraft(s)' > Overdraft(s)
             PROVE  funds'[s] < funds[s]
  BY DEF SpendingOnly
<1>1. PICK t \in Nat, u \in Nat : /\ t = Total(s) /\ u = Total(s)'
                                  /\ SetAside(s) = t /\ SetAside(s)' = u
  BY TotalsAgree, TotalsAgreeNext DEF Totals
<1>2. PICK f \in Int, g \in Int : f = funds[s] /\ g = funds'[s]
  BY DEF Money
<1>3. /\ Overdraft(s) = (IF t > f THEN t - f ELSE 0)
      /\ Overdraft(s)' = (IF u > g THEN u - g ELSE 0)
  BY <1>1, <1>2 DEF Overdraft
<1>4. u <= t \/ u <= g
  BY <1>1, <1>2
<1> QED
  BY <1>2, <1>3, <1>4

(* A step that puts nothing into any wish.                                 *)
Lowered == \A w \in WishIds : ledger'[w].amount <= ledger[w].amount

(* Such a step puts nothing more aside.                                    *)
LEMMA LoweredTotals ==
  ASSUME Money, Money', Lowered
  PROVE  SpendingOnly
<1>1. \A w \in WishIds : ledger[w].amount \in Nat /\ ledger'[w].amount \in Nat
  BY DEF Money, GoalShape
<1>2. ASSUME NEW s \in Students PROVE Total(s)' <= Total(s)
  <2>1. IsFiniteSet(Of(s)) /\ Of(s) \subseteq WishIds
    BY WishIdsFinite, FS_Subset DEF Of
  <2> DEFINE f == Amounts(ledger)
             g == Amounts(ledger')
  <2>2. \A w \in Of(s) : f[w] \in Int /\ g[w] \in Int /\ g[w] <= f[w]
    BY <1>1, <2>1 DEF Amounts, Lowered
  <2>3. Total(s) = SumFunctionOnSet(f, Of(s)) /\ Total(s)' = SumFunctionOnSet(g, Of(s))
    BY DEF Total, Amounts, Of
  <2> HIDE DEF f, g
  <2> QED
    BY <2>1, <2>2, <2>3, SumMonotone
<1> QED
  BY <1>2, NoMoreAside

(* A command that stores no more than the wish holds lowers what is held.  *)
LEMMA StoredLess ==
  ASSUME Money, NEW w, NEW r, r.amount <= ledger[w].amount,
         ledger' = [ledger EXCEPT ![w] = r] \/ ledger' = ledger
  PROVE  Lowered
<1>1. \A v \in WishIds : ledger[v].amount \in Nat
  BY DEF Money, GoalShape
<1>2. ASSUME NEW v \in WishIds PROVE ledger'[v] = ledger[v] \/ (v = w /\ ledger'[v] = r)
  BY DEF Money
<1> QED BY <1>1, <1>2 DEF Lowered

(* Every step but a start of a goal, a deposit or a transfer is such one.  *)
LEMMA LoweredStep ==
  ASSUME IInv,
         \/ Join \/ StartTurns \/ Absent \/ NextDay \/ Grant \/ Purchase \/ Visit \/ Observe
         \/ Reviewed \/ EndVisit \/ Share \/ AdjustAfterObservation \/ Review
         \/ Confirm \/ Clean \/ Reveal \/ Decided \/ NoCommand
  PROVE  Lowered
<1>1. Money /\ Memory /\ Control
  BY Parts
<1>2. \A v \in WishIds : ledger[v] \in Wish /\ ledger[v].amount \in Nat
  BY <1>1 DEF Money, GoalShape
<1>3. CASE \/ Join \/ StartTurns \/ Absent \/ NextDay \/ Grant \/ Purchase \/ Visit \/ Observe
           \/ Reviewed \/ EndVisit \/ Decided \/ NoCommand
  <2>1. ledger' = ledger
    BY <1>3, Zenon DEF Join, StartTurns, Absent, NextDay, Grant, Purchase, CashMoves, Visit,
       Observe, Reviewed, EndVisit, Decided, NoCommand, backend
  <2> QED BY <1>2, <2>1 DEF Lowered
<1>4. ASSUME NEW w, Own(w), Mutate(w, Bumped(ledger[w]), TRUE) PROVE Lowered
  <2>1. ledger' = [ledger EXCEPT ![w] = Bumped(ledger[w])] \/ ledger' = ledger
    BY <1>4, Zenon DEF Mutate, Apply, Refuse
  <2>2. Bumped(ledger[w]).amount <= ledger[w].amount
    BY <1>2, <1>4, BumpedWish DEF Own
  <2> QED BY <1>1, <2>1, <2>2, StoredLess
<1>5. ASSUME NEW w, Own(w), Complete(w) \/ Abandon(w) PROVE Lowered
  <2>1. PICK how \in {"COMPLETED", "ABANDONED"} :
          ledger' = [ledger EXCEPT ![w] = Ended(ledger[w], how)] \/ ledger' = ledger
    BY <1>5, Zenon DEF Complete, Abandon, End, Apply, Refuse
  <2>2. Ended(ledger[w], how).amount = 0
    BY <1>2, <1>5, EndedWish DEF Own
  <2>3. Ended(ledger[w], how).amount <= ledger[w].amount
    BY <1>2, <1>5, <2>2 DEF Own
  <2> QED BY <1>1, <2>1, <2>3, StoredLess
<1>6. ASSUME NEW w, Own(w), NEW a \in Nat, Withdraw(w, a) PROVE Lowered
  <2>1. ledger' = [ledger EXCEPT ![w] = Moved(ledger[w], -a)] \/ ledger' = ledger
    BY <1>6, Zenon DEF Withdraw, Mutate, Apply, Refuse
  <2>2. -a \in Int /\ ledger[w] \in Wish /\ ledger[w].amount \in Nat
    BY <1>2, <1>6 DEF Own
  <2>3. Moved(ledger[w], -a).amount = ledger[w].amount + (-a)
    BY <2>2, MovedWish
  <2>4. Moved(ledger[w], -a).amount <= ledger[w].amount
    BY <1>6, <2>2, <2>3
  <2> QED BY <1>1, <2>1, <2>4, StoredLess
<1>7. /\ Active(who) \in SUBSET WishIds
      /\ \A w \in Active(who) : Own(w) /\ wishes[w].amount \in Nat
  BY <1>1, <1>2, ActiveOwn
<1>8. pc \in {"share", "confirm"} => Own(chosen)
  BY <1>1 DEF Control, LocalsLive
<1>9. CASE Share
  BY <1>4, <1>8, <1>9 DEF Share
<1>10. CASE AdjustAfterObservation
  <2>1. ASSUME NEW w \in Active(who), NEW a \in 1 .. wishes[w].amount, Withdraw(w, a)
        PROVE  Lowered
    <3>1. a \in Nat
      BY <1>7
    <3> QED BY <1>6, <1>7, <2>1, <3>1
  <2> QED BY <1>3, <1>10, <2>1, Zenon DEF AdjustAfterObservation
<1>11. CASE Review
  <2>1. First(todo) \in todo /\ Own(First(todo))
    BY <1>1, <1>11, FirstIn DEF Review, Control, LocalsLive
  <2> QED BY <1>3, <1>5, <1>11, <2>1, Zenon DEF Review
<1>12. CASE Confirm
  <2>1. WithdrawUnit \in Nat
    BY PolicyAssumption
  <2> QED BY <1>3, <1>5, <1>6, <1>8, <1>12, <2>1 DEF Confirm
<1>13. CASE Clean
  <2>1. \A w \in Ending(who) : Own(w)
    BY <1>1 DEF Ending, Own, Money, MirrorsFaithful
  <2>2. ASSUME NEW w, Own(w), Delete(w) PROVE Lowered
    <3>1. PICK r : /\ r = [Bumped(ledger[w]) EXCEPT !.amount = 0]
                   /\ ledger' = [ledger EXCEPT ![w] = r] \/ ledger' = ledger
      BY <2>2, Zenon DEF Delete, Apply, Refuse
    <3>2. r.amount = 0 /\ ledger[w].amount \in Nat
      BY <1>2, <2>2, <3>1, BumpedWish DEF Own, Wish
    <3>3. r.amount <= ledger[w].amount
      BY <3>2
    <3> QED BY <1>1, <3>1, <3>3, StoredLess
  <2> QED BY <1>3, <1>13, <2>1, <2>2, Zenon DEF Clean
<1>14. CASE Reveal
  BY <1>3, <1>4, <1>7, <1>14, FirstIn DEF Reveal
<1> QED
  BY <1>3, <1>9, <1>10, <1>11, <1>12, <1>13, <1>14

(* A new goal holds nothing either.                                        *)
LEMMA CreateLowered ==
  ASSUME Money, NEW then, Create(then)
  PROVE  Lowered
<1>1. \A v \in WishIds : ledger[v].amount \in Nat
  BY DEF Money, GoalShape
<1>2. PICK w : /\ w = <<who, goal_number[who] + 1>>
               /\ (\E t \in Targets : ledger' = [ledger EXCEPT ![w] = NewWish(t)]) \/ ledger' = ledger
  BY Zenon DEF Create, Refuse
<1>3. CASE ledger' = ledger
  BY <1>1, <1>3 DEF Lowered
<1>4. ASSUME NEW t \in Targets, ledger' = [ledger EXCEPT ![w] = NewWish(t)] PROVE Lowered
  BY <1>1, <1>4 DEF Lowered, NewWish, Money
<1> QED BY <1>2, <1>3, <1>4

(* One wish of a student changed changes what the student has put aside by *)
(* as much, and what nobody else has.                                      *)
LEMMA TotalChanged ==
  ASSUME NEW f, NEW g, NEW w \in WishIds,
         \A v \in WishIds : f[v] \in Int, \A v \in WishIds : g[v] \in Int,
         \A v \in WishIds \ {w} : g[v] = f[v], NEW s
  PROVE  SumFunctionOnSet(g, Of(s)) =
           IF w[1] = s THEN SumFunctionOnSet(f, Of(s)) - f[w] + g[w]
           ELSE SumFunctionOnSet(f, Of(s))
<1>1. IsFiniteSet(Of(s)) /\ Of(s) \subseteq WishIds /\ (w[1] = s <=> w \in Of(s))
  BY WishIdsFinite, FS_Subset DEF Of
<1>2. /\ \A v \in Of(s) : f[v] \in Int /\ g[v] \in Int
      /\ \A v \in Of(s) \ {w} : g[v] = f[v]
  BY <1>1
<1>3. CASE w \in Of(s)
  BY <1>1, <1>2, <1>3, SumChanged
<1>4. CASE w \notin Of(s)
  BY <1>1, <1>2, <1>4, SumAgrees
<1> QED
  BY <1>1, <1>3, <1>4

(* A deposit takes from what is not yet put aside.                         *)
LEMMA DepositCovered ==
  ASSUME Money, Money', who \in Students, NEW w \in Active(who), NEW step \in SavingSteps,
         NEW a \in 1 .. Gap(w), a = Least({cash[who] - Allocation(who), Gap(w), step}),
         ledger' = [ledger EXCEPT ![w] = Moved(ledger[w], a)] \/ ledger' = ledger,
         funds' = funds
  PROVE  SpendingOnly
<1>1. /\ w \in WishIds /\ w[1] = who /\ ledger[w] = wishes[w] /\ ledger[w] \in Wish
      /\ \A v \in WishIds : ledger[v] \in Wish /\ ledger[v].amount \in Int
      /\ \A v \in WishIds : ledger'[v].amount \in Int
  BY ActiveOwn DEF Money, Own, GoalShape
<1>2. PICK g \in Int, k \in Int, t \in Nat :
        /\ g = Gap(w) /\ k = step /\ t = Total(who)
        /\ t = Allocation(who) /\ cash[who] \in Int /\ cash[who] = funds[who]
  BY <1>1, TotalsAgree, PolicyAssumption DEF Totals, Gap, Wish, Money, MirrorsFaithful, GoalShape
<1>3. PICK c \in Int : c = cash[who]
  BY <1>2
<1>4. a \in Int /\ a <= c - t
  <2>1. a = Least({c - t, g, k}) /\ c - t \in Int
    BY <1>2, <1>3
  <2>2. /\ Least({c - t, g, k}) <= c - t
        /\ Least({c - t, g, k}) \in {c - t, g, k}
    BY <2>1, LeastOfThree
  <2> QED BY <2>1, <2>2
<1>5. CASE ledger' = ledger
  BY <1>1, <1>5, LoweredTotals DEF Lowered, Money, GoalShape
<1>6. CASE ledger' = [ledger EXCEPT ![w] = Moved(ledger[w], a)]
  <2> DEFINE f == Amounts(ledger)
             h == Amounts(ledger')
  <2>1. /\ \A v \in WishIds : f[v] \in Int
        /\ \A v \in WishIds : h[v] \in Int
        /\ \A v \in WishIds \ {w} : h[v] = f[v]
    BY <1>1, <1>6 DEF Amounts, Money
  <2>2. /\ f[w] = ledger[w].amount /\ h[w] = ledger'[w].amount
        /\ ledger'[w] = Moved(ledger[w], a)
    BY <1>1, <1>6 DEF Amounts, Money
  <2>3. h[w] = f[w] + a
    <3>1. Moved(ledger[w], a).amount = ledger[w].amount + a
      BY <1>1, <1>4, MovedWish
    <3> QED BY <2>2, <3>1, Zenon
  <2>4. \A s : Total(s) = SumFunctionOnSet(f, Of(s)) /\ Total(s)' = SumFunctionOnSet(h, Of(s))
    BY DEF Total, Amounts, Of
  <2> HIDE DEF f, h
  <2>5. ASSUME NEW s \in Students PROVE Total(s)' <= Total(s) \/ Total(s)' <= funds'[s]
    <3>1. Total(s)' = IF who = s THEN Total(s) - f[w] + h[w] ELSE Total(s)
      BY <1>1, <2>1, <2>4, TotalChanged
    <3>2. PICK i \in Int, j \in Int : i = f[w] /\ j = h[w] /\ j = i + a
      BY <1>1, <2>1, <2>3
    <3>3. PICK u \in Nat : u = Total(s)
      BY TotalsAgree DEF Totals
    <3>4. CASE who = s
      <4>1. Total(s)' = t - i + j /\ funds'[s] = c
        BY <1>2, <1>3, <3>1, <3>2, <3>4
      <4> QED BY <1>4, <3>2, <4>1
    <3>5. CASE who # s
      BY <3>1, <3>3, <3>5
    <3> QED BY <3>4, <3>5
  <2> QED BY <2>5, NoMoreAside
<1> QED
  BY <1>5, <1>6

(* A transfer takes from one goal what it gives to the other.              *)
LEMMA TransferEven ==
  ASSUME Money, Money', NEW v, NEW w, Own(v), Own(w), v # w, NEW a \in Nat, Move(v, w, a)
  PROVE  SpendingOnly
<1>1. /\ v \in WishIds /\ w \in WishIds /\ v[1] = w[1]
      /\ ledger[v] \in Wish /\ ledger[w] \in Wish
      /\ \A u \in WishIds : ledger[u].amount \in Nat
      /\ \A u \in WishIds : ledger'[u].amount \in Int
  BY DEF Money, Own, GoalShape
<1>2. \/ ledger' = ledger
      \/ ledger' = [ledger EXCEPT ![v] = Moved(ledger[v], -a), ![w] = Moved(ledger[w], a)]
  BY Zenon DEF Move, Refuse
<1>3. CASE ledger' = ledger
  BY <1>1, <1>3, LoweredTotals DEF Lowered
<1>4. CASE ledger' = [ledger EXCEPT ![v] = Moved(ledger[v], -a), ![w] = Moved(ledger[w], a)]
  <2> DEFINE f == Amounts(ledger)
             h == Amounts(ledger')
             m == [f EXCEPT ![v] = h[v]]
  <2>1. /\ f[v] = ledger[v].amount /\ h[v] = ledger'[v].amount
        /\ f[w] = ledger[w].amount /\ h[w] = ledger'[w].amount
        /\ ledger'[v] = Moved(ledger[v], -a) /\ ledger'[w] = Moved(ledger[w], a)
    BY <1>1, <1>4 DEF Amounts, Money
  <2>2. a \in Int /\ -a \in Int
    OBVIOUS
  <2>3. h[v] = f[v] + (-a) /\ h[w] = f[w] + a
    <3>1. /\ Moved(ledger[v], -a).amount = ledger[v].amount + (-a)
          /\ Moved(ledger[w], a).amount = ledger[w].amount + a
      BY <1>1, <2>2, MovedWish
    <3> QED BY <2>1, <3>1, Zenon
  <2>4. /\ \A u \in WishIds : f[u] \in Int /\ h[u] \in Int
        /\ \A u \in WishIds \ {v, w} : h[u] = f[u]
    BY <1>1, <1>4 DEF Amounts, Money
  <2>5. \A s : Total(s) = SumFunctionOnSet(f, Of(s)) /\ Total(s)' = SumFunctionOnSet(h, Of(s))
    BY DEF Total, Amounts, Of
  <2>6. DOMAIN f = WishIds
    BY DEF Amounts
  <2> HIDE DEF f, h
  <2>7. /\ \A u \in WishIds : f[u] \in Int
        /\ \A u \in WishIds : h[u] \in Int
        /\ \A u \in WishIds : m[u] \in Int
        /\ \A u \in WishIds \ {v} : m[u] = f[u]
        /\ \A u \in WishIds \ {w} : h[u] = m[u]
        /\ m[v] = h[v] /\ m[w] = f[w]
    BY <1>1, <2>4, <2>6
  <2> HIDE DEF m
  <2>8. ASSUME NEW s \in Students PROVE Total(s)' <= Total(s) \/ Total(s)' <= funds'[s]
    <3>1. PICK x : x = SumFunctionOnSet(m, Of(s))
      OBVIOUS
    <3>2. x = IF v[1] = s THEN Total(s) - f[v] + m[v] ELSE Total(s)
      <4>1. SumFunctionOnSet(m, Of(s)) =
              IF v[1] = s THEN SumFunctionOnSet(f, Of(s)) - f[v] + m[v]
              ELSE SumFunctionOnSet(f, Of(s))
        <5>1. /\ v \in WishIds
              /\ \A y \in WishIds : f[y] \in Int
              /\ \A y \in WishIds : m[y] \in Int
              /\ \A y \in WishIds \ {v} : m[y] = f[y]
          BY <1>1, <2>7
        <5> QED BY <5>1, TotalChanged
      <4> QED BY <2>5, <3>1, <4>1, Zenon
    <3>3. Total(s)' = IF w[1] = s THEN x - m[w] + h[w] ELSE x
      BY <1>1, <2>5, <2>7, <3>1, TotalChanged
    <3>4. PICK u \in Nat, i \in Int, j \in Int : u = Total(s) /\ i = f[v] /\ j = f[w]
      BY <1>1, <2>7, TotalsAgree DEF Totals
    <3>5. CASE v[1] = s
      <4>1. x = u - i + (i + (-a)) /\ Total(s)' = x - j + (j + a)
        BY <1>1, <2>3, <2>7, <3>2, <3>3, <3>4, <3>5
      <4>2. x = u - a /\ x \in Int
        BY <4>1
      <4>3. Total(s)' = u
        BY <4>1, <4>2
      <4> QED BY <3>4, <4>3
    <3>6. CASE v[1] # s
      BY <1>1, <3>2, <3>3, <3>4, <3>6
    <3> QED BY <3>5, <3>6
  <2> QED BY <2>8, NoMoreAside
<1> QED
  BY <1>2, <1>3, <1>4

(* No step of Policy and the backend deepens a deficit but by spending.    *)
LEMMA SpendingStep == IInv /\ [Next]_vars => SpendingOnly
<1> SUFFICES ASSUME IInv, [Next]_vars PROVE SpendingOnly
  OBVIOUS
<1>1. /\ Money /\ Control /\ Money'
      /\ pc \notin {"join", "grant", "done"} => who \in Students
  <2>1. IInv'
    BY AnyStep
  <2>2. Money /\ Control /\ Money'
    BY <2>1, Parts, PartsNext
  <2> QED BY <2>2 DEF Control, LocalsLive
<1>2. Lowered => SpendingOnly
  BY <1>1, LoweredTotals
<1>3. NoCommand => SpendingOnly
  BY <1>2, LoweredStep
<1>4. ASSUME NEW then, Create(then) PROVE SpendingOnly
  BY <1>1, <1>2, <1>4, CreateLowered
<1>5. CASE Arrive \/ NewGoal \/ InfluencedCreate
  BY <1>3, <1>4, <1>5, Zenon DEF Arrive, NewGoal, InfluencedCreate
<1>6. CASE Save
  <2>1. CASE Active(who) = {}
    BY <1>3, <1>6, <2>1, Zenon DEF Save
  <2>2. CASE Active(who) # {}
    <3>1. Preferred(who) \in Active(who) /\ who \in Students
      BY <1>1, <1>6, <2>2, ActiveOwn, FirstIn DEF Preferred, Save
    <3>2. ASSUME NEW step \in SavingSteps, NEW a \in 1 .. Gap(Preferred(who)),
                 a = Least({cash[who] - Allocation(who), Gap(Preferred(who)), step}),
                 Deposit(Preferred(who), a)
          PROVE  SpendingOnly
      <4>1. /\ \/ ledger' = [ledger EXCEPT ![Preferred(who)] = Moved(ledger[Preferred(who)], a)]
               \/ ledger' = ledger
            /\ funds' = funds
        BY <3>2, Zenon DEF Deposit, Mutate, Apply, Refuse
      <4> QED BY <1>1, <3>1, <3>2, <4>1, DepositCovered
    <3> QED BY <1>3, <1>6, <2>2, <3>2, Zenon DEF Save
  <2> QED BY <2>1, <2>2
<1>7. CASE InfluencedDeposit
  <2>1. PICK w \in Active(who), step \in SavingSteps : \E a \in 1 .. Gap(w) :
          /\ a = Least({cash[who] - Allocation(who), Gap(w), step})
          /\ ledger' = [ledger EXCEPT ![w] = Moved(ledger[w], a)] \/ ledger' = ledger
          /\ funds' = funds
    BY <1>7, Zenon DEF InfluencedDeposit, Apply, Refuse
  <2>2. who \in Students
    BY <1>1, <1>7 DEF InfluencedDeposit
  <2>3. PICK a \in 1 .. Gap(w) :
          /\ a = Least({cash[who] - Allocation(who), Gap(w), step})
          /\ ledger' = [ledger EXCEPT ![w] = Moved(ledger[w], a)] \/ ledger' = ledger
          /\ funds' = funds
    BY <2>1
  <2> QED BY <1>1, <2>2, <2>3, DepositCovered
<1>8. CASE Transfer
  <2>1. CASE Cardinality(Active(who)) >= 2
    <3>1. PICK v, w : /\ v = First(Active(who)) /\ w = Second(Active(who)) /\ v # w
                      /\ Own(v) /\ Own(w) /\ wishes[v].amount \in Nat
      BY <1>1, <2>1, ActiveOwn, SecondIn
    <3>2. ASSUME NEW a \in 1 .. wishes[v].amount, Move(v, w, a) PROVE SpendingOnly
      <4>1. a \in Nat
        BY <3>1
      <4> QED BY <1>1, <3>1, <3>2, <4>1, TransferEven
    <3> QED BY <1>3, <1>8, <3>1, <3>2, Zenon DEF Transfer
  <2> QED BY <1>3, <1>8, <2>1, Zenon DEF Transfer
<1>9. CASE UNCHANGED vars \/ Finished
  <2>1. NoCommand
    BY <1>9, Zenon DEF Finished, vars, NoCommand
  <2> QED BY <1>3, <2>1
<1> QED
  BY <1>2, <1>5, <1>6, <1>7, <1>8, <1>9, LoweredStep DEF Next

(* Whatever is refused, in whatever order: the money a student has put     *)
(* aside comes to exceed the money held, or exceeds it by more, only in a  *)
(* step that lowers the money held - no deposit, transfer, correction,     *)
(* abandonment or deletion does it.                                        *)
THEOREM DebtFromSpending == Spec => OnlySpendingOverdraws
<1>1. IInv /\ [Next]_vars => [SpendingOnly]_vars
  BY SpendingStep
<1> QED BY <1>1, Invariance, PTL DEF Spec, OnlySpendingOverdraws, SpendingOnly

=============================================================================
