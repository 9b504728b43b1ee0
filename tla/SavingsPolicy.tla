--------------------------- MODULE SavingsPolicy ---------------------------
(***************************************************************************)
(* The money side of the student simulation (synthetic_data/generate.py).  *)
(*                                                                         *)
(* Policy replays a calendar: every day each student may be granted money, *)
(* may spend some, and may visit the app.  Every intention is one command  *)
(* sent to the persistent backend, which answers APPLIED with the wish or  *)
(* the balance it now stores, or refuses.  Policy keeps mirrors of what    *)
(* it was told and plans the next command from the mirrors alone.  The     *)
(* oracle (synthetic_data/validate.py) later rebuilds balances from the    *)
(* commands and rejects the data set at the first unlawful one.            *)
(*                                                                         *)
(* The backend is external.  It may refuse any command, it applies a wish  *)
(* command only at the version it stores, and otherwise it does what the   *)
(* command says without checking that the command makes sense: whether a   *)
(* command makes sense is Policy's business here, and the oracle's check.  *)
(* The oracle is a fold over the applied commands; its rebuilt state is    *)
(* the backend's, so one copy (ledger, removed, funds) stands for both.    *)
(***************************************************************************)
EXTENDS Integers, FiniteSets, Functions

CONSTANTS
  N,             \* students, numbered in the order of the people list
  Owner,         \* the academy owner's number, 0 when none takes part
  JoinDay,       \* JoinDay[s]: the day s joins
  GoalCapacity,  \* GoalCapacity[s]: how many open goals s keeps at most
  Cooldown,      \* days without a goal before the next one (goalCooldownDays)
  AbandonAge,    \* days before an unfinished goal may be given up (21)
  DeleteAge,     \* days before an ended goal may be deleted (28)
  MonthLength,   \* days of a month
  LastDay,       \* bound: the run covers days 0..LastDay
  MaxGoals,      \* bound: goals a student ever starts
  VersionSpan,   \* bound: wish versions are counted modulo this span, so a
                 \* mirror that missed fewer updates than that is stale
  TargetLimit,   \* the largest target (200000)
  Targets,       \* target amounts
  GrantAmounts,  \* amounts of one grant
  SpendLimits,   \* spending budgets of one purchase day
  SavingSteps,   \* amounts a student means to put aside
  WithdrawUnit,  \* the spontaneous withdrawal (500)
  TransferUnit,  \* the most one transfer moves (1000)
  NoWish         \* no wish

Students == 1..N
WishIds  == Students \X (1..MaxGoals)

ASSUME PolicyAssumption ==
  /\ N \in Nat /\ LastDay \in Nat /\ MaxGoals \in Nat
  /\ MonthLength \in Nat \ {0} /\ VersionSpan \in Nat \ {0}
  /\ JoinDay \in [Students -> Nat]
  /\ GoalCapacity \in [Students -> Nat \ {0}]
  /\ Cooldown \in Nat /\ AbandonAge \in Nat /\ DeleteAge \in Nat
  /\ TargetLimit \in Nat /\ Targets \subseteq 1..TargetLimit
  /\ GrantAmounts \subseteq Nat \ {0}
  /\ SpendLimits \subseteq Nat
  /\ SavingSteps \subseteq Nat
  /\ WithdrawUnit \in Nat \ {0}
  /\ TransferUnit \in Nat \ {0}
  /\ NoWish \notin WishIds

VARIABLES
  ledger,    \* backend: the stored wishes
  removed,   \* backend: deleted wishes
  funds,     \* backend: card funds of each student
  verdict,   \* oracle: "OK" until a command breaks a rule
  wishes, deleted, cash, joined, wish_created, preferred, goal_number,
  last_goal_end, influenced,   \* Policy's mirrors and memory, named as there
  day, who, pc, todo, chosen, after  \* where Policy.run stands

backend == <<ledger, removed, funds, verdict>>
goals   == <<wishes, deleted, wish_created, preferred, goal_number, last_goal_end>>
memory  == <<cash, joined, influenced>>
control == <<day, who, todo, chosen, after>>
vars    == <<backend, goals, memory, control, pc>>

-----------------------------------------------------------------------------
(* Wishes.  A record is what the backend returns with an applied command.  *)

Open   == {"IN_PROGRESS", "AMOUNT_REACHED"}
States == Open \cup {"NONE", "COMPLETED", "ABANDONED"}
Wish   == [state : States, amount : Int, target : Nat, version : 0..(VersionSpan - 1)]
NoGoal == [state |-> "NONE", amount |-> 0, target |-> 0, version |-> 0]

NewWish(t) ==
  [state |-> "IN_PROGRESS", amount |-> 0, target |-> t, version |-> 1 % VersionSpan]

Bumped(r)     == [r EXCEPT !.version = (@ + 1) % VersionSpan]
Settled(r)    == [r EXCEPT !.state = IF r.amount = r.target THEN "AMOUNT_REACHED"
                                                            ELSE "IN_PROGRESS"]
Moved(r, a)   == Settled([Bumped(r) EXCEPT !.amount = @ + a])
Ended(r, how) == [Bumped(r) EXCEPT !.amount = 0, !.state = how]

(* active(): the student's open goals, as the mirrors show them. *)
Active(s) == {w \in WishIds : /\ w[1] = s
                              /\ wishes[w].state \in Open
                              /\ w \notin deleted}

(* Dictionaries keep insertion order: the oldest goal comes first. *)
First(S) == CHOOSE w \in S : \A v \in S : w[2] <= v[2]

Gap(w)        == wishes[w].target - wishes[w].amount
Amounts(table) == [w \in WishIds |-> table[w].amount]

(* Mutant: a full goal is forgotten when the money put aside is added up. *)
AllocationOfUnfinished(s) ==
  SumFunctionOnSet(Amounts(wishes), {w \in Active(s) : wishes[w].state = "IN_PROGRESS"})

Allocation(s) == SumFunctionOnSet(Amounts(wishes), Active(s))
Least(S)      == CHOOSE x \in S : \A y \in S : x <= y
Month(d)      == d \div MonthLength

-----------------------------------------------------------------------------
(* The answer to a command.                                                *)

(* The oracle stops for good at the first command that breaks a rule. *)
Judge(lawful) == verdict' = IF lawful THEN verdict ELSE "INVALID"

(* wish-owner-lifecycle and wish-amount-range of the oracle. *)
OwnLive(w)  == w[1] = who /\ ledger[w].state # "NONE" /\ w \notin removed
InRange(r)  == 0 <= r.amount /\ r.amount <= r.target
Lawful(w, r, rule) == OwnLive(w) /\ InRange(r) /\ rule

(* An applied command on a wish: the backend stores r and returns it. *)
Apply(w, r, rule) ==
  /\ wishes[w].version = ledger[w].version
  /\ Judge(Lawful(w, r, rule))
  /\ ledger' = [ledger EXCEPT ![w] = r]
  /\ wishes' = [wishes EXCEPT ![w] = r]

Refuse == UNCHANGED <<ledger, wishes, verdict>>

(* A wish command that changes the wish and nothing else Policy remembers. *)
Mutate(w, r, rule) ==
  /\ Apply(w, r, rule) \/ Refuse
  /\ UNCHANGED <<removed, funds, deleted, wish_created, preferred,
                 goal_number, last_goal_end, memory>>

(* COMPLETE and ABANDON also start the wait for the next goal. *)
End(w, how, rule) ==
  /\ \/ /\ Apply(w, Ended(ledger[w], how), rule)
        /\ last_goal_end' = [last_goal_end EXCEPT ![who] = day]
     \/ Refuse /\ UNCHANGED last_goal_end
  /\ UNCHANGED <<removed, funds, deleted, wish_created, preferred,
                 goal_number, memory>>

Complete(w) == End(w, "COMPLETED", ledger[w].state = "AMOUNT_REACHED")
Abandon(w)  == End(w, "ABANDONED", ledger[w].state \in Open)
Deposit(w, a)  == Mutate(w, Moved(ledger[w], a), ledger[w].state = "IN_PROGRESS")
Withdraw(w, a) == Mutate(w, Moved(ledger[w], -a), ledger[w].state \in Open)

NoCommand == UNCHANGED <<backend, goals, memory>>
Goto(step)  == pc' = step /\ UNCHANGED control
Leave(step) == pc' = step /\ chosen' = NoWish /\ UNCHANGED <<day, who, todo, after>>

-----------------------------------------------------------------------------
(* The calendar: run().                                                    *)

Init ==
  /\ ledger = [w \in WishIds |-> NoGoal]
  /\ wishes = [w \in WishIds |-> NoGoal]
  /\ removed = {} /\ deleted = {}
  /\ funds = [s \in Students |-> 0]
  /\ cash  = [s \in Students |-> 0]
  /\ verdict = "OK"
  /\ joined = {} /\ influenced = {}
  /\ wish_created  = [w \in WishIds |-> 0]
  /\ preferred     = [s \in Students |-> NoWish]
  /\ goal_number   = [s \in Students |-> 0]
  /\ last_goal_end = JoinDay
  /\ day = 0 /\ who = 1 /\ pc = "join"
  /\ todo = {} /\ chosen = NoWish /\ after = "observe"

(* A day starts with the JOINs of that day; a refused one is not repeated. *)
Join ==
  /\ pc = "join" /\ who \in Students
  /\ \/ JoinDay[who] = day /\ joined' = joined \cup {who}
     \/ UNCHANGED joined
  /\ who' = who + 1
  /\ UNCHANGED <<backend, goals, cash, influenced, day, todo, chosen, after, pc>>

StartTurns ==
  /\ pc = "join" /\ who > N
  /\ pc' = "grant" /\ who' = 1
  /\ UNCHANGED <<backend, goals, memory, day, todo, chosen, after>>

NextPerson ==
  /\ pc' = "grant" /\ who' = who + 1
  /\ UNCHANGED <<day, todo, chosen, after>>

Absent ==
  /\ pc = "grant" /\ who \in Students /\ who \notin joined
  /\ NextPerson
  /\ NoCommand

NextDay ==
  /\ pc = "grant" /\ who > N
  /\ IF day < LastDay
     THEN day' = day + 1 /\ who' = 1 /\ pc' = "join"
     ELSE pc' = "done" /\ UNCHANGED <<day, who>>
  /\ UNCHANGED <<backend, goals, memory, todo, chosen, after>>

Finished == pc = "done" /\ UNCHANGED vars

(* Mutant: the mirror books the movement although it was refused. *)
CashMovesUnasked(a) ==
  /\ cash' = [cash EXCEPT ![who] = @ + a]
  /\ funds' = [funds EXCEPT ![who] = @ + a] \/ UNCHANGED funds
  /\ UNCHANGED <<ledger, removed, verdict, goals, joined, influenced>>

(* GRANT and PURCHASE are passive; the answer carries the new balance. *)
CashMoves(a) ==
  /\ \/ /\ funds' = [funds EXCEPT ![who] = @ + a]
        /\ cash'  = [cash EXCEPT ![who] = funds'[who]]
        /\ Judge(a # 0 /\ funds'[who] >= 0)
     \/ UNCHANGED <<funds, cash, verdict>>
  /\ UNCHANGED <<ledger, removed, goals, joined, influenced>>

Grant ==
  /\ pc = "grant" /\ who \in joined
  /\ NoCommand \/ \E a \in GrantAmounts : CashMoves(a)
  /\ Goto("purchase")

Purchase ==
  /\ pc = "purchase"
  /\ \/ NoCommand
     \/ \E limit \in SpendLimits, a \in 1..cash[who] :
          /\ who # Owner
          /\ a = Least({cash[who], limit})
          /\ CashMoves(-a)
  /\ Goto("arrive")

-----------------------------------------------------------------------------
(* create() and the share() it ends with.                                  *)

(* Policy counts the goal before it asks; a refused goal is not reused. *)
Create(then) ==
  LET w == <<who, goal_number[who] + 1>>
  IN /\ goal_number[who] < MaxGoals
     /\ goal_number' = [goal_number EXCEPT ![who] = @ + 1]
     /\ \/ \E t \in Targets :
             /\ ledger' = [ledger EXCEPT ![w] = NewWish(t)]
             /\ wishes' = [wishes EXCEPT ![w] = NewWish(t)]
           /\ Judge(ledger[w].state = "NONE")
           /\ wish_created' = [wish_created EXCEPT ![w] = day]
           /\ preferred' = [preferred EXCEPT ![who] = w]
           /\ IF who = Owner
              THEN pc' = then /\ UNCHANGED <<chosen, after>>
              ELSE pc' = "share" /\ chosen' = w /\ after' = then
        \/ Refuse /\ pc' = then /\ UNCHANGED <<wish_created, preferred, chosen, after>>
     /\ UNCHANGED <<removed, funds, deleted, last_goal_end, memory, day, who, todo>>

(* The stored wish changes its version; who may see it is SocialFeed's. *)
Share ==
  /\ pc = "share"
  /\ Mutate(chosen, Bumped(ledger[chosen]), TRUE)
  /\ Leave(after)

(* A student who joins today starts a first goal at once. *)
Arrive ==
  /\ pc = "arrive"
  /\ IF JoinDay[who] = day /\ goal_number[who] < MaxGoals
     THEN Create("visit")
     ELSE NoCommand /\ Goto("visit")

(* The joining day is always a visit, the owner never visits. *)
Visit ==
  /\ pc = "visit"
  /\ \/ who # Owner /\ Goto("observe")
     \/ (who = Owner \/ JoinDay[who] # day) /\ NextPerson
  /\ NoCommand

-----------------------------------------------------------------------------
(* visit(): look at the balance, correct, then goal_actions().             *)

Observe ==
  /\ pc = "observe"
  /\ cash' = [cash EXCEPT ![who] = funds[who]] \/ UNCHANGED cash
  /\ UNCHANGED <<backend, goals, joined, influenced>>
  /\ Goto("adjust")

Deficit(s) == Allocation(s) - cash[s]
Largest(S) == First({w \in S : \A v \in S : wishes[v].amount <= wishes[w].amount})

(* One withdrawal, from the fullest goal, if more is put aside than held. *)
AdjustAfterObservation ==
  /\ pc = "adjust"
  /\ \/ /\ Deficit(who) > 0
        /\ \E w \in Active(who) :
             /\ w = Largest(Active(who))
             /\ \E a \in 1..wishes[w].amount :
                  a = Least({Deficit(who), wishes[w].amount}) /\ Withdraw(w, a)
     \/ /\ Deficit(who) <= 0 \/ \A w \in Active(who) : wishes[w].amount = 0
        /\ NoCommand
  /\ pc' = "review" /\ todo' = Active(who)
  /\ UNCHANGED <<day, who, chosen, after>>

(* Every goal open before the review is looked at once, oldest first. *)
Review ==
  /\ pc = "review" /\ todo # {}
  /\ LET w == First(todo)
     IN /\ \/ wishes[w].state = "AMOUNT_REACHED" /\ Complete(w)
           \/ /\ wishes[w].state = "IN_PROGRESS"
              /\ day - wish_created[w] >= AbandonAge
              /\ Abandon(w)
           \/ NoCommand
        /\ todo' = todo \ {w}
  /\ UNCHANGED <<pc, day, who, chosen, after>>

Reviewed ==
  /\ pc = "review" /\ todo = {}
  /\ NoCommand
  /\ Goto("goal")

(* Mutant: room for one goal too many. *)
RoomOffByOne(s) == Cardinality(Active(s)) <= GoalCapacity[s]

Room(s) == Cardinality(Active(s)) < GoalCapacity[s]

(* A new goal after the wait, or beside the others while there is room. *)
NewGoal ==
  /\ pc = "goal"
  /\ LET idle == Active(who) = {} /\ day - last_goal_end[who] >= Cooldown
     IN \/ /\ idle \/ (Active(who) # {} /\ Room(who))
           /\ Create("save")
        \/ /\ ~idle \/ goal_number[who] = MaxGoals
           /\ NoCommand
           /\ Goto("save")

(* The goal to save for, and a deposit of money not yet put aside. *)
Choose(w) == pc' = "confirm" /\ chosen' = w /\ UNCHANGED <<day, who, todo, after>>

Preferred(s) == IF preferred[s] \in Active(s) THEN preferred[s] ELSE First(Active(s))

Save ==
  /\ pc = "save"
  /\ IF Active(who) = {}
     THEN NoCommand /\ Goto("feed")
     ELSE LET w == Preferred(who)
              free == cash[who] - Allocation(who)
          IN /\ \/ NoCommand
                \/ /\ wishes[w].state = "IN_PROGRESS"
                   /\ \E step \in SavingSteps, a \in 1..Gap(w) :
                        /\ a = Least({free, Gap(w), step})
                        /\ Deposit(w, a)
             /\ Choose(w)

Confirm ==
  /\ pc = "confirm"
  /\ \/ wishes[chosen].state = "AMOUNT_REACHED" /\ Complete(chosen)
     \/ /\ wishes[chosen].state \in Open
        /\ wishes[chosen].amount >= WithdrawUnit
        /\ Withdraw(chosen, WithdrawUnit)
     \/ NoCommand
  /\ Leave("transfer")

Second(S) == First(S \ {First(S)})

(* A transfer between the two oldest open goals. *)
Move(v, w, a) ==
  LET out == Moved(ledger[v], -a)
      in  == Moved(ledger[w], a)
  IN /\ \/ /\ wishes[v].version = ledger[v].version
           /\ wishes[w].version = ledger[w].version
           /\ Judge(/\ v[1] = who /\ w[1] = who /\ v # w
                    /\ ledger[v].state \in Open /\ ledger[w].state \in Open
                    /\ InRange(out) /\ InRange(in))
           /\ ledger' = [ledger EXCEPT ![v] = out, ![w] = in]
           /\ wishes' = [wishes EXCEPT ![v] = out, ![w] = in]
        \/ Refuse
     /\ UNCHANGED <<removed, funds, deleted, wish_created, preferred,
                    goal_number, last_goal_end, memory>>

Transfer ==
  /\ pc = "transfer"
  /\ \/ NoCommand
     \/ /\ Cardinality(Active(who)) >= 2
        /\ LET v == First(Active(who))
               w == Second(Active(who))
           IN \E a \in 1..wishes[v].amount :
                a = Least({TransferUnit, wishes[v].amount, Gap(w)}) /\ Move(v, w, a)
  /\ Goto("clean")

(* Mutants: a goal is deleted again, or deleted while it is open. *)
EndingAgain(s) == {w \in WishIds : /\ w[1] = s
                                   /\ wishes[w].state \in {"COMPLETED", "ABANDONED"}
                                   /\ day - wish_created[w] >= DeleteAge}

EndingAny(s) == {w \in WishIds : /\ w[1] = s
                                 /\ wishes[w].state # "NONE"
                                 /\ w \notin deleted
                                 /\ day - wish_created[w] >= DeleteAge}

(* At most one goal that ended, and is old enough, is deleted in a visit. *)
Ending(s) == {w \in WishIds : /\ w[1] = s
                              /\ wishes[w].state \in {"COMPLETED", "ABANDONED"}
                              /\ w \notin deleted
                              /\ day - wish_created[w] >= DeleteAge}

Delete(w) ==
  LET r == [Bumped(ledger[w]) EXCEPT !.amount = 0]
  IN /\ \/ /\ Apply(w, r, TRUE)
           /\ removed' = removed \cup {w}
           /\ deleted' = deleted \cup {w}
        \/ Refuse /\ UNCHANGED <<removed, deleted>>
     /\ UNCHANGED <<funds, wish_created, preferred, goal_number, last_goal_end, memory>>

Clean ==
  /\ pc = "clean"
  /\ NoCommand \/ \E w \in Ending(who) : Delete(w)
  /\ Goto("reveal")

(* VISIBILITY_CHANGE of the oldest open goal. *)
Reveal ==
  /\ pc = "reveal"
  /\ \/ NoCommand
     \/ /\ Active(who) # {}
        /\ LET w == First(Active(who)) IN Mutate(w, Bumped(ledger[w]), TRUE)
  /\ Goto("feed")

-----------------------------------------------------------------------------
(* feed() and influence(): a goal seen in the feed may lead to a decision, *)
(* at most one a month.  The card, and whose goal it shows, is SocialFeed's*)
(* matter; its target is any target.  Which open goal is nearest to it is  *)
(* a comparison of purposes: any open goal may win.                        *)

Undecided == <<who, Month(day)>> \notin influenced

InfluencedCreate ==
  /\ pc = "feed" /\ Undecided /\ Room(who)
  /\ Create("decided")

InfluencedDeposit ==
  /\ pc = "feed" /\ Undecided /\ ~Room(who)
  /\ Active(who) # {}
  /\ \E w \in Active(who), step \in SavingSteps : \E a \in 1..Gap(w) :
       /\ a = Least({cash[who] - Allocation(who), Gap(w), step})
       /\ \/ /\ Apply(w, Moved(ledger[w], a), ledger[w].state = "IN_PROGRESS")
             /\ preferred' = [preferred EXCEPT ![who] = w]
          \/ Refuse /\ UNCHANGED preferred
       /\ UNCHANGED <<removed, funds, deleted, wish_created, goal_number,
                      last_goal_end, memory>>
  /\ Goto("decided")

(* Mutant: the month's decision is filed under the month, then the student. *)
DecidedSwapped ==
  /\ pc = "decided"
  /\ influenced' = influenced \cup {<<Month(day), who>>}
  /\ UNCHANGED <<backend, goals, cash, joined>>
  /\ Goto("feed")

(* INFLUENCED_DECISION is recorded whether the decision was applied or not. *)
Decided ==
  /\ pc = "decided"
  /\ influenced' = influenced \cup {<<who, Month(day)>>}
  /\ UNCHANGED <<backend, goals, cash, joined>>
  /\ Goto("feed")

EndVisit ==
  /\ pc = "feed"
  /\ NextPerson
  /\ NoCommand

Next ==
  \/ Join \/ StartTurns \/ Absent \/ NextDay \/ Finished
  \/ Grant \/ Purchase \/ Arrive \/ Share \/ Visit
  \/ Observe \/ AdjustAfterObservation \/ Review \/ Reviewed
  \/ NewGoal \/ Save \/ Confirm \/ Transfer \/ Clean \/ Reveal
  \/ InfluencedCreate \/ InfluencedDeposit \/ Decided \/ EndVisit

Spec == Init /\ [][Next]_vars

-----------------------------------------------------------------------------
(* Properties.                                                             *)

Steps == {"join", "grant", "purchase", "arrive", "share", "visit", "observe", "adjust",
          "review", "goal", "save", "confirm", "transfer", "clean", "reveal", "feed",
          "decided", "done"}

(* Every variable keeps its type: what Policy.__init__ sets up and emit()  *)
(* fills in.                                                               *)
TypeOK ==
  /\ ledger \in [WishIds -> Wish] /\ wishes \in [WishIds -> Wish]
  /\ removed \subseteq WishIds /\ deleted \subseteq WishIds
  /\ funds \in [Students -> Int] /\ cash \in [Students -> Int]
  /\ verdict \in {"OK", "INVALID"}
  /\ joined \subseteq Students
  /\ influenced \subseteq Students \X Nat
  /\ wish_created \in [WishIds -> Nat] /\ last_goal_end \in [Students -> Nat]
  /\ preferred \in [Students -> WishIds \cup {NoWish}]
  /\ goal_number \in [Students -> 0..MaxGoals]
  /\ day \in Nat /\ who \in 1..(N + 1) /\ pc \in Steps
  /\ todo \subseteq WishIds /\ chosen \in WishIds \cup {NoWish} /\ after \in Steps

(* The oracle accepts whatever Policy and the backend recorded, whichever  *)
(* commands were refused on the way: no applied command overdraws a card,  *)
(* reuses a wish identity, touches a foreign or deleted wish, deposits to  *)
(* a full one, ends one in the wrong state or leaves its range.            *)
OracleAccepts == verdict = "OK"

(* What Policy plans from is what the backend stores, version included: a  *)
(* refusal leaves no trace in a mirror, an answer is never half applied.   *)
MirrorsFaithful == wishes = ledger /\ deleted = removed /\ cash = funds

(* A student never has more open goals than goalCapacity, although three   *)
(* places start goals (joining, goal_actions, influence).                  *)
CapacityKept == \A s \in Students : Cardinality(Active(s)) <= GoalCapacity[s]

(* Money put aside exceeds the money held only because money was spent:    *)
(* no saving, transfer, refund or correction deepens the deficit.          *)
SetAside(s)  == SumFunctionOnSet(Amounts(ledger), {w \in WishIds \ removed : w[1] = s})
Overdraft(s) == IF SetAside(s) > funds[s] THEN SetAside(s) - funds[s] ELSE 0

OnlySpendingOverdraws ==
  [][\A s \in Students : Overdraft(s)' > Overdraft(s) => funds'[s] < funds[s]]_vars

(* The wishes of the ledger live the life the contract promises: each step *)
(* of the simulation is a step of WishLifecycle or leaves it unchanged.    *)
Life(w) ==
  CASE w \in removed -> "removed"
    [] w \notin removed /\ ledger[w].state = "NONE" -> "absent"
    [] w \notin removed /\ ledger[w].state = "COMPLETED" -> "completed"
    [] w \notin removed /\ ledger[w].state = "ABANDONED" -> "abandoned"
    [] OTHER -> "open"

Lifecycle == INSTANCE WishLifecycle WITH
  Wishes <- WishIds,
  life  <- [w \in WishIds |-> Life(w)],
  saved <- [w \in WishIds |-> ledger[w].amount],
  goal  <- [w \in WishIds |-> ledger[w].target]

ImplementsLifecycle == Lifecycle!Spec

-----------------------------------------------------------------------------
(* The inductive strengthening behind the invariants.                      *)

(* Open goals hold 0..target and are AMOUNT_REACHED exactly when full;     *)
(* other wishes hold nothing.                                              *)
GoalShape ==
  \A w \in WishIds :
    /\ ledger[w].target \in 0..TargetLimit
    /\ ledger[w].amount \in 0..ledger[w].target
    /\ ledger[w].state \in Open =>
         (ledger[w].state = "AMOUNT_REACHED" <=> ledger[w].amount = ledger[w].target)
    /\ ledger[w].state \notin Open => ledger[w].amount = 0

(* A goal exists only under a number already counted; only ended goals are *)
(* removed; cards are never overdrawn.                                     *)
Bookkeeping ==
  /\ \A w \in WishIds : ledger[w].state # "NONE" => w[2] <= goal_number[w[1]]
  /\ \A w \in removed : ledger[w].state \in {"COMPLETED", "ABANDONED"}
  /\ \A s \in Students : funds[s] >= 0

(* What Policy holds in local variables between two commands is a live     *)
(* goal of the student whose turn it is.                                   *)
Own(w) == w \in WishIds /\ w[1] = who /\ ledger[w].state # "NONE" /\ w \notin removed

LocalsLive ==
  /\ pc \notin {"join", "grant", "done"} => who \in Students
  /\ \A w \in todo : Own(w)
  /\ pc # "review" => todo = {}
  /\ pc \in {"share", "confirm"} => Own(chosen)
  /\ after \in {"visit", "save", "decided", "observe"}

IInv == TypeOK /\ OracleAccepts /\ MirrorsFaithful /\ GoalShape /\ Bookkeeping /\ LocalsLive

=============================================================================
