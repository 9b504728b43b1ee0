---------------------------- MODULE RecapMetrics ----------------------------
(***************************************************************************)
(* The pure functions of the monthly recap (monthly_recap.py), shared by   *)
(* the batch over exported tables and by the recap service.                *)
(*                                                                         *)
(* Days are numbers, day 0 a Monday, and a period is a set of days: every  *)
(* boundary the code compares with is a midnight.  Rows keep the order of  *)
(* their lists in their ids:                                               *)
(*   wish        [id, account, target, due, created, closed, deleted,      *)
(*                status, representative, saved]                           *)
(*   transaction [id, account, wish, type, amount, day]                    *)
(*   visit       [id, visited, visitor, day]                               *)
(*   account     [id, academy, age, closed]                                *)
(* A day that is None is Never; an optional wish is a set of at most one.  *)
(* Averages, deviations and rates are compared as fractions.               *)
(***************************************************************************)
EXTENDS Integers, Sequences, FiniteSets, FiniteSetsExt, Functions

CONSTANTS
  MonthStart,   \* the first day of each month, in order
  HalfMonth,    \* days of the first half of a month (15)
  AgeBand,      \* years between peers (2)
  MaxDay,       \* the last day a date can be (date.max)
  Thresholds    \* of the savings types, see below

ASSUME RecapMetricsAssumption ==
  /\ MonthStart \in Seq(Int)
  /\ \A m, n \in DOMAIN MonthStart :
       /\ m < n => MonthStart[m] < MonthStart[n]
       /\ n = m + 1 => MonthStart[n] - MonthStart[m] <= 31
  /\ {HalfMonth, AgeBand, MaxDay} \subseteq Nat
  /\ Thresholds \in [bulldozer_saves : Nat \ {0, 1}, bulldozer_days : Nat,
       steady_average : Nat, steady_saves : Nat \ {0}, sprint_saves : Nat,
       abandons : Nat, transfers : Nat, visits : Nat]

Never    == -1
Month(m) == MonthStart[m] .. MonthStart[m + 1] - 1
Weekday(d) == d % 7
WeekOfMonth(d, m) == (d - MonthStart[m]) \div 7 + 1

Amounts(S)     == SumFunctionOnSet([t \in S |-> t.amount], S)
First(S)       == CHOOSE r \in S : \A q \in S : r.id <= q.id
Option(S)      == IF S = {} THEN {} ELSE {First(S)}
TypedIn(S, type, period) == {t \in S : t.type = type /\ t.day \in period}
(* n / d for d > 0 rounded half to even, as Python's round().              *)
Rounded(n, d) ==
  LET floor == n \div d  twice == 2 * (n % d) IN
  IF twice > d \/ (twice = d /\ floor % 2 = 1) THEN floor + 1 ELSE floor

-----------------------------------------------------------------------------
(* What a month's records say of an account.                               *)

RepresentativeWish(a, wishes) ==
  LET mine     == {w \in wishes : w.account = a /\ w.deleted = Never}
      explicit == {w \in mine : w.representative}
      open     == {w \in mine : w.status = "IN_PROGRESS"}
      oldest   == {w \in open : \A v \in open : w.created <= v.created}
  IN  IF explicit # {} THEN Option(explicit) ELSE Option(oldest)

OwnTransactions(a, m, txs) == {t \in txs : t.account = a /\ t.day \in Month(m)}
Saved(deposits, withdrawals) == Amounts(deposits) - Amounts(withdrawals)

CoreMetrics(a, m, wishes, txs, visits) ==
  LET mine        == OwnTransactions(a, m, txs)
      deposits    == TypedIn(mine, "DEPOSIT", Month(m))
      withdrawals == TypedIn(mine, "WITHDRAWAL", Month(m))
      Early(S)    == {t \in S : t.day < MonthStart[m] + HalfMonth}
  IN [save_count     |-> Cardinality(deposits),
      total_savings  |-> Saved(deposits, withdrawals),
      first_half     |-> Saved(Early(deposits), Early(withdrawals)),
      dates          |-> {t.day : t \in deposits},
      abandon_count  |-> Cardinality({w \in wishes :
        w.account = a /\ w.status = "ABANDONED" /\ w.closed \in Month(m)}),
      transfer_count |-> Cardinality(TypedIn(mine, "TRANSFER_OUT", Month(m))),
      visit_count    |-> Cardinality({v \in visits : v.visitor = a /\ v.day \in Month(m)})]

(* The deviation of the gaps between saving dates stays below `days`; with *)
(* fewer than two dates there is none.                                     *)
Regular(dates, days) ==
  LET n      == Cardinality(dates) - 1
      Gap(d) == Min({e \in dates : e > d}) - d
      early  == dates \ {Max(dates)}
      sum    == MapThenSumSet(Gap, early)
      square == MapThenSumSet(LAMBDA d : Gap(d) * Gap(d), early)
  IN  n >= 1 /\ n * square - sum * sum < days * days * n * n

Bulldozer(c) == c.save_count >= Thresholds.bulldozer_saves
                /\ Regular(c.dates, Thresholds.bulldozer_days)
Steady(c)    == c.save_count >= Thresholds.steady_saves
                /\ c.total_savings < Thresholds.steady_average * c.save_count
Sprint(c)    == c.save_count < Thresholds.sprint_saves /\ c.total_savings > 0
                /\ 10 * (c.total_savings - 2 * c.first_half) > 3 * c.total_savings
Explores(c)  == \/ c.abandon_count >= Thresholds.abandons
                \/ c.transfer_count >= Thresholds.transfers
                \/ c.visit_count >= Thresholds.visits

SavingsType(c) ==
  IF Bulldozer(c) THEN "BULLDOZER"
  ELSE IF Steady(c) THEN "STEADY"
  ELSE IF Sprint(c) THEN "SPRINT" ELSE "EXPLORER"
TypeSection(c) == [title |-> SavingsType(c),
                   fallback |-> SavingsType(c) = "EXPLORER" /\ ~Explores(c)]

-----------------------------------------------------------------------------
(* The sections of the recap.                                              *)

SignWithoutRefund(type) ==   \* mutant of TypeSign: a refund comes in
  IF type \in {"DEPOSIT", "TRANSFER_IN", "REFUND"} THEN 1 ELSE -1
TypeSign(type) == IF type \in {"DEPOSIT", "TRANSFER_IN"} THEN 1 ELSE -1

Moves(wish, period, txs) == {t \in txs : t.wish = wish /\ t.day \in period}
NetChange(wish, period, txs) ==
  SumFunctionOnSet([t \in txs |-> t.amount * TypeSign(t.type)], Moves(wish, period, txs))

ObjectivePerformance(a, m, wishes, txs) ==
  [completed |-> Cardinality({w \in wishes :
     w.account = a /\ w.status = "COMPLETED" /\ w.closed \in Month(m)}),
   change |-> {[wish |-> w.id,
                prev |-> Rounded(100 * (w.saved - NetChange(w.id, Month(m), txs)), w.target),
                curr |-> Rounded(100 * w.saved, w.target)] :
               w \in {v \in RepresentativeWish(a, wishes) : v.target > 0}}]

PatternAnalysis(a, m, txs, core) ==
  LET deposits   == TypedIn(OwnTransactions(a, m, txs), "DEPOSIT", Month(m))
      In(week)   == {t \in deposits : WeekOfMonth(t.day, m) = week}
      best       == {t \in deposits : \A u \in deposits :
        Amounts(In(WeekOfMonth(t.day, m))) >= Amounts(In(WeekOfMonth(u.day, m)))}
      On(day)    == Cardinality({t \in deposits : Weekday(t.day) = day})
      busiest    == {day \in 0 .. 6 : On(day) > 0 /\ \A other \in 0 .. 6 : On(day) >= On(other)}
  IN [top_week    |-> {WeekOfMonth(t.day, m) : t \in Option(best)},
      top_weekday |-> IF busiest = {} THEN {} ELSE {Min(busiest)},
      regular     |-> Cardinality(core.dates) >= 2 /\ Regular(core.dates, 3)]

PeerAccounts(a, accounts) ==
  {p.id : p \in {p \in accounts : \E me \in accounts :
     /\ me.id = a /\ p.id # a /\ p.closed = Never /\ p.academy = me.academy
     /\ p.age - me.age \in -AgeBand .. AgeBand}}

ActiveWeeks(a, m, txs) ==
  Cardinality({WeekOfMonth(t.day, m) : t \in TypedIn(OwnTransactions(a, m, txs), "DEPOSIT", Month(m))})
(* The rate of an account's representative wish, a fraction, if it has one. *)
AchievementRate(a, wishes) ==
  {<<w.saved, w.target>> : w \in {v \in RepresentativeWish(a, wishes) : v.target > 0}}

(* Where one stands among n peers, `less` of them behind and `tied` level. *)
Percentile(less, tied, n) ==
  LET share == Rounded(50 * (2 * less + tied), n) IN
  CASE n = 0              -> [status |-> "NO_PEERS", percentile |-> 0]
    [] n > 0 /\ tied = n  -> [status |-> "ALL_TIED", percentile |-> 0]
    [] n > 0 /\ tied < n  -> [status |-> "OK", percentile |-> Max({Min({share, 99}), 1})]
RankAmong(mine, count) ==
  LET peers == DOMAIN count IN
  Percentile(Cardinality({p \in peers : count[p] < mine}),
             Cardinality({p \in peers : count[p] = mine}), Cardinality(peers))
(* The same for a rate given as a fraction.                                *)
RankRate(mine, rate) ==
  LET peers == DOMAIN rate
      Cross(p) == rate[p][1] * mine[2]
      own(p)   == mine[1] * rate[p][2] IN
  Percentile(Cardinality({p \in peers : Cross(p) < own(p)}),
             Cardinality({p \in peers : Cross(p) = own(p)}), Cardinality(peers))

(* When the representative wish will be complete at its own pace of this   *)
(* month.  The fraction of a day is dropped; past the last date there is   *)
(* no date, and Python raises an exception.                                *)
PaceDays(w, m) == IF w.created < MonthStart[m] THEN Cardinality(Month(m))
                  ELSE MonthStart[m + 1] - w.created
Remaining(w)   == Max({w.target - w.saved, 0})
DepositPace(w, m, txs) ==   \* mutant of WishPace: what left the wish forgotten
  Amounts(TypedIn({t \in txs : t.wish = w.id}, "DEPOSIT", Month(m)))
WishPace(w, m, txs) == NetChange(w.id, Month(m), txs)

PacePrediction(representative, m, today, txs) ==
  {LET net    == WishPace(w, m, txs)
       rest   == Remaining(w)
       days   == PaceDays(w, m)
       expect == today + (rest * days) \div net
   IN [wish |-> w.id,
       overflow |-> expect > MaxDay,
       expected |-> expect,
       deadline |-> CASE w.due = Never -> "NONE"
                      [] w.due # Never /\ w.due <= today -> "PASSED"
                      [] w.due > today /\ rest * days <= net * (w.due - today) -> "IN_TIME"
                      [] w.due > today /\ rest * days > net * (w.due - today) -> "SAVE_MORE"] :
   w \in {v \in representative : PaceDays(v, m) > 0 /\ WishPace(v, m, txs) > 0}}
=============================================================================
