---------------------------- MODULE WeeklyRecap ----------------------------
(***************************************************************************)
(* The pure functions of the weekly recap (weekly_recap.py).  A week is    *)
(* known by its number, week 0 beginning on day 0; feed posts are          *)
(* [account, wish, day], day being when the post was last changed.         *)
(***************************************************************************)
EXTENDS RecapMetrics

CONSTANTS
  Lookback,     \* weeks a streak is followed back (52)
  Milestones,   \* percentages that are announced (50, 80, 100)
  MaxStories    \* success stories shown (5)

ASSUME WeeklyRecapAssumption ==
  /\ {Lookback, MaxStories} \subseteq Nat \ {0}
  /\ Milestones \subseteq 1 .. 100

Week(k)         == 7 * k .. 7 * k + 6
LastWeek(today) == (today \div 7) - 1
MonthOf(d)      == Max({m \in DOMAIN MonthStart : MonthStart[m] <= d})
TypeLookbackStart(k) == MonthStart[MonthOf(7 * k) - 1]

WeeklyAchievement(a, k, wishes, txs) ==
  LET deposits == TypedIn({t \in txs : t.account = a}, "DEPOSIT", Week(k)) IN
  [save_count  |-> Cardinality(deposits),
   net_savings |-> Saved(deposits, TypedIn({t \in txs : t.account = a}, "WITHDRAWAL", Week(k))),
   new_wishes  |-> Cardinality({w \in wishes : w.account = a /\ w.created \in Week(k)})]

(* What a wish held when day `cutoff` began: its balance when day `anchor` *)
(* began, less what changed in between.                                    *)
ProgressAsOf(w, cutoff, anchor, txs) == w.saved - NetChange(w.id, cutoff .. anchor - 1, txs)

Milestone(a, k, wishes, txs, anchor) ==
  {LET before == ProgressAsOf(w, 7 * k, anchor, txs)
       after  == ProgressAsOf(w, 7 * (k + 1), anchor, txs)
   IN [wish |-> w.id, before |-> before, after |-> after,
       crossed |-> {t \in Milestones : 100 * before < t * w.target /\ t * w.target <= 100 * after}] :
   w \in {v \in RepresentativeWish(a, wishes) : v.target > 0}}

WeekHasDeposit(a, k, txs) == TypedIn({t \in txs : t.account = a}, "DEPOSIT", Week(k)) # {}
Streak(a, k, txs) ==
  Max({n \in 0 .. Lookback : \A i \in 0 .. n - 1 : WeekHasDeposit(a, k - i, txs)})

Page1(a, k, wishes, txs, anchor) ==
  [achievement |-> WeeklyAchievement(a, k, wishes, txs),
   milestone   |-> Milestone(a, k, wishes, txs, anchor),
   streak      |-> Streak(a, k, txs)]

Visits(a, k, visits) == {v \in visits : v.visited = a /\ v.day \in Week(k)}
(* The growth is rounded, and has no value without visits the week before. *)
Page2From(total, unique, previous) ==
  [total |-> total, unique |-> unique,
   growth |-> {Rounded(100 * (total - previous), p) : p \in {previous} \ {0}}]
Page2(a, k, visits) ==
  Page2From(Cardinality(Visits(a, k, visits)),
            Cardinality({v.visitor : v \in Visits(a, k, visits)}),
            Cardinality(Visits(a, k - 1, visits)))

(* The wishes an academy's students completed in week k and shared, the    *)
(* first MaxStories of the list, each with the type its owner had in the   *)
(* month before the completion; the viewer's own are left out first.       *)
Stories(academy, k, wishes, txs, visits, posts, accounts, viewers) ==
  LET told == {w \in wishes :
        /\ \E a \in accounts : a.id = w.account /\ a.academy = academy
        /\ w.account \notin viewers
        /\ w.status = "COMPLETED" /\ w.closed \in Week(k)
        /\ \E p \in posts : p.wish = w.id}
  IN {[wish |-> w.id,
       type |-> TypeSection(CoreMetrics(w.account, MonthOf(w.closed) - 1, wishes, txs, visits)).title] :
      w \in {v \in told : Cardinality({u \in told : u.id < v.id}) < MaxStories}}

WeekEndAnchor(today) == 7 * (today \div 7)   \* mutant of AnchorDay
AnchorDay(today)     == today
WeeklyReport(a, academy, today, wishes, txs, visits, posts, accounts) ==
  LET k == LastWeek(today) IN
  [week  |-> k,
   page1 |-> Page1(a, k, wishes, txs, AnchorDay(today)),
   page2 |-> Page2(a, k, visits),
   page3 |-> Stories(academy, k, wishes, txs, visits, posts, accounts, {a})]
=============================================================================
