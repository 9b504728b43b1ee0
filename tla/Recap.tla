------------------------------- MODULE Recap -------------------------------
(***************************************************************************)
(* The recaps of an academy while its students go on saving.  The backend  *)
(* (external) keeps the wishes and their ledger; at any time the two       *)
(* batches may be run over an export of it (bundle.py, projection_csv();   *)
(* weekly_batch.py; monthly_batch.py) and the recap service may be asked   *)
(* for a period that is over (recap_service/generator.py, validation.py),  *)
(* late or not.                                                            *)
(*                                                                         *)
(* An effect of the ledger is [id, root, account, wish, event, delta,      *)
(* day]; its sums are what a wish held when a day began, the backend's     *)
(* saved_amount_at_period_end.                                             *)
(***************************************************************************)
EXTENDS WeeklyRecap

CONSTANTS
  Accounts,     \* the card accounts, as exported
  Days,         \* the days on which something may happen, in order
  FirstWishes,  \* the wishes there are at the beginning
  History,      \* the effects there are at the beginning
  Later,        \* the wishes that may be opened
  Deposits,     \* amounts that may be moved
  ActiveSaves,  \* deposits of a month without which there is no recap (3)
  MaxRows, MaxVisits, MaxEnded   \* bounds: rows the backend keeps, visits and
                \* ended wishes among them

VARIABLES
  now,          \* position in Days
  wishes, effects, visits, posts,   \* the backend's rows
  report        \* the recap that is being delivered, if any

ledger == <<now, wishes, effects, visits, posts>>
vars   == <<ledger, report>>

today      == Days[now]
Students   == {a.id : a \in Accounts}
NoReport   == [kind |-> "none"]
Idle       == report = NoReport
Quiet      == Idle /\ UNCHANGED report
Deltas     == [e \in effects |-> e.delta]
Balance(i, b) == SumFunctionOnSet(Deltas, {e \in effects : e.wish = i /\ e.day < b})

Statuses   == {"IN_PROGRESS", "AMOUNT_REACHED", "COMPLETED", "ABANDONED"}
Events     == {"WISH_DEPOSIT", "WISH_WITHDRAWAL", "WISH_TRANSFER",
               "WISH_COMPLETION_RETURN", "WISH_ABANDONMENT_RETURN", "WISH_DELETION_RETURN"}
WishRows   == [id : Nat, account : Students, target : Nat, due : Int, created : Int, closed : Int,
               deleted : Int, status : Statuses, representative : BOOLEAN, saved : Nat]
EffectRows == [id : Nat, root : Nat, account : Students, wish : Nat, event : Events,
               delta : Int, day : Int]

(* What there is at the beginning was opened and saved for, no more.       *)
ASSUME RecapAssumption ==
  /\ Days \in Seq(Int) /\ Days # <<>> /\ \A i, j \in DOMAIN Days : i < j => Days[i] < Days[j]
  /\ 2 \in DOMAIN MonthStart /\ Days[1] >= MonthStart[2]
  /\ \A i \in DOMAIN Days : Days[i] < MonthStart[Len(MonthStart)]
  /\ Lookback >= 9   \* two months, 52 in the code
  /\ FirstWishes \union Later \subseteq WishRows /\ IsFiniteSet(FirstWishes)
  /\ \A w \in FirstWishes \union Later : w.closed = Never
  /\ \A v, w \in FirstWishes : v # w => v.id # w.id
  /\ \A w \in Later : w.saved = 0
  /\ History \subseteq EffectRows /\ IsFiniteSet(History)
  /\ \A e \in History :
       /\ e.event = "WISH_DEPOSIT" /\ e.delta > 0 /\ e.day < Days[1]
       /\ e.id <= Cardinality(History) /\ e.root <= Cardinality(History)
       /\ \A d \in History : d # e => d.id # e.id /\ d.root # e.root
       /\ \E w \in FirstWishes : w.id = e.wish /\ w.account = e.account
  /\ \A w \in FirstWishes :
       w.saved = SumFunctionOnSet([e \in History |-> e.delta], {e \in History : e.wish = w.id})
  /\ {ActiveSaves, MaxRows, MaxVisits, MaxEnded} \subseteq Nat /\ Deposits \subseteq Nat \ {0}

Init ==
  /\ now = 1 /\ wishes = FirstWishes /\ effects = History
  /\ visits = {} /\ posts = {} /\ report = NoReport

-----------------------------------------------------------------------------
(* The backend.                                                            *)

Active(w)  == w.status \in {"IN_PROGRESS", "AMOUNT_REACHED"} /\ w.deleted = Never
Held(w, s) == [w EXCEPT !.saved = s,
               !.status = IF s = w.target THEN "AMOUNT_REACHED" ELSE "IN_PROGRESS"]
Row(n, w, event, delta) ==
  [id |-> Cardinality(effects) + n, root |-> Cardinality(effects) + 1, account |-> w.account,
   wish |-> w.id, event |-> event, delta |-> delta, day |-> today]
Rows == Cardinality(effects) + Cardinality(wishes) + Cardinality(visits) + Cardinality(posts)
Post(rows, changed) ==
  /\ effects' = effects \union rows
  /\ wishes' = {w \in wishes : \A c \in changed : c.id # w.id} \union changed
  /\ Quiet /\ UNCHANGED <<now, visits, posts>> /\ Rows' <= MaxRows

Open == \E w \in Later :
  /\ \A v \in wishes : v.id # w.id
  /\ Post({}, {[w EXCEPT !.created = today]})
Deposit == \E w \in wishes, n \in Deposits :
  /\ Active(w) /\ w.saved + n <= w.target
  /\ Post({Row(1, w, "WISH_DEPOSIT", n)}, {Held(w, w.saved + n)})
Withdraw == \E w \in wishes, n \in Deposits :
  /\ Active(w) /\ n <= w.saved
  /\ Post({Row(1, w, "WISH_WITHDRAWAL", -n)}, {Held(w, w.saved - n)})
Transfer == \E v, w \in wishes, n \in Deposits :
  /\ v.id # w.id /\ v.account = w.account /\ Active(v) /\ Active(w)
  /\ n <= v.saved /\ w.saved + n <= w.target
  /\ Post({Row(1, v, "WISH_TRANSFER", -n), Row(2, w, "WISH_TRANSFER", n)},
          {Held(v, v.saved - n), Held(w, w.saved + n)})
(* A wish that ends pays out what it holds; it may stay the representative. *)
End(w, event, ended) ==
  /\ Active(w) /\ Cardinality({v \in wishes : ~Active(v)}) < MaxEnded
  /\ \E representative \in BOOLEAN :
       /\ representative => w.representative
       /\ Post(IF w.saved = 0 THEN {} ELSE {Row(1, w, event, -w.saved)},
               {[ended EXCEPT !.saved = 0, !.representative = representative]})
Complete == \E w \in wishes :
  /\ w.saved = w.target
  /\ End(w, "WISH_COMPLETION_RETURN", [w EXCEPT !.status = "COMPLETED", !.closed = today])
Abandon == \E w \in wishes :
  End(w, "WISH_ABANDONMENT_RETURN", [w EXCEPT !.status = "ABANDONED", !.closed = today])
Delete == \E w \in wishes :
  End(w, "WISH_DELETION_RETURN", [w EXCEPT !.deleted = today])
Visit == \E a, b \in Students :
  /\ a # b /\ Rows < MaxRows /\ Cardinality(visits) < MaxVisits
  /\ visits' = visits \union
       {[id |-> Cardinality(visits) + 1, visitor |-> a, visited |-> b, day |-> today]}
  /\ Quiet /\ UNCHANGED <<now, wishes, effects, posts>>
(* A wish has one card, changed when it is shared again.                   *)
Share == \E w \in wishes :
  /\ w.deleted = Never
  /\ posts' = {p \in posts : p.wish # w.id} \union
       {[account |-> w.account, wish |-> w.id, day |-> today]}
  /\ posts' # posts /\ Quiet
  /\ UNCHANGED <<now, wishes, effects, visits>> /\ Rows' <= MaxRows
NextDay ==
  /\ now < Len(Days) /\ now' = now + 1
  /\ Quiet /\ UNCHANGED <<wishes, effects, visits, posts>>

-----------------------------------------------------------------------------
(* The export and the batches.                                             *)

ExportedWishes ==
  {[w EXCEPT !.status = IF @ = "AMOUNT_REACHED" THEN "IN_PROGRESS" ELSE @] : w \in wishes}
TransferBySign(event, delta) ==   \* mutant of ResolveTransactionType: a transfer saves
  IF event \notin {"WISH_DEPOSIT", "WISH_WITHDRAWAL", "WISH_TRANSFER"} THEN "REFUND"
  ELSE IF delta > 0 THEN "DEPOSIT" ELSE "WITHDRAWAL"
ResolveTransactionType(event, delta) ==
  CASE event = "WISH_DEPOSIT"                  -> "DEPOSIT"
    [] event = "WISH_WITHDRAWAL"               -> "WITHDRAWAL"
    [] event = "WISH_TRANSFER" /\ delta < 0    -> "TRANSFER_OUT"
    [] event = "WISH_TRANSFER" /\ delta >= 0   -> "TRANSFER_IN"
    [] event \in {"WISH_COMPLETION_RETURN", "WISH_ABANDONMENT_RETURN",
                    "WISH_DELETION_RETURN"}      -> "REFUND"
TransactionOf(e) ==
  [id |-> e.id, root |-> e.root, account |-> e.account, wish |-> e.wish, day |-> e.day,
   type |-> ResolveTransactionType(e.event, e.delta),
   amount |-> IF e.delta < 0 THEN -e.delta ELSE e.delta]
Transactions == {TransactionOf(e) : e \in effects}

OfAcademy(academy) == {a \in Accounts : a.academy = academy}
IdsOf(academy)     == {a.id : a \in OfAcademy(academy)}
Among(rows, academy) == {r \in rows : r.account \in IdsOf(academy)}
VisitsAmong(rows, academy) ==
  {v \in rows : v.visited \in IdsOf(academy) \/ v.visitor \in IdsOf(academy)}

VisitsSince(k)   == Min({7 * (k - 1), TypeLookbackStart(k)})
WeekBefore(k)    == 7 * (k - 1)   \* mutant of StreakSince: what the visits need
StreakSince(k)   == 7 * k - 7 * Lookback
RunWeekly(academy, txs, seen, shared) ==
  [a \in IdsOf(academy) |->
    WeeklyReport(a, academy, today, Among(ExportedWishes, academy), Among(txs, academy),
                 VisitsAmong(seen, academy), Among(shared, academy), OfAcademy(academy))]

WeeklyBatch == \E academy \in {a.academy : a \in Accounts} :
  LET k == LastWeek(today) IN
  /\ Idle /\ 7 * k > MonthStart[2]
  /\ report' = [kind |-> "weekly_batch", academy |-> academy,
       students |-> RunWeekly(academy, {t \in Transactions : t.day >= StreakSince(k)},
                              {v \in visits : v.day >= VisitsSince(k)},
                              {p \in posts : p.day \in Week(k)})]
  /\ UNCHANGED ledger

(* The rate of the student is the rounded percentage that is displayed,    *)
(* the rates of the others are not rounded.                                *)
GroupComparison(a, m, wishRows, txs, accounts, change) ==
  LET peers == PeerAccounts(a, accounts)
      rated == {p \in peers : AchievementRate(p, wishRows) # {}}
      weeks == [p \in peers |-> ActiveWeeks(p, m, txs)]
      rate  == [p \in rated |-> CHOOSE r \in AchievementRate(p, wishRows) : TRUE]
  IN [habit |-> RankAmong(ActiveWeeks(a, m, txs), weeks),
      achievement |-> {RankRate(<<c.curr, 100>>, rate) : c \in change}]
MonthlyReport(a, m, wishRows, txs, seen, accounts) ==
  LET core == CoreMetrics(a, m, wishRows, txs, seen)
      objective == ObjectivePerformance(a, m, wishRows, txs)
  IN [core |-> core, type |-> TypeSection(core), objective |-> objective,
      pattern |-> PatternAnalysis(a, m, txs, core),
      group |-> GroupComparison(a, m, wishRows, txs, accounts, objective.change),
      pace |-> PacePrediction(RepresentativeWish(a, wishRows), m, today, txs)]
RunMonthly(academy, m, txs) ==
  LET rows == Among(ExportedWishes, academy)
      own  == Among(txs, academy)
      seen == VisitsAmong(visits, academy)
  IN [a \in {b \in IdsOf(academy) : CoreMetrics(b, m, rows, own, seen).save_count >= ActiveSaves} |->
       MonthlyReport(a, m, rows, own, seen, OfAcademy(academy))]

(* One student whose date cannot be represented ends the whole batch.      *)
LastMonth == MonthOf(today) - 1
MonthlyBatch == \E academy \in {a.academy : a \in Accounts} :
  LET all == RunMonthly(academy, LastMonth, {t \in Transactions : t.day \in Month(LastMonth)}) IN
  /\ Idle /\ LastMonth >= 1
  /\ \A a \in DOMAIN all : \A p \in all[a].pace : ~p.overflow
  /\ report' = [kind |-> "monthly_batch", academy |-> academy, month |-> LastMonth, students |-> all]
  /\ UNCHANGED ledger

-----------------------------------------------------------------------------
(* The recap service.                                                      *)

EndOfWeek(k)  == 7 * (k + 1)
EndOfMonth(m) == MonthStart[m + 1]
Status(s) == IF s = "AMOUNT_REACHED" THEN "REACHED" ELSE s
(* The request: all wishes of the account as they are, but what they held  *)
(* when the period ended, and all effects until then.                      *)
RequestFor(a, start, end) ==
  [account |-> a, start |-> start, end |-> end,
   wishes |-> {[w EXCEPT !.saved = Balance(w.id, end)] : w \in {v \in wishes : v.account = a}},
   transactions |-> {t \in Transactions : t.account = a /\ t.day < end}]

ByRoot(r) == \A s, t \in r.transactions : s.id # t.id => s.root # t.root   \* mutant of UniqueEffects
UniqueEffects(r) ==
  \A s, t \in r.transactions : s.id # t.id => <<s.root, s.wish>> # <<t.root, t.wish>>
CompletePeriod(kind, r) ==
  IF kind = "WEEKLY" THEN Weekday(r.start) = 0 /\ r.end = r.start + 7
  ELSE \E m \in DOMAIN MonthStart : MonthStart[m] = r.start /\ MonthStart[m + 1] = r.end
ValidRequest(kind, r) ==
  /\ CompletePeriod(kind, r)
  /\ \A v, w \in r.wishes : v # w => v.id # w.id
  /\ \A w \in r.wishes : w.saved >= 0 /\ w.target >= 0
  /\ \A t \in r.transactions : t.amount > 0 /\ \E w \in r.wishes : w.id = t.wish
  /\ UniqueEffects(r)

DomainWishes(r) == {[w EXCEPT !.status = Status(@), !.due = Never] : w \in r.wishes}
Candidates(k, a) ==
  Stories((CHOOSE x \in Accounts : x.id = a).academy, k, wishes, Transactions, visits, posts,
          Accounts, {a})
WeeklyView(r, k) ==
  [week  |-> k, page1 |-> Page1(r.account, k, DomainWishes(r), r.transactions, r.end),
   page2 |-> Page2(r.account, k, visits), page3 |-> Candidates(k, r.account)]

Habit(a, txs, end) ==
  Cardinality({t.day \div 7 : t \in {t \in txs :
    /\ t.account = a /\ t.type \in {"DEPOSIT", "TRANSFER_IN"}
    /\ t.day \in end - 7 * Lookback .. end - 1}})
MonthlyView(r, m) ==
  LET a    == r.account  rows == DomainWishes(r)
      core == [CoreMetrics(a, m, rows, r.transactions, {}) EXCEPT
                 !.visit_count = Cardinality({v \in visits : v.visitor = a /\ v.day \in Month(m)})]
      peers == PeerAccounts(a, Accounts)
      Rates(p) == AchievementRate(p, DomainWishes(RequestFor(p, r.start, r.end)))
      rated == {p \in peers : Rates(p) # {}}
      weeks == [p \in peers |-> Habit(p, Transactions, r.end)]
      rate  == [p \in rated |-> CHOOSE own \in Rates(p) : TRUE]
  IN [core |-> core, type |-> TypeSection(core),
      objective |-> ObjectivePerformance(a, m, rows, r.transactions),
      pattern |-> PatternAnalysis(a, m, r.transactions, core),
      habit |-> RankAmong(Habit(a, r.transactions, r.end), weeks),
      achievement |-> {RankRate(mine, rate) : mine \in AchievementRate(a, rows)},
      pace |-> PacePrediction(RepresentativeWish(a, rows), m, r.end - 1, r.transactions),
      active |-> core.save_count >= ActiveSaves]

Reply(kind, r, view) ==
  IF ~ValidRequest(kind, r) THEN [status |-> 422]
  ELSE IF kind = "MONTHLY" /\ \E p \in view.pace : p.overflow THEN [status |-> 500]
  ELSE [status |-> 200, view |-> view]
WeeklyService == \E a \in Students, k \in {LastWeek(today)} :
  LET r == RequestFor(a, 7 * k, EndOfWeek(k)) IN
  /\ Idle
  /\ report' = [kind |-> "weekly", account |-> a, week |-> k,
                reply |-> Reply("WEEKLY", r, WeeklyView(r, k))]
  /\ UNCHANGED ledger
MonthlyService == \E a \in Students :
  LET m == LastMonth r == RequestFor(a, MonthStart[m], EndOfMonth(m)) IN
  /\ Idle /\ LastMonth >= 1
  /\ report' = [kind |-> "monthly", account |-> a, month |-> m,
                reply |-> Reply("MONTHLY", r, MonthlyView(r, m))]
  /\ UNCHANGED ledger

Deliver == ~Idle /\ report' = NoReport /\ UNCHANGED ledger
Next ==
  \/ Open \/ Deposit \/ Withdraw \/ Transfer \/ Complete \/ Abandon \/ Delete
  \/ Visit \/ Share \/ NextDay
  \/ WeeklyBatch \/ MonthlyBatch \/ WeeklyService \/ MonthlyService \/ Deliver
Spec == Init /\ [][Next]_vars

-----------------------------------------------------------------------------
Shown(kind)  == report.kind = kind /\ report.reply.status = 200
Rate(w, b)   == Rounded(100 * Balance(w.id, b), w.target)
WishOf(i)    == CHOOSE w \in wishes : w.id = i
Mine(a)      == {w \in wishes : w.account = a}
EventsToday  == {e \in effects : e.day = today} # {}

(* Progress calculated backwards is what the wish held: a recap of the     *)
(* service, however late it is asked for, shows the amounts of its own week *)
(* or month; the monthly batch starts from what the wish holds on the day  *)
(* it is run, and so shows them for the wishes that did not move since the *)
(* month ended (weekly_recap._wish_progress_asof,                          *)
(* compute_objective_performance, run_academy_monthly_recap).              *)
BackCalculated ==
  LET MonthShown(c) ==
        /\ c.prev = Rate(WishOf(c.wish), MonthStart[report.month])
        /\ c.curr = Rate(WishOf(c.wish), EndOfMonth(report.month))
  IN
  /\ Shown("weekly") => \A c \in report.reply.view.page1.milestone :
       /\ c.before = Balance(c.wish, 7 * report.week)
       /\ c.after  = Balance(c.wish, EndOfWeek(report.week))
  /\ Shown("monthly") => \A c \in report.reply.view.objective.change : MonthShown(c)
  /\ report.kind = "monthly_batch" =>
       \A a \in DOMAIN report.students : \A c \in report.students[a].objective.change :
         (\A e \in effects : e.wish = c.wish => e.day < EndOfMonth(report.month)) => MonthShown(c)

(* No date is predicted for a wish that ended before its month did: what   *)
(* it paid out stops its pace (compute_pace_prediction).                   *)
ClosedNotPromised ==
  \A a \in Students : \A view \in
      (IF Shown("monthly") /\ report.account = a THEN {report.reply.view} ELSE {}) \union
      (IF report.kind = "monthly_batch" /\ a \in DOMAIN report.students THEN {report.students[a]} ELSE {}) :
    \A p \in view.pace :
      LET w == WishOf(p.wish) IN
      w.closed = Never \/ w.closed >= EndOfMonth(report.month)

(* The savings of a month are what the account's wishes gained together,  *)
(* but for what ended wishes paid out, and whatever moved between them; a  *)
(* saving is counted for each deposit of the ledger, the incoming half of  *)
(* a transfer is none (resolve_transaction_type, compute_core_metrics).    *)
SavingsExplained ==
  Shown("monthly") =>
    LET Together(b) == SumFunctionOnSet([w \in wishes |-> Balance(w.id, b)], Mine(report.account))
        moved == {e \in effects : e.account = report.account /\ e.day \in Month(report.month)}
        paid  == {e \in moved : e.event \notin {"WISH_DEPOSIT", "WISH_WITHDRAWAL", "WISH_TRANSFER"}}
        core  == report.reply.view.core
    IN /\ core.total_savings =
            Together(EndOfMonth(report.month)) - Together(MonthStart[report.month])
              - SumFunctionOnSet(Deltas, paid)
       /\ core.save_count = Cardinality({e \in moved : e.event = "WISH_DEPOSIT"})

(* The rows that the weekly batch fetches are enough: with every row there *)
(* is, it would write the same (run_academy_weekly_recap's starting days,  *)
(* that of the streak standing in for that of the types of page 3, which   *)
(* Lookback has to reach).  Posts are by design those of the week.         *)
WindowsSuffice ==
  report.kind = "weekly_batch" =>
    report.students = RunWeekly(report.academy, Transactions, visits,
                                {p \in posts : p.day \in Week(LastWeek(today))})

(* The batch and the service tell the same of a week: when nothing happened *)
(* yet on the day the batch is run, whichever day that is, a student with a *)
(* chosen representative gets the first two pages that the service gives    *)
(* (docs/recap/input-parity.md).                                           *)
Parity ==
  report.kind = "weekly_batch" /\ ~EventsToday =>
    \A a \in DOMAIN report.students :
      LET k == LastWeek(today)
          view == WeeklyView(RequestFor(a, 7 * k, EndOfWeek(k)), k) IN
      {w \in Mine(a) : w.representative /\ w.deleted = Never} # {} =>
        /\ report.students[a].page1 = view.page1
        /\ report.students[a].page2 = view.page2

(* What the ledger really holds is never refused, the two rows of a        *)
(* transfer included; only a date that cannot be represented fails         *)
(* (validation.py, _validate_input; compute_pace_prediction).              *)
Accepted ==
  report.kind \in {"weekly", "monthly"} =>
    \/ report.reply.status = 200
    \/ report.reply.status = 500 /\ report.kind = "monthly"
=============================================================================
