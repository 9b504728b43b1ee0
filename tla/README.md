# Verification of crabit-data

crabit-data produces the demonstration data of a children's saving service: a
calendar-driven student simulation talks to the real backend over a persistent
session (`synthetic_data/`), an independent oracle re-checks every recorded
event, the result is packed, replayed and tried out on a disposable database,
and two small services rank the feed (`feed/`, `feed_service/`) and write
periodic recaps (`recap_service/`, `monthly_recap.py`, `weekly_recap.py`). This
directory holds TLA+ models of its stateful parts, the TLC runs that check them
on small instances, and TLAPS proofs of every safety invariant and action
property those runs check, for every value of the constants that meets the
modules' named assumptions; the liveness properties are model-checked only.

Paths below are relative to the root of the repository.

## The system

| Part | Code | State it keeps | Operations |
|---|---|---|---|
| Simulation policy | `synthetic_data/generate.py` `Policy` | mirrors of goals, deletions, card funds, follows, blocks, cards; counters; last activity; months already influenced | `emit`, `create`, `share`, `observe`, `adjust_after_observation`, `goal_actions`, `influence`, `feed`, `visit`, `run` |
| Draws | `synthetic_data/policy.py` | none (functions of the seed) | `population`, `grants`, `visits`, `periods`, `target_amount`, `monthly_budget` |
| Backend session | `synthetic_data/runtime.py` `Session` | child process, two pipes, a queue, a reader thread, three log files | `step`, `finish`, `close` |
| Service supervisor | `synthetic_data/runtime.py` `services` | two child processes and their logs | start in order, wait for ready, stop |
| Oracle | `synthetic_data/validate.py` | balances, goals, relations, contexts, closures rebuilt from the commands | `verify_events`, `expected_periods`, `validate_discovery` |
| Evidence | `synthetic_data/bundle.py`, `storage.py` | files written once; hard links between equal copies | `make_bundle`, `verify_package`, `link_identical` |
| Fixed replays | `synthetic_data/replay.py` | two replay directories | `fixed_replays`, `compare_replays` |
| Trial application | `synthetic_data/application.py` | a disposable database, its backup, reports | `application_cycle`, `local_target` |
| Feed ranking | `feed/ranking.py`, `feed_service/` | none per request | `rank`, request checks |
| Batch feed | `feed/diversity_rules.py` and others | none | `apply_diversity_and_rules` |
| Recap metrics | `monthly_recap.py`, `weekly_recap.py`, `monthly_batch.py`, `weekly_batch.py` | none: computations over exported rows | `generate_*_recap`, `run_academy_*_recap` |
| Recap service | `recap_service/` | none per request | validation, `generate_recap` |
| Presentation | `recap_presenter.py`, `wish_category_classifier.py` | none | wording, keyword tables |
| Publication | `scripts/deployment/publish-image.sh` | a registry tag and its digest | look up, push or adopt, read back |

How they interact: `generate()` starts the two services, then a `Session`; the
`Policy` sends one command at a time through it and updates its mirrors from
each answer (a call and a reply, no shared state). The backend calls the two
services itself. Events and results end up in files; the oracle and the bundle
read the files; the replays and the trial application start Java processes on
the packed bundle.

What is hard about it: every command may be refused while the plan goes on;
plans are made from mirrors; the mirrors of social relations are knowingly
one-sided; a run is weeks of dependent steps whose breach shows up only in the
oracle, hours later; the session has two threads, two pipes and a child that may
crash, hang or write garbage; a failed `APPLY` has an unknown outcome, and so
has a failed push; a package takes long to write and is made of hard links to
files that may still change; a recap may be asked for weeks after its period,
over wishes that have moved, ended or gone since, and is computed backwards from
what they hold now. `PROJECT.json` lists these hazards line by line, with the
properties that guard them.

## Modules

| Module | Models | Role |
|---|---|---|
| `WishLifecycle` | the contract about one saving goal that `verify_events` recomputes | abstract specification |
| `SavingsPolicy` | the money side of `Policy` with the oracle's verdict | detailed, implements `WishLifecycle` |
| `SocialFeed` | the social half of `visit()`, `feed()`, `influence()` | detailed |
| `SimulationCalendar` | `run()`, `periods()`, `grants()`, the clock of `emit()` | detailed |
| `CommandLog` | commands decided, executed and known, one at a time | abstract specification |
| `StepSession` | `Session`: driver, reader thread, queue, child | detailed, implements `CommandLog` |
| `ApplicationCycle` | `application_cycle()`, `local_target()` | detailed |
| `FeedRules` | what both compositions of a feed share: the lists, cards, marginal score, spacing | operators |
| `FeedRanking` | `feed/ranking.py`, `rank()` | detailed |
| `FeedDiversity` | `feed/diversity_rules.py`, `apply_diversity_and_rules()` | detailed |
| `RecapMetrics` | `monthly_recap.py` | operators |
| `WeeklyRecap` | `weekly_recap.py` | operators |
| `Recap` | the ledger, the export, both batches, `recap_service/generator.py` and `validation.py` | detailed, composes the two |
| `EvidencePackage` | `make_bundle()`, `verify_package()` | detailed |
| `FixedReplays` | `fixed_replays()`, `compare_replays()`, `services()` | detailed, composed with `EvidencePackage` |
| `PublishImage` | `publish-image.sh` and the runs of its workflow | detailed |
| `SavingsPolicy_proof`, `SimulationCalendar_proof`, `StepSession_proof`, `SocialFeed_proof` | | TLAPS proofs about the module each is named after |
| `Procedures_proof` | | TLAPS proofs about `FixedReplays` with `EvidencePackage`, and about `ApplicationCycle` |
| `Recap_proof` | | TLAPS proofs about `Recap` and about `PublishImage`, in which the recap service is shipped |
| `Feed_proof` | | TLAPS proofs about `FeedRanking` and `FeedDiversity`, which share their lemmas |
| `FiniteInduction` | | lemmas of the proofs: induction over finite sets, sums |
| `MC...` | | instances for TLC |

### SavingsPolicy

`wishes`, `deleted`, `cash`, `joined`, `wish_created`, `preferred`,
`goal_number`, `last_goal_end` and `influenced` are the fields of `Policy`;
`ledger`, `removed` and `funds` are what the backend stores; `verdict` is the
oracle, which turns `"INVALID"` for good at the first unlawful command; `day`,
`who`, `pc`, `todo`, `chosen` and `after` say where `run()` stands and what its
locals hold. One action is one command with the planning before it, so that
`AdjustAfterObservation` is the whole method, `Create` the whole of `create()`
up to the `share()` it ends with, and the loops of `goal_actions()` are
`Review` and `Clean`. Draws of the random generator are nondeterministic, so
whatever the seed does is covered. The backend may refuse every command; an
applied wish command needs the version the backend stores, and answers with
the stored wish. The backend is otherwise believed to do what it is told, even
nonsense: lawfulness is to come from `Policy`, and the oracle is the judge.

One command is one atomic step here. What `CommandLog` promises is the reason:
no command is decided before the answer to the last one is known. That the
session keeps that promise is `ImplementsCommandLog` of `StepSession`.

Purposes, target dates, visibilities, idempotency keys and versions of other
records are left out; versions of wishes are kept modulo `VersionSpan`.
Two lines are over-approximated: which open goal resembles the observed one
(`max` of a string comparison) is any open goal, and ages in days are drawn
against the constants `AbandonAge`, `DeleteAge` and `Cooldown`. The extra look
at the balance on the eve of dormancy is in `SimulationCalendar`.

### SocialFeed

`follows` and `blocks` are the truth, `following` and `blocked` the mirrors,
`trail` the feed events of one page with the slot each belongs to, `signal` the
index of the sign of interest that `influence()` is given. `Meet`, `Forgive`,
`Part`, `Query` ... `Direct` follow `visit()` and `feed()` line by line. An
influenced decision takes two steps, as in `influence()`: `Influence` looks the
month up and emits the decision, which may be refused, and only `Confess` books
the month and emits the declaration. `since` is a history variable: the day on
which the backend last applied a block, whatever the mirror says, so that
`BlocksLast` does not repeat the guard it is about. The backend may show any
page of cards whose authors no block keeps apart from the reader; visibility of
goals is not modelled, and the oracle's `feed-access` rule therefore not
checked. The oracle's rules that are: `social-direction`, `owner-isolation`,
`visit-membership-owner`, `influence-order` and `influence-decision`.

### SimulationCalendar

The real days, 1 June to 10 September 2026, are numbered from 0, a Monday.
`plan` holds what is drawn for a student: joining day and dormancy
(`population()`), the visits of each week (`visits()`), and for each month the
budget, the days and the weights of the allowances (`grants()`), a 31st
included. `Close`, `Join` and the turns of each student come in the order of
`run()`. A JOIN may be refused, which `run()` does not notice: the student has
no turn from then on, but the closures planned for it are still sent. `missed`
remembers such students for the properties. `CalendarAccepted` lets the oracle
reject such a run, but not before a week after the refused JOIN, when the first
period of the student may be closed. A purchase may come to nothing, when the
card is empty. `Emit` is the clock and the last-activity bookkeeping of `emit()`
next to the oracle's own clock, enrollment and activity rules. One command
stands for a whole visit.

### StepSession

`pc` is the driver (`send`, `receive`, `finish`, `close` and the simulation
between two commands), `reader` the `_read` thread, `child` the backend. The
pipe from the child holds `PipeSize` lines. `faults` is chosen once, out of the
constant `FaultModels`, and names what may go wrong in a behaviour: the child
crashes, a line with the prefix does not parse, an answer has the wrong status,
a timed wait runs out first, the driver is interrupted. It is a variable so
that one specification speaks of both kinds of session: `FailsForCause` is
about those in which nothing but crashes and wrong answers may happen. A failed
flush leaves bytes behind, so that the `close()` that follows fails at once and
goes no further (`"abandoned"`): this is how the code behaves. `NoChildLeft`
says that such a close leaves no child behind either, since only a child that
is gone breaks the pipe; what it leaves open is a child that outlasts both timed
waits. `Ends` includes the reader thread: once the child is gone it ends, also
when `join()` gave up on it and its logs are closed under it.

### ApplicationCycle

The database is `tables` and `journal`; `backup` is the file PREPARE wrote;
`written` the reports on disk. Every Java operation may fail; an APPLY may
commit and fail; a PREPARE, failing or not, may leave behind changes it should
have rolled back; the backup file may be damaged at any time from PREPARE to
the end of the command, so also between the comparison of its digest and its
use (`application.py:100-103`). Nothing in the command prevents the restore of a
damaged backup; what `ReportTrue` shows is that PASS is not written then,
because `verify_restored()` compares with the inspection made at the beginning
and not with the backup. The database process may end at any time or refuse to;
where even `terminate()` does not end it, the command fails (`"abandoned"`), and
`TargetStopped` asks that nothing says PASS. `step` is the
place in the code, `raised` whether an exception is on its way out; the
specification is `TrialSpec`, so that one module can extend this one and
`FixedReplays`. `PublishImage` has its `PublishSpec` for the same reason.

### FeedRanking and FeedDiversity

`cards` is the request: the candidates scored and sorted, each with its score
in tenths (so that `.7 * score - .3 * redundancy` is an integer in hundredths),
its category, its author and what the rules ask of it. How a score is computed
is left out, any sorted list is an input; the binary64 ties the code takes care
of are ties of integers here. `stage` is the loop that runs, and every turn of
a loop is one step, so that the repairs of the list are seen one after the
other. `Protect` keeps `pool[-1]` in `tail`, since guaranteed candidates
overwrite each other there; `queue` is what a loop has still to treat.
`RestoreRole` has no step when no card can give up its place: there the code's
`next()` would raise, and `Answered` would fail. In `FeedDiversity` `snapshot`
is the copy of the categories that the code no longer brings up to date behind
the top; its specification is `BatchSpec`, so that a module may extend both.

### RecapMetrics, WeeklyRecap and Recap

The first two are the computations of a month and of a week, one operator per
function of the code and under its name; days are numbers, month starts a
constant, and an absent result is an empty set where the code returns `None`.
`Recap` puts them over a ledger that goes on changing. `wishes`, `effects`,
`visits` and `posts` are the backend's rows (external): wishes are opened,
saved on, end with or without a payout, are deleted and shared, and `now` moves
along `Days`. At any time `WeeklyBatch` or `MonthlyBatch` may run over the
export of the moment (`projection_csv()`, its statuses included), and
`WeeklyService` or `MonthlyService` may be asked for the last period that is
over. `report` is what they answer, until it is delivered. The service reads
balances as of the end of the period, the batch the balances of today: that
both tell the same (`Parity`), and that calculating backwards meets what the
ledger held (`BackCalculated`), is what the module is for. The monthly batch
starts from the amounts of the day it is run, not of the end of the month, so
that `BackCalculated` speaks there only of the wishes that have not moved since.
`SavingsExplained` counts the savings as well as adding them up, since over the
account the halves of a transfer cancel. A date that cannot
be represented ends the whole batch or becomes a 500.

Amounts are exact, and displayed percentages rounded half to even as Python's
`round()` does. Left out are messages, titles, categories, CSV columns, and
thousands separators; types and peers take their thresholds from constants.

`RecapAssumption` says what the ledger begins with: typed rows of deposits made
before the first day, each under an id and a root of its own and for a wish
that there is, and wishes that hold what those rows add up to. A ledger with a
longer past is one that grew from such a beginning by the actions. The days are
covered by the months of `MonthStart`, none longer than 31 days, and `Lookback`
is at least nine weeks, which is how far back the month before the one of a
wish's completion may begin.

### EvidencePackage and FixedReplays

`disk` is the package, file by file: absent, cut off, a hard link to the run's
file or a copy of its own. `Write` is the next file of `make_bundle()` in its
order (`Plan`), which `Die` may cut off anywhere; a run with a missing response
or an oversized bundle is refused unless unadmitted evidence is to be retained.
`Rewrite` changes a file of the run in place, and with it every link. `Whole`
is `verify_package()`.

`FixedReplays` runs `fixed_replays()` beside it: `Verify`, then `Start` and
`Ready` for each service in order, two replays, `Stop` for the `finally` of
`services()`, `Compare` and `WriteComparison`. A service may exit at any time,
every step before `Stop` may raise, and the replay, which is the backend's,
may be incomplete, may report either database and either result.

### PublishImage

`tag` and `stored` are the registry (external), addressed by content, so that
an image stands for its digest; everything else is one run of the workflow. A
lookup may fail either way, a push may take place and report a failure, and
`Stop` cuts a run off anywhere. Builds of one revision may differ
(`Configs`), as Docker builds do. Three assumptions come from outside the
script: a push takes effect when it is made or never; the workflow's
concurrency group runs one dispatch of a revision at a time; and what the tag
names without having been pushed here, it named before.

## Runs

| Run | Instance | States | Properties |
|---|---|---|---|
| `savings` | two students, two days, three goals each | 611,365 | `TypeOK`, `OracleAccepts`, `MirrorsFaithful`, `CapacityKept`, `OnlySpendingOverdraws`, `ImplementsLifecycle` |
| `social` | three students, four days, three cards, pages of two | 1,201,201 | `SocialAccepted`, `MirrorCovers`, `OnceAMonth`, `InfluenceHasExposure`, `BlocksLast` |
| `calendar` | the real 102 days, three students, 21 plans | 1,476,304 | `CalendarAccepted`, `Complete`, `SilentSinceEve` |
| `session` | three STEPs and a FINISH, all faults or only those that give a cause | 14,236 | `RepliesMatch`, `ResultHonest`, `NoChildLeft`, `FailsForCause`, `ImplementsCommandLog`, `Ends` |
| `application` | every failure of every operation | 449 | `AppliedOnce`, `ReportTrue`, `TargetStopped`, `Ends` |
| `ranking` | up to six candidates, two categories, four role models | 403,178 | `Guaranteed`, `SpacedOut`, `Answered` |
| `diversity` | up to six scored cards, three role models | 239,172 | `Composed` |
| `diversity_recent` | the same | violated | `RecentForced` |
| `diversity_spacing` | the same | violated | `CategoriesSpaced` |
| `recap` | two students, three wishes, four days in three months | 476,926 | `BackCalculated`, `ClosedNotPromised`, `SavingsExplained`, `WindowsSuffice`, `Parity`, `Accepted` |
| `evidence` | two files in the bundle and one beside it, two services, two databases | 115,576 | `WholeIsComplete`, `PassEarned`, `Cleaned` |
| `publish` | two builds, three dispatches | 2,626 | `OutputsAgree` |

All but `diversity_recent` and `diversity_spacing` pass; those state what the
documentation says of `diversity_rules.py` and fail, see Findings. Each
property of a passing run is paired in `PROJECT.json` with a mutant of the code
(a definition marked as a mutant in the module) that violates it. Type
correctness is a property of a run only where it takes an argument
(`SavingsPolicy`); elsewhere it is part of the proved invariants or left out.

Bounds and why they are enough:

- `savings`: amounts of a few units make goals fill up, purchases reach into
  saved money and every `min()` of the code decide both ways. Two days that
  are two months let the monthly limit, the cooldown and the ages expire.
  Three goals of one student with room for two make capacity, transfer and
  deletion meet. The owner joins late and only starts a goal. Versions modulo
  two tell a fresh mirror from one that missed an update.
- `social`: blocks of two days within four days can end, be renewed and end
  again; months of two days let a decision be taken twice; one student joins
  after the others may have looked for them; pages of two cards have a slot
  that is looked at and one that is not.
- `calendar`: plans cover every joining day `population()` uses and days next
  to the start of a week and of a month and the last day, each dormancy, and
  each cadence; visits differ by week, in the week of the eve too, budgets by
  month, and irregular allowances fall on the last days of months of 30 and of
  31 days. `MaxRefused = 1` lets one allowance fail; any JOIN may.
  `DayLength = 1000` keeps dates small; the code counts 86,400,000 ms, and all that matters
  is that half a day is longer than the commands of a day.
- `session`: three STEPs let a late answer meet the next command and the one
  after; two lines fill the pipe; three lines of noise can fill it alone.
- `ranking`, `diversity`: 40, 20, 10 and 2 become 5, 4, 3 and 2. What matters
  is kept: there are more candidates than the pool holds, more in the pool than
  are shown, more shown than lead, and more that lead than role models asked
  for; the last insertion of a recent completion can thus never take the last
  role model needed. Every choice of roles and of two categories is tried,
  recent completions at and below the cut, and ties of scores.
- `recap`: days 58, 60, 92 and 100 with months from days 31, 59 and 90 give
  activity in the month that is over, on both sides of the end of a month, on
  two days of one week, and reports asked for late. With a look-back of ten
  weeks (the code: 52) a batch on day 100 fetches rows from day 21 and visits
  from day 59 on: savings of day 20 and visits of day 58 lie outside, and the
  month that types the stories of day 92 still lies inside. `b` is far from its
  target, so that a date past `MaxDay`, which stands for the year 9999, comes
  up beside dates that can be told. `MaxRows = 7` leaves room for three more
  rows, with at most one visit and one ended wish: opening a wish and
  transferring to it takes three, and so does saving on a wish, ending it and
  telling of it. Thresholds of one and two let saving types change with a few
  rows.
- `evidence`: a listed file inside the bundle and one beside it behave
  differently (manifest and package against package alone); one rewrite can
  fall before, between and after the two listings; two databases and two
  results are what a comparison can tell apart.
- `publish`: a first dispatch to leave an image behind by an ambiguous push, a
  second that adopts or cannot, a third to disagree with the second.

Fairness is only assumed of the modules with liveness properties: `FeedRanking`,
a loop of one thread that goes on, `FixedReplays`, `StepSession` and
`ApplicationCycle`. A thread that can run does (weak fairness of driver and
reader; the operating system's scheduling), a child that has read a command
answers it and one that is told to exits (weak fairness of `Execute`, `Reply`
and `Exit`), and every operation of the cycle ends (`run_java` waits for it; no
timeout in the code bounds it, so that this is an assumption about the
importer). `FixedReplays` assumes progress only of `Stop`, `Compare` and
`WriteComparison`: the cleanup waits ten seconds for a process and then kills
it, so that nothing external holds it up, and `Cleaned` says that whatever
brought the attempt there, no service survives it; nothing is said of an attempt
whose replay never returns. Nothing is assumed of faults. `Ends` of `session`
thus says that whatever goes wrong, the driver reaches the end of `close()` or
an exception out of it; with fairness of the child's good behaviour taken away,
the timed waits still end it. The other modules are checked for deadlock
instead, except those that stop with their answer or at a bound (`FeedRanking`,
`FeedDiversity`, `Recap`, `FixedReplays`, `PublishImage`).

## Proofs

### SavingsPolicy

`SavingsPolicy_proof` proves, for any number of students and goals, any
amounts, capacities, calendars and refusals, under `PolicyAssumption` (which
TLC evaluates in the run):

- `Invariance`: `Spec => []IInv`
- `TypeCorrect`, `HistoryLawful`, `MirrorsAgree`: `TypeOK`, `OracleAccepts`
  and `MirrorsFaithful` are invariants
- `CapacityRespected`: `CapacityKept` is an invariant
- `DebtFromSpending`: `Spec => OnlySpendingOverdraws`, an action property
- `Refinement`: `Spec => ImplementsLifecycle`

None of the first three invariants is inductive. Whether the oracle accepts the
next command depends on the goal it names, so `IInv` adds `GoalShape` (an open
goal holds 0..target and is `AMOUNT_REACHED` exactly when full, any other holds
nothing), `Bookkeeping` (a goal exists only under a number counted already, only
ended goals are removed, no card is overdrawn) and `LocalsLive` (what `Policy`
holds in locals between two commands is a live goal of the student whose turn it
is). `MirrorsFaithful` carries the guards, which `Policy` reads from its
mirrors, over to the stored goals, which the oracle judges.

The argument is split by what a step touches (`Money`, `Memory`, `Control`).
Lemmas about operators (`BumpedWish`, `MovedWish`, `FirstIn`, ...) feed lemmas
about commands (`ApplyStep`, `MutateStep`, `EndStep`, `CreateStep`, `MoveStep`,
`DeleteStep`, `CashStep`); each says what the command keeps and that it is a
step of `WishLifecycle` or none. The proof of a step of `Next` is then one
case per action. The refinement uses the same case analysis: `Promised` is the
mapped step, and the lemmas `StoredPromise`, `CreatedPromise`, `MovedPromise`
and `RemovedPromise` pick the abstract action.

`CapacityKept` is not inductive either, since the goal of the joining day is
started without a look at the capacity. `Presence` supplies the reason: nobody
has started a goal before the turn of the joining day, so that this goal is the
first. That no other command opens a goal is read off the refinement: a step of
`WishLifecycle` that opens one must create it (`NothingOpened`).

`DebtFromSpending` compares two sums before and after a step, the one that
`allocation()` adds up over the open goals and the one over all goals of the
backend. `TotalsAgree` shows them equal, as ended and removed goals hold
nothing. Every command but a deposit and a transfer leaves each goal with no
more than it had (`LoweredStep`); a transfer moves what it takes
(`TransferEven`); a deposit is no more than what is not yet put aside
(`DepositCovered`), so that the deficit after it is zero.

### SimulationCalendar

For any number of students, any plans that may be drawn, any length of the day
and any refused joins and allowances, under `CalendarAssumption` (dormant
students have been there from the first day; the owner does not visit; irregular
allowances fall on three different days of their month; half a day, in ticks, is
longer than the `8 * N` commands of a day): `CalendarRight`, `SilentBetween` and
`RunsComplete` prove the three invariants of the run, and `CalendarKept` the
inductive invariant `CInv` they follow from. Its parts are

- `Place`: types, and where `run()` stands;
- `Members`: exactly those have joined whose day is past, or today's as far as
  the loop has come, but for the refused;
- `Clock`: the commands of the day so far are bounded by the place in the loops,
  and the oracle's clock is not past the simulation's. Without that bound, the
  noon commands of a day might run into the next midnight;
- `Closures`: the periods closed are the expected ones that are past, no others
  and no fewer;
- `Silence`: between the eve and the return, the last activity of a dormant
  student is of the afternoon of the eve, whence the 7 to 21 days of the oracle;
- `Allowances`: what a member was given in a month is the sum of the shares
  whose day has come. `Complete` needs at the end that the shares add up to the
  budget, what rounding left of it included.

### StepSession

For any number of commands, any capacity of the pipe, any noise and any fault
models: `AnswersBelong`, `ResultsEarned`, `NoneLeft` and `FailuresCaused` prove
the four invariants of the run, `Refinement` that `Spec => ImplementsCommandLog`.

The invariants speak of the driver at rest; what makes them inductive is what
is under way meanwhile. `IInv` adds `Order` (commands are journalled, carried
out and answered from the first on, with at most one more in each log than in
the next) and `Flight` (a real answer in the pipe or in the queue belongs to
the command that waits for it, and there is only one). From these a step that
takes an answer finds the right one whatever noise surrounds it, and the step
of a process is a step of `CommandLog` or none. `FailuresCaused` rests on a
second invariant, `Causes`, for calm sessions: an answer that was given is not
lost, the reader thread outlives the child, and a child that ended well has
carried out FINISH. `NoneLeft` rests on `Gone`: only a child that has exited
breaks the pipe to it.

The refinement is more than a result about `Session`: it is the reason why
`SavingsPolicy`, `SocialFeed` and `SimulationCalendar` may treat a command with
its answer as one step.

### SocialFeed

For any students, joining days, pages and refusals, under `SocialAssumption`:
`SocialLawful`, `MirrorsCover`, `MonthlyDecision`, `ExposureFirst` and the
action property `BlocksKept`. The invariant is `Turn` (who may be visiting, and
whom the list to forgive names), `Relations` (the verdict, the mirrors, and that
only members other than the owner are ever blocked: without it, the unblocking
of an old entry might be unlawful; and that the day the mirror has of a block in
force is that of `since`), `Decided` (a month counts one decision when it is
booked or about to be, none otherwise), `Page` (the cards at hand are
classmates') and `Trail` (while a card is dealt with, its impression stands in
the trail and `signal` points to a sign of interest).

### FeedRanking and FeedDiversity

For every list of candidates and any sizes with `RoleTarget < TopWindow <=
FinalSize` (the code: 2, 10 and 20), under `FeedConstants`: `RankingConsistent`
proves the inductive invariant `RInv`, `GuaranteesHold` and `SpacingHolds` the
two invariants of the run, and `NextFinds` that the one `next()` without a
default has always something to find. `RInv` says per loop what the loops
before have established and the rest must not lose: the list is a
repetition-free selection of candidates (`Typed`); the pool keeps its size
whatever is protected (`Collecting`); the role models that had their turn lead
(`Promoting`); spacing moves cards over without losing one, and with enough role
models among them (`Spacing`); and while the role models are led back, those
treated lead and a place is left (`Restoring`). The guarantee of the recent
completion comes last and may displace one card, the last that is neither;
`RoleTarget < TopWindow` is what makes sure that it is not the last leading
role model that is wanted.

The batch goes through the same kinds of loops, and the lemmas about lists
without repetition are shared. `BatchConsistent` proves `BInv`, `BatchComposed`
the invariant of its run, `Composed`, under `DiversityConstants` as well
(`FinalSize <= MmrSize`; the code: 20 and 60). `BInv` says that the
draft and what MMR has not yet taken, then the feed and what is not yet spaced,
are one selection of candidates of the right size (`Drafted`, `Respaced`), and
that while role models are promoted, those in the top and those in the queue are
enough together (`Promoted`). That a promotion gains a leader and loses none
rests on two things the code does not check: the free places handed out are
always those of the top without a role model, and a role model can only be
missing from a top that is full (`TopIsFull`), so that the card displaced, which
goes to the end, never ends up in the top again.

### FixedReplays

For any files of a bundle, any services, databases and rewritten files:
`WholeComplete` and `PassIsEarned` prove the two invariants of the run, and
`StoppedInTheEnd` the safety half of the cleanup: past the `finally` of
`services()` nothing that was started is alive (that it gets there is `Cleaned`,
which TLC checks). `PackageInv` says what a half-made package already
guarantees: what lists other files was begun when they stood (`Ordered`), and
versions grow from the manifest over `package.json` to the files themselves
(`Grown`), so that a manifest and a file that agree have not been rewritten in
between. `AttemptInv` says what the attempt has found out at each place of the
code; `ServicesInv` that the services started are the first ones of the list.

### ApplicationCycle

For every failure of every operation: `NoSecondApply`, `VerdictsTrue` and
`DatabaseGone` prove the three invariants of the run. The invariant `TrialInv`
says where the command is by what it has started (`Counted`: the counts of APPLY
processes follow from the place, but for a command on its way out), which
verdict may be on disk at which place, and that whoever leaves without an
exception has seen the database restored (`Verdicts`), and that the report comes
after the database stopped (`TargetGone`). `AppliedOnce` alone would allow a
first APPLY from any place; what rules it out is that nothing leads back to an
earlier one. The instance is finite and TLC visits all of it; the proof shows
the argument.

### Recap

For any accounts, wishes, days, months, amounts and look-back under
`RecapAssumption`, all six invariants of the run are proved:
`NeverRefused`, `ProgressIsTrue`, `NoDateForTheEnded`, `SavingsAreGains`,
`WindowsReachFarEnough` and `BothTellTheSame`. None is inductive, as a recap is
made of the ledger of the moment; they follow from `LedgerInvariant`:

- `RowsInv`: no two rows share an id, nor a root event and a wish; none is of a
  day to come, and its sign is that of its event. The service's uniqueness
  check passes because of the first half, the types of `ResolveTransactionType`
  carry the right sign because of the second;
- `WishesInv`: a row is of a wish of its own account, and a wish that ended is
  not active any more, so that nothing is posted to it again;
- `FundsInv`: a wish holds what its rows add up to, on no day has it ever held
  less than nothing, and after its end it holds nothing. That every past balance
  is not negative, and not only today's, is what the service needs of a request
  for a period long over; it follows since a posting of today changes no earlier
  day (`FundsAdded`).

A posting is treated once for all actions: `Posted` shows that rows that are
`Fresh` and changes that are `Settled` by what the rows add keep all three
parts, and an action has only to be shown to post such rows.

On top of it `NetMoved` is the lemma the rest keeps using: what the code adds up
over exported rows with their signs, `_month_net_change()`, is the difference of
two balances, whatever subset of the rows is at hand as long as it has those of
the period. For `ProgressIsTrue` the request has them (`RequestMoves`), and the
monthly batch takes them from all rows, starting from what a wish that has not
moved since held at the end of the month (`FundsSince`, `BatchBack`); for
`WindowsReachFarEnough` the fetched rows have (`BatchMoves`, `WindowsReach`: the
window of the streak reaches the month before by Lookback, that of the visits by
its own choice), and `BothTellTheSame` meets the two in the middle.
`NoDateForTheEnded` follows from balances alone: what ended before the end of
the month held nothing then and not less before, so it gained nothing.

`SavingsAreGains` needs one more invariant, `TransfersEven`: the rows of
transfers of an account add up to nothing on every day. Deposits and
withdrawals are then what is left of the change of all its wishes together
after the payouts, and the sums over rows and over wishes are the same sums
taken in two orders (`SumOfParts`, `TogetherIsTotal`). That as many savings are
counted as the ledger has deposits holds since no two rows share an id
(`AsManyRows`), and each is typed by its event (`TypedRows`).

### PublishImage

For any configurations and any number of dispatches: `ReportsAgree`. The
invariant adds what a run relies on between its steps (`RunState`: the image
under the local name is the one tested; a push only happens while the tag is
free, which serialised runs ensure; what is read back is what the tag names),
`Reported` (nothing was reported while the tag is free), without which a push
could contradict an earlier report, and `TestedAsTagged` (whoever reported had
tested what the tag names).

### FiniteInduction

The library states induction for predicates, which none of the installed
provers can instantiate. `FiniteInduction` states it for sets (`LeastNatural`,
`NaturalInduction`, `SetInduction`: a set of subsets that holds the empty set
and, with each member, every one larger by an element, holds the whole set), and
derives from it what `SumFunctionOnSet` of the community modules, defined by
recursion over a set, yields: how a sum changes with a value or with an element
(`SumChanged`, `SumExtended`), how sums compare (`SumMonotone`,
`SumOfPart`, `SumOverPart`, `SumBounded`), and how they are taken apart, counted
under other names, turned round and put together from parts (`SumSplit`,
`SumRenamed`, `SumOpposite`, `SumOfParts`). `SavingsPolicy_proof`,
`SimulationCalendar_proof` and `Recap_proof` rest on the sums, `Feed_proof` on
the inductions.

### What is only model-checked

- Liveness: `Ends` of `session` and of `application`, `Answered`, `Cleaned`.
  They depend on fairness, hence on ENABLED, which the prover does not reason
  about. The safety halves are proved: what a session, a cycle or an attempt
  that has ended leaves behind (`NoneLeft`, `DatabaseGone`, `StoppedInTheEnd`),
  and that the only search of the ranking that could fail does not
  (`NextFinds`).

Every invariant and action property of the runs that pass is a theorem.

## Findings

- `diversity_recent`: the docstring of `feed/diversity_rules.py` (line 8) forces
  a completion of the last 48 hours into the list. `ensure_role_model_in_top`
  may then put a role model that was not in the list in its place; the
  completion is appended "so that it is not lost" (line 203) to a list that is
  now too long, and the cut to `final_size` (line 267) takes it away. The
  ranking service puts it back at the end (`Guaranteed`).
- `diversity_spacing`: `README.md` has the spacing of categories as the last
  step, the code does it before the role models are promoted. The promotion
  avoids places that break the spacing only where one is left, and closes gaps
  below the top, so that three cards of one category can stand in a row in
  front of another.

Met while modelling, without a run of their own, since no state of the system
hangs on them:

- The service compares a student's achievement, rounded to whole percent for
  display, with unrounded rates of the others (`monthly_recap.py:784`), so that
  `ALL_TIED` (comments at 571 and 584) may be missed among equals, or shown
  among unequals. `GroupComparison` does as the code.
- `weekly_batch.py:277` and `332` promise all success stories without
  exclusion; `compute_academy_success_stories` returns at most five.
- A story of a wish completed in one week and shared in the next is told in
  neither, and sharing a wish's progress counts as a told completion. The type
  in a story rests on transactions alone.
- The export shows reached wishes as in progress (`bundle.py:67`), so that the
  batch may fall back on another representative than the service: `Parity` is
  about students with a chosen one. The batch calculates back from today's
  amounts to the beginning of today (`weekly_recap.py:450`), so that what moved
  on the very day of the batch is counted into the amounts of last week:
  `Parity` is about a day on which nothing moved yet.
- `monthly_batch.py` may be run on any later day, but calculates back from the
  amounts of that day (257-258, `monthly_recap.py:383-385`): of a wish that has
  moved since the month it shows amounts of no time of that month, and nothing
  checks the day of the run. `BackCalculated` is about wishes that have not moved
  since.
- A refused JOIN is not noticed (`generate.py:319`): the run goes on without the
  student and closes its periods, which the oracle rejects.
- A damaged backup is restored if the damage comes after the digest was
  compared (`application.py:100-103`); the verification that follows fails.
- A predicted date drops the fraction of a day, and one past the year 9999
  ends the batch of the whole academy, or becomes a 500 the backend will retry
  (`Accepted`).
- `feed/feed_recommend.py:44-53` maps every `WISH_TRANSFER` to `TRANSFER_OUT`,
  where `weekly_batch.py` goes by the sign.
- A run's file rewritten between the manifest and `package.json` gives a
  package that verifies and a bundle that the backend refuses (`Admissible`).
- A rerun after an ambiguous push can adopt the image only if its own build is
  identical to the first; otherwise it fails until a new revision, which
  `OutputsAgree` prefers to a second image.

## Not modelled

- `storage.py` `link_identical()`: nothing in the repository calls it, so that
  there is no process to compose it with. `provenance.py` only hashes files.
- `validate_population`, `validate_discovery`, and the parts of `verify_events`
  about backend rows that `Policy` never sees (identity map, feed access,
  snapshots): comparisons of finished files.
- The request checks of both services (authentication, media type, sizes,
  field formats, JSON codec): each looks at one request and keeps nothing. The
  checks of `recap_service/validation.py` on which a correct ledger might
  stumble are in `Recap` (`ValidRequest`). A value that cannot be hashed raises
  outside the inner `try` of `recap_service/app.py`; that is not in the model.
- Scoring and extraction of candidates in `feed/`: any sorted list is an input.
  `feed/feed_recommend_ind.py` is a copy for debugging.
- `recap_presenter.py`, `wish_category_classifier.py`: wording and keywords.
- The verification scripts, `sync-feed-contract.py`, `gunicorn.conf.py`:
  one-shot checks and settings.
- A supervisor that is killed, or interrupted a second time during `finally`:
  nothing of it runs any more, and the services it started outlive it.
- The backend, the Java importer, PostgreSQL, Gradle, Docker and the registry
  are external and appear through what the code sends and expects.

## Plan

1. Proofs: a measure that every step of the ranking lowers, and one for the
   closing of a session: the part of `Answered` and `Ends` that needs no
   fairness.
2. Extraction and scoring of the batch feed over the ledger of `Recap`, if a
   property relates them to what the ranking service shows.
3. The order of the request checks of both services, if they come to share
   state (a limit, a cache).
