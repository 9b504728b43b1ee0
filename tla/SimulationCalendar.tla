------------------------ MODULE SimulationCalendar ------------------------
(***************************************************************************)
(* The calendar of the student simulation (synthetic_data/generate.py,     *)
(* run() and the head of emit(); synthetic_data/policy.py, grants(),       *)
(* visits() and periods()) and what the oracle asks of it                  *)
(* (synthetic_data/validate.py, verify_events() and expected_periods()).   *)
(*                                                                         *)
(* Every day from 1 June to 10 September 2026 the periods that end at its  *)
(* midnight are closed, the students of the day join, and every member     *)
(* has a turn: allowance, purchase, first goal, dormancy, visit.  Days are *)
(* numbered from 0, a Monday; the months start where they really do.       *)
(* What a visit does is SavingsPolicy's and SocialFeed's: one command of   *)
(* the student stands for it here.                                         *)
(***************************************************************************)
EXTENDS Integers, Sequences, FiniteSets, Functions, FiniteSetsExt

CONSTANTS
  N,          \* students
  Owner,      \* the academy owner's number
  Plans,      \* the traits population() may draw for the students
  DayLength,  \* ticks of the clock in a day (milliseconds in the code)
  MaxRefused  \* bound: allowances the backend refuses

Students == 1..N
End      == 102                                  \* 11 September
Starts   == <<0, 30, 61, 92>>                    \* June, July, August, September
Lengths  == <<30, 31, 31, 30>>
Months   == 1..4
Weeks    == 0..14
Eve      == 36                                   \* 7 July
Month(d) == Max({m \in Months : Starts[m] <= d})

Cadences == {"WEEKLY", "MONTHLY", "IRREGULAR"}
Budgets  == 10000..30000
(* Visits are drawn for every week, budget and allowances for every month. *)
Plan == [join : 0..(End - 1), dormant : {0, 7, 14, 19}, visits : [Weeks -> SUBSET (0..6)],
         cadence : Cadences, budget : [Months -> Budgets],
         days : [Months -> [1..3 -> 0..30]], weights : [Months -> [1..3 -> 1..4]]]

(* Irregular allowances fall on three days of the month in order.  Only    *)
(* students there from the first day are chosen for dormancy, and the      *)
(* owner neither visits nor is dormant.  Half a day is longer than the     *)
(* commands of a day: two closures, a JOIN and five commands of a turn.    *)
ASSUME CalendarAssumption ==
  /\ N \in Nat \ {0} /\ Owner \in Students /\ MaxRefused \in Nat
  /\ DayLength \in Nat /\ DayLength \div 2 > 8 * N
  /\ \A p \in Plans, s \in Students :
       /\ p[s] \in Plan
       /\ \A m \in Months : /\ p[s].days[m][1] < p[s].days[m][2] /\ p[s].days[m][2] < p[s].days[m][3]
                           /\ p[s].days[m][3] < Lengths[m]
       /\ p[s].dormant # 0 => p[s].join = 0
       /\ s = Owner => /\ p[s].dormant = 0 /\ p[s].join = 0
                       /\ \A w \in Weeks : p[s].visits[w] = {}

VARIABLES
  plan,                          \* population() and what is drawn per week and month
  day, pc, who, tick,            \* where run() stands; commands sent this day
  joined, last_activity,         \* Policy's mirrors
  earnings, closed, latest,      \* the oracle's: allowances, closures, activity
  previous_time, previous_phase, \* the oracle's clock
  refused,                       \* allowances refused so far
  missed,                        \* students whose JOIN was refused (for the properties)
  verdict                        \* oracle: "OK" until a command breaks a rule

mirrors == <<joined, last_activity>>
oracle  == <<earnings, closed, latest, previous_time, previous_phase, verdict>>
vars == <<plan, day, pc, who, tick, mirrors, oracle, refused, missed>>

-----------------------------------------------------------------------------
(* Time: midnight for boundary commands, else noon and a little more for   *)
(* every command of the day.                                               *)
Midnight(d) == d * DayLength
Noon(d)     == Midnight(d) + DayLength \div 2

When(boundary) == IF boundary THEN Midnight(day) ELSE Noon(day) + tick + 1

Never == -1

(* policy.periods(): the weeks and months that end before the last day and *)
(* that the student was a member for as a whole.                           *)
Period(s, kind, first, last) == [student |-> s, kind |-> kind, first |-> first, last |-> last]

(* Mutant: a day of the period is enough. *)
CoversPart(s, first) == plan[s].join <= first + 6

Covers(s, first) == plan[s].join <= first

(* The closures of a midnight come by kind, then by student: the i-th      *)
(* candidate, and whether it is due.                                       *)
Candidate(i) == IF i <= N THEN Period(i, "CLOSE_WEEK", day - 7, day)
                ELSE Period(i - N, "CLOSE_MONTH", IF day > 0 THEN Starts[Month(day - 1)] ELSE 0, day)
Due(i) == /\ day > 0
          /\ IF i <= N THEN day % 7 = 0 ELSE day = Starts[Month(day)]
          /\ Covers(Candidate(i).student, Candidate(i).first)

(* policy.grants(): the days of the month and the budget in shares, what   *)
(* rounding leaves of it in the last.                                      *)
GrantDays(s, m) == CASE plan[s].cadence = "MONTHLY" -> <<0>>
                     [] plan[s].cadence = "WEEKLY"  -> <<0, 7, 14, 21>>
                     [] OTHER                       -> plan[s].days[m]
Weights(s, m) == IF plan[s].cadence = "IRREGULAR" THEN plan[s].weights[m]
                 ELSE [i \in DOMAIN GrantDays(s, m) |-> 1]

Rounded(budget, weights) ==
  [i \in DOMAIN weights |-> (budget * weights[i]) \div SumFunction(weights)]
Shares(budget, weights) ==
  LET rounded == Rounded(budget, weights)
  IN  [rounded EXCEPT ![Len(weights)] = @ + (budget - SumFunction(rounded))]
Grants(s, m) == Shares(plan[s].budget[m], Weights(s, m))

(* The allowances due to s today, by their place in the month. *)
GrantsToday(s) ==
  LET m == Month(day) IN {i \in DOMAIN GrantDays(s, m) : Starts[m] + GrantDays(s, m)[i] = day}

-----------------------------------------------------------------------------
(* emit() and the checks the oracle makes of every event.                  *)

Phase(kind) == CASE kind = "CLOSE_WEEK" -> 0 [] kind = "CLOSE_MONTH" -> 1 [] OTHER -> 2

PASSIVE == {"GRANT", "PURCHASE", "CLOSE_WEEK", "CLOSE_MONTH", "INFLUENCED_DECISION"}

(* event-time, boundary-phase, actor-enrollment, join-before-action. *)
Timely(s, kind, t) ==
  /\ 0 <= t /\ t < Midnight(End) /\ t >= previous_time
  /\ t = previous_time => Phase(kind) >= previous_phase
  /\ t >= Midnight(plan[s].join)
  /\ IF kind = "JOIN" THEN s \notin joined /\ t = Midnight(plan[s].join) ELSE s \in joined

(* One event of s; the mirrors and the oracle both note an activity, were  *)
(* it refused or not. *)
Emit(s, kind, boundary, lawful) ==
  LET t == When(boundary) IN
  /\ tick' = tick + 1
  /\ previous_time' = t /\ previous_phase' = Phase(kind)
  /\ verdict' = IF Timely(s, kind, t) /\ lawful THEN verdict ELSE "INVALID"
  /\ last_activity' = IF kind \in PASSIVE THEN last_activity ELSE [last_activity EXCEPT ![s] = t]
  /\ latest' = IF kind \in PASSIVE THEN latest ELSE [latest EXCEPT ![s] = t]

Silent == UNCHANGED <<tick, last_activity, oracle>>

-----------------------------------------------------------------------------
Init ==
  /\ plan \in Plans
  /\ day = 0 /\ pc = "close" /\ who = 1 /\ tick = 0
  /\ joined = {} /\ last_activity = [s \in Students |-> Never]
  /\ earnings = [e \in Students \X Months |-> 0]
  /\ closed = {} /\ latest = [s \in Students |-> Never]
  /\ previous_time = 0 /\ previous_phase = -1
  /\ refused = 0 /\ missed = {} /\ verdict = "OK"

Goto(step) == pc' = step /\ UNCHANGED <<plan, day, who, missed>>
Quiet(step) == Goto(step) /\ Silent /\ UNCHANGED <<joined, refused>>

(* Closures come first, in order; who counts the candidates. *)
Close ==
  /\ pc = "close" /\ who <= 2 * N /\ Due(who)
  /\ LET p == Candidate(who)
     IN Emit(p.student, p.kind, TRUE, p.last = day /\ p \notin closed) /\ closed' = closed \cup {p}
  /\ who' = who + 1
  /\ UNCHANGED <<plan, day, pc, joined, earnings, refused, missed>>

(* A closure that is refused or fails stops the run. *)
CloseFailed ==
  /\ pc = "close" /\ who <= 2 * N /\ Due(who)
  /\ Emit(Candidate(who).student, Candidate(who).kind, TRUE, TRUE)
  /\ pc' = "failed"
  /\ UNCHANGED <<plan, day, who, joined, closed, earnings, refused, missed>>

NothingDue ==
  /\ pc = "close"
  /\ IF \E i \in who..(2 * N) : Due(i)
     THEN ~Due(who) /\ who' = who + 1 /\ UNCHANGED pc
     ELSE pc' = "join" /\ who' = 1
  /\ Silent /\ UNCHANGED <<plan, day, joined, refused, missed>>

(* Then the JOINs of the day.  run() does not ask whether one was refused: *)
(* it only goes on without the student, whose closures come all the same.  *)
Join ==
  /\ pc = "join" /\ who <= N
  /\ IF plan[who].join = day
     THEN /\ Emit(who, "JOIN", TRUE, TRUE) /\ UNCHANGED <<earnings, closed>>
          /\ \/ joined' = joined \cup {who} /\ UNCHANGED missed
             \/ missed' = missed \cup {who} /\ UNCHANGED joined
     ELSE Silent /\ UNCHANGED <<joined, missed>>
  /\ who' = who + 1
  /\ UNCHANGED <<plan, day, pc, refused>>

AllJoined ==
  /\ pc = "join" /\ who > N
  /\ pc' = "turn" /\ who' = 1
  /\ Silent /\ UNCHANGED <<plan, day, joined, refused, missed>>

(* Then a turn each: nothing for who is not in, else the day's allowance   *)
(* (grant-schedule: scheduled at noon, after joining, for this month). *)
NotYet == pc = "turn" /\ who \notin joined /\ Quiet("end")

NoGrant == pc = "turn" /\ who \in joined /\ GrantsToday(who) = {} /\ Quiet("purchase")

Grant ==
  /\ pc = "turn" /\ who \in joined
  /\ \E i \in GrantsToday(who) :
       /\ Emit(who, "GRANT", FALSE, Midnight(plan[who].join) <= Noon(day) /\ Noon(day) <= When(FALSE)
                                    /\ Grants(who, Month(day))[i] > 0)
       /\ earnings' = [earnings EXCEPT ![<<who, Month(day)>>] = @ + Grants(who, Month(day))[i]]
  /\ Goto("purchase") /\ UNCHANGED <<joined, closed, refused>>

GrantRefused ==
  /\ pc = "turn" /\ who \in joined /\ GrantsToday(who) # {} /\ refused < MaxRefused
  /\ Emit(who, "GRANT", FALSE, TRUE)
  /\ refused' = refused + 1
  /\ Goto("purchase") /\ UNCHANGED <<joined, closed, earnings>>

(* On the 6th, 13th, 20th and 27th the card pays, if there is cash left    *)
(* (SavingsPolicy's), the owner's never.                                   *)
Purchase ==
  /\ pc = "purchase"
  /\ \/ /\ who # Owner /\ day - Starts[Month(day)] + 1 \in {6, 13, 20, 27}
        /\ Emit(who, "PURCHASE", FALSE, TRUE) /\ UNCHANGED <<earnings, closed>>
     \/ Silent
  /\ Goto("create") /\ UNCHANGED <<joined, refused>>

(* The first goal on the day of joining. *)
Create ==
  /\ pc = "create"
  /\ IF plan[who].join = day
     THEN Emit(who, "CREATE", FALSE, TRUE) /\ UNCHANGED <<earnings, closed>>
     ELSE Silent
  /\ Goto(IF who = Owner THEN "end" ELSE "dormancy") /\ UNCHANGED <<joined, refused>>

Dormant(s)    == plan[s].dormant # 0
AwayUntil(s)  == Eve + 1 + plan[s].dormant
(* Mutant: the first day away is not. *)
AwayLate(s)   == Dormant(s) /\ Eve + 1 < day /\ day < AwayUntil(s)

Away(s)       == Dormant(s) /\ Eve < day /\ day < AwayUntil(s)
Returning(s)  == Dormant(s) /\ day = AwayUntil(s)

Scheduled(s)  == day % 7 \in plan[s].visits[day \div 7]

(* Mutant: the eve is kept by those who visit anyway. *)
OnEveIfVisiting(s) == Dormant(s) /\ day = Eve /\ Scheduled(s)

(* The last day before dormancy ends with a look at the balance, so that   *)
(* the way back has something recent to refer to. *)
OnEve(s) == Dormant(s) /\ day = Eve

Observe ==
  /\ pc = "dormancy" /\ OnEve(who)
  /\ Emit(who, "BALANCE_LOOKUP", FALSE, TRUE)
  /\ Goto("visit") /\ UNCHANGED <<joined, earnings, closed, refused>>

StayAway == pc = "dormancy" /\ ~OnEve(who) /\ Away(who) /\ Quiet("end")

Anchor == last_activity[who]

(* RETURN_FROM_DORMANCY cites the last activity Policy remembers; the      *)
(* oracle asks that it is the last one and 7 to 21 days old. *)
Return ==
  /\ pc = "dormancy" /\ ~OnEve(who) /\ Returning(who)
  /\ Emit(who, "RETURN_FROM_DORMANCY", FALSE,
          /\ latest[who] = Anchor
          /\ Midnight(7) <= When(FALSE) - Anchor /\ When(FALSE) - Anchor <= Midnight(21))
  /\ Goto("visit") /\ UNCHANGED <<joined, earnings, closed, refused>>

Awake ==
  /\ pc = "dormancy" /\ ~OnEve(who) /\ ~Away(who) /\ ~Returning(who)
  /\ Quiet("visit")

(* A visit on the day of joining, on the days drawn for the week and on    *)
(* the day of return. *)
Visiting(s) == plan[s].join = day \/ Scheduled(s) \/ Returning(s)

Visit ==
  /\ pc = "visit" /\ Visiting(who)
  /\ Emit(who, "BALANCE_LOOKUP", FALSE, TRUE)
  /\ Goto("end") /\ UNCHANGED <<joined, earnings, closed, refused>>

NoVisit == pc = "visit" /\ ~Visiting(who) /\ Quiet("end")

NextPerson ==
  /\ pc = "end" /\ who < N
  /\ who' = who + 1 /\ pc' = "turn"
  /\ Silent /\ UNCHANGED <<plan, day, joined, refused, missed>>

NextDay ==
  /\ pc = "end" /\ who = N
  /\ day' = day + 1 /\ who' = 1 /\ tick' = 0
  /\ pc' = IF day + 1 < End THEN "close" ELSE "done"
  /\ UNCHANGED <<plan, joined, last_activity, oracle, refused, missed>>

Finished == pc \in {"done", "failed"} /\ UNCHANGED vars

Next ==
  \/ Close \/ CloseFailed \/ NothingDue \/ Join \/ AllJoined
  \/ NotYet \/ NoGrant \/ Grant \/ GrantRefused \/ Purchase \/ Create
  \/ Observe \/ StayAway \/ Return \/ Awake \/ Visit \/ NoVisit
  \/ NextPerson \/ NextDay \/ Finished

Spec == Init /\ [][Next]_vars

-----------------------------------------------------------------------------
(* The oracle accepts every event of the run as it comes: the clock never  *)
(* goes back, at one midnight weeks close before months and both before    *)
(* anything else, nobody acts before joining, no period closes twice or    *)
(* late, and the way back from dormancy names the student's last activity, *)
(* 7 to 21 days ago (validate.py:96-108, 126, 219-228).  Only a student    *)
(* whose JOIN was refused may spoil it, and not before the first period    *)
(* after it is closed.                                                     *)
CalendarAccepted == verdict = "OK" \/ \E s \in missed : plan[s].join + 7 <= day

(* validate.expected_periods(): day by day, the weeks and months a student *)
(* was there for from their first day.                                     *)
ExpectedPeriods ==
  UNION {{Period(s, "CLOSE_WEEK", d - 7, d) : d \in {e \in 0..(End - 1) : e % 7 = 0 /\ e - 7 >= plan[s].join}}
         \cup {Period(s, "CLOSE_MONTH", Starts[m - 1], Starts[m]) : m \in {n \in 2..4 : Starts[n - 1] >= plan[s].join}}
         : s \in Students}

(* What the oracle asks of a whole run (validate.py:242-250): everyone     *)
(* joined whose JOIN was not refused, exactly the periods it expects are   *)
(* closed, and, unless the backend refused an allowance, whoever was there *)
(* from the first of June, July or August got that month's budget, 10000   *)
(* to 30000, to the won.                                                   *)
Complete ==
  pc = "done" =>
    /\ joined = Students \ missed
    /\ closed = ExpectedPeriods
    /\ refused = 0 => \A s \in joined, m \in 1..3 :
         plan[s].join <= Starts[m] => earnings[<<s, m>>] = plan[s].budget[m]

(* A dormant member's last activity is of 7 July until the day of return   *)
(* (policy-coverage.md), whatever else was going on in the academy.        *)
SilentSinceEve ==
  \A s \in joined : (Dormant(s) /\ Eve < day /\ day < AwayUntil(s)) =>
    last_activity[s] \div DayLength = Eve

=============================================================================
