---------------------- MODULE SimulationCalendar_proof ----------------------
(***************************************************************************)
(* What TLAPS proves of SimulationCalendar for any number of students and  *)
(* any traits population() may draw: the oracle accepts every event, whole *)
(* runs are complete, and dormant students stay silent.                    *)
(***************************************************************************)
EXTENDS SimulationCalendar, FiniteInduction, SequenceTheorems

-----------------------------------------------------------------------------
(* Arithmetic the provers need spelled out.                                *)

(* A quotient rounded down.                                                *)
LEMMA Quotient ==
  ASSUME NEW a \in Int, NEW b \in Nat \ {0}
  PROVE  /\ a \div b \in Int
         /\ b * (a \div b) <= a /\ a < b * (a \div b) + b
OBVIOUS

(* A product grows with its second factor.                                 *)
LEMMA Growing ==
  ASSUME NEW a \in Nat \ {0}, NEW b \in Int, NEW c \in Int
  PROVE  /\ a * b \in Int /\ a * c \in Int
         /\ a * (b + c) = a * b + a * c /\ a * (b + 1) = a * b + a
         /\ a * b <= a * c <=> b <= c
OBVIOUS

(* The quotient is the one number that rounds so.                          *)
LEMMA QuotientIs ==
  ASSUME NEW a \in Int, NEW b \in Nat \ {0}, NEW q \in Int,
         b * q <= a, a < b * q + b
  PROVE  a \div b = q
BY Quotient, Growing

-----------------------------------------------------------------------------
(* The shares of a budget.                                                 *)

(* The weights of a month add up to at least one.                          *)
LEMMA TotalPositive ==
  ASSUME NEW n \in Nat \ {0}, NEW w \in [1..n -> Nat \ {0}]
  PROVE  SumFunction(w) \in Nat \ {0} /\ IsFiniteSet(1..n) /\ SumFunction(w) = SumFunctionOnSet(w, 1..n)
<1>1. IsFiniteSet(1..n) /\ 1 \in 1..n
  BY FS_Interval
<1>2. SumFunction(w) = SumFunctionOnSet(w, 1..n)
  BY DEF SumFunction
<1>3. SumFunctionOnSet(w, 1..n) = w[1] + SumFunctionOnSet(w, (1..n) \ {1})
  BY <1>1, SumRemoved
<1>4. SumFunctionOnSet(w, (1..n) \ {1}) \in Nat
  BY <1>1, SumOfPart
<1> QED BY <1>1, <1>2, <1>3, <1>4

(* Each share is rounded down from its part of the budget, so that what    *)
(* is rounded never adds up to more than the budget.                       *)
LEMMA RoundedWithin ==
  ASSUME NEW n \in Nat \ {0}, NEW w \in [1..n -> Nat \ {0}], NEW b \in Nat
  PROVE  /\ Rounded(b, w) \in [1..n -> Int]
         /\ SumFunctionOnSet(Rounded(b, w), 1..n) \in Int
         /\ SumFunctionOnSet(Rounded(b, w), 1..n) <= b
<1> DEFINE total == SumFunction(w)
           rounded == Rounded(b, w)
           Fits(S) == /\ SumFunctionOnSet(rounded, S) \in Int /\ SumFunctionOnSet(w, S) \in Int
                      /\ total * SumFunctionOnSet(rounded, S) <= b * SumFunctionOnSet(w, S)
           U == {S \in SUBSET (1..n) : Fits(S)}
<1>1. total \in Nat \ {0} /\ IsFiniteSet(1..n) /\ total = SumFunctionOnSet(w, 1..n)
  BY TotalPositive
<1>2. \A i \in 1..n : /\ w[i] \in Nat \ {0} /\ b * w[i] \in Int
                      /\ rounded[i] = (b * w[i]) \div total
  BY <1>1 DEF Rounded
<1>3. \A i \in 1..n : rounded[i] \in Int /\ total * rounded[i] <= b * w[i]
  <2> TAKE i \in 1..n
  <2> HIDE DEF total, rounded
  <2> QED BY <1>1, <1>2, Quotient
<1>4. rounded \in [1..n -> Int]
  BY <1>3 DEF Rounded
<1> HIDE DEF total, rounded
<1>5. {} \in U
  BY <1>1, SumOfNone
<1>6. ASSUME NEW S \in SUBSET (1..n), NEW i \in (1..n) \ S, S \in U PROVE S \cup {i} \in U
  <2>1. /\ IsFiniteSet(S) /\ i \notin S /\ i \in 1..n
        /\ \A j \in S \cup {i} : rounded[j] \in Int
        /\ \A j \in S \cup {i} : w[j] \in Int
    <3>1. IsFiniteSet(S)
      BY <1>1, FS_Subset
    <3>2. \A j \in 1..n : w[j] \in Int
      BY <1>2
    <3> QED BY <1>3, <3>1, <3>2
  <2>2. SumFunctionOnSet(rounded, S \cup {i}) = SumFunctionOnSet(rounded, S) + rounded[i]
    BY <2>1, SumExtended
  <2>3. SumFunctionOnSet(w, S \cup {i}) = SumFunctionOnSet(w, S) + w[i]
    BY <2>1, SumExtended
  <2>4. PICK q, r, v, u : /\ q = SumFunctionOnSet(rounded, S) /\ r = rounded[i]
                          /\ v = SumFunctionOnSet(w, S) /\ u = w[i]
    OBVIOUS
  <2>5. /\ q \in Int /\ r \in Int /\ v \in Int /\ u \in Int
        /\ total * q <= b * v /\ total * r <= b * u
    BY <1>3, <1>6, <2>1, <2>4
  <2>6. total * (q + r) <= b * (v + u)
    BY <1>1, <2>5
  <2>7. q + r \in Int /\ v + u \in Int
    BY <2>5
  <2>8. Fits(S \cup {i})
    BY <2>2, <2>3, <2>4, <2>6, <2>7, Zenon
  <2>9. S \cup {i} \in SUBSET (1..n)
    BY <2>1
  <2> QED BY <2>8, <2>9, Zenon
<1>7. 1..n \in U
  <2> HIDE DEF U
  <2> QED BY <1>1, <1>5, <1>6, SetInduction
<1>8. SumFunctionOnSet(rounded, 1..n) \in Int /\ total * SumFunctionOnSet(rounded, 1..n) <= b * total
  BY <1>1, <1>7
<1>9. SumFunctionOnSet(rounded, 1..n) <= b
  BY <1>1, <1>8
<1> QED BY <1>4, <1>8, <1>9 DEF rounded

(* The shares of a budget are positive, and together they are the budget.  *)
LEMMA SharesAddUp ==
  ASSUME NEW n \in Nat \ {0}, NEW w \in [1..n -> Nat \ {0}], NEW b \in Nat, SumFunction(w) <= b
  PROVE  /\ Shares(b, w) \in [1..n -> Nat \ {0}]
         /\ SumFunctionOnSet(Shares(b, w), 1..n) = b
<1> DEFINE total == SumFunction(w)
           rounded == Rounded(b, w)
           rest == b - SumFunction(rounded)
<1>1. w \in Seq(Nat \ {0}) /\ Len(w) = n
  BY SeqDef, LenProperties
<1>2. /\ rounded \in [1..n -> Int] /\ SumFunction(rounded) = SumFunctionOnSet(rounded, 1..n)
      /\ SumFunction(rounded) \in Int /\ SumFunction(rounded) <= b
  BY RoundedWithin DEF SumFunction
<1>3. Shares(b, w) = [rounded EXCEPT ![n] = rounded[n] + rest]
  BY <1>1, <1>2 DEF Shares
<1>4. \A i \in 1..n : rounded[i] \in Nat \ {0}
  <2> TAKE i \in 1..n
  <2>1. total \in Nat \ {0} /\ w[i] \in Nat \ {0} /\ rounded[i] = (b * w[i]) \div total
    BY TotalPositive DEF Rounded
  <2> HIDE DEF total, rounded
  <2>2. b * w[i] \in Int /\ total <= b * w[i]
    BY <2>1 DEF total
  <2>3. PICK a : a = b * w[i]
    OBVIOUS
  <2>4. rounded[i] \in Int /\ a < total * rounded[i] + total /\ total <= a
    BY <2>1, <2>2, <2>3, Quotient
  <2>5. total * 0 + total <= a
    BY <2>1, <2>4
  <2>6. rounded[i] > 0
    BY <2>1, <2>2, <2>3, <2>4, SMTT(30)
  <2> QED BY <2>4, <2>6
<1>5. rest \in Nat
  BY <1>2
<1> HIDE DEF rounded, rest
<1>6. Shares(b, w) \in [1..n -> Nat \ {0}]
  BY <1>2, <1>3, <1>4, <1>5
<1>7. /\ n \in 1..n
      /\ \A i \in 1..n : Shares(b, w)[i] \in Int /\ rounded[i] \in Int
                          /\ (i # n => Shares(b, w)[i] = rounded[i])
      /\ Shares(b, w)[n] = rounded[n] + rest
  BY <1>2, <1>3, <1>4, <1>5
<1>8. SumFunctionOnSet(Shares(b, w), 1..n) = SumFunctionOnSet(rounded, 1..n) - rounded[n] + Shares(b, w)[n]
  <2>1. IsFiniteSet(1..n)
    BY FS_Interval
  <2>2. \A y \in 1..n : /\ rounded[y] \in Int /\ Shares(b, w)[y] \in Int
                        /\ y # n => Shares(b, w)[y] = rounded[y]
    BY <1>7
  <2>3. PICK x, S, f, g : x = n /\ S = 1..n /\ f = rounded /\ g = Shares(b, w)
    OBVIOUS
  <2>4. IsFiniteSet(S) /\ x \in S
    BY <1>7, <2>1, <2>3
  <2>5. (\A y \in S : f[y] \in Int) /\ (\A y \in S : g[y] \in Int) /\ \A y \in S \ {x} : g[y] = f[y]
    BY <2>2, <2>3
  <2>6. SumFunctionOnSet(g, S) = SumFunctionOnSet(f, S) - f[x] + g[x]
    BY <2>4, <2>5, SumChanged
  <2> QED BY <2>3, <2>6, Zenon
<1>9. PICK a, c : a = SumFunctionOnSet(rounded, 1..n) /\ c = rounded[n]
  OBVIOUS
<1>10. rest = b - a /\ a \in Int /\ c \in Int /\ SumFunctionOnSet(Shares(b, w), 1..n) = a - c + (c + rest)
  BY <1>2, <1>7, <1>8, <1>9 DEF rest
<1>11. a - c + (c + rest) = b
  BY <1>10
<1> QED BY <1>6, <1>10, <1>11

(* What population() draws for a student.                                  *)
LEMMA TraitsOf ==
  ASSUME plan \in Plans, NEW s \in Students
  PROVE  /\ plan[s] \in Plan
         /\ plan[s].join \in 0..101 /\ plan[s].dormant \in {0, 7, 14, 19}
         /\ plan[s].dormant # 0 => plan[s].join = 0 /\ s # Owner
         /\ \A m \in Months : /\ plan[s].days[m] \in [1..3 -> 0..30] /\ plan[s].weights[m] \in [1..3 -> 1..4]
                             /\ plan[s].days[m][1] < plan[s].days[m][2] /\ plan[s].days[m][2] < plan[s].days[m][3]
                             /\ plan[s].days[m][3] < Lengths[m]
                             /\ plan[s].budget[m] \in Nat /\ plan[s].budget[m] >= 16
<1>1. /\ plan[s] \in Plan
      /\ \A m \in Months : /\ plan[s].days[m][1] < plan[s].days[m][2] /\ plan[s].days[m][2] < plan[s].days[m][3]
                          /\ plan[s].days[m][3] < Lengths[m]
      /\ plan[s].dormant # 0 => plan[s].join = 0
      /\ s = Owner => plan[s].dormant = 0
  BY CalendarAssumption
<1>2. plan[s].join \in 0..(End - 1) /\ plan[s].dormant \in {0, 7, 14, 19}
  BY <1>1 DEF Plan
<1>3. \A m \in Months : plan[s].budget[m] \in Budgets
  BY <1>1 DEF Plan
<1>4. \A b \in Budgets : b \in Nat /\ b >= 16
  BY DEF Budgets
<1>5. \A m \in Months : plan[s].days[m] \in [1..3 -> 0..30] /\ plan[s].weights[m] \in [1..3 -> 1..4]
  BY <1>1 DEF Plan
<1> QED BY <1>1, <1>2, <1>3, <1>4, <1>5 DEF End

(* The months are at least as long as four weeks and two days.             *)
LEMMA MonthLengths == \A m \in Months : Lengths[m] \in {30, 31}
BY DEF Lengths, Months

(* Between one and four allowances, on different days of the month, by     *)
(* weights that rounding never brings to nothing.                          *)
LEMMA Schedule ==
  ASSUME plan \in Plans, NEW s \in Students, NEW m \in Months
  PROVE  \E n \in 1..4 : /\ GrantDays(s, m) \in [1..n -> 0..30]
                         /\ \A i \in 1..n : GrantDays(s, m)[i] < Lengths[m]
                         /\ \A i, j \in 1..n : GrantDays(s, m)[i] = GrantDays(s, m)[j] => i = j
                         /\ Weights(s, m) \in [1..n -> 1..4]
<1>1. CASE plan[s].cadence = "MONTHLY"
  BY <1>1, MonthLengths DEF GrantDays, Weights
<1>2. CASE plan[s].cadence = "WEEKLY"
  BY <1>2, MonthLengths DEF GrantDays, Weights
<1>3. CASE plan[s].cadence = "IRREGULAR"
  <2>1. plan[s].days[m] \in [1..3 -> 0..30] /\ plan[s].weights[m] \in [1..3 -> 1..4]
    BY TraitsOf
  <2>2. /\ \A i, j \in 1..3 : plan[s].days[m][i] = plan[s].days[m][j] => i = j
        /\ \A i \in 1..3 : plan[s].days[m][i] < Lengths[m]
    BY <2>1, TraitsOf, MonthLengths
  <2> QED BY <1>3, <2>1, <2>2 DEF GrantDays, Weights
<1> QED BY <1>1, <1>2, <1>3, TraitsOf DEF Plan, Cadences

(* The allowances of a month: each is positive, and they are the budget.   *)
LEMMA GrantsAddUp ==
  ASSUME plan \in Plans, NEW s \in Students, NEW m \in Months
  PROVE  /\ IsFiniteSet(DOMAIN GrantDays(s, m))
         /\ \A i \in DOMAIN GrantDays(s, m) : GrantDays(s, m)[i] \in Nat /\ GrantDays(s, m)[i] < Lengths[m]
         /\ \A i, j \in DOMAIN GrantDays(s, m) : GrantDays(s, m)[i] = GrantDays(s, m)[j] => i = j
         /\ \A i \in DOMAIN GrantDays(s, m) : Grants(s, m)[i] \in Nat /\ Grants(s, m)[i] > 0
         /\ SumFunctionOnSet(Grants(s, m), DOMAIN GrantDays(s, m)) = plan[s].budget[m]
<1>1. PICK n \in 1..4 : /\ GrantDays(s, m) \in [1..n -> 0..30]
                        /\ \A i \in 1..n : GrantDays(s, m)[i] < Lengths[m]
                        /\ \A i, j \in 1..n : GrantDays(s, m)[i] = GrantDays(s, m)[j] => i = j
                        /\ Weights(s, m) \in [1..n -> 1..4]
  BY Schedule
<1>2. IsFiniteSet(1..n) /\ Cardinality(1..n) = n
  <2>1. 1 \in Int /\ n \in Int /\ 1 <= n /\ n - 1 + 1 = n
    OBVIOUS
  <2>2. IsFiniteSet(1..n) /\ Cardinality(1..n) = IF 1 > n THEN 0 ELSE n - 1 + 1
    BY <2>1, FS_Interval, Zenon
  <2> QED BY <2>1, <2>2
<1>3. plan[s].budget[m] \in Nat /\ plan[s].budget[m] >= 16
  BY TraitsOf
<1>4. SumFunction(Weights(s, m)) <= plan[s].budget[m]
  <2>1. 4 \in Int /\ \A i \in 1..n : Weights(s, m)[i] \in Int /\ Weights(s, m)[i] <= 4
    BY <1>1
  <2>2. /\ SumFunctionOnSet(Weights(s, m), 1..n) \in Int
        /\ SumFunctionOnSet(Weights(s, m), 1..n) <= 4 * Cardinality(1..n)
    BY <1>2, <2>1, SumBounded, ZenonT(30)
  <2>3. SumFunction(Weights(s, m)) = SumFunctionOnSet(Weights(s, m), 1..n)
    BY <1>1 DEF SumFunction
  <2> QED BY <1>2, <1>3, <2>2, <2>3
<1>5. Weights(s, m) \in [1..n -> Nat \ {0}] /\ n \in Nat \ {0}
  BY <1>1
<1>6. /\ Grants(s, m) \in [1..n -> Nat \ {0}]
      /\ SumFunctionOnSet(Grants(s, m), 1..n) = plan[s].budget[m]
  BY <1>3, <1>4, <1>5, SharesAddUp DEF Grants
<1>7. /\ DOMAIN GrantDays(s, m) = 1..n
      /\ \A i \in 1..n : GrantDays(s, m)[i] \in Nat /\ GrantDays(s, m)[i] < Lengths[m]
  BY <1>1
<1>8. \A i \in 1..n : Grants(s, m)[i] \in Nat /\ Grants(s, m)[i] > 0
  BY <1>6
<1> QED BY <1>1, <1>2, <1>6, <1>7, <1>8, Zenon

(* The month of a day, and the months end where the next ones start.       *)
LEMMA MonthOf ==
  ASSUME NEW d \in Nat
  PROVE  Month(d) = IF d < 30 THEN 1 ELSE IF d < 61 THEN 2 ELSE IF d < 92 THEN 3 ELSE 4
<1> DEFINE S == {m \in Months : Starts[m] <= d}
<1>1. PICK m \in S : \A k \in S : m >= k
  BY DEF Months, Starts
<1>2. Max(S) \in S /\ \A k \in S : Max(S) >= k
  BY <1>1 DEF Max
<1> QED BY <1>2 DEF Month, Months, Starts

(* The months of the calendar of the run start on these days.              *)
LEMMA MonthStarts == /\ Starts[1] = 0 /\ Starts[2] = 30 /\ Starts[3] = 61 /\ Starts[4] = 92
                     /\ Months = 1..4 /\ \A m \in Months : Starts[m] \in Nat
BY DEF Starts, Months

(* An allowance falls in the month it belongs to.                          *)
LEMMA SameMonth ==
  ASSUME NEW m \in Months, NEW d \in Nat, d < Lengths[m]
  PROVE  Month(Starts[m] + d) = m
<1>1. Starts[m] + d \in Nat
  BY MonthStarts
<1>2. Lengths[1] = 30 /\ Lengths[2] = 31 /\ Lengths[3] = 31 /\ Lengths[4] = 30
  BY DEF Lengths
<1> QED BY <1>1, <1>2, MonthOf, MonthStarts

-----------------------------------------------------------------------------
(* The inductive invariant, part by part.                                  *)
Turns == {"turn", "purchase", "create", "dormancy", "visit", "end"}

(* Types, and where run() stands.  The oracle's note of the last activity  *)
(* is always the simulation's.                                             *)
Place ==
  /\ plan \in Plans /\ day \in 0..End /\ who \in Nat /\ tick \in Nat /\ refused \in Nat
  /\ pc \in {"close", "join", "done", "failed"} \cup Turns
  /\ pc = "done" <=> day = End
  /\ pc = "close" => who \in 1..(2 * N + 1)
  /\ pc = "join" => who \in 1..(N + 1)
  /\ pc \in Turns => who \in Students
  /\ pc \in Turns \ {"turn", "end"} => who \in joined
  /\ pc \in {"dormancy", "visit"} => who # Owner
  /\ pc = "visit" => ~Away(who)
  /\ last_activity \in [Students -> Int] /\ latest = last_activity
  /\ joined \subseteq Students /\ missed \subseteq Students

(* Who has joined or was refused: those whose day is past, and today's as  *)
(* far as run() has come.                                                  *)
There(s) == \/ plan[s].join < day
            \/ plan[s].join = day /\ (pc \in Turns \/ (pc = "join" /\ s < who))
Members == pc # "failed" => /\ joined \cup missed = {s \in Students : There(s)}
                            /\ joined \cap missed = {}

(* The commands of the day so far are few enough, and the oracle's clock   *)
(* has not passed the simulation's.                                        *)
Stage(step) == CASE step = "turn" -> 0 [] step = "purchase" -> 1 [] step = "create" -> 2
                 [] step = "dormancy" -> 3 [] step = "visit" -> 4 [] OTHER -> 5
Sent == CASE pc = "close"  -> who - 1
          [] pc = "join"   -> 2 * N + who - 1
          [] pc \in Turns  -> 3 * N + 5 * who - 5 + Stage(pc)
          [] OTHER         -> 8 * N
Clock ==
  /\ previous_time \in Int /\ previous_phase \in -1..2
  /\ pc # "failed" => tick <= Sent
  /\ pc \in {"close", "join"} => previous_time <= Midnight(day)
  /\ pc = "close" /\ previous_time = Midnight(day) => previous_phase <= IF who <= N THEN 0 ELSE 1
  /\ pc \in Turns => previous_time <= Noon(day) + tick

(* The periods closed are those the oracle expects and that are past.      *)
Turn(p) == p.student + IF p.kind = "CLOSE_WEEK" THEN 0 ELSE N
Past(p) == p.last < day \/ (p.last = day /\ (pc = "close" => Turn(p) < who))
Closures == pc # "failed" =>
  /\ \A p \in closed : p \in ExpectedPeriods /\ Past(p)
  /\ \A p \in ExpectedPeriods : Past(p) => p \in closed

(* Between the eve and the return a dormant student's last activity is of  *)
(* the afternoon of the eve.                                               *)
GoneQuiet(s) == \/ day > Eve
                \/ day = Eve /\ pc \in Turns /\ (s < who \/ (s = who /\ pc \in {"visit", "end"}))
NotBack(s) == \/ day < AwayUntil(s)
              \/ /\ day = AwayUntil(s)
                 /\ \/ pc \in {"close", "join"}
                    \/ pc \in Turns /\ (who < s \/ (who = s /\ pc \notin {"visit", "end"}))
Silence == \A s \in joined : Dormant(s) /\ GoneQuiet(s) /\ NotBack(s) =>
  Noon(Eve) < last_activity[s] /\ last_activity[s] < Midnight(Eve + 1)

(* What a member was given of a month's budget: the allowances whose day   *)
(* has come.                                                               *)
Served(s) == pc \in Turns /\ (s < who \/ (s = who /\ pc # "turn"))
Given(s, m) == {i \in DOMAIN GrantDays(s, m) : \/ Starts[m] + GrantDays(s, m)[i] < day
                                               \/ Starts[m] + GrantDays(s, m)[i] = day /\ Served(s)}
Allowances ==
  /\ earnings \in [Students \X Months -> Int]
  /\ pc # "failed" /\ refused = 0 => \A s \in Students \ missed, m \in Months :
       plan[s].join <= Starts[m] => earnings[<<s, m>>] = SumFunctionOnSet(Grants(s, m), Given(s, m))

CInv == Place /\ Members /\ Clock /\ Closures /\ Silence /\ Allowances /\ CalendarAccepted

-----------------------------------------------------------------------------
(* Dates: days do not overlap, and the commands of a day end before it.    *)
Half == DayLength \div 2

(* Noon is half a day after midnight, and no day has as many commands.     *)
LEMMA Clockwork ==
  /\ DayLength \in Nat \ {0} /\ Half \in Nat /\ Half > 8 * N /\ 2 * Half <= DayLength /\ N \in Nat \ {0}
  /\ \A d \in Int : Midnight(d) \in Int /\ Noon(d) \in Int /\ Noon(d) = Midnight(d) + Half
<1>1. /\ DayLength \in Nat /\ Half \in Int /\ 2 * Half <= DayLength
      /\ Half > 8 * N /\ N \in Nat \ {0}
  BY CalendarAssumption, Quotient DEF Half
<1> QED BY <1>1 DEF Half, Midnight, Noon

(* Students are numbered from one.                                         *)
LEMMA Numbers == /\ N \in Nat /\ 1 <= N
                 /\ \A s : s \in Students <=> s \in Nat /\ 1 <= s /\ s <= N
BY CalendarAssumption DEF Students

(* A later day starts when an earlier one is over.                         *)
LEMMA LaterDay ==
  \A d, e \in Int : d < e => Midnight(d) + DayLength <= Midnight(e)
<1> SUFFICES ASSUME NEW d \in Int, NEW e \in Int, d < e PROVE Midnight(d) + DayLength <= Midnight(e)
  OBVIOUS
<1>1. DayLength \in Nat \ {0} /\ d + 1 <= e
  BY Clockwork
<1>2. (d + 1) * DayLength <= e * DayLength /\ (d + 1) * DayLength = d * DayLength + DayLength
  BY <1>1
<1> QED BY <1>2 DEF Midnight

(* The steps of a turn.                                                    *)
TurnStep == NotYet \/ NoGrant \/ Grant \/ GrantRefused \/ Purchase \/ Create
              \/ Observe \/ StayAway \/ Return \/ Awake \/ Visit \/ NoVisit

(* A step of a turn stays with the student and goes forward, sending at    *)
(* most one command, after noon.                                           *)
LEMMA InTurn ==
  ASSUME Place, TurnStep
  PROVE  /\ UNCHANGED <<plan, day, who, joined, missed, closed>>
         /\ pc \in Turns \ {"end"} /\ pc' \in Turns \ {"turn"} /\ Stage(pc) < Stage(pc)'
         /\ pc' \in {"dormancy", "visit"} => who # Owner
         /\ pc' # "end" => who \in joined
         /\ pc' = "visit" => ~Away(who)
         /\ pc' \in {"visit", "end"} =>
              \/ pc = "turn" /\ who \notin joined
              \/ pc = "create" /\ who = Owner
              \/ pc \in {"dormancy", "visit"}
         /\ \/ UNCHANGED <<tick, previous_time, previous_phase, last_activity, latest, verdict>>
            \/ /\ tick' = tick + 1 /\ previous_time' = Noon(day) + tick + 1 /\ previous_phase' = 2
               /\ who \in joined
         /\ refused' \in {refused, refused + 1}
<1>1. CASE NotYet
  BY <1>1 DEF NotYet, Quiet, Goto, Silent, oracle, Place, Turns, Stage
<1>2. CASE NoGrant
  BY <1>2 DEF NoGrant, Quiet, Goto, Silent, oracle, Place, Turns, Stage
<1>3. CASE StayAway
  BY <1>3 DEF StayAway, Quiet, Goto, Silent, oracle, Place, Turns, Stage
<1>4. CASE Awake
  BY <1>4 DEF Awake, Quiet, Goto, Silent, oracle, Place, Turns, Stage
<1>5. CASE NoVisit
  BY <1>5 DEF NoVisit, Quiet, Goto, Silent, oracle, Place, Turns, Stage
<1>6. CASE Grant
  BY <1>6 DEF Grant, Emit, When, Phase, Goto, Silent, oracle, Place, Turns, Stage
<1>7. CASE GrantRefused
  BY <1>7 DEF GrantRefused, Emit, When, Phase, Goto, Silent, oracle, Place, Turns, Stage
<1>8. CASE Purchase
  BY <1>8 DEF Purchase, Emit, When, Phase, Goto, Silent, oracle, Place, Turns, Stage
<1>9. CASE Create
  BY <1>9 DEF Create, Emit, When, Phase, Goto, Silent, oracle, Place, Turns, Stage
<1>10. CASE Observe
  BY <1>10 DEF Observe, OnEve, Returning, Away, Emit, When, Phase, Goto, Silent, oracle, Place, Turns, Stage
<1>11. CASE Return
  BY <1>11 DEF Return, OnEve, Returning, Away, Emit, When, Phase, Goto, Silent, oracle, Place, Turns, Stage
<1>12. CASE Visit
  BY <1>12 DEF Visit, Emit, When, Phase, Goto, Silent, oracle, Place, Turns, Stage
<1> QED BY <1>1, <1>2, <1>3, <1>4, <1>5, <1>6, <1>7, <1>8, <1>9, <1>10, <1>11, <1>12 DEF TurnStep

(* The steps of a turn that are an activity of the student.                *)
Active == \/ pc = "create" /\ plan[who].join = day
          \/ pc = "dormancy" /\ pc' = "visit" /\ (OnEve(who) \/ Returning(who))
          \/ pc = "visit"

(* A step of a turn notes an activity, at its own time, or leaves the      *)
(* record of activity alone; on the eve of a return it notes one.          *)
LEMMA Noted ==
  ASSUME Place, TurnStep
  PROVE  \/ UNCHANGED <<last_activity, latest>> /\ ~(pc = "dormancy" /\ OnEve(who))
         \/ /\ last_activity' = [last_activity EXCEPT ![who] = Noon(day) + tick + 1]
            /\ latest' = [latest EXCEPT ![who] = Noon(day) + tick + 1]
            /\ Active
<1>1. CASE NotYet
  BY <1>1 DEF NotYet, Quiet, Goto, Silent, oracle
<1>2. CASE NoGrant
  BY <1>2 DEF NoGrant, Quiet, Goto, Silent, oracle
<1>3. CASE StayAway
  BY <1>3 DEF StayAway, Quiet, Goto, Silent, oracle
<1>4. CASE Awake
  BY <1>4 DEF Awake, Quiet, Goto, Silent, oracle
<1>5. CASE NoVisit
  BY <1>5 DEF NoVisit, Quiet, Goto, Silent, oracle
<1>6. CASE Grant
  BY <1>6 DEF Grant, Emit, When, PASSIVE, Goto, Silent, oracle, Active
<1>7. CASE GrantRefused
  BY <1>7 DEF GrantRefused, Emit, When, PASSIVE, Goto, Silent, oracle, Active
<1>8. CASE Purchase
  BY <1>8 DEF Purchase, Emit, When, PASSIVE, Goto, Silent, oracle, Active
<1>9. CASE Create
  BY <1>9 DEF Create, Emit, When, PASSIVE, Goto, Silent, oracle, Active
<1>10. CASE Observe
  BY <1>10 DEF Observe, Emit, When, PASSIVE, Goto, Silent, oracle, Active
<1>11. CASE Return
  BY <1>11 DEF Return, Emit, When, PASSIVE, Goto, Silent, oracle, Active
<1>12. CASE Visit
  BY <1>12 DEF Visit, Emit, When, PASSIVE, Goto, Silent, oracle, Active
<1> QED BY <1>1, <1>2, <1>3, <1>4, <1>5, <1>6, <1>7, <1>8, <1>9, <1>10, <1>11, <1>12 DEF TurnStep

(* The steps at midnight.                                                  *)
LEMMA CandidateIs ==
  ASSUME NEW i \in 1..(2 * N)
  PROVE  /\ Candidate(i).student = IF i <= N THEN i ELSE i - N
         /\ Candidate(i).student \in Students
         /\ Candidate(i).kind = IF i <= N THEN "CLOSE_WEEK" ELSE "CLOSE_MONTH"
         /\ Candidate(i).last = day /\ Turn(Candidate(i)) = i
         /\ Phase(Candidate(i).kind) = IF i <= N THEN 0 ELSE 1
<1>1. N \in Nat
  BY Clockwork
<1> QED BY <1>1 DEF Candidate, Period, Students, Turn, Phase

(* What a closing does: it is due, and it is recorded unless it fails.     *)
LEMMA AtClosing ==
  ASSUME Place, Close \/ CloseFailed
  PROVE  /\ UNCHANGED <<plan, day, joined, missed, earnings, refused, last_activity, latest>>
         /\ pc = "close" /\ who \in 1..(2 * N) /\ Due(who)
         /\ tick' = tick + 1 /\ previous_time' = Midnight(day)
         /\ previous_phase' = IF who <= N THEN 0 ELSE 1
         /\ \/ pc' = "close" /\ who' = who + 1 /\ closed' = closed \cup {Candidate(who)}
            \/ pc' = "failed" /\ who' = who /\ closed' = closed
<1>1. who \in 1..(2 * N)
  <2>1. pc = "close" /\ who <= 2 * N
    BY Zenon DEF Close, CloseFailed
  <2> QED BY <2>1, Clockwork DEF Place
<1>2. /\ Candidate(who).kind \in {"CLOSE_WEEK", "CLOSE_MONTH"}
      /\ Phase(Candidate(who).kind) = IF who <= N THEN 0 ELSE 1
  BY <1>1, CandidateIs
<1>3. CASE Close
  BY <1>1, <1>2, <1>3 DEF Close, Emit, When, PASSIVE
<1>4. CASE CloseFailed
  BY <1>1, <1>2, <1>4 DEF CloseFailed, Emit, When, PASSIVE
<1> QED BY <1>3, <1>4

(* What the midnight loop over joining students does to each.              *)
LEMMA AtJoining ==
  ASSUME Place, Join
  PROVE  /\ UNCHANGED <<plan, day, pc, earnings, closed, refused>>
         /\ pc = "join" /\ who \in Students /\ who' = who + 1
         /\ \/ /\ UNCHANGED <<tick, previous_time, previous_phase, last_activity, latest, joined, missed, verdict>>
               /\ plan[who].join # day
            \/ /\ tick' = tick + 1 /\ previous_time' = Midnight(day) /\ previous_phase' = 2
               /\ plan[who].join = day
               /\ \/ joined' = joined \cup {who} /\ missed' = missed
                  \/ missed' = missed \cup {who} /\ joined' = joined
               /\ last_activity' = [last_activity EXCEPT ![who] = Midnight(day)]
               /\ latest' = [latest EXCEPT ![who] = Midnight(day)]
<1>1. who \in Students
  BY Clockwork DEF Place, Join, Students
<1> QED BY <1>1 DEF Join, Emit, When, Phase, PASSIVE, Silent, oracle

Still     == UNCHANGED <<pc, who, day, tick>>
Skipped   == /\ pc = "close" /\ pc' = "close" /\ UNCHANGED <<day, tick>>
             /\ who \in 1..(2 * N) /\ ~Due(who) /\ who' = who + 1
ClosedAll == /\ pc = "close" /\ pc' = "join" /\ UNCHANGED <<day, tick>>
             /\ (\A i \in who..(2 * N) : ~Due(i)) /\ who' = 1
JoinedAll == pc = "join" /\ pc' = "turn" /\ UNCHANGED <<day, tick>> /\ who = N + 1 /\ who' = 1
Onward    == pc = "end" /\ pc' = "turn" /\ UNCHANGED <<day, tick>> /\ who < N /\ who' = who + 1
Overnight == /\ pc = "end" /\ who = N /\ day' = day + 1 /\ who' = 1 /\ tick' = 0
             /\ pc' = IF day' < End THEN "close" ELSE "done"

(* The steps that send nothing: the closures and the JOINs are done, the   *)
(* next student, the next day.                                             *)
LEMMA InSilence ==
  ASSUME Place, NothingDue \/ AllJoined \/ NextPerson \/ NextDay \/ Finished \/ UNCHANGED vars
  PROVE  /\ UNCHANGED <<plan, joined, missed, earnings, closed, refused, last_activity, latest>>
         /\ UNCHANGED <<previous_time, previous_phase, verdict>>
         /\ Still \/ Skipped \/ ClosedAll \/ JoinedAll \/ Onward \/ Overnight
<1>1. CASE NothingDue
  BY <1>1, Clockwork DEF NothingDue, Silent, oracle, Place, Skipped, ClosedAll
<1>2. CASE AllJoined
  BY <1>2, Clockwork DEF AllJoined, Silent, oracle, Place, JoinedAll
<1>3. CASE NextPerson
  BY <1>3 DEF NextPerson, Silent, oracle, Onward
<1>4. CASE NextDay
  BY <1>4 DEF NextDay, oracle, Overnight
<1>5. CASE Finished \/ UNCHANGED vars
  BY <1>5 DEF Finished, vars, mirrors, oracle, Still
<1> QED BY <1>1, <1>2, <1>3, <1>4, <1>5

(* Every step is one of these.                                             *)
LEMMA StepKinds ==
  ASSUME [Next]_vars
  PROVE  \/ TurnStep \/ (Close \/ CloseFailed) \/ Join
         \/ (NothingDue \/ AllJoined \/ NextPerson \/ NextDay \/ Finished \/ UNCHANGED vars)
BY DEF Next, TurnStep

(* run() goes on from a place it can be in.                                *)
LEMMA PlaceKept == Place /\ Members /\ [Next]_vars => Place'
<1> SUFFICES ASSUME Place, Members, [Next]_vars PROVE Place'
  OBVIOUS
<1>1. CASE TurnStep
  <2>1. /\ UNCHANGED <<plan, day, who, joined, missed>>
        /\ pc \in Turns \ {"end"} /\ pc' \in Turns \ {"turn"}
        /\ pc' \in {"dormancy", "visit"} => who # Owner
        /\ pc' # "end" => who \in joined
        /\ pc' = "visit" => ~Away(who)
        /\ tick' \in {tick, tick + 1} /\ refused' \in {refused, refused + 1}
    BY <1>1, InTurn
  <2>2. last_activity' \in [Students -> Int] /\ latest' = last_activity'
    <3>1. Noon(day) + tick + 1 \in Int
      BY Clockwork DEF Place
    <3> QED BY <1>1, <3>1, Noted DEF Place
  <2>3. pc' = "visit" => ~Away(who)'
    BY <2>1 DEF Away, Dormant, AwayUntil
  <2> QED BY <2>1, <2>2, <2>3 DEF Place, Turns
<1>2. CASE Close \/ CloseFailed
  BY <1>2, AtClosing, Clockwork DEF Place, Turns
<1>3. CASE Join
  <2>1. last_activity' \in [Students -> Int] /\ latest' = last_activity'
    <3>1. Midnight(day) \in Int
      BY Clockwork DEF Place
    <3> QED BY <1>3, <3>1, AtJoining DEF Place
  <2>2. /\ pc = "join" /\ pc' = "join" /\ who \in Students /\ who' = who + 1
        /\ UNCHANGED <<plan, day, refused>> /\ tick' \in {tick, tick + 1}
        /\ joined' \subseteq joined \cup {who} /\ missed' \subseteq missed \cup {who}
    BY <1>3, AtJoining
  <2>3. who' \in Nat /\ who' \in 1..(N + 1) /\ tick' \in Nat
    BY <2>2, Numbers DEF Place
  <2> QED BY <2>1, <2>2, <2>3 DEF Place, Turns
<1>4. CASE NothingDue \/ AllJoined \/ NextPerson \/ NextDay \/ Finished \/ UNCHANGED vars
  <2>1. /\ UNCHANGED <<plan, joined, missed, refused, last_activity, latest>>
        /\ Still \/ Skipped \/ ClosedAll \/ JoinedAll \/ Onward \/ Overnight
    BY <1>4, InSilence
  <2>2. CASE Still
    BY <2>1, <2>2 DEF Still, Place, Away, Dormant, AwayUntil
  <2>3. CASE Skipped \/ ClosedAll
    BY <2>1, <2>3, Clockwork DEF Skipped, ClosedAll, Place, Turns
  <2>4. CASE JoinedAll \/ Onward
    <3>1. who' \in Nat /\ who' \in Students
      BY <2>4, Numbers DEF JoinedAll, Onward, Place, Turns
    <3> QED BY <2>1, <2>4, <3>1 DEF JoinedAll, Onward, Place, Turns
  <2>5. CASE Overnight
    BY <2>1, <2>5, Clockwork DEF Overnight, Place, Turns, End
  <2> QED BY <2>1, <2>2, <2>3, <2>4, <2>5
<1> QED BY <1>1, <1>2, <1>3, <1>4, StepKinds

(* Members are those whose day has come.                                   *)
LEMMA MembersKept == Place /\ Members /\ [Next]_vars => Members'
<1> SUFFICES ASSUME Place, Members, [Next]_vars, pc' # "failed"
             PROVE  joined' \cup missed' = {s \in Students : There(s)'} /\ joined' \cap missed' = {}
  BY DEF Members
<1>1. /\ pc # "failed" => joined \cup missed = {s \in Students : There(s)} /\ joined \cap missed = {}
      /\ \A s \in Students : plan[s].join \in Int
      /\ \A s \in Students : s \in 1..N
      /\ day \in Int /\ N \in Int
  <2>1. \A s \in Students : plan[s].join \in Int
    BY TraitsOf DEF Place
  <2>2. pc # "failed" => joined \cup missed = {s \in Students : There(s)} /\ joined \cap missed = {}
    BY Zenon DEF Members
  <2>3. day \in Int
    BY DEF Place
  <2>4. N \in Int /\ \A s \in Students : s \in 1..N
    BY Clockwork DEF Students
  <2> QED BY <2>1, <2>2, <2>3, <2>4, Zenon
<1>2. CASE TurnStep
  BY <1>1, <1>2, InTurn DEF There, Turns
<1>3. CASE Close \/ CloseFailed
  BY <1>1, <1>3, AtClosing DEF There, Turns
<1>4. CASE Join
  BY <1>1, <1>4, AtJoining DEF There, Turns, Place
<1>5. CASE NothingDue \/ AllJoined \/ NextPerson \/ NextDay \/ Finished \/ UNCHANGED vars
  <2>1. /\ UNCHANGED <<plan, joined, missed>>
        /\ Still \/ Skipped \/ ClosedAll \/ JoinedAll \/ Onward \/ Overnight
    BY <1>5, InSilence
  <2>2. CASE Still
    BY <1>1, <2>1, <2>2 DEF Still, There
  <2>3. CASE Skipped \/ ClosedAll
    BY <1>1, <2>1, <2>3 DEF Skipped, ClosedAll, There, Turns
  <2>4. CASE JoinedAll \/ Onward
    BY <1>1, <2>1, <2>4 DEF JoinedAll, Onward, There, Turns
  <2>5. CASE Overnight
    BY <1>1, <2>1, <2>5 DEF Overnight, There, Turns
  <2> QED BY <2>1, <2>2, <2>3, <2>4, <2>5
<1> QED BY <1>2, <1>3, <1>4, <1>5, StepKinds

(* A day's commands come to less than half a day.                          *)
LEMMA SentFits ==
  ASSUME Place, Clock, pc \in Turns
  PROVE  /\ tick \in Nat /\ day \in Int /\ Midnight(day) \in Int /\ Noon(day) = Midnight(day) + Half
         /\ previous_time \in Int /\ previous_time <= Noon(day) + tick
         /\ tick <= Sent /\ tick <= 8 * N
         /\ Midnight(day + 1) \in Int /\ Noon(day) + 8 * N < Midnight(day + 1)
<1>1. tick \in Nat /\ day \in Int /\ previous_time \in Int /\ previous_time <= Noon(day) + tick /\ tick <= Sent
  BY DEF Place, Clock, Turns
<1>2. tick <= 8 * N
  <2>1. Sent = 3 * N + 5 * who - 5 + Stage(pc)
    BY Zenon DEF Sent, Turns
  <2>2. Stage(pc) \in 0..5
    BY DEF Stage
  <2> QED BY <1>1, <2>1, <2>2, Numbers DEF Place
<1>3. Midnight(day) + DayLength <= Midnight(day + 1) /\ Midnight(day + 1) \in Int /\ Midnight(day) \in Int
  BY <1>1, LaterDay, Clockwork
<1>4. Noon(day) = Midnight(day) + Half /\ Half > 8 * N /\ 2 * Half <= DayLength /\ Half \in Int /\ DayLength \in Int
  BY <1>1, Clockwork
<1>5. Noon(day) + 8 * N < Midnight(day + 1)
  BY <1>3, <1>4, Numbers
<1> QED BY <1>1, <1>2, <1>3, <1>4, <1>5

(* The oracle's clock is never ahead of the next command.                  *)
LEMMA ClockKept == Place /\ Clock /\ [Next]_vars => Clock'
<1> SUFFICES ASSUME Place, Clock, [Next]_vars PROVE Clock'
  OBVIOUS
<1>1. CASE TurnStep
  <2>1. /\ UNCHANGED <<who, day>> /\ pc \in Turns /\ pc' \in Turns /\ Stage(pc) < Stage(pc)'
        /\ \/ UNCHANGED <<tick, previous_time, previous_phase>>
           \/ tick' = tick + 1 /\ previous_time' = Noon(day) + tick + 1 /\ previous_phase' = 2
    BY <1>1, InTurn
  <2>2. Stage(pc) \in Int /\ Stage(pc)' \in Int /\ who \in Int /\ N \in Int
    BY Numbers DEF Stage, Place
  <2>3. Sent = 3 * N + 5 * who - 5 + Stage(pc) /\ Sent' = 3 * N + 5 * who' - 5 + Stage(pc)'
    BY <2>1, Zenon DEF Sent, Turns
  <2>4. Noon(day) \in Int /\ tick \in Nat /\ previous_time \in Int
        /\ previous_time <= Noon(day) + tick /\ tick <= Sent
    BY <2>1, SentFits, Clockwork DEF Place
  <2>5. tick' <= Sent'
    BY <2>1, <2>2, <2>3, <2>4
  <2>6. previous_time' \in Int /\ previous_time' <= Noon(day)' + tick' /\ previous_phase' \in -1..2
    <3>1. Noon(day)' = Noon(day)
      BY <2>1 DEF Noon, Midnight
    <3> QED BY <2>1, <2>4, <3>1 DEF Clock
  <2> QED BY <2>1, <2>5, <2>6 DEF Clock, Turns
<1>2. CASE Close \/ CloseFailed
  <2>1. Midnight(day)' = Midnight(day) /\ Midnight(day) \in Int
    BY <1>2, AtClosing, Clockwork DEF Midnight, Place
  <2> QED BY <1>2, <2>1, AtClosing, Numbers DEF Clock, Place, Sent, Turns
<1>3. CASE Join
  <2>1. Midnight(day)' = Midnight(day) /\ Midnight(day) \in Int
    BY <1>3, AtJoining, Clockwork DEF Midnight, Place
  <2>2. /\ pc = "join" /\ pc' = "join" /\ who' = who + 1
        /\ tick' \in {tick, tick + 1}
        /\ previous_time' \in {previous_time, Midnight(day)} /\ previous_phase' \in {previous_phase, 2}
    BY <1>3, AtJoining
  <2> QED BY <2>1, <2>2, Numbers DEF Clock, Place, Sent, Turns
<1>4. CASE NothingDue \/ AllJoined \/ NextPerson \/ NextDay \/ Finished \/ UNCHANGED vars
  <2>1. /\ UNCHANGED <<previous_time, previous_phase>>
        /\ Still \/ Skipped \/ ClosedAll \/ JoinedAll \/ Onward \/ Overnight
    BY <1>4, InSilence
  <2>2. CASE Still
    BY <2>1, <2>2 DEF Still, Clock, Sent, Midnight, Noon
  <2>3. CASE Skipped
    <3>1. Midnight(day)' = Midnight(day)
      BY <2>3 DEF Skipped, Midnight
    <3> QED BY <2>1, <2>3, <3>1, Numbers DEF Skipped, Clock, Place, Sent, Turns
  <2>4. CASE ClosedAll
    <3>1. Midnight(day)' = Midnight(day)
      BY <2>4 DEF ClosedAll, Midnight
    <3> QED BY <2>1, <2>4, <3>1, Numbers DEF ClosedAll, Clock, Place, Sent, Turns
  <2>5. CASE JoinedAll
    <3>1. Noon(day)' = Noon(day) /\ Midnight(day) \in Int /\ Half \in Nat /\ Noon(day) = Midnight(day) + Half
      BY <2>5, Clockwork DEF JoinedAll, Noon, Midnight, Place
    <3> QED BY <2>1, <2>5, <3>1, Numbers DEF JoinedAll, Clock, Place, Sent, Turns, Stage
  <2>6. CASE Onward
    <3>1. Noon(day)' = Noon(day)
      BY <2>6 DEF Onward, Noon, Midnight
    <3> QED BY <2>1, <2>6, <3>1, Numbers DEF Onward, Clock, Place, Sent, Turns, Stage
  <2>7. CASE Overnight
    <3>1. Midnight(day)' = Midnight(day + 1)
      BY <2>7 DEF Overnight, Midnight
    <3>2. previous_time < Midnight(day + 1) /\ Midnight(day + 1) \in Int
      <4>1. pc \in Turns
        BY <2>7 DEF Overnight, Turns
      <4>2. /\ previous_time \in Int /\ previous_time <= Noon(day) + tick /\ tick <= 8 * N /\ tick \in Int
            /\ Noon(day) + 8 * N < Midnight(day + 1) /\ Midnight(day + 1) \in Int /\ Noon(day) \in Int
        BY <4>1, SentFits, Clockwork
      <4> QED BY <4>2, Numbers
    <3> QED BY <2>1, <2>7, <3>1, <3>2, Numbers DEF Overnight, Clock, Place, Sent, Turns
  <2> QED BY <2>1, <2>2, <2>3, <2>4, <2>5, <2>6, <2>7
<1> QED BY <1>1, <1>2, <1>3, <1>4, StepKinds

-----------------------------------------------------------------------------
(* Closures: what run() closes is what expected_periods() lists.           *)
Week(s, e)  == Period(s, "CLOSE_WEEK", e - 7, e)
Whole(s, m) == Period(s, "CLOSE_MONTH", Starts[m - 1], Starts[m])

(* The expected periods are the whole weeks and months of membership.      *)
LEMMA ExpectedAre ==
  ASSUME NEW p
  PROVE  p \in ExpectedPeriods <=>
           \E s \in Students :
             \/ \E e \in 0..(End - 1) : e % 7 = 0 /\ e - 7 >= plan[s].join /\ p = Week(s, e)
             \/ \E m \in 2..4 : Starts[m - 1] >= plan[s].join /\ p = Whole(s, m)
<1> DEFINE weeks(s) == {Week(s, d) : d \in {e \in 0..(End - 1) : e % 7 = 0 /\ e - 7 >= plan[s].join}}
           months(s) == {Whole(s, m) : m \in {n \in 2..4 : Starts[n - 1] >= plan[s].join}}
<1>1. ExpectedPeriods = UNION {weeks(s) \cup months(s) : s \in Students}
  BY Zenon DEF ExpectedPeriods, Week, Whole
<1>2. p \in ExpectedPeriods <=> \E s \in Students : p \in weeks(s) \/ p \in months(s)
  <2> HIDE DEF weeks, months
  <2> QED BY <1>1
<1>3. ASSUME NEW s \in Students
      PROVE  /\ p \in weeks(s) <=> \E e \in 0..(End - 1) : e % 7 = 0 /\ e - 7 >= plan[s].join /\ p = Week(s, e)
             /\ p \in months(s) <=> \E m \in 2..4 : Starts[m - 1] >= plan[s].join /\ p = Whole(s, m)
  OBVIOUS
<1> HIDE DEF weeks, months
<1> QED BY <1>2, <1>3

(* An expected period ends on a day of the run, and has its turn there.    *)
LEMMA ExpectedIsDue ==
  ASSUME Place, NEW p \in ExpectedPeriods
  PROVE  /\ p.last \in 1..101 /\ Turn(p) \in 1..(2 * N)
         /\ p.last = day => Due(Turn(p)) /\ p = Candidate(Turn(p))
<1>1. PICK s \in Students :
        \/ \E e \in 0..(End - 1) : e % 7 = 0 /\ e - 7 >= plan[s].join /\ p = Week(s, e)
        \/ \E m \in 2..4 : Starts[m - 1] >= plan[s].join /\ p = Whole(s, m)
  BY ExpectedAre
<1>2. plan[s].join \in 0..101 /\ s \in Nat /\ 1 <= s /\ s <= N /\ N \in Nat
  BY TraitsOf, Numbers DEF Place
<1>3. CASE \E e \in 0..(End - 1) : e % 7 = 0 /\ e - 7 >= plan[s].join /\ p = Week(s, e)
  <2>1. PICK e \in 0..(End - 1) : e % 7 = 0 /\ e - 7 >= plan[s].join /\ p = Week(s, e)
    BY <1>3
  <2>2. Turn(p) = s /\ p.last = e /\ e \in 1..101
    BY <1>2, <2>1 DEF Week, Period, Turn, End
  <2>3. ASSUME e = day PROVE Candidate(s) = p /\ Due(s)
    <3>1. Candidate(s) = p
      BY <1>2, <2>1, <2>3 DEF Candidate, Week
    <3>2. Candidate(s).student = s /\ Candidate(s).first = day - 7
      BY <1>2, <2>3 DEF Candidate, Period
    <3> QED BY <1>2, <2>1, <2>2, <2>3, <3>1, <3>2 DEF Due, Covers
  <2> QED BY <1>2, <2>2, <2>3
<1>4. CASE \E m \in 2..4 : Starts[m - 1] >= plan[s].join /\ p = Whole(s, m)
  <2>1. PICK m \in 2..4 : Starts[m - 1] >= plan[s].join /\ p = Whole(s, m)
    BY <1>4
  <2>2. Turn(p) = s + N /\ p.last = Starts[m] /\ Starts[m] \in 1..101
    BY <1>2, <2>1, MonthStarts DEF Whole, Period, Turn
  <2>3. ASSUME Starts[m] = day PROVE Candidate(s + N) = p /\ Due(s + N)
    <3>1. day \in Nat /\ day - 1 \in Nat /\ Month(day) = m /\ Month(day - 1) = m - 1
      BY <2>3, MonthStarts, MonthOf
    <3>2. ~(s + N <= N) /\ s + N - N = s /\ day > 0
      BY <1>2, <3>1
    <3>3. Candidate(s + N) = p
      <4>1. PICK i \in Int : i = s + N /\ ~(i <= N) /\ i - N = s
        BY <1>2, <3>2
      <4>2. Candidate(i) = Period(i - N, "CLOSE_MONTH", Starts[Month(day - 1)], day)
        BY <3>1, <3>2, <4>1 DEF Candidate
      <4> QED BY <2>1, <2>3, <3>1, <4>1, <4>2, Zenon DEF Whole
    <3>4. Candidate(s + N).student = s /\ Candidate(s + N).first = Starts[m - 1]
      BY <2>1, <3>3 DEF Whole, Period
    <3> QED BY <2>1, <2>3, <3>1, <3>2, <3>3, <3>4 DEF Due, Covers
  <2> QED BY <1>2, <2>2, <2>3
<1> QED BY <1>1, <1>3, <1>4

(* A candidate that is due is expected.                                    *)
LEMMA DueIsExpected ==
  ASSUME Place, pc # "done", NEW i \in 1..(2 * N), Due(i)
  PROVE  Candidate(i) \in ExpectedPeriods
<1>1. day \in 1..(End - 1) /\ N \in Nat
  BY Numbers DEF Due, Place, End
<1>2. CASE i <= N
  <2>1. /\ Candidate(i) = Week(i, day) /\ day % 7 = 0 /\ i \in Students
        /\ Candidate(i).student = i /\ Candidate(i).first = day - 7
    BY <1>1, <1>2, Numbers DEF Candidate, Week, Due, Period
  <2>2. plan[i].join <= day - 7 /\ plan[i].join \in 0..101
    BY <2>1, TraitsOf DEF Due, Covers, Place
  <2> QED BY <1>1, <2>1, <2>2, ExpectedAre
<1>3. CASE ~(i <= N)
  <2>1. day = Starts[Month(day)] /\ Month(day) \in 2..4 /\ Month(day - 1) = Month(day) - 1
    <3>1. day = Starts[Month(day)]
      BY <1>3 DEF Due
    <3>2. day \in Nat /\ day - 1 \in Nat /\ day > 0
      BY <1>1
    <3> QED BY <3>1, <3>2, MonthOf, MonthStarts
  <2>2. /\ Candidate(i) = Whole(i - N, Month(day)) /\ i - N \in Students
        /\ Candidate(i).student = i - N /\ Candidate(i).first = Starts[Month(day) - 1]
    BY <1>1, <1>3, <2>1, Numbers DEF Candidate, Whole, Period
  <2>3. plan[i - N].join <= Starts[Month(day) - 1] /\ plan[i - N].join \in 0..101
    BY <2>2, TraitsOf DEF Due, Covers, Place
  <2>4. Starts[Month(day) - 1] >= plan[i - N].join
    BY <2>1, <2>3, MonthStarts
  <2> QED BY <2>1, <2>2, <2>4, ExpectedAre
<1> QED BY <1>2, <1>3

(* At any time what is closed is what is expected and past.                *)
LEMMA ClosuresKept == Place /\ Closures /\ [Next]_vars => Closures'
<1> SUFFICES ASSUME Place, Closures, [Next]_vars PROVE Closures'
  OBVIOUS
<1>a. UNCHANGED plan
  BY StepKinds, InTurn, AtClosing, AtJoining, InSilence
<1>b. ExpectedPeriods' = ExpectedPeriods
  BY <1>a DEF ExpectedPeriods
<1> SUFFICES ASSUME pc' # "failed"
             PROVE  \A p : p \in closed' <=> p \in ExpectedPeriods /\ Past(p)'
  BY <1>b, Zenon DEF Closures
<1>1. pc # "failed" => \A p : p \in closed <=> p \in ExpectedPeriods /\ Past(p)
  BY DEF Closures
<1>2. \A p \in ExpectedPeriods : /\ p.last \in Int /\ Turn(p) \in 1..(2 * N)
                                 /\ p.last = day => Due(Turn(p)) /\ p = Candidate(Turn(p))
  <2>1. \A n : n \in 1..101 => n \in Int
    OBVIOUS
  <2> QED BY <2>1, ExpectedIsDue
<1>3. day \in Int /\ who \in Int /\ N \in Nat
  BY Numbers DEF Place
<1>4. \A p : Turn(p)' = Turn(p)
  BY DEF Turn
<1>5. CASE TurnStep \/ Join
  <2>1. UNCHANGED <<closed, day>> /\ pc # "close" /\ pc' # "close" /\ pc # "failed"
    BY <1>5, InTurn, AtJoining DEF Turns
  <2>2. \A p : Past(p)' <=> Past(p)
    BY <2>1 DEF Past
  <2> QED BY <1>1, <2>1, <2>2
<1>6. CASE Close \/ CloseFailed
  <2>1. /\ pc = "close" /\ pc' = "close" /\ who \in 1..(2 * N) /\ Due(who)
        /\ day' = day /\ who' = who + 1 /\ closed' = closed \cup {Candidate(who)}
    BY <1>6, AtClosing
  <2>2. Candidate(who) \in ExpectedPeriods /\ Candidate(who).last = day /\ Turn(Candidate(who)) = who
    BY <2>1, DueIsExpected, CandidateIs
  <2>3. \A p \in ExpectedPeriods : Past(p)' <=> Past(p) \/ p = Candidate(who)
    BY <1>2, <1>3, <1>4, <2>1, <2>2 DEF Past
  <2> QED BY <1>1, <2>1, <2>2, <2>3
<1>7. CASE NothingDue \/ AllJoined \/ NextPerson \/ NextDay \/ Finished \/ UNCHANGED vars
  <2>1. /\ UNCHANGED closed
        /\ Still \/ Skipped \/ ClosedAll \/ JoinedAll \/ Onward \/ Overnight
    BY <1>7, InSilence
  <2>2. SUFFICES pc # "failed" /\ \A p \in ExpectedPeriods : Past(p)' <=> Past(p)
    BY <1>1, <2>1
  <2>3. CASE Still
    BY <1>4, <2>3 DEF Still, Past
  <2>4. CASE Skipped
    BY <1>2, <1>3, <1>4, <2>4 DEF Skipped, Past
  <2>5. CASE ClosedAll
    BY <1>2, <1>3, <1>4, <2>5 DEF ClosedAll, Past
  <2>6. CASE JoinedAll \/ Onward
    BY <2>6 DEF JoinedAll, Onward, Past
  <2>7. CASE Overnight
    <3>1. \A p \in ExpectedPeriods : p.last <= 101
      BY ExpectedIsDue
    <3>2. pc = "end" /\ day' = day + 1 /\ who' = 1 /\ (pc' = "close" \/ day' = 102)
      BY <1>3, <2>7 DEF Overnight, End, Place
    <3> QED BY <1>2, <1>3, <1>4, <3>1, <3>2 DEF Past
  <2> QED BY <2>1, <2>3, <2>4, <2>5, <2>6, <2>7
<1> QED BY <1>5, <1>6, <1>7, StepKinds

-----------------------------------------------------------------------------
(* Dormancy.  No command of a dormant student is sent between the eve and  *)
(* the return.                                                             *)
LEMMA SilenceKept == Place /\ Members /\ Clock /\ Silence /\ [Next]_vars => Silence'
<1> SUFFICES ASSUME Place, Members, Clock, Silence, [Next]_vars, NEW s \in joined',
                    Dormant(s)', GoneQuiet(s)', NotBack(s)'
             PROVE  Noon(Eve) < last_activity[s]' /\ last_activity[s]' < Midnight(Eve + 1)
  <2>1. Noon(Eve)' = Noon(Eve) /\ Midnight(Eve + 1)' = Midnight(Eve + 1)
    BY DEF Noon, Midnight, Eve
  <2> QED BY <2>1 DEF Silence
<1>1. UNCHANGED plan
  BY StepKinds, InTurn, AtClosing, AtJoining, InSilence
<1>0. s \in Students /\ Place'
  BY PlaceKept DEF Place
<1>2. /\ Dormant(s) /\ AwayUntil(s)' = AwayUntil(s)
      /\ AwayUntil(s) \in {44, 51, 56} /\ plan[s].join = 0 /\ s # Owner
      /\ Dormant(s) <=> Dormant(s)'
  <2>1. Dormant(s) /\ (Dormant(s) <=> Dormant(s)') /\ AwayUntil(s)' = AwayUntil(s)
    BY <1>1 DEF Dormant, AwayUntil
  <2>2. plan[s].dormant \in {0, 7, 14, 19} /\ plan[s].dormant # 0 /\ plan[s].join = 0 /\ s # Owner
    BY <1>0, <2>1, TraitsOf DEF Place, Dormant
  <2> QED BY <2>1, <2>2 DEF AwayUntil, Eve
<1>3. s \in joined /\ GoneQuiet(s) /\ NotBack(s) => Noon(Eve) < last_activity[s] /\ last_activity[s] < Midnight(Eve + 1)
  BY <1>2 DEF Silence
<1>4. /\ day \in Int /\ who \in Nat /\ s \in Nat /\ Eve = 36
      /\ s \in 1..N /\ N \in Nat
  BY <1>0, Numbers DEF Place, Eve
<1>5. CASE TurnStep
  <2>1. /\ UNCHANGED <<day, who, joined>> /\ pc \in Turns \ {"end"} /\ pc' \in Turns \ {"turn"}
        /\ Stage(pc) < Stage(pc)' /\ who \in Students
        /\ pc' \in {"visit", "end"} =>
              \/ pc = "turn" /\ who \notin joined
              \/ pc = "create" /\ who = Owner
              \/ pc \in {"dormancy", "visit"}
    BY <1>5, InTurn DEF Place
  <2>3. day >= 36 /\ s \in joined
    BY <1>4, <2>1 DEF GoneQuiet
  <2>4. CASE s # who
    <3>1. GoneQuiet(s) /\ NotBack(s)
      BY <1>2, <1>4, <2>1, <2>4 DEF GoneQuiet, NotBack, Turns
    <3>2. last_activity'[s] = last_activity[s]
      BY <1>0, <1>5, <2>4, Noted DEF Place
    <3> QED BY <1>3, <2>3, <3>1, <3>2, Zenon
  <2>5. CASE s = who
    <3>1. CASE UNCHANGED <<last_activity, latest>> /\ ~(pc = "dormancy" /\ OnEve(who))
      <4>1. NotBack(s)
        BY <1>2, <1>4, <2>1, <2>5 DEF NotBack, Turns, Stage
      <4>2. GoneQuiet(s)
        BY <1>2, <1>4, <2>1, <2>3, <2>5, <3>1 DEF GoneQuiet, Turns, OnEve
      <4> QED BY <1>3, <2>3, <3>1, <4>1, <4>2
    <3>2. CASE last_activity' = [last_activity EXCEPT ![who] = Noon(day) + tick + 1] /\ Active
      <4>1. last_activity'[s] = Noon(day) + tick + 1
        BY <2>1, <2>5, <3>2 DEF Place
      <4>2. day = Eve
        <5>1. ~(pc = "create" /\ plan[who].join = day)
          BY <1>2, <2>3, <2>5
        <5>2. CASE pc = "dormancy" /\ pc' = "visit" /\ (OnEve(who) \/ Returning(who))
          BY <1>2, <1>4, <2>1, <2>5, <5>2 DEF OnEve, Returning, NotBack, Turns
        <5>3. CASE pc = "visit"
          <6>1. pc' = "end"
            BY <2>1, <5>3 DEF Stage, Turns
          <6>2. ~Away(s)
            BY <2>5, <5>3 DEF Place
          <6> QED BY <1>2, <1>4, <2>1, <2>3, <2>5, <6>1, <6>2 DEF Away, NotBack, Turns
        <5> QED BY <3>2, <5>1, <5>2, <5>3 DEF Active
      <4>3. /\ Noon(day) \in Int /\ tick \in Nat /\ tick <= 8 * N
            /\ Noon(day) + 8 * N < Midnight(day + 1) /\ Midnight(day + 1) \in Int
        BY <2>1, SentFits, Clockwork DEF Turns
      <4>4. Noon(day) < Noon(day) + tick + 1 /\ Noon(day) + tick + 1 < Midnight(day + 1)
        <5>1. tick < 8 * N
          <6>1. tick <= Sent /\ pc \in Turns /\ Sent = 3 * N + 5 * who - 5 + Stage(pc)
            BY <2>1, Zenon DEF Clock, Sent, Turns
          <6>2. Stage(pc) \in 0..4
            BY <2>1 DEF Stage, Turns
          <6> QED BY <1>4, <2>1, <4>3, <6>1, <6>2, Numbers
        <5> QED BY <1>4, <4>3, <5>1
      <4> QED BY <4>1, <4>2, <4>4
    <3> QED BY <1>5, <3>1, <3>2, Noted
  <2> QED BY <2>4, <2>5
<1>6. CASE Close \/ CloseFailed
  <2>1. UNCHANGED <<day, joined, last_activity>> /\ pc = "close" /\ pc' \in {"close", "failed"}
    BY <1>6, AtClosing
  <2>2. GoneQuiet(s) /\ NotBack(s)
    BY <1>2, <1>4, <2>1 DEF GoneQuiet, NotBack, Turns
  <2> QED BY <1>3, <2>1, <2>2
<1>7. CASE Join
  <2>1. UNCHANGED <<day, pc>> /\ pc = "join"
        /\ joined' \subseteq joined \cup {who}
        /\ \/ UNCHANGED <<last_activity, joined>>
           \/ plan[who].join = day /\ last_activity' = [last_activity EXCEPT ![who] = Midnight(day)]
    BY <1>7, AtJoining
  <2>2. GoneQuiet(s) /\ NotBack(s) /\ day > 36
    BY <1>2, <1>4, <2>1 DEF GoneQuiet, NotBack, Turns
  <2>3. last_activity'[s] = last_activity[s] /\ s \in joined
    BY <1>2, <1>4, <2>1, <2>2 DEF Place
  <2> QED BY <1>3, <2>2, <2>3
<1>8. CASE NothingDue \/ AllJoined \/ NextPerson \/ NextDay \/ Finished \/ UNCHANGED vars
  <2>1. /\ UNCHANGED <<last_activity, joined>>
        /\ Still \/ Skipped \/ ClosedAll \/ JoinedAll \/ Onward \/ Overnight
    BY <1>8, InSilence
  <2>2. SUFFICES GoneQuiet(s) /\ NotBack(s)
    BY <1>3, <2>1
  <2>3. CASE Still
    BY <1>2, <2>3 DEF Still, GoneQuiet, NotBack
  <2>4. CASE Skipped \/ ClosedAll
    BY <1>2, <1>4, <2>4 DEF Skipped, ClosedAll, GoneQuiet, NotBack, Turns
  <2>5. CASE JoinedAll \/ Onward
    BY <1>2, <1>4, <2>5 DEF JoinedAll, Onward, GoneQuiet, NotBack, Turns
  <2>6. CASE Overnight
    BY <1>2, <1>4, <2>6 DEF Overnight, GoneQuiet, NotBack, Turns
  <2> QED BY <2>1, <2>3, <2>4, <2>5, <2>6
<1> QED BY <1>5, <1>6, <1>7, <1>8, StepKinds

-----------------------------------------------------------------------------
(* Allowances.  What a step of a turn hands out.                           *)
LEMMA HandedOut ==
  ASSUME Place, TurnStep
  PROVE  \/ UNCHANGED earnings /\ refused' = refused + 1
         \/ UNCHANGED <<earnings, refused>> /\ (pc # "turn" \/ who \notin joined \/ GrantsToday(who) = {})
         \/ /\ pc = "turn" /\ who \in joined /\ UNCHANGED refused
            /\ \E i \in GrantsToday(who) :
                 earnings' = [earnings EXCEPT ![<<who, Month(day)>>] = @ + Grants(who, Month(day))[i]]
<1>1. CASE NotYet
  BY <1>1 DEF NotYet, Quiet, Goto, Silent, oracle
<1>2. CASE NoGrant
  BY <1>2 DEF NoGrant, Quiet, Goto, Silent, oracle
<1>3. CASE StayAway \/ Awake \/ NoVisit
  BY <1>3 DEF StayAway, Awake, NoVisit, Quiet, Goto, Silent, oracle
<1>4. CASE Grant
  BY <1>4, Zenon DEF Grant
<1>5. CASE GrantRefused
  BY <1>5 DEF GrantRefused
<1>6. CASE Purchase \/ Create
  BY <1>6 DEF Purchase, Create, Goto, Silent, oracle
<1>7. CASE Observe \/ Return \/ Visit
  BY <1>7 DEF Observe, Return, Visit
<1> QED BY <1>1, <1>2, <1>3, <1>4, <1>5, <1>6, <1>7 DEF TurnStep

(* The dates of the allowances, and what a step of run() leaves of them.   *)
LEMMA Dates ==
  ASSUME Place, NEW s \in Students, NEW m \in Months
  PROVE  /\ Starts[m] \in Nat /\ IsFiniteSet(DOMAIN GrantDays(s, m))
         /\ \A i \in DOMAIN GrantDays(s, m) : /\ GrantDays(s, m)[i] \in Nat /\ GrantDays(s, m)[i] < Lengths[m]
                                           /\ Starts[m] + GrantDays(s, m)[i] \in Nat
                                           /\ Grants(s, m)[i] \in Int
         /\ IsFiniteSet(Given(s, m))
<1>1. IsFiniteSet(DOMAIN GrantDays(s, m)) /\ Starts[m] \in Nat
  BY GrantsAddUp, MonthStarts DEF Place
<1>2. \A i \in DOMAIN GrantDays(s, m) : GrantDays(s, m)[i] \in Nat /\ GrantDays(s, m)[i] < Lengths[m] /\ Grants(s, m)[i] \in Int
  BY GrantsAddUp DEF Place
<1>3. IsFiniteSet(Given(s, m))
  BY <1>1, FS_Subset DEF Given
<1> QED BY <1>1, <1>2, <1>3

(* The allowance of the day, if there is one, is the only one, and of the  *)
(* month of the day.                                                       *)
LEMMA OfToday ==
  ASSUME Place, NEW s \in Students, NEW i \in GrantsToday(s), NEW m \in Months, NEW j \in DOMAIN GrantDays(s, m)
  PROVE  /\ Month(day) \in Months /\ i \in DOMAIN GrantDays(s, Month(day))
         /\ Starts[Month(day)] + GrantDays(s, Month(day))[i] = day
         /\ Starts[m] + GrantDays(s, m)[j] = day <=> m = Month(day) /\ j = i
<1>1. Month(day) \in Months
  BY MonthOf, MonthStarts DEF Place
<1>2. i \in DOMAIN GrantDays(s, Month(day)) /\ Starts[Month(day)] + GrantDays(s, Month(day))[i] = day
  BY Zenon DEF GrantsToday
<1>3. /\ GrantDays(s, Month(day))[i] \in Nat /\ GrantDays(s, m)[j] \in Nat /\ GrantDays(s, m)[j] < Lengths[m]
      /\ Starts[Month(day)] \in Nat
  BY <1>1, <1>2, Dates
<1>4. Starts[m] + GrantDays(s, m)[j] = day => m = Month(day)
  BY <1>3, SameMonth
<1>5. m = Month(day) /\ GrantDays(s, m)[i] = GrantDays(s, m)[j] => i = j
  BY <1>2, GrantsAddUp DEF Place
<1> QED BY <1>1, <1>2, <1>3, <1>4, <1>5

(* With no allowance today, none of any month is dated today.              *)
LEMMA NoneToday ==
  ASSUME Place, NEW s \in Students, GrantsToday(s) = {}, NEW m \in Months, NEW j \in DOMAIN GrantDays(s, m)
  PROVE  Starts[m] + GrantDays(s, m)[j] # day
<1> SUFFICES ASSUME Starts[m] + GrantDays(s, m)[j] = day PROVE FALSE
  OBVIOUS
<1>1. Month(day) = m
  BY Dates, SameMonth
<1> QED BY <1>1 DEF GrantsToday

(* A member has been given what the calendar says, to the day.             *)
LEMMA AllowancesKept == Place /\ Members /\ Allowances /\ [Next]_vars => Allowances'
<1> SUFFICES ASSUME Place, Members, Allowances, [Next]_vars PROVE Allowances'
  OBVIOUS
<1>1. UNCHANGED plan
  BY StepKinds, InTurn, AtClosing, AtJoining, InSilence
<1>2. \A s, m : GrantDays(s, m)' = GrantDays(s, m) /\ Grants(s, m)' = Grants(s, m)
  BY <1>1 DEF GrantDays, Grants, Weights
<1>3. earnings \in [Students \X Months -> Int] /\ day \in Nat /\ N \in Nat
  BY Numbers DEF Allowances, Place
<1>4. ASSUME UNCHANGED <<earnings, refused>>, missed \subseteq missed', pc' # "failed" => pc # "failed",
             pc' # "failed" => \A s \in Students \ missed, m \in Months :
                plan[s].join <= Starts[m] =>
                  \A i \in DOMAIN GrantDays(s, m) :
                      (Starts[m] + GrantDays(s, m)[i] < day' \/ (Starts[m] + GrantDays(s, m)[i] = day' /\ Served(s)'))
                  <=> (Starts[m] + GrantDays(s, m)[i] < day  \/ (Starts[m] + GrantDays(s, m)[i] = day  /\ Served(s)))
      PROVE  Allowances'
  <2> SUFFICES ASSUME pc' # "failed", refused' = 0, NEW s \in Students \ missed', NEW m \in Months, plan[s].join <= Starts[m]
               PROVE  earnings[<<s, m>>] = SumFunctionOnSet(Grants(s, m), Given(s, m)')
    BY <1>1, <1>2, <1>3, <1>4 DEF Allowances
  <2>0. s \in Students \ missed
    BY <1>4
  <2>1. Given(s, m)' = Given(s, m)
    BY <1>1, <1>2, <1>4, <2>0 DEF Given
  <2> QED BY <1>4, <2>0, <2>1 DEF Allowances
<1>5. CASE TurnStep
  <2>1. UNCHANGED <<day, who, missed>> /\ pc \in Turns \ {"end"} /\ pc' \in Turns \ {"turn"} /\ who \in Students
        /\ refused' \in {refused, refused + 1} /\ refused \in Nat /\ pc # "failed" /\ pc' # "failed"
    BY <1>5, InTurn DEF Place, Turns
  <2>2. \A s \in Students : Served(s)' <=> Served(s) \/ (s = who /\ pc = "turn")
    BY <2>1, Numbers DEF Served, Turns
  <2>3. CASE refused' = refused + 1 /\ UNCHANGED earnings
    BY <1>3, <2>1, <2>3 DEF Allowances
  <2>4. CASE UNCHANGED <<earnings, refused>> /\ (pc # "turn" \/ who \notin joined \/ GrantsToday(who) = {})
    <3> SUFFICES ASSUME NEW s \in Students \ missed, NEW m \in Months, plan[s].join <= Starts[m],
                        NEW i \in DOMAIN GrantDays(s, m), Starts[m] + GrantDays(s, m)[i] = day,
                        s = who, pc = "turn"
                 PROVE  FALSE
      BY <1>4, <2>1, <2>2, <2>4
    <3>1. GrantsToday(who) # {}
      BY NoneToday
    <3>2. plan[s].join > day
      <4>1. ~There(s) /\ plan[s].join \in Int
        BY <2>1, <2>4, <3>1, TraitsOf DEF Members, Place
      <4> QED BY <1>3, <2>1, <4>1 DEF There
    <3>3. plan[s].join \in Int /\ Starts[m] \in Nat /\ GrantDays(s, m)[i] \in Nat
      BY Dates, TraitsOf DEF Place
    <3> QED BY <3>2, <3>3
  <2>5. CASE UNCHANGED refused /\ pc = "turn" /\ who \in joined /\ \E i \in GrantsToday(who) :
                 earnings' = [earnings EXCEPT ![<<who, Month(day)>>] = @ + Grants(who, Month(day))[i]]
    <3>1. PICK i \in GrantsToday(who) :
                 earnings' = [earnings EXCEPT ![<<who, Month(day)>>] = @ + Grants(who, Month(day))[i]]
      BY <2>5
    <3>2. /\ i \in DOMAIN GrantDays(who, Month(day)) /\ Month(day) \in Months
          /\ Starts[Month(day)] + GrantDays(who, Month(day))[i] = day
          /\ Grants(who, Month(day))[i] \in Int
      <4>1. /\ i \in DOMAIN GrantDays(who, Month(day))
            /\ Starts[Month(day)] + GrantDays(who, Month(day))[i] = day
        BY <3>1, Zenon DEF GrantsToday
      <4>2. Month(day) \in Months
        BY <1>3, MonthOf, MonthStarts
      <4> QED BY <2>1, <4>1, <4>2, Dates
    <3>3. earnings' \in [Students \X Months -> Int]
      BY <1>3, <2>1, <3>1, <3>2
    <3> SUFFICES ASSUME refused = 0, NEW s \in Students \ missed, NEW m \in Months, plan[s].join <= Starts[m]
                 PROVE  earnings'[<<s, m>>] = SumFunctionOnSet(Grants(s, m), Given(s, m)')
      BY <1>1, <1>2, <2>1, <2>5, <3>3 DEF Allowances
    <3>4. earnings[<<s, m>>] = SumFunctionOnSet(Grants(s, m), Given(s, m)) /\ earnings[<<s, m>>] \in Int
      BY <1>3, <2>1 DEF Allowances
    <3>5. CASE s = who /\ m = Month(day)
      <4>1. earnings'[<<s, m>>] = earnings[<<s, m>>] + Grants(s, m)[i]
        BY <1>3, <3>1, <3>5
      <4>2. ~Served(s) /\ Served(s)' /\ day' = day
        BY <2>1, <2>2, <2>5, <3>5, Numbers DEF Served
      <4>3. \A j \in DOMAIN GrantDays(s, m) : Starts[m] + GrantDays(s, m)[j] = day <=> j = i
        BY <3>5, OfToday
      <4>4. Given(s, m)' = Given(s, m) \cup {i} /\ i \notin Given(s, m)
        <5>1. DOMAIN GrantDays(s, m)' = DOMAIN GrantDays(s, m)
          BY <1>2
        <5> QED BY <1>1, <1>2, <1>3, <3>2, <3>5, <4>2, <4>3, <5>1, Dates DEF Given
      <4>5. IsFiniteSet(Given(s, m)) /\ \A j \in Given(s, m) \cup {i} : Grants(s, m)[j] \in Int
        BY <3>2, <3>5, Dates DEF Given
      <4>6. SumFunctionOnSet(Grants(s, m), Given(s, m) \cup {i}) = SumFunctionOnSet(Grants(s, m), Given(s, m)) + Grants(s, m)[i]
        <5>1. PICK f, S, x : f = Grants(s, m) /\ S = Given(s, m) /\ x = i
          OBVIOUS
        <5>2. SumFunctionOnSet(f, S \cup {x}) = SumFunctionOnSet(f, S) + f[x]
          BY <4>4, <4>5, <5>1, SumExtended
        <5> QED BY <5>1, <5>2, Zenon
      <4> QED BY <3>4, <4>1, <4>4, <4>6
    <3>6. CASE ~(s = who /\ m = Month(day))
      <4>1. earnings'[<<s, m>>] = earnings[<<s, m>>]
        BY <1>3, <3>1, <3>6
      <4>2. Given(s, m)' = Given(s, m)
        <5>1. s = who => \A j \in DOMAIN GrantDays(s, m) : Starts[m] + GrantDays(s, m)[j] # day
          BY <3>6, OfToday
        <5>2. s # who => (Served(s)' <=> Served(s))
          BY <2>2
        <5> QED BY <1>1, <1>2, <2>1, <5>1, <5>2 DEF Given
      <4> QED BY <3>4, <4>1, <4>2
    <3> QED BY <3>5, <3>6
  <2> QED BY <1>5, <2>3, <2>4, <2>5, HandedOut
<1>6. CASE Close \/ CloseFailed
  <2>1. UNCHANGED <<day, missed, earnings, refused>> /\ pc = "close" /\ pc' \in {"close", "failed"}
    BY <1>6, AtClosing
  <2>2. \A s \in Students : ~Served(s) /\ ~Served(s)'
    BY <2>1 DEF Served, Turns
  <2> QED BY <1>4, <2>1, <2>2
<1>7. CASE Join
  <2>1. UNCHANGED <<day, pc, earnings, refused>> /\ pc = "join" /\ missed \subseteq missed'
    BY <1>7, AtJoining
  <2>2. \A s \in Students : ~Served(s) /\ ~Served(s)'
    BY <2>1 DEF Served, Turns
  <2> QED BY <1>4, <2>1, <2>2
<1>8. CASE NothingDue \/ AllJoined \/ NextPerson \/ NextDay \/ Finished \/ UNCHANGED vars
  <2>1. /\ UNCHANGED <<missed, earnings, refused>>
        /\ Still \/ Skipped \/ ClosedAll \/ JoinedAll \/ Onward \/ Overnight
    BY <1>8, InSilence
  <2>2. CASE Still
    <3>1. \A s \in Students : Served(s) <=> Served(s)'
      BY <2>2 DEF Still, Served
    <3> QED BY <1>4, <2>1, <2>2, <3>1 DEF Still
  <2>3. CASE Skipped \/ ClosedAll
    <3>1. \A s \in Students : ~Served(s) /\ ~Served(s)'
      BY <2>3 DEF Skipped, ClosedAll, Served, Turns
    <3> QED BY <1>4, <2>1, <2>3, <3>1 DEF Skipped, ClosedAll
  <2>4. CASE JoinedAll \/ Onward
    <3>1. \A s \in Students : Served(s) <=> Served(s)'
      BY <2>4, Numbers DEF JoinedAll, Onward, Served, Turns, Place
    <3> QED BY <1>4, <2>1, <2>4, <3>1 DEF JoinedAll, Onward
  <2>5. CASE Overnight
    <3>1. \A s \in Students : Served(s) /\ ~Served(s)'
      BY <2>5, Numbers DEF Overnight, Served, Turns, Place
    <3>2. \A s \in Students, m \in Months : \A i \in DOMAIN GrantDays(s, m) :
             Starts[m] + GrantDays(s, m)[i] \in Nat
      BY Dates
    <3>3. \A n \in Nat : n < day + 1 <=> n < day \/ n = day
      BY <1>3
    <3>4. day' = day + 1 /\ pc = "end"
      BY <2>5 DEF Overnight
    <3> QED BY <1>4, <2>1, <3>1, <3>2, <3>3, <3>4
  <2> QED BY <2>1, <2>2, <2>3, <2>4, <2>5
<1> QED BY <1>5, <1>6, <1>7, <1>8, StepKinds

-----------------------------------------------------------------------------
(* The verdict.  A member's command during the day comes in time.          *)
LEMMA TurnTimely ==
  ASSUME Place, Members, Clock, pc \in Turns \ {"end"}, who \in joined,
         NEW kind, kind # "JOIN", Phase(kind) = 2, NEW t, t = Noon(day) + tick + 1
  PROVE  /\ Timely(who, kind, t)
         /\ t \in Int /\ tick \in Nat /\ Noon(day) \in Int /\ Noon(day) < t
         /\ Midnight(plan[who].join) \in Int /\ Midnight(plan[who].join) <= Noon(day)
         /\ t < Midnight(day + 1) /\ Midnight(day + 1) \in Int
<1>2. /\ tick \in Nat /\ day \in 0..End /\ Midnight(day) \in Int /\ Noon(day) = Midnight(day) + Half
      /\ previous_time \in Int /\ previous_time <= Noon(day) + tick
      /\ Midnight(day + 1) \in Int /\ Noon(day) + 8 * N < Midnight(day + 1)
  BY SentFits DEF Place
<1>3. tick < 8 * N
  <2>1. tick <= Sent /\ Sent = 3 * N + 5 * who - 5 + Stage(pc)
    BY Zenon DEF Clock, Sent, Turns
  <2>2. Stage(pc) \in 0..4 /\ who \in Students
    BY DEF Stage, Turns, Place
  <2> QED BY <1>2, <2>1, <2>2, Numbers
<1>4. Half \in Nat /\ N \in Nat /\ Noon(day) \in Int /\ Midnight(0) = 0 /\ Midnight(End) \in Int
  BY <1>2, Clockwork DEF Midnight, End
<1>5. day \in 0..101 /\ day + 1 <= End
  BY <1>2 DEF Place, Turns, End
<1>6. 0 <= Midnight(day) /\ Midnight(day + 1) <= Midnight(End)
  <2>1. DayLength \in Nat /\ day + 1 \in Int /\ End \in Int /\ 0 \in Int /\ day \in Int
    BY <1>5, Clockwork DEF End
  <2>2. day = 0 \/ 0 < day
    BY <1>5
  <2>3. day + 1 = End \/ day + 1 < End
    BY <1>5, <2>1
  <2> QED BY <1>2, <1>4, <2>1, <2>2, <2>3, LaterDay
<1>7. plan[who].join \in Int /\ plan[who].join <= day
  <2>1. There(who) /\ who \in Students
    BY DEF Members, Turns
  <2>2. plan[who].join \in Int
    BY <2>1, TraitsOf DEF Place
  <2> QED BY <1>5, <2>1, <2>2 DEF There
<1>8. Midnight(plan[who].join) \in Int /\ Midnight(plan[who].join) <= Midnight(day)
  <2>1. DayLength \in Nat /\ day \in Int
    BY <1>5, Clockwork
  <2>2. PICK j \in Int : j = plan[who].join
    BY <1>7
  <2>3. j = day \/ j < day
    BY <1>7, <2>1, <2>2
  <2>4. Midnight(j) \in Int /\ (j < day => Midnight(j) + DayLength <= Midnight(day))
    BY <2>1, <2>2, LaterDay, Clockwork
  <2>5. Midnight(j) <= Midnight(day)
    BY <1>2, <2>1, <2>3, <2>4
  <2> QED BY <2>2, <2>4, <2>5, Zenon
<1>9. previous_phase \in -1..2
  BY DEF Clock
<1>10. t \in Int /\ Noon(day) < t
  BY <1>2, <1>4
<1>11. 0 <= t /\ t < Midnight(End) /\ t >= previous_time /\ t >= Midnight(plan[who].join) /\ t < Midnight(day + 1)
  BY <1>2, <1>3, <1>4, <1>6, <1>8, <1>10
<1>12. t = previous_time => Phase(kind) >= previous_phase
  BY <1>9
<1>13. Timely(who, kind, t)
  BY <1>11, <1>12 DEF Timely
<1> QED BY <1>2, <1>4, <1>8, <1>10, <1>11, <1>13

(* Dates apart by the week.                                                *)
LEMMA WeeksApart ==
  /\ Midnight(7) \in Int /\ Midnight(21) \in Int
  /\ \A d \in {44, 51, 56} : /\ Midnight(d) >= Midnight(Eve + 1) + Midnight(7)
                             /\ Midnight(d + 1) <= Midnight(Eve) + Midnight(21)
<1>1. DayLength \in Nat
  BY Clockwork
<1> QED BY <1>1 DEF Midnight, Eve

(* The return from dormancy cites an activity 7 to 21 days old.            *)
LEMMA ReturnLawful ==
  ASSUME Place, Members, Clock, Silence, pc = "dormancy", Returning(who),
         NEW t, t = Noon(day) + tick + 1
  PROVE  /\ latest[who] = Anchor
         /\ Midnight(7) <= t - Anchor /\ t - Anchor <= Midnight(21)
<1>1. who \in Students /\ who \in joined
  BY DEF Place, Turns
<1>2. Phase("RETURN_FROM_DORMANCY") = 2
  BY DEF Phase
<1>3. /\ t \in Int /\ tick \in Nat /\ Noon(day) \in Int /\ Noon(day) < t
      /\ t < Midnight(day + 1) /\ Midnight(day + 1) \in Int
  BY <1>1, <1>2, TurnTimely DEF Turns
<1>4. Dormant(who) /\ day = AwayUntil(who) /\ day \in {44, 51, 56}
  <2>1. Dormant(who) /\ day = AwayUntil(who)
    BY DEF Returning
  <2>2. plan[who].dormant \in {0, 7, 14, 19} /\ plan[who].dormant # 0
    BY <1>1, <2>1, TraitsOf DEF Place, Dormant
  <2> QED BY <2>1, <2>2 DEF AwayUntil, Eve
<1>5. GoneQuiet(who) /\ NotBack(who)
  BY <1>4 DEF GoneQuiet, NotBack, Turns, Eve
<1>6. Noon(Eve) < Anchor /\ Anchor < Midnight(Eve + 1) /\ Anchor \in Int
  BY <1>1, <1>4, <1>5 DEF Silence, Anchor, Place
<1>7. /\ Midnight(day) >= Midnight(Eve + 1) + Midnight(7)
      /\ Midnight(day + 1) <= Midnight(Eve) + Midnight(21)
  BY <1>4, WeeksApart
<1>8. /\ Midnight(day) \in Int /\ Noon(day) = Midnight(day) + Half /\ Half \in Nat
      /\ Midnight(Eve) \in Int /\ Noon(Eve) = Midnight(Eve) + Half /\ Midnight(Eve + 1) \in Int
      /\ Midnight(7) \in Int /\ Midnight(21) \in Int
  <2>1. Eve \in Int /\ Eve + 1 \in Int /\ day \in Int
    BY <1>4 DEF Eve
  <2> QED BY <2>1, Clockwork, WeeksApart
<1>9. latest[who] = Anchor
  BY DEF Place, Anchor
<1>10. Midnight(7) <= t - Anchor /\ t - Anchor <= Midnight(21)
  <2>1. PICK a \in Int : a = Anchor
    BY <1>6
  <2> QED BY <1>3, <1>6, <1>7, <1>8, <2>1
<1> QED BY <1>9, <1>10

(* What a step of a turn says to the oracle.                               *)
LEMMA TurnLawful ==
  ASSUME Place, Members, Clock, Silence, verdict = "OK", TurnStep
  PROVE  verdict' = "OK"
<1>1. PICK t : t = Noon(day) + tick + 1
  OBVIOUS
<1>2. When(FALSE) = t
  BY <1>1, Zenon DEF When
<1>3. ASSUME pc \in Turns \ {"end"}, who \in joined, NEW kind, kind # "JOIN", Phase(kind) = 2
      PROVE  /\ Timely(who, kind, t)
             /\ Midnight(plan[who].join) <= Noon(day) /\ Noon(day) <= t
  <2>1. /\ Timely(who, kind, t) /\ t \in Int /\ Noon(day) \in Int /\ Noon(day) < t
        /\ Midnight(plan[who].join) <= Noon(day)
    BY <1>1, <1>3, TurnTimely
  <2> QED BY <2>1
<1>4. /\ Phase("GRANT") = 2 /\ Phase("PURCHASE") = 2 /\ Phase("CREATE") = 2
      /\ Phase("BALANCE_LOOKUP") = 2 /\ Phase("RETURN_FROM_DORMANCY") = 2
  BY DEF Phase
<1>5. pc \in Turns \ {"end"}
  BY InTurn
<1>6. pc # "turn" => who \in joined
  BY <1>5 DEF Place, Turns
<1>7. verdict = "OK"
  OBVIOUS
<1>8. CASE NotYet \/ NoGrant \/ StayAway \/ Awake \/ NoVisit
  BY <1>7, <1>8 DEF NotYet, NoGrant, StayAway, Awake, NoVisit, Quiet, Silent, oracle
<1>9. CASE Grant
  <2>1. PICK i \in GrantsToday(who) :
          Emit(who, "GRANT", FALSE, Midnight(plan[who].join) <= Noon(day) /\ Noon(day) <= When(FALSE)
                                    /\ Grants(who, Month(day))[i] > 0)
    BY <1>9, Zenon DEF Grant
  <2>2. who \in joined
    BY <1>9 DEF Grant
  <2>3. Timely(who, "GRANT", t) /\ Midnight(plan[who].join) <= Noon(day) /\ Noon(day) <= t
    BY <1>3, <1>4, <1>5, <2>2
  <2>4. Grants(who, Month(day))[i] > 0
    <3>1. who \in Students /\ Month(day) \in Months
      BY <1>5, MonthOf DEF Place, Turns, Months
    <3>2. i \in DOMAIN GrantDays(who, Month(day))
      BY Zenon DEF GrantsToday
    <3> QED BY <3>1, <3>2, GrantsAddUp DEF Place
  <2>5. verdict' = verdict
    BY <1>2, <2>1, <2>3, <2>4, Zenon DEF Emit
  <2> QED BY <1>7, <2>5
<1>10. CASE GrantRefused
  <2>1. Emit(who, "GRANT", FALSE, TRUE) /\ who \in joined
    BY <1>10, Zenon DEF GrantRefused
  <2>2. Timely(who, "GRANT", t)
    BY <1>3, <1>4, <1>5, <2>1
  <2>3. verdict' = verdict
    BY <1>2, <2>1, <2>2, Zenon DEF Emit
  <2> QED BY <1>7, <2>3
<1>11. CASE Purchase
  <2>1. Emit(who, "PURCHASE", FALSE, TRUE) \/ UNCHANGED verdict
    BY <1>11, Zenon DEF Purchase, Silent, oracle
  <2>2. Timely(who, "PURCHASE", t)
    BY <1>3, <1>4, <1>5, <1>6, <1>11 DEF Purchase
  <2>3. verdict' = verdict
    BY <1>2, <2>1, <2>2, Zenon DEF Emit
  <2> QED BY <1>7, <2>3
<1>12. CASE Create
  <2>1. Emit(who, "CREATE", FALSE, TRUE) \/ UNCHANGED verdict
    BY <1>12, Zenon DEF Create, Silent, oracle
  <2>2. Timely(who, "CREATE", t)
    BY <1>3, <1>4, <1>5, <1>6, <1>12 DEF Create
  <2>3. verdict' = verdict
    BY <1>2, <2>1, <2>2, Zenon DEF Emit
  <2> QED BY <1>7, <2>3
<1>13. CASE Observe \/ Visit
  <2>1. Emit(who, "BALANCE_LOOKUP", FALSE, TRUE) /\ pc # "turn"
    BY <1>13 DEF Observe, Visit
  <2>2. Timely(who, "BALANCE_LOOKUP", t)
    BY <1>3, <1>4, <1>5, <1>6, <2>1
  <2>3. verdict' = verdict
    BY <1>2, <2>1, <2>2, Zenon DEF Emit
  <2> QED BY <1>7, <2>3
<1>14. CASE Return
  <2>1. /\ Emit(who, "RETURN_FROM_DORMANCY", FALSE,
                  /\ latest[who] = Anchor
                  /\ Midnight(7) <= When(FALSE) - Anchor /\ When(FALSE) - Anchor <= Midnight(21))
        /\ pc = "dormancy" /\ Returning(who)
    BY <1>14, Zenon DEF Return
  <2>2. Timely(who, "RETURN_FROM_DORMANCY", t)
    BY <1>3, <1>4, <1>5, <1>6, <2>1
  <2>3. latest[who] = Anchor /\ Midnight(7) <= t - Anchor /\ t - Anchor <= Midnight(21)
    BY <1>1, <2>1, ReturnLawful
  <2>4. verdict' = verdict
    BY <1>2, <2>1, <2>2, <2>3, Zenon DEF Emit
  <2> QED BY <1>7, <2>4
<1> QED BY <1>8, <1>9, <1>10, <1>11, <1>12, <1>13, <1>14 DEF TurnStep

(* Midnights of the run are before its end, and those of a later day not   *)
(* before those of an earlier one.                                         *)
LEMMA Midnights ==
  ASSUME NEW d \in 0..101, NEW e \in 0..101, e <= d
  PROVE  /\ Midnight(d) \in Int /\ 0 <= Midnight(d) /\ Midnight(d) < Midnight(End)
         /\ Midnight(e) \in Int /\ Midnight(d) >= Midnight(e)
<1>1. DayLength \in Nat \ {0} /\ Midnight(d) \in Int /\ Midnight(e) \in Int /\ Midnight(End) \in Int
  BY Clockwork DEF End
<1>2. d < End /\ End \in Int /\ d \in Int /\ e \in Int
  BY DEF End
<1>3. Midnight(d) + DayLength <= Midnight(End)
  BY <1>2, LaterDay
<1>4. Midnight(0) = 0 /\ (0 < d => Midnight(0) + DayLength <= Midnight(d))
  <2>1. Midnight(0) = 0
    BY <1>1 DEF Midnight
  <2> QED BY <1>2, <2>1, LaterDay
<1>5. e < d => Midnight(e) + DayLength <= Midnight(d)
  BY <1>2, LaterDay
<1> QED BY <1>1, <1>2, <1>3, <1>4, <1>5

(* A closure comes in its order and once, and of a member or of a student  *)
(* who was refused a week ago or earlier.                                  *)
LEMMA CloseLawful ==
  ASSUME Place, Members, Clock, Closures, verdict = "OK", Close \/ CloseFailed
  PROVE  CalendarAccepted'
<1> DEFINE p == Candidate(who)
<1>1. pc = "close" /\ who \in 1..(2 * N) /\ Due(who)
  BY AtClosing
<1>2. /\ p.student \in Students /\ p.last = day /\ Turn(p) = who
      /\ p.kind = IF who <= N THEN "CLOSE_WEEK" ELSE "CLOSE_MONTH"
      /\ Phase(p.kind) = IF who <= N THEN 0 ELSE 1
  BY <1>1, CandidateIs
<1>3. day \in 1..101
  BY <1>1 DEF Due, Place, End
<1>4. p.first \in Int /\ p.first + 7 <= day /\ plan[p.student].join <= p.first
  <2>1. p.first = IF who <= N THEN day - 7 ELSE Starts[Month(day - 1)]
    BY <1>3 DEF Candidate, Period
  <2>2. ~(who <= N) => Starts[Month(day - 1)] \in Int /\ Starts[Month(day - 1)] + 7 <= day
    <3>1. ~(who <= N) => day = Starts[Month(day)]
      BY <1>1 DEF Due
    <3>2. day \in Nat /\ day - 1 \in Nat
      BY <1>3
    <3> QED BY <1>3, <3>1, <3>2, MonthOf, MonthStarts
  <2> QED BY <1>1, <1>3, <2>1, <2>2 DEF Due, Covers
<1>5. plan[p.student].join \in 0..101 /\ plan[p.student].join < day /\ plan[p.student].join + 7 <= day
  <2>1. plan[p.student].join \in 0..101
    BY <1>2, TraitsOf DEF Place
  <2> QED BY <1>3, <1>4, <2>1
<1>6. CASE p.student \in missed
  <2>1. p.student \in missed' /\ plan' = plan /\ day' = day
    BY <1>6, AtClosing
  <2> HIDE DEF p
  <2> QED BY <1>5, <2>1 DEF CalendarAccepted
<1>a. SUFFICES ASSUME p.student \in joined PROVE CalendarAccepted'
  <2>1. There(p.student)
    BY <1>5 DEF There
  <2>2. p.student \in joined \cup missed
    <3> HIDE DEF p
    <3> QED BY <1>1, <1>2, <2>1 DEF Members
  <2> QED BY <1>6, <2>2
<1>7. p \notin closed
  <2>1. p \in closed => Past(p)
    BY <1>1 DEF Closures
  <2> QED BY <1>1, <1>2, <1>3, <2>1 DEF Past
<1> HIDE DEF p
<1>8. Timely(p.student, p.kind, Midnight(day))
  <2>1. PICK j \in 0..101 : j = plan[p.student].join /\ j < day
    BY <1>5, Zenon
  <2>2. /\ 0 <= Midnight(day) /\ Midnight(day) < Midnight(End)
        /\ Midnight(day) >= Midnight(j)
    <3>1. day \in 0..101 /\ j <= day
      BY <1>3, <2>1
    <3> QED BY <3>1, Midnights, Zenon
  <2>3. Midnight(day) >= previous_time
    <3>1. PICK m \in Int : m = Midnight(day)
      BY <1>3, Clockwork
    <3>2. PICK t \in Int : t = previous_time /\ t <= Midnight(day)
      BY <1>1 DEF Clock
    <3>3. m >= t
      BY <3>1, <3>2
    <3> QED BY <3>1, <3>2, <3>3, Zenon
  <2>4. Midnight(day) = previous_time => Phase(p.kind) >= previous_phase
    <3>1. previous_phase \in Int /\ (Midnight(day) = previous_time => previous_phase <= IF who <= N THEN 0 ELSE 1)
      BY <1>1 DEF Clock
    <3> QED BY <1>2, <3>1
  <2>5. p.kind # "JOIN"
    BY <1>2
  <2>6. Midnight(day) >= Midnight(plan[p.student].join)
    BY <2>1, <2>2, Zenon
  <2> QED BY <1>a, <2>2, <2>3, <2>4, <2>5, <2>6, Zenon DEF Timely
<1>9. verdict' = verdict
  <2>1. When(TRUE) = Midnight(day)
    BY Zenon DEF When
  <2>2. \/ Emit(p.student, p.kind, TRUE, p.last = day /\ p \notin closed)
        \/ Emit(p.student, p.kind, TRUE, TRUE)
    BY Zenon DEF Close, CloseFailed, p
  <2> QED BY <1>2, <1>7, <1>8, <2>1, <2>2, Zenon DEF Emit
<1> QED BY <1>9 DEF CalendarAccepted

(* A student joins once, on the day of joining.                            *)
LEMMA JoinLawful ==
  ASSUME Place, Members, Clock, verdict = "OK", Join
  PROVE  verdict' = "OK"
<1>1. pc = "join" /\ who \in Students
  BY AtJoining
<1>2. CASE plan[who].join # day
  BY <1>2 DEF Join, Silent, oracle
<1>3. CASE plan[who].join = day
  <2>1. day \in 0..101
    BY <1>1 DEF Place, Turns, End
  <2>2. who \notin joined
    <3>1. who \in Int /\ ~(who < who)
      BY <1>1, Numbers
    <3> QED BY <1>1, <1>3, <2>1, <3>1 DEF Members, There, Turns
  <2>3. Timely(who, "JOIN", Midnight(day))
    <3>1. 0 <= Midnight(day) /\ Midnight(day) < Midnight(End) /\ Midnight(day) >= Midnight(day) /\ Midnight(day) \in Int
      BY <2>1, Midnights
    <3>2. Midnight(day) >= previous_time /\ 2 >= previous_phase
      BY <1>1, <3>1 DEF Clock
    <3> QED BY <1>3, <2>2, <3>1, <3>2 DEF Timely, Phase
  <2>4. When(TRUE) = Midnight(day)
    BY Zenon DEF When
  <2>5. Emit(who, "JOIN", TRUE, TRUE)
    BY <1>3, Zenon DEF Join
  <2>6. verdict' = verdict
    BY <2>3, <2>4, <2>5, Zenon DEF Emit
  <2> QED BY <2>6
<1> QED BY <1>2, <1>3

(* The oracle finds nothing, but for the closures of who was refused.      *)
LEMMA AcceptedKept ==
  Place /\ Members /\ Clock /\ Closures /\ Silence /\ CalendarAccepted /\ [Next]_vars => CalendarAccepted'
<1> SUFFICES ASSUME Place, Members, Clock, Closures, Silence, CalendarAccepted, [Next]_vars
             PROVE  CalendarAccepted'
  OBVIOUS
<1>1. CASE verdict = "OK"
  <2>1. CASE NothingDue \/ AllJoined \/ NextPerson \/ NextDay \/ Finished \/ UNCHANGED vars
    BY <1>1, <2>1, InSilence DEF CalendarAccepted
  <2>2. CASE TurnStep
    BY <1>1, <2>2, TurnLawful DEF CalendarAccepted
  <2>3. CASE Join
    BY <1>1, <2>3, JoinLawful DEF CalendarAccepted
  <2> QED BY <1>1, <2>1, <2>2, <2>3, CloseLawful, StepKinds
<1>2. CASE \E s \in missed : plan[s].join + 7 <= day
  <2>1. plan' = plan /\ missed \subseteq missed' /\ (day' = day \/ day' = day + 1) /\ day \in Int
    <3>1. CASE TurnStep
      BY <3>1, InTurn DEF Place
    <3>2. CASE Close \/ CloseFailed
      BY <3>2, AtClosing DEF Place
    <3>3. CASE Join
      BY <3>3, AtJoining DEF Place
    <3>4. CASE NothingDue \/ AllJoined \/ NextPerson \/ NextDay \/ Finished \/ UNCHANGED vars
      BY <3>4, InSilence DEF Place, Still, Skipped, ClosedAll, JoinedAll, Onward, Overnight
    <3> QED BY <3>1, <3>2, <3>3, <3>4, StepKinds
  <2>2. PICK s \in missed : plan[s].join + 7 <= day
    BY <1>2
  <2>3. plan[s].join \in Int
    BY <2>2, TraitsOf DEF Place
  <2> QED BY <2>1, <2>2, <2>3 DEF CalendarAccepted
<1> QED BY <1>1, <1>2 DEF CalendarAccepted

-----------------------------------------------------------------------------
(* On the first of June nothing has happened.                              *)
LEMMA InitRight == Init => CInv
<1> SUFFICES ASSUME Init PROVE CInv
  OBVIOUS
<1>1. Place
  <2>1. who \in Nat /\ who \in 1..(2 * N + 1) /\ day \in 0..End /\ day # End /\ refused \in Nat
    BY Numbers DEF Init, End
  <2>2. last_activity \in [Students -> Int] /\ latest = last_activity
    BY DEF Init, Never
  <2> QED BY <2>1, <2>2 DEF Init, Place, Turns
<1>2. Members
  <2>1. \A s \in Students : plan[s].join \in 0..101
    BY <1>1, TraitsOf DEF Place
  <2> QED BY <2>1 DEF Init, Members, There, Turns
<1>3. Clock
  <2>1. Midnight(0) = 0
    BY Clockwork DEF Midnight
  <2> QED BY <2>1, Numbers DEF Init, Clock, Sent, Turns
<1>4. Closures
  <2>1. \A p \in ExpectedPeriods : p.last \in 1..101
    BY <1>1, ExpectedIsDue
  <2> QED BY <2>1, SMTT(30) DEF Init, Closures, Past
<1>5. Silence
  BY DEF Init, Silence
<1>6. Allowances
  <2>1. earnings \in [Students \X Months -> Int]
    BY DEF Init
  <2>2. ASSUME NEW s \in Students, NEW m \in Months
        PROVE  earnings[<<s, m>>] = 0 /\ SumFunctionOnSet(Grants(s, m), Given(s, m)) = 0
    <3>1. \A i \in DOMAIN GrantDays(s, m) : Starts[m] + GrantDays(s, m)[i] \in Nat
      BY <1>1, Dates
    <3>2. \A n \in Nat : ~(n < day)
      BY DEF Init
    <3>3. ~Served(s)
      BY DEF Init, Served, Turns
    <3>4. Given(s, m) = {}
      BY <3>1, <3>2, <3>3 DEF Given
    <3>5. <<s, m>> \in Students \X Months
      OBVIOUS
    <3>6. earnings[<<s, m>>] = 0
      BY <3>5 DEF Init
    <3> QED BY <3>4, <3>6, SumOfNone
  <2> QED BY <2>1, <2>2 DEF Allowances
<1>7. CalendarAccepted
  BY DEF Init, CalendarAccepted
<1> QED BY <1>1, <1>2, <1>3, <1>4, <1>5, <1>6, <1>7 DEF CInv

(* The invariant holds throughout.                                         *)
THEOREM CalendarKept == Spec => []CInv
<1>1. CInv /\ [Next]_vars => CInv'
  BY PlaceKept, MembersKept, ClockKept, ClosuresKept, SilenceKept, AllowancesKept, AcceptedKept DEF CInv
<1> QED BY <1>1, InitRight, PTL DEF Spec

(* Whoever the students are and whatever traits are drawn for them, the    *)
(* oracle accepts every event of a run as run() of generate.py emits it:   *)
(* in time, of members only, no closure twice, and the way back from       *)
(* dormancy 7 to 21 days after the last activity.  All that can spoil it   *)
(* is the closure, a week later or more, of a student whose JOIN was       *)
(* refused.                                                                *)
THEOREM CalendarRight == Spec => []CalendarAccepted
<1>1. CInv => CalendarAccepted
  BY DEF CInv
<1> QED BY <1>1, CalendarKept, PTL

(* A dormant member's last activity is of 7 July  until the day of return, *)
(* as policy-coverage.md promises.                                         *)
THEOREM SilentBetween == Spec => []SilentSinceEve
<1>1. CInv => SilentSinceEve
  <2> SUFFICES ASSUME CInv, NEW s \in joined, Dormant(s), Eve < day, day < AwayUntil(s)
               PROVE  last_activity[s] \div DayLength = Eve
    BY DEF SilentSinceEve
  <2>0. s \in Students
    BY DEF CInv, Place
  <2>1. Noon(Eve) < last_activity[s] /\ last_activity[s] < Midnight(Eve + 1) /\ last_activity[s] \in Int
    BY <2>0 DEF CInv, Place, Silence, GoneQuiet, NotBack
  <2>2. /\ DayLength \in Nat \ {0} /\ Eve = 36 /\ Half \in Nat
        /\ Noon(Eve) = Midnight(Eve) + Half
    BY Clockwork DEF Eve
  <2>3. Midnight(Eve) = DayLength * Eve /\ Midnight(Eve + 1) = DayLength * Eve + DayLength
    BY <2>2 DEF Midnight
  <2>4. PICK a \in Int : a = last_activity[s]
    BY <2>1
  <2>5. DayLength * Eve \in Int /\ DayLength * Eve <= a /\ a < DayLength * Eve + DayLength /\ Eve \in Int
    BY <2>1, <2>2, <2>3, <2>4
  <2>6. a \div DayLength = Eve
    BY <2>2, <2>5, QuotientIs
  <2> QED BY <2>4, <2>6
<1> QED BY <1>1, CalendarKept, PTL

(* A run that reaches 11 September is whole: everyone has joined whose     *)
(* JOIN was not refused, exactly the periods expected_periods() of         *)
(* validate.py lists are closed, and unless the backend refused one, the   *)
(* allowances of a month a member was there for add up to the budget,      *)
(* whatever was lost in rounding.                                          *)
THEOREM RunsComplete == Spec => []Complete
<1>1. CInv => Complete
  <2> SUFFICES ASSUME CInv, pc = "done"
               PROVE  /\ joined = Students \ missed /\ closed = ExpectedPeriods
                      /\ refused = 0 => \A s \in joined, m \in 1..3 :
                           plan[s].join <= Starts[m] => earnings[<<s, m>>] = plan[s].budget[m]
    BY DEF Complete
  <2>1. Place /\ Members /\ Closures /\ Allowances /\ day = 102
    BY DEF CInv, Place, End
  <2>2. joined = Students \ missed
    <3>1. \A s \in Students : plan[s].join \in 0..101
      BY <2>1, TraitsOf DEF Place
    <3>2. \A s \in Students : There(s)
      BY <2>1, <3>1 DEF There, Place
    <3>3. joined \cup missed = {s \in Students : There(s)} /\ joined \cap missed = {}
      BY <2>1, Zenon DEF Members
    <3>4. joined \cup missed = Students
      BY <3>2, <3>3, Zenon
    <3> QED BY <3>3, <3>4
  <2>3. closed = ExpectedPeriods
    <3>1. \A p \in ExpectedPeriods : p.last \in 1..101
      BY <2>1, ExpectedIsDue
    <3>2. \A p \in ExpectedPeriods : Past(p)
      BY <2>1, <3>1 DEF Past
    <3> QED BY <2>1, <3>2 DEF Closures
  <2>4. ASSUME refused = 0, NEW s \in joined, NEW m \in 1..3, plan[s].join <= Starts[m]
        PROVE  earnings[<<s, m>>] = plan[s].budget[m]
    <3>1. m \in Months /\ Starts[m] <= 61 /\ Starts[m] \in Nat /\ s \in Students \ missed
      BY <2>2, MonthStarts
    <3>2. \A i \in DOMAIN GrantDays(s, m) : Starts[m] + GrantDays(s, m)[i] < day
      BY <2>1, <3>1, Dates, MonthLengths
    <3>3. Given(s, m) = DOMAIN GrantDays(s, m)
      BY <3>2 DEF Given
    <3>4. earnings[<<s, m>>] = SumFunctionOnSet(Grants(s, m), Given(s, m))
      BY <2>1, <2>4, <3>1 DEF Allowances
    <3>5. SumFunctionOnSet(Grants(s, m), DOMAIN GrantDays(s, m)) = plan[s].budget[m]
      BY <2>1, <3>1, GrantsAddUp DEF Place
    <3> QED BY <3>3, <3>4, <3>5
  <2> QED BY <2>2, <2>3, <2>4
<1> QED BY <1>1, CalendarKept, PTL
=============================================================================
