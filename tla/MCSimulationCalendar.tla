----------------------- MODULE MCSimulationCalendar -----------------------
(* The real calendar for the owner, a student there from the first day and *)
(* one who joins later.  The first is tried with every dormancy and some   *)
(* visits, in the week of the eve too, the second on the days population() *)
(* names, on days next to a week's or a month's start, and on the last.    *)
(* Budgets differ by month, and irregular allowances fall on a 31st.       *)
EXTENDS SimulationCalendar

Weekly(days) == [w \in Weeks |-> days]

Traits(join, dormant, visits, cadence, budget) ==
  [join |-> join, dormant |-> dormant, visits |-> visits, cadence |-> cadence,
   budget |-> <<budget, budget - 1000, budget + 1000, budget>>,
   days |-> <<<<4, 16, 29>>, <<0, 12, 30>>, <<28, 29, 30>>, <<2, 9, 20>>>>,
   weights |-> <<<<4, 1, 2>>, <<1, 4, 1>>, <<3, 3, 1>>, <<1, 1, 1>>>>]

MCOwner == Traits(0, 0, Weekly({}), "MONTHLY", 29000)
MCEarly == {Traits(0, dormant, visits, "IRREGULAR", 11000) :
              dormant \in {0, 7, 14, 19},
              visits \in {Weekly({}), [Weekly({2}) EXCEPT ![5] = {1}], [Weekly(0..4) EXCEPT ![7] = {}]}}
MCLate  == {Traits(join, 0, Weekly({0, 2}), "WEEKLY", 11003) :
              join \in {30, 31, 35, 44, 61, 77, 84, 94, 101}}
MCPlans == {<<MCOwner, early, Traits(61, 0, Weekly({0, 2}), "WEEKLY", 11003)>> : early \in MCEarly}
           \cup {<<MCOwner, Traits(0, 14, Weekly({2}), "IRREGULAR", 11000), late>> : late \in MCLate}
===========================================================================
