------------------------------ MODULE MCRecap ------------------------------
(* Two students of one academy, aged 10 and 11, with a representative each *)
(* and a second wish that the first may open.  Months begin on days 31, 59 *)
(* and 90; days 58 and 60 are of one week and of two months.  Day 100      *)
(* leaves rows of each kind outside the windows: with Lookback 10 the      *)
(* streak is read from day 21, visits from day 59.                         *)
EXTENDS Recap

MCMonthStart == <<0, 31, 59, 90, 120>>
MCDays       == <<58, 60, 92, 100>>
Account(i, age) == [id |-> i, academy |-> "x", age |-> age, closed |-> Never]
MCAccounts   == {Account("a", 10), Account("b", 11)}
Wish(i, a, rep, saved, target) ==
  [id |-> i, account |-> a, target |-> target, due |-> 100, created |-> 15, closed |-> Never,
   deleted |-> Never, status |-> "IN_PROGRESS", representative |-> rep, saved |-> saved]
MCFirst      == {Wish(1, "a", TRUE, 2, 3), Wish(2, "b", TRUE, 3, 7)}
MCLater      == {Wish(3, "a", FALSE, 0, 3)}
Saving(i, a, n, day) == [id |-> i, root |-> i, account |-> a, wish |-> i,
                         event |-> "WISH_DEPOSIT", delta |-> n, day |-> day]
MCHistory    == {Saving(1, "a", 2, 44), Saving(2, "b", 3, 20)}
MCThresholds ==
  [bulldozer_saves |-> 2, bulldozer_days |-> 4, steady_average |-> 2, steady_saves |-> 1,
   sprint_saves |-> 2, abandons |-> 1, transfers |-> 1, visits |-> 1]
=============================================================================
