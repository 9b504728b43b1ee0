-------------------------- MODULE MCSavingsPolicy --------------------------
(***************************************************************************)
(* Two days, each a month: a student who joins on the first and has room   *)
(* for two goals, and the owner, who joins on the second and only starts   *)
(* one private goal.  Amounts are a few units so that goals fill up,       *)
(* purchases cut into saved money and every min() of the code is decided   *)
(* both ways.                                                              *)
(***************************************************************************)
EXTENDS SavingsPolicy

MCJoinDay      == <<0, 1>>
MCGoalCapacity == <<2, 1>>
=============================================================================
