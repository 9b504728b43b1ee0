----------------------------- MODULE CommandLog -----------------------------
(***************************************************************************)
(* What the simulation may take for granted about its backend: commands    *)
(* are carried out in the order they were decided, each at most once, and  *)
(* none is decided before the answer to the one before it is known.        *)
(* SavingsPolicy treats a command and its answer as one step on the        *)
(* strength of this.                                                       *)
(***************************************************************************)
EXTENDS Naturals

VARIABLES
  decided,   \* commands put down, so far
  executed,  \* commands carried out by the backend
  known      \* commands whose answer has been acted upon

vars == <<decided, executed, known>>

Init == decided = 0 /\ executed = 0 /\ known = 0

Decide  == known = decided /\ decided' = decided + 1 /\ UNCHANGED <<executed, known>>
Execute == executed < decided /\ executed' = executed + 1 /\ UNCHANGED <<decided, known>>
Learn   == known < executed /\ known' = known + 1 /\ UNCHANGED <<decided, executed>>

Next == Decide \/ Execute \/ Learn

Spec == Init /\ [][Next]_vars

=============================================================================
