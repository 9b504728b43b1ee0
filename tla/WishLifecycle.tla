--------------------------- MODULE WishLifecycle ---------------------------
(***************************************************************************)
(* What the simulation contract promises about one saving goal (a "wish"), *)
(* whoever runs the commands: money sits in a wish only while the wish is  *)
(* open, never above its target; a wish ends once, completed with its      *)
(* whole target saved or abandoned, pays out all it holds, never opens     *)
(* again, and only an ended wish is removed.                               *)
(* synthetic_data/validate.py (verify_events) recomputes exactly this from *)
(* the recorded commands.                                                  *)
(***************************************************************************)
EXTENDS Integers

CONSTANTS
  Wishes,      \* identities of saving goals
  TargetLimit  \* a natural number: no target is larger

VARIABLES
  life,    \* life[w]: absent, open, completed, abandoned or removed
  saved,   \* saved[w]: money allocated to w
  goal     \* goal[w]: the target amount of w

vars == <<life, saved, goal>>

Init ==
  /\ life  = [w \in Wishes |-> "absent"]
  /\ saved = [w \in Wishes |-> 0]
  /\ goal  = [w \in Wishes |-> 0]

(* A new wish starts empty, with a positive target. *)
Open(w) ==
  /\ life[w] = "absent"
  /\ \E t \in 1..TargetLimit : goal' = [goal EXCEPT ![w] = t]
  /\ life' = [life EXCEPT ![w] = "open"]
  /\ UNCHANGED saved

(* A deposit or a withdrawal moves the amount of one open wish. *)
Adjust(w) ==
  /\ life[w] = "open"
  /\ \E a \in 0..goal[w] : saved' = [saved EXCEPT ![w] = a]
  /\ UNCHANGED <<life, goal>>

(* A transfer moves money between two open wishes and keeps their sum. *)
Exchange(v, w) ==
  /\ v # w
  /\ life[v] = "open" /\ life[w] = "open"
  /\ \E a \in 1..saved[v] :
       /\ saved[w] + a <= goal[w]
       /\ saved' = [saved EXCEPT ![v] = saved[v] - a, ![w] = saved[w] + a]
  /\ UNCHANGED <<life, goal>>

(* The student confirms a wish that holds its whole target, and is paid. *)
Complete(w) ==
  /\ life[w] = "open"
  /\ saved[w] = goal[w]
  /\ life'  = [life  EXCEPT ![w] = "completed"]
  /\ saved' = [saved EXCEPT ![w] = 0]
  /\ UNCHANGED goal

(* The student gives a wish up and gets its money back. *)
Abandon(w) ==
  /\ life[w] = "open"
  /\ life'  = [life  EXCEPT ![w] = "abandoned"]
  /\ saved' = [saved EXCEPT ![w] = 0]
  /\ UNCHANGED goal

Remove(w) ==
  /\ life[w] \in {"completed", "abandoned"}
  /\ life' = [life EXCEPT ![w] = "removed"]
  /\ UNCHANGED <<saved, goal>>

Next ==
  \/ \E w \in Wishes : Open(w) \/ Adjust(w) \/ Complete(w) \/ Abandon(w) \/ Remove(w)
  \/ \E v, w \in Wishes : Exchange(v, w)

Spec == Init /\ [][Next]_vars

=============================================================================
