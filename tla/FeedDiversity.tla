--------------------------- MODULE FeedDiversity ---------------------------
(***************************************************************************)
(* The third stage of the batch recommendation (feed/diversity_rules.py,   *)
(* apply_diversity_and_rules()): a draft by MMR, a slot for a recent       *)
(* completion, spacing of the categories, role models into the top, and    *)
(* the cut to the final size.                                              *)
(***************************************************************************)
EXTENDS FeedRules

CONSTANTS
  MmrSize,       \* scored candidates MMR starts from (60, of the 40 there are)
  SlotPosition   \* cards before the forced slot (2)
ASSUME DiversityConstants == SlotPosition \in Nat /\ MmrSize \in Nat /\ FinalSize <= MmrSize

VARIABLES
  places,    \* remaining_positions of the top that role models may take
  snapshot   \* categories_snapshot, taken before the first promotion

batchVars == <<cards, stage, pool, result, queue, places, snapshot>>

CategoriesOf(s) == [i \in Places(s) |-> cards[s[i]].category]

MmrInput  == Min({Len(cards), MmrSize})

BatchInit ==
  /\ cards \in Requests
  /\ stage = "mmr" /\ result = <<>>
  /\ pool = [i \in 1 .. MmrInput |-> i]
  /\ queue = <<>> /\ places = {} /\ snapshot = <<>>

Drafting == pool # <<>> /\ Len(result) < FinalSize
(* The first of the best, in the order of the scores.                      *)
Foremost == IF result = <<>> THEN 1 ELSE
  FirstOf({i \in Places(pool) : \A j \in Places(pool) :
    Marginal(pool[i], Range(result)) >= Marginal(pool[j], Range(result))})
Draft ==
  /\ stage = "mmr" /\ Drafting
  /\ result' = Append(result, pool[Foremost]) /\ pool' = RemoveAt(pool, Foremost)
  /\ UNCHANGED <<cards, stage, queue, places, snapshot>>

(* The best recent completion takes a place near the front, and the last   *)
(* card of the draft goes.                                                 *)
ForceSlot ==
  /\ stage = "mmr" /\ ~Drafting
  /\ pool' = IF Recents = {} \/ Recents \intersect Range(result) # {} THEN result
             ELSE InsertAt(Front(result), Min({SlotPosition, Len(result) - 1}) + 1,
                           FirstOf(Recents))
  /\ stage' = "space" /\ result' = <<>> /\ UNCHANGED <<cards, queue, places, snapshot>>

Respace ==
  /\ stage = "space" /\ pool # <<>>
  /\ LET i == NextPlace(pool, result) IN
     result' = Append(result, pool[i]) /\ pool' = RemoveAt(pool, i)
  /\ UNCHANGED <<cards, stage, queue, places, snapshot>>

(* Role models to promote: those shown below the top first, then those not *)
(* shown at all, as many as the top lacks.                                 *)
Lacking    == RoleTarget - Cardinality(Leading(result))
Below      == LET low == InOrder({i \in Places(result) : i > TopWindow /\ IsRole(result[i])})
              IN  [k \in Places(low) |-> result[low[k]]]
Outside    == InOrder(Roles \ Range(result))
StartPromotion ==
  /\ stage = "space" /\ pool = <<>>
  /\ queue' = IF Lacking <= 0 THEN <<>>
              ELSE SubSeq(Below \o Outside, 1, Min({Lacking, Len(Below \o Outside)}))
  /\ places' = Follow(result) /\ snapshot' = CategoriesOf(result)
  /\ stage' = "promote" /\ UNCHANGED <<cards, pool, result>>

(* Would category g at place p make MaxRun of it in a row?                 *)
ViolatesSpacing(p, g) ==
  \E start \in p - MaxRun + 1 .. p :
    /\ start >= 1 /\ start + MaxRun - 1 <= Len(snapshot)
    /\ \A i \in start .. start + MaxRun - 1 : i # p => snapshot[i] = g
Lowest(S) == CHOOSE p \in S : \A q \in S :
  LET mine == cards[result[p]].score its == cards[result[q]].score IN
  mine < its \/ (mine = its /\ p <= q)
PlaceFor(c) ==
  LET safe == {p \in places : ~ViolatesSpacing(p, cards[c].category)} IN
  Lowest(IF safe = {} THEN places ELSE safe)

PromoteTwice ==   \* mutant of Promote: a role model moved up is left below as well
  /\ stage = "promote" /\ queue # <<>> /\ places # {}
  /\ LET c == Head(queue) p == PlaceFor(c) IN
     /\ result' = Append([result EXCEPT ![p] = c], result[p])
     /\ places' = places \ {p} /\ snapshot' = [snapshot EXCEPT ![p] = cards[c].category]
  /\ queue' = Tail(queue)
  /\ UNCHANGED <<cards, stage, pool>>

Without(c) ==
  IF c \in Range(result) THEN RemoveAt(result, Position(result, c)) ELSE result

(* The card displaced goes to the very end, behind the final size when the *)
(* role model was not in the list.                                         *)
Promote ==
  /\ stage = "promote" /\ queue # <<>> /\ places # {}
  /\ LET c == Head(queue) p == PlaceFor(c) IN
     /\ result' = Append([Without(c) EXCEPT ![p] = c], result[p])
     /\ places' = places \ {p} /\ snapshot' = [snapshot EXCEPT ![p] = cards[c].category]
  /\ queue' = Tail(queue)
  /\ UNCHANGED <<cards, stage, pool>>

Cut ==
  /\ stage = "promote" /\ (queue = <<>> \/ places = {})
  /\ result' = SubSeq(result, 1, Min({FinalSize, Len(result)}))
  /\ stage' = "done" /\ UNCHANGED <<cards, pool, queue, places, snapshot>>

BatchNext == Draft \/ ForceSlot \/ Respace \/ StartPromotion \/ Promote \/ Cut
BatchSpec == BatchInit /\ [][BatchNext]_batchVars

----------------------------------------------------------------------------
(* The final list is as long as it can be and shows nothing twice, though  *)
(* role models are moved up from inside it; the top has its role models or *)
(* all that were scored.                                                   *)
Composed == stage = "done" =>
  /\ Len(result) = Min({FinalSize, Len(cards)})
  /\ Cardinality(Range(result)) = Len(result)
  /\ Cardinality(Leading(result)) >= Min({RoleTarget, Cardinality(Roles), Len(result)})

(* As the module's docstring promises, a completion of the last 48 hours   *)
(* is in the final list if one was scored.                                 *)
RecentForced == stage = "done" /\ Recents # {} => Recents \intersect Range(result) # {}

(* As README 7 promises of the final list, no category comes more than     *)
(* twice in a row while another one follows.                               *)
CategoriesSpaced == stage = "done" => Spaced(result)
============================================================================
