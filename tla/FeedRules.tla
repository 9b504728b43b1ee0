----------------------------- MODULE FeedRules -----------------------------
(***************************************************************************)
(* What the two compositions of a feed share: feed/ranking.py behind the   *)
(* service and feed/diversity_rules.py in the batch.  A card is known by   *)
(* its place in the list of candidates sorted by falling score, and is     *)
(*   [score, position, category, author, role, recent]                     *)
(* with the score in tenths, its place in the request, whether it is the   *)
(* completed wish of a role model (BULLDOZER or STEADY) and whether it was *)
(* completed in the last 48 hours.                                         *)
(***************************************************************************)
EXTENDS Integers, Sequences, SequencesExt, FiniteSets

CONSTANTS
  Requests,      \* the lists of scored candidates that may arrive
  FinalSize,     \* cards in the answer (20 in the code)
  TopWindow,     \* how far a role model counts as leading (10)
  RoleTarget,    \* role models wanted there (2)
  MaxRun         \* cards of one category in a row (2)

Card == [score : Int, position : Nat, category : STRING, author : Int,
         role : BOOLEAN, recent : BOOLEAN]
Sorted(r) == \A i, j \in DOMAIN r : i < j =>
  \/ r[i].score > r[j].score
  \/ r[i].score = r[j].score /\ r[i].position < r[j].position

ASSUME FeedConstants ==
  /\ {FinalSize, TopWindow, RoleTarget, MaxRun} \subseteq Nat \ {0}
  /\ RoleTarget < TopWindow /\ TopWindow <= FinalSize
  /\ \A r \in Requests : r \in Seq(Card) /\ Sorted(r)

VARIABLES
  cards,         \* the request being answered
  stage,         \* which loop or rule runs
  pool,          \* what is still to choose from
  queue,         \* what the running loop has still to treat
  result         \* the list so far

Places(s)  == DOMAIN s
Top(s)     == {i \in Places(s) : i <= TopWindow}
IsRole(c)  == cards[c].role
Recents    == {c \in DOMAIN cards : cards[c].recent}
Roles      == {c \in DOMAIN cards : IsRole(c)}
Leading(s) == {i \in Top(s) : IsRole(s[i])}
Follow(s)  == {i \in Top(s) : ~IsRole(s[i])}

(* How much two cards say the same, and what is left of a card's score     *)
(* beside those already chosen, both in hundredths.                        *)
Redundancy(c, d) ==
  CASE cards[c].category = cards[d].category -> 10
    [] cards[c].author = cards[d].author /\ cards[c].category # cards[d].category -> 8
    [] OTHER -> 0
Marginal(c, chosen) ==
  7 * cards[c].score - 3 * Max({Redundancy(c, d) : d \in chosen})

Swapped(s, i, j) == [s EXCEPT ![i] = s[j], ![j] = s[i]]
Position(s, c)   == CHOOSE i \in Places(s) : s[i] = c
FirstOf(S)       == CHOOSE i \in S : \A j \in S : i <= j
InOrder(S)       == [i \in 1 .. Cardinality(S) |->
                       CHOOSE c \in S : Cardinality({d \in S : d < c}) = i - 1]

(* The category that may not come next.                                    *)
Blocked(s) ==
  {g \in {cards[c].category : c \in DOMAIN cards} :
     /\ Len(s) >= MaxRun
     /\ \A i \in Len(s) - MaxRun + 1 .. Len(s) : cards[s[i]].category = g}
(* Where the next card of a waiting list is taken from.                    *)
Allowed(waiting, s) == {i \in Places(waiting) : cards[waiting[i]].category \notin Blocked(s)}
RunTooLong(waiting, s) ==   \* mutant of NextPlace: Len(s) > 2 for Len(s) >= 2
  IF Len(s) <= MaxRun \/ Allowed(waiting, s) = {} THEN 1 ELSE FirstOf(Allowed(waiting, s))
NextPlace(waiting, s) ==
  IF Allowed(waiting, s) = {} THEN 1 ELSE FirstOf(Allowed(waiting, s))

(* No category comes more than MaxRun times in a row unless nothing else   *)
(* was left to show.                                                       *)
Spaced(s) == \A i \in Places(s) : cards[s[i]].category \in Blocked(SubSeq(s, 1, i - 1))
  => \A j \in Places(s) : j >= i => cards[s[j]].category = cards[s[i]].category
============================================================================
