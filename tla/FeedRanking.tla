---------------------------- MODULE FeedRanking ----------------------------
(***************************************************************************)
(* The composition of a feed by the feed service (feed/ranking.py, rank()).*)
(* The candidates arrive scored and sorted.  Each loop of rank() and of    *)
(* its helpers is one action per turn, so that what a later stage undoes   *)
(* of an earlier one is seen.                                              *)
(***************************************************************************)
EXTENDS FeedRules

CONSTANT PoolSize        \* candidates the composition starts from (40)
ASSUME PoolConstant == PoolSize \in Nat /\ FinalSize <= PoolSize

VARIABLE tail   \* the one in the last place of the pool, a set here: pool[-1]

vars == <<cards, stage, pool, tail, queue, result>>

(* available_roles: the role models in the order of the list.              *)
RoleCards == InOrder(Roles)
Recent    == FirstOf(Recents)
Protected == (IF Recents = {} THEN <<>> ELSE <<Recent>>) \o RoleCards
EveryRole == Min({Cardinality(Roles), Len(result)})   \* mutant of Target: unbounded
Target    == Min({RoleTarget, Cardinality(Roles), Len(result), TopWindow})
Enough    == Cardinality(Leading(result)) >= Target
Shown(c)  == c \in Range(result)

Intermediate == Min({Len(cards), PoolSize})

Init ==
  /\ cards \in Requests
  /\ pool = 1 .. Intermediate /\ tail = Intermediate
  /\ queue = Protected /\ result = <<>>
  /\ stage = IF cards = <<>> THEN "done" ELSE "protect"

Goto(next, rest) == stage' = next /\ queue' = rest

(* A guaranteed card outside the pool takes its last place, over another   *)
(* guaranteed card if that is what is there.                               *)
Protect ==
  /\ stage = "protect" /\ queue # <<>>
  /\ queue' = Tail(queue)
  /\ IF Head(queue) \in pool THEN UNCHANGED <<pool, tail>>
     ELSE pool' = (pool \ {tail}) \union {Head(queue)} /\ tail' = Head(queue)
  /\ UNCHANGED <<cards, stage, result>>

StartMmr ==
  /\ stage = "protect" /\ queue = <<>>
  /\ Goto("mmr", <<>>) /\ UNCHANGED <<cards, pool, tail, result>>

Wanted == Len(result) < Min({FinalSize, Len(cards)}) /\ pool # {}
Best(c) ==
  IF result = <<>> THEN \A d \in pool : c <= d
  ELSE \A d \in pool \ {c} :
    LET mine == Marginal(c, Range(result)) its == Marginal(d, Range(result)) IN
    \/ mine > its
    \/ mine = its /\ cards[c].position < cards[d].position
Pick ==
  /\ stage = "mmr" /\ Wanted
  /\ \E c \in pool : Best(c) /\ result' = Append(result, c) /\ pool' = pool \ {c}
  /\ UNCHANGED <<cards, stage, tail, queue>>

(* The place given up: among the first `window`, one without a role model  *)
(* if there is one, and there the lowest score, the later in the request.  *)
Weakest(window) ==
  LET places == {i \in Places(result) : i <= window}
      free   == {i \in places : ~IsRole(result[i])}
      among  == IF free = {} THEN places ELSE free
  IN  CHOOSE i \in among : \A j \in among :
        \/ cards[result[i]].score < cards[result[j]].score
        \/ /\ cards[result[i]].score = cards[result[j]].score
           /\ cards[result[i]].position >= cards[result[j]].position
ReplaceWeakest(c, window) == [result EXCEPT ![Weakest(window)] = c]

(* MMR is over: a recent completion is put in if none was chosen.          *)
GuaranteeRecent ==
  /\ stage = "mmr" /\ ~Wanted
  /\ result' = IF Recents # {} /\ Recents \intersect Range(result) = {}
               THEN ReplaceWeakest(Recent, Len(result)) ELSE result
  /\ Goto("promote", RoleCards) /\ UNCHANGED <<cards, pool, tail>>

Lead(c) ==
  IF Follow(result) = {} THEN result
  ELSE Swapped(result, Position(result, c), FirstOf(Follow(result)))

PromoteRole ==
  /\ stage = "promote" /\ queue # <<>> /\ ~Enough
  /\ result' = IF Shown(Head(queue)) THEN Lead(Head(queue))
               ELSE ReplaceWeakest(Head(queue), TopWindow)
  /\ queue' = Tail(queue)
  /\ UNCHANGED <<cards, stage, pool, tail>>

StartSpacing ==
  /\ stage = "promote" /\ (queue = <<>> \/ Enough)
  /\ result' = <<>> /\ Goto("space", result) /\ UNCHANGED <<cards, pool, tail>>

Place ==
  /\ stage = "space" /\ queue # <<>>
  /\ LET i == NextPlace(queue, result) IN
     result' = Append(result, queue[i]) /\ queue' = RemoveAt(queue, i)
  /\ UNCHANGED <<cards, stage, pool, tail>>

SpaceLast ==   \* mutant of EndSpacing: nothing is restored after it
  /\ stage = "space" /\ queue = <<>>
  /\ Goto("restore", <<>>) /\ UNCHANGED <<cards, pool, tail, result>>

EndSpacing ==
  /\ stage = "space" /\ queue = <<>>
  /\ Goto("restore", RoleCards) /\ UNCHANGED <<cards, pool, tail, result>>

(* A role model the spacing pushed out of the top goes back.  next() has   *)
(* no default here: without a place to give up the request would fail.     *)
RestoreRole ==
  /\ stage = "restore" /\ queue # <<>> /\ ~Enough
  /\ IF Shown(Head(queue)) /\ Position(result, Head(queue)) > TopWindow
     THEN Follow(result) # {} /\ result' = Lead(Head(queue))
     ELSE UNCHANGED result
  /\ queue' = Tail(queue)
  /\ UNCHANGED <<cards, stage, pool, tail>>

Answer ==
  /\ stage = "restore" /\ (queue = <<>> \/ Enough)
  /\ result' = IF Recents = {} \/ Shown(Recent) THEN result
               ELSE ReplaceWeakest(Recent, Len(result))
  /\ Goto("done", <<>>) /\ UNCHANGED <<cards, pool, tail>>

Next ==
  \/ Protect \/ StartMmr \/ Pick \/ GuaranteeRecent \/ PromoteRole
  \/ StartSpacing \/ Place \/ EndSpacing \/ RestoreRole \/ Answer

Spec == Init /\ [][Next]_vars /\ WF_vars(Next)

----------------------------------------------------------------------------
(* Whatever later stages overwrite, swap and move: the answer has as many  *)
(* cards as there is room for or as were offered, none twice; if a card of *)
(* the request was completed in the last 48 hours, the best such is shown; *)
(* and the top has its role models or all there are.                       *)
Whole       == /\ Len(result) = Min({FinalSize, Len(cards)})
               /\ Cardinality(Range(result)) = Len(result)
RecentShown == Recents # {} => Shown(Recent)
RolesLead   == Cardinality(Leading(result)) >= Min({RoleTarget, Cardinality(Roles), Len(result)})
Guaranteed  == stage = "done" => Whole /\ RecentShown /\ RolesLead

(* Before the guarantees take precedence, the spacing breaks its rule only *)
(* when nothing else is left, whatever order it was given.                 *)
SpacedOut == (stage = "restore" /\ Len(queue) = Len(RoleCards)) => Spaced(result)

(* Every request is answered: the loops end and the one next() without a   *)
(* default always finds a place.                                           *)
Answered == <>(stage = "done")
============================================================================
