--------------------------- MODULE MCFeedRanking ---------------------------
(* Six cards of two categories, or two, or none, in two patterns of scores *)
(* and authors: falling, and tied in a request that is not in score order. *)
(* Up to four role models, and no, one or two recent completions.         *)
EXTENDS FeedRanking

Patterns == {
  [score |-> <<9, 8, 7, 6, 5, 4>>, position |-> <<1, 2, 3, 4, 5, 6>>, author |-> <<1, 2, 3, 4, 5, 6>>],
  [score |-> <<6, 6, 6, 5, 5, 2>>, position |-> <<2, 3, 5, 1, 4, 6>>, author |-> <<1, 1, 2, 2, 3, 1>>]}

Flags(n, most) == {f \in [1 .. n -> BOOLEAN] : Cardinality({i \in 1 .. n : f[i]}) <= most}
Fresh(n) == {f \in Flags(n, 2) : \A i, j \in 1 .. n :
  f[i] /\ f[j] /\ n > 2 => i > 2 /\ (i < j => i = 4 /\ j = 6)}
Categories(n) == {c \in [1 .. n -> {"food", "toys"}] : n > 0 => c[1] = "food"}

Of(n) ==
  {[i \in 1 .. n |-> [score |-> p.score[i], position |-> p.position[i],
                      author |-> p.author[i], category |-> c[i],
                      role |-> role[i], recent |-> recent[i]]] :
   p \in Patterns, c \in Categories(n), role \in Flags(n, 4), recent \in Fresh(n)}
MCRequests == Of(0) \union Of(2) \union Of(6)
============================================================================
