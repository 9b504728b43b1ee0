-------------------------- MODULE MCFeedDiversity --------------------------
(* Six scored cards of two categories, or two, or none, with the scores    *)
(* falling or tied; up to three role models and one recent completion.     *)
EXTENDS FeedDiversity

Patterns == {
  [score |-> <<9, 8, 7, 6, 5, 4>>, author |-> <<1, 2, 3, 4, 5, 6>>],
  [score |-> <<6, 6, 6, 5, 5, 2>>, author |-> <<1, 1, 2, 2, 3, 1>>]}

Flags(n, most) == {f \in [1 .. n -> BOOLEAN] : Cardinality({i \in 1 .. n : f[i]}) <= most}
Categories(n)  == {c \in [1 .. n -> {"food", "toys"}] : n > 0 => c[1] = "food"}

Of(n) ==
  {[i \in 1 .. n |-> [score |-> p.score[i], position |-> i, author |-> p.author[i],
                      category |-> c[i], role |-> role[i], recent |-> recent[i]]] :
   p \in Patterns, c \in Categories(n), role \in Flags(n, 3), recent \in Flags(n, 1)}
MCRequests == Of(0) \union Of(2) \union Of(6)
============================================================================
