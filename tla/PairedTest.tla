----------------------------- MODULE PairedTest -----------------------------
(***************************************************************************)
(* The paired comparison of two feature sets: compare_classification is an *)
(* exact McNemar test, compare_regression an exact signed-rank test.  Both *)
(* ask how many of the ways to flip the signs of the differences would     *)
(* have favoured B at least as much: a p value is a pair of numbers.       *)
(*                                                                         *)
(* A run is [date -> [truth, prediction]] over the dates its walk-forward  *)
(* covered; a dataset is [task -> run A and run B].                        *)
(***************************************************************************)
EXTENDS Integers, FiniteSetsExt

Undetermined == -1000   \* an outcome that is not known yet
Missing == -2000   \* a prediction that is not finite

Shared(a, b) == DOMAIN a \cap DOMAIN b
ScoredOn(a, b) == {t \in Shared(a, b) : a[t].truth # Undetermined}

\* The labels agree, some outcome is known, and whatever is known was predicted.
Scoreable(task, a, b) ==
  /\ \A t \in Shared(a, b) : a[t].truth = b[t].truth
  /\ ScoredOn(a, b) # {}
  /\ \A t \in ScoredOn(a, b) : Missing \notin {a[t].prediction, b[t].prediction}
  /\ task = "classification" =>
       \A t \in ScoredOn(a, b) : {a[t].truth, a[t].prediction, b[t].prediction} \subseteq {0, 1}

Total(S, weight) == FoldSet(LAMBDA t, sum : sum + weight[t], 0, S)

\* How many subsets weigh at most as much, of how many.
LowerTail(S, weight, most) == Cardinality({T \in SUBSET S : Total(T, weight) <= most})

Verdict(scored, unscored, discordant, favours, p) ==
  [n |-> scored, unscored |-> unscored, discordant |-> discordant, favours |-> favours,
   p |-> <<p, 2 ^ discordant>>]

Right(r, t) == r[t].prediction = r[t].truth

Classified(scored, unscored, a, b) ==
  LET bWins == {t \in scored : ~Right(a, t) /\ Right(b, t)}
      aWins == {t \in scored : Right(a, t) /\ ~Right(b, t)}
      discordant == aWins \cup bWins
      n == Cardinality(discordant)
      few == Min({Cardinality(aWins), Cardinality(bWins)})
      tail == LowerTail(discordant, [t \in discordant |-> 1], few)
      favours == Cardinality(bWins) > Cardinality(aWins)
      oneSided == IF n = 0 THEN 1
                  ELSE IF favours THEN tail
                  ELSE IF Cardinality(aWins) = Cardinality(bWins) THEN 2 ^ (n - 1)
                  ELSE 2 ^ n - tail
  IN Verdict(Cardinality(scored), unscored, n, favours, oneSided)

Squared(r, t) == (r[t].prediction - r[t].truth) * (r[t].prediction - r[t].truth)
Worse(a, b, t) == Squared(b, t) - Squared(a, t)
Size(d) == IF d < 0 THEN -d ELSE d

Regressed(scored, unscored, a, b) ==
  LET differing == {t \in scored : Worse(a, b, t) # 0}
      rank == [t \in differing |->
                 Cardinality({u \in differing : Size(Worse(a, b, u)) <= Size(Worse(a, b, t))})]
      positive == {t \in differing : Worse(a, b, t) > 0}
      favours == FoldSet(LAMBDA t, sum : sum + Worse(a, b, t), 0, scored) < 0
      oneSided == IF differing = {} THEN 1
                  ELSE LowerTail(differing, rank, Total(positive, rank))
  IN Verdict(Cardinality(scored), unscored, Cardinality(differing), favours, oneSided)

Paired(task, a, b) ==
  LET scored == ScoredOn(a, b)
      unscored == Cardinality(Shared(a, b) \ scored)
  IN IF task = "classification" THEN Classified(scored, unscored, a, b)
     ELSE Regressed(scored, unscored, a, b)

\* The screening bar: p below one tenth, one-sided.
Passes(result) == 10 * result.p[1] < result.p[2]
=============================================================================
