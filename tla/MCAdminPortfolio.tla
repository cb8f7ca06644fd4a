---------------------------- MODULE MCAdminPortfolio ----------------------------
(* AdminPortfolio for TLC: two tickers, the whole in two hundredths, and a *)
(* payload that names a ticker twice.                                      *)
EXTENDS AdminPortfolio, TLC

CONSTANTS t1, t2, c1, c2

MCTicker == {t1, t2}
MCCall == {c1, c2}
Of(t, half) == [ticker |-> t, part |-> half]
MCTyped ==
  {<<Of(t1, 2), Of(t2, 4), Of(t1, 0)>>, <<Of(t1, 1), Of(t1, 1), Of(t2, 2)>>}
MCText == {"x"}
Symmetry == Permutations(MCCall)

=============================================================================
