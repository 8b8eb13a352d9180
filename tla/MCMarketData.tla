---------------------------- MODULE MCMarketData ----------------------------
(* Push calls, fetch calls and cache keys are interchangeable. *)
EXTENDS MarketData, TLC

Symmetry == Permutations(Pushers) \cup Permutations(Fetchers) \cup Permutations(Keys)

(* One bar; two in either order; one no candle; and one too many, the last *)
(* of them the newest.                                                     *)
SomeSent == {<<2>>, <<1, 2>>, <<2, 1>>, <<None, 1>>, <<1, 1, 2>>, <<None>>}
=============================================================================
