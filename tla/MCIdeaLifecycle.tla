-------------------------- MODULE MCIdeaLifecycle --------------------------
(* Values of the constants of IdeaLifecycle for TLC.                        *)
EXTENDS IdeaLifecycle, TLC

CONSTANTS r1, r2, eur

TwoRequests == {r1, r2}
OneSymbol   == {eur}

\* Prices 1..3; a BUY from 1 to 3 and a SELL from 3 to 1, so that 2 hits nothing.
Buy  == [action |-> "BUY", sl |-> 1, tp |-> 3]
Sell == [action |-> "SELL", sl |-> 3, tp |-> 1]
BothSides == {Buy, Sell}
AllPrices == 1..3

CrashFault == {"crash"}
Symmetry   == Permutations(TwoRequests)
=============================================================================
