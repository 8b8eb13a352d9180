--------------------------- MODULE MCTradingBooks ---------------------------
(* Values of the constants of TradingBooks for TLC.                         *)
EXTENDS TradingBooks

\* Decision 3 raises; strategy b approves 1, where the opportunity has no target, and 2.
\* Ids join strategy and decision: two signals of one id need two rows of one id in
\* strategies.json, which no endpoint writes.
SomeBatches == {{1, 2}, {2, 3}}
SomeApprovals == {<<"a", 1>>, <<"b", 1>>, <<"b", 2>>}
SomeTradable == {<<"a", 1>>}
SomeIds == [s \in StrategyIds \X UNION SomeBatches |-> s]
=============================================================================
