------------------------- MODULE MCSignalValidation -------------------------
(* Values of the constants of SignalValidation for TLC.                     *)
EXTENDS SignalValidation

CONSTANTS v1, v2

TwoValidators == {v1, v2}

\* Published one after the other, with a period of two candles; prices 1..3.
BuyIdea(id, t) == [id |-> id, published |-> t, expires |-> t + 1, complete |-> TRUE,
                   side |-> "BUY", entry |-> 2, stop |-> 1, target |-> 3]
SellIdea(id, t) == [BuyIdea(id, t) EXCEPT !.side = "SELL", !.stop = 3, !.target = 1]
NoLevels(id, t) == [BuyIdea(id, t) EXCEPT !.complete = FALSE]

\* An idea is decided before, or after, one without levels; the provider of the
\* application has no parseable times.
TwoIdeas(first, second, stamped) == [catalog |-> <<second, first>>, stamped |-> stamped]
ThreeWorlds == {TwoIdeas(BuyIdea("a", 1), NoLevels("c", 2), FALSE),
                TwoIdeas(SellIdea("b", 1), NoLevels("c", 2), TRUE),
                TwoIdeas(NoLevels("c", 1), BuyIdea("a", 2), TRUE)}

\* The entry alone, all levels, and the upper level alone.
ThreeBars == {[high |-> 2, low |-> 2], [high |-> 3, low |-> 1], [high |-> 3, low |-> 3]}
AllFaults == {"raise", "crash"}
=============================================================================
