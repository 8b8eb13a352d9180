-------------------------- MODULE MCPaperPosition --------------------------
(* Values of the constants of PaperPosition for TLC.                        *)
EXTENDS PaperPosition

\* Prices 1..5.  Entry in the middle; a target on either side of a further one, in
\* both list orders, an equal pair, three targets, and levels on the wrong side.
Buy(targets)  == [side |-> "BUY", entry |-> 2, stop |-> 1, target |-> 3, targets |-> targets]
Sell(targets) == [side |-> "SELL", entry |-> 4, stop |-> 5, target |-> 3, targets |-> targets]
Lists == {<<>>, <<3>>, <<4>>, <<4, 3>>, <<3, 4, 5>>}
ListsDown == {<<>>, <<3>>, <<2>>, <<2, 3>>, <<3, 2, 1>>}
Wrong == [side |-> "BUY", entry |-> 3, stop |-> 4, target |-> 2, targets |-> <<2, 5>>]
ManySignals == {Buy(t) : t \in Lists} \cup {Sell(t) : t \in ListsDown} \cup {Wrong}

AllCandles == {c \in [high : 1..5, low : 1..5, close : 1..5] :
                 c.low <= c.close /\ c.close <= c.high /\ c.close \in {c.low, c.high}}
=============================================================================
