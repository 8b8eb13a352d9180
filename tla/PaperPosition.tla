--------------------------- MODULE PaperPosition ---------------------------
(***************************************************************************)
(* One virtual position of the paper trading engine                        *)
(* (app/services/paper_trading): _position_from_signal creates it from an  *)
(* approved signal, PositionManager.update walks it over the loaded        *)
(* candles, and rebuild expires it if it never opened.                     *)
(*                                                                         *)
(* The candle loader of the application stamps candles with integer epoch  *)
(* seconds, which dt() cannot parse: the time of a candle is the time of   *)
(* the rebuild, so the period filter lets every candle through and the     *)
(* signal is past its expiry for all candles, for none, or from some       *)
(* candle on.  Profit is counted for one unit, in halves of a price step;  *)
(* the fraction still open in halves of the position.                      *)
(***************************************************************************)
EXTENDS Integers, Sequences, SequencesExt

CONSTANTS
  Signals,    \* approved signals: [side, entry, stop, target, targets]
  Candles,    \* candles: [high, low, close]
  MaxCandles  \* bound: candles in one load (500 in the code)

NoTrade == [pnl |-> 0, outcome |-> "none"]
Prices  == Nat
Signal  == [side : {"BUY", "SELL"}, entry : Prices, stop : Prices,
            target : Prices, targets : Seq(Prices)]
ASSUME SignalsAssumption == Signals \subseteq Signal
ASSUME CandlesAssumption ==
  /\ Candles \subseteq [high : Prices, low : Prices, close : Prices]
  /\ \A c \in Candles : c.low <= c.close /\ c.close <= c.high
  /\ MaxCandles \in Nat

VARIABLES
  signal,     \* the approved signal
  state,
  stop,       \* stop_loss, moved to the entry by a partial take profit
  remaining,  \* remaining_fraction, in halves
  filled,     \* filled_targets
  realized,   \* realized_pnl
  floating,   \* floating_pnl
  trade,      \* the PaperTrade update returned
  running,    \* update has not returned
  late,       \* the clock is past expires_at
  seen        \* the candles walked over

position == <<state, stop, remaining, filled, realized, floating, trade>>
positionVars == <<signal, position, running, late, seen>>

PositionTypeOK ==
  /\ signal \in Signals
  /\ state \in {"PENDING", "OPEN", "BREAKEVEN", "CLOSED", "STOPPED", "EXPIRED"}
  /\ stop \in Prices
  /\ remaining \in 0..2
  /\ filled \subseteq Prices
  /\ realized \in Int
  /\ floating \in Int
  /\ trade \in [pnl : Int, outcome : {"none", "SL", "TP"}]
  /\ running \in BOOLEAN
  /\ late \in BOOLEAN
  /\ seen \in Seq(Candles)

-----------------------------------------------------------------------------
\* Gain of one unit from the entry to a price, in the position's direction.
Gain(price) == IF signal.side = "BUY" THEN price - signal.entry ELSE signal.entry - price

\* A level in the direction of profit, and one against it, is inside the candle.
Toward(c, level) == IF signal.side = "BUY" THEN c.high >= level ELSE c.low <= level
Against(c, level) == IF signal.side = "BUY" THEN c.low <= level ELSE c.high >= level

\* take_profit is put in front of the targets when it is not one of them.
Targets ==
  IF \E k \in DOMAIN signal.targets : signal.targets[k] = signal.target
  THEN signal.targets ELSE <<signal.target>> \o signal.targets

PositionInit ==
  /\ signal \in Signals
  /\ state = "PENDING"
  /\ stop = signal.stop
  /\ remaining = 2
  /\ filled = {}
  /\ realized = 0
  /\ floating = 0
  /\ trade = NoTrade
  /\ running = TRUE
  /\ late \in BOOLEAN
  /\ seen = <<>>

\* Mutant: the stop stays where it was after a partial take profit.
Fill_KeepsStop(p, level) ==
  LET part == IF p.remaining = 2 THEN 1 ELSE p.remaining
  IN [p EXCEPT !.remaining = @ - part, !.filled = @ \cup {level},
               !.realized = @ + Gain(level) * part,
               !.state = IF p.remaining = part THEN "CLOSED" ELSE "BREAKEVEN"]

\* A target is hit: half of the position is closed, then the rest.
Fill(p, level) ==
  LET part == IF p.remaining = 2 THEN 1 ELSE p.remaining
      left == p.remaining - part
  IN [remaining |-> left, filled |-> p.filled \cup {level},
      realized |-> p.realized + Gain(level) * part,
      stop |-> IF left > 0 THEN signal.entry ELSE p.stop,
      state |-> IF left > 0 THEN "BREAKEVEN" ELSE "CLOSED"]

\* Targets are taken in list order, and only if there are several.
FillTargets(c, p) ==
  FoldLeft(LAMBDA q, level : IF level \in q.filled \/ ~Toward(c, level) THEN q ELSE Fill(q, level),
           p, IF Len(Targets) > 1 THEN Targets ELSE <<>>)

\* Mutant: the target is looked at before the stop.
StopHit_TargetFirst(c, p) ==
  Against(c, p.stop) /\ ~(Len(Targets) = 1 /\ Toward(c, signal.target))

StopHit(c, p) == Against(c, p.stop)
TargetHit(c) == Len(Targets) <= 1 /\ Toward(c, signal.target)

\* One candle for a position that is not PENDING: targets, then stop, then the single
\* target.  Closing returns the trade; EXPIRED positions get here as well.
Trade(c) ==
  LET p == FillTargets(c, [remaining |-> remaining, filled |-> filled, realized |-> realized,
                           stop |-> stop, state |-> IF state = "PENDING" THEN "OPEN" ELSE state])
      exit == IF StopHit(c, p) THEN p.stop ELSE signal.target
      pnl == p.realized + Gain(exit) * p.remaining
      last == IF StopHit(c, p) /\ exit # signal.entry THEN "STOPPED" ELSE "CLOSED"
  IN IF StopHit(c, p) \/ TargetHit(c)
     THEN /\ state' = last
          /\ remaining' = 0
          /\ realized' = pnl
          /\ floating' = 0
          /\ trade' = [pnl |-> pnl, outcome |-> IF last = "STOPPED" THEN "SL" ELSE "TP"]
          /\ running' = FALSE
          /\ stop' = p.stop
          /\ filled' = p.filled
     ELSE /\ state' = p.state
          /\ remaining' = p.remaining
          /\ realized' = p.realized
          /\ floating' = Gain(c.close) * remaining
          /\ stop' = p.stop
          /\ filled' = p.filled
          /\ UNCHANGED <<trade, running>>

Advance(c) ==
  /\ running
  /\ Len(seen) < MaxCandles
  /\ seen' = Append(seen, c)
  /\ late' \in {late, TRUE}
  /\ UNCHANGED signal

\* The signal is past its expiry and the position has not opened.
Expire(c) ==
  /\ Advance(c)
  /\ state = "PENDING" /\ late
  /\ state' = "EXPIRED"
  /\ UNCHANGED <<stop, remaining, filled, realized, floating, trade, running>>

\* The entry is not inside the candle.
StayPending(c) ==
  /\ Advance(c)
  /\ state = "PENDING" /\ ~late
  /\ ~Against(c, signal.entry)
  /\ UNCHANGED <<position, running>>

\* The entry is inside the candle; the rest of the candle already counts.
Enter(c) ==
  /\ Advance(c)
  /\ state = "PENDING" /\ ~late
  /\ Against(c, signal.entry)
  /\ Trade(c)

Manage(c) ==
  /\ Advance(c)
  /\ state # "PENDING"
  /\ Trade(c)

\* The candles are over; rebuild expires what never opened.
Finish ==
  /\ running
  /\ running' = FALSE
  /\ state' = IF state = "PENDING" THEN "EXPIRED" ELSE state
  /\ UNCHANGED <<signal, stop, remaining, filled, realized, floating, trade, late, seen>>

PositionNext == (\E c \in Candles : Expire(c) \/ StayPending(c) \/ Enter(c) \/ Manage(c)) \/ Finish
PositionSpec == PositionInit /\ [][PositionNext]_positionVars

-----------------------------------------------------------------------------
(* Properties.                                                             *)

\* Levels on the sides where a trader puts them; no code checks that they are.
WellPlaced ==
  /\ Gain(signal.stop) < 0
  /\ \A k \in DOMAIN Targets : Gain(Targets[k]) > 0
AtRisk == - 2 * Gain(signal.stop)

\* Stop before target in the candle that holds both, and the stop moved to the
\* entry by a partial take profit: a sound signal loses its risk or nothing, and
\* once a target was taken the position cannot end in a loss.
LossBounded ==
  WellPlaced =>
    /\ realized \in {- AtRisk} \cup Nat
    /\ filled # {} => realized > 0

\* A single-target signal ends as the first candle from its entry on says that holds
\* its stop or its target, the stop first when it holds both, and is booked at that
\* level: whatever the order in which entry, stop and target are tested per candle.
Reference ==
  LET touched(k, level) == Against(seen[k], level)
      entered == {k \in DOMAIN seen : touched(k, signal.entry)}
      ended == {k \in DOMAIN seen :
                  /\ \E e \in entered : e <= k
                  /\ touched(k, signal.stop) \/ Toward(seen[k], signal.target)}
      first == CHOOSE k \in ended : \A m \in ended : k <= m
  IN CASE entered = {} -> [state |-> IF running THEN "PENDING" ELSE "EXPIRED", realized |-> 0]
       [] entered # {} /\ ended = {} -> [state |-> "OPEN", realized |-> 0]
       [] ended # {} /\ touched(first, signal.stop) ->
            [state |-> "STOPPED", realized |-> 2 * Gain(signal.stop)]
       [] OTHER -> [state |-> "CLOSED", realized |-> 2 * Gain(signal.target)]

MatchesReference ==
  WellPlaced /\ Len(Targets) = 1 /\ ~late =>
    /\ [state |-> state, realized |-> realized] = Reference
    /\ trade # NoTrade <=> state \in {"STOPPED", "CLOSED"}
    /\ trade # NoTrade => trade.pnl = realized
=============================================================================
