--------------------------- MODULE MCSignalRules ---------------------------
(* Values of the constants of SignalRules for TLC.                          *)
EXTENDS SignalRules

\* Evidence at the thresholds: a clean buy and a clean sell, and copies of them that
\* miss one condition each.
Buy == [buy |-> 40, sell |-> 0, wait |-> 0, conflict |-> 20, quality |-> 60, score |-> 90,
        fresh |-> 80, old |-> FALSE, caveat |-> FALSE, authors |-> 2, rate |-> 60,
        available |-> 4, timeframe |-> TRUE]
Sell == [Buy EXCEPT !.buy = 10, !.sell = 22, !.score = 70, !.conflict = 45, !.quality = 40, !.fresh = 35]
SomeEvidence == [s1 |-> {Buy, Sell,
  [Buy EXCEPT !.conflict = 46], [Buy EXCEPT !.conflict = 60, !.sell = 5], [Buy EXCEPT !.sell = 29],
  [Buy EXCEPT !.fresh = 34], [Buy EXCEPT !.fresh = 10], [Buy EXCEPT !.old = TRUE],
  [Buy EXCEPT !.caveat = TRUE], [Buy EXCEPT !.authors = 1], [Buy EXCEPT !.rate = 0],
  [Buy EXCEPT !.timeframe = FALSE], [Buy EXCEPT !.score = 69], [Buy EXCEPT !.quality = 39],
  [Buy EXCEPT !.available = 1]}, s2 |-> {Sell}]

Full(d) == [direction |-> d, levels |-> Levels]
SomeReviews == {Full("BUY"), [direction |-> "SELL", levels |-> {"entry", "stop_loss", "targets"}],
                [direction |-> "BUY", levels |-> {"entry", "stop_loss"}]}

Rule(field, operator, value, required) ==
  [field |-> field, operator |-> operator, value |-> value, required |-> required, enabled |-> TRUE]
Flat(combinator, rules) == [combinator |-> combinator, rules |-> rules, groups |-> {}]
Policy(readiness, require, conflict, watch) ==
  [readiness |-> readiness, require |-> require, maxConflict |-> conflict,
   watchAllowed |-> watch, maxAge |-> FALSE]
Template(id, mode, group, policy) ==
  [id |-> id, enabled |-> TRUE, status |-> "ACTIVE", mode |-> mode, symbols |-> {},
   directions |-> {}, group |-> group, minimum |-> 0, policy |-> policy]

\* The three templates the application ships with, and a strategy whose owner allows
\* WATCH decisions, under a NONE group with a nested one and a disabled rule.
Conservative == Template("conservative", "SIGNAL_ONLY",
  Flat("ALL", {Rule("readiness", "IN", {"READY"}, TRUE), Rule("decision_score", "GTE", 80, TRUE),
               Rule("conflict_score", "LTE", 25, TRUE), Rule("validation_score", "EXISTS", 0, FALSE)}),
  Policy({"READY"}, {"stop_loss", "targets"}, 25, FALSE))
Balanced == Template("balanced", "SIGNAL_ONLY",
  Flat("ALL", {Rule("readiness", "IN", {"READY", "READY_WITH_WARNINGS"}, TRUE),
               Rule("decision_score", "GTE", 70, TRUE), Rule("conflict_score", "LTE", 40, TRUE)}),
  Policy({"READY", "READY_WITH_WARNINGS"}, {"stop_loss"}, 40, FALSE))
Observation == Template("observation", "OBSERVATION",
  Flat("ANY", {Rule("readiness", "IN", {"WATCH", "READY"}, TRUE)}), Policy({"WATCH", "READY"}, {}, 100, TRUE))
Permissive == [Template("permissive", "SIGNAL_ONLY",
  [combinator |-> "ALL", rules |-> {},
   groups |-> {Flat("NONE", {Rule("validation_score", "LTE", 40, FALSE)}),
               Flat("ALL", {[Rule("decision_score", "GTE", 99, TRUE) EXCEPT !.enabled = FALSE]})}],
  [Policy({"READY", "WATCH", "NOT_READY", "BLOCKED", "READY_WITH_WARNINGS"}, {}, 100, TRUE) EXCEPT !.maxAge = TRUE])
    EXCEPT !.symbols = {"s1"}]
SomeStrategies == {{Conservative, Balanced, Observation}, {Permissive, [Balanced EXCEPT !.status = "PAUSED"]}}
=============================================================================
