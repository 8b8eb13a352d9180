---------------------------- MODULE SignalRules ----------------------------
(***************************************************************************)
(* From the evidence on a symbol to an approved signal: the rules of the   *)
(* confluence engine, the opportunity scanner, the decision engine and the *)
(* strategy evaluator (app/services), and the files their rebuilds write.  *)
(*                                                                         *)
(* Weighted sums (confluence totals, the opportunity and decision scores)  *)
(* are inputs; what is decided from them is modelled.  One rebuild of a    *)
(* collection is one step, the two writes of an evaluation are two:        *)
(* DerivedChain and TradingBooks model overlapping rebuilds.               *)
(***************************************************************************)
EXTENDS Integers, FiniteSets

CONSTANTS
  Symbols,
  Evidence,      \* Evidence[s]: what the analysis may find about s
  Reviews,       \* review ideas of a symbol: [direction, levels]
  Scores,        \* opportunity and decision scores
  Strategies,    \* what the strategies file may hold: sets of strategies
  MaxRebuilds    \* bound: rebuilds of the three collections

NoRate == -1      \* no win rate is known
Sides  == {"BUY", "SELL"}
Levels == {"entry", "stop_loss", "take_profit", "targets"}

ASSUME EvidenceAssumption ==
  \A s \in Symbols : \A e \in Evidence[s] :
    /\ {e.buy, e.sell, e.wait, e.conflict, e.quality, e.score, e.fresh} \subseteq 0..100
    /\ e.rate \in {NoRate} \cup (0..100)
    /\ e.available \in Nat /\ e.authors \in Nat
    /\ {e.timeframe, e.old, e.caveat} \subseteq BOOLEAN
ASSUME ReviewsAssumption ==
  Reviews \subseteq [direction : Sides, levels : SUBSET Levels] /\ Scores \subseteq 0..100
ASSUME RulesBound == MaxRebuilds \in Nat

VARIABLES
  rows,          \* confluence.json: a row for each symbol that has one
  opportunities, \* opportunities.json
  decisions,     \* decisions.json
  strategies,    \* strategies.json
  evaluations,   \* strategy_evaluations.json
  approved,      \* approved_signals.json
  due,           \* approvals an evaluation has yet to write: none, or one set of them
  rebuilds

rulesVars == <<rows, opportunities, decisions, strategies, evaluations, approved, due, rebuilds>>

-----------------------------------------------------------------------------
(* Confluence: direction, recommendation, warnings, the actionable flag.   *)

Direction(e) ==
  IF e.available < 2 \/ e.quality < 20 THEN "NO_DATA"
  ELSE IF e.conflict >= 55 /\ e.buy > 10 /\ e.sell > 0 THEN "MIXED"
  ELSE IF e.buy >= e.sell + 12 /\ e.quality >= 35 THEN "BUY"
  ELSE IF e.sell >= e.buy + 12 /\ e.quality >= 35 THEN "SELL"
  ELSE IF e.quality < 35 \/ (e.wait >= e.buy /\ e.wait >= e.sell) THEN "WAIT" ELSE "NEUTRAL"

Strong == [BUY |-> "STRONG_BUY", SELL |-> "STRONG_SELL"]
Directional == {"BUY", "SELL", "STRONG_BUY", "STRONG_SELL"}

Recommendation(d, score) ==
  IF d \in Sides /\ score >= 70 THEN IF score >= 85 THEN Strong[d] ELSE d
  ELSE IF d \in Sides \cup {"WAIT", "MIXED"} THEN "WAIT"
  ELSE IF d = "NEUTRAL" THEN "IGNORE" ELSE "NO_DATA"

\* A caveat is one of the others: few reviews, no outcomes, a stale factor.
Warnings(e) ==
  {w \in {"single_author_dependency"} : e.authors <= 1}
  \cup {w \in {"validation_unavailable"} : e.rate = NoRate}
  \cup {w \in {"high_timeframe_conflict"} : e.conflict >= 60}
  \cup {w \in {"caveat"} : e.caveat}

Confluence(e) ==
  LET d == Direction(e)  r == Recommendation(d, e.score)
  IN [evidence |-> e, direction |-> d, recommendation |-> r, warnings |-> Warnings(e),
      actionable |-> r \in Directional /\ e.score >= 70 /\ e.quality >= 35 /\ e.conflict < 60]

-----------------------------------------------------------------------------
(* Opportunity: blockers, the fullest review of the same direction, status *)

\* A win rate of zero reads as no win rate; one of 50 as no validation.
Validated(e) == e.rate \notin {NoRate, 0, 50}

Blockers(c) ==
  LET e == c.evidence IN
    {b \in {"no_direction"} : c.direction \notin Sides}
    \cup {b \in {"low_confluence"} : e.score < 70}
    \cup {b \in {"low_data_quality"} : e.quality < 40}
    \cup {b \in {"stale_data"} : e.fresh < 35 \/ e.old}
    \cup {b \in {"excessive_conflict"} : e.conflict > 45}

NoReview == [direction |-> "NO_DATA", levels |-> {}]

\* Mutant: a review of any direction lends its levels.
Fullest_AnySide(ideas, d) ==
  LET fullest == {i \in ideas : \A j \in ideas : Cardinality(j.levels) <= Cardinality(i.levels)}
  IN IF ideas = {} THEN {NoReview} ELSE fullest

Fullest(ideas, d) ==
  LET same == {i \in ideas : i.direction = d}
      fullest == {i \in same : \A j \in same : Cardinality(j.levels) <= Cardinality(i.levels)}
  IN IF same = {} THEN {NoReview} ELSE fullest

CriticalForStatus == {"excessive_conflict", "low_data_quality", "stale_data"}

Status(c, score, blockers) ==
  LET directional == c.direction \in Sides /\ c.recommendation \in Directional
      critical == blockers \cap CriticalForStatus # {}
  IN IF "stale_data" \in blockers /\ c.evidence.fresh < 15 THEN "EXPIRED"
     ELSE IF directional /\ c.actionable /\ score >= 70 /\ ~critical THEN "ACTIONABLE"
     ELSE IF directional /\ score >= 70 /\ critical THEN "BLOCKED"
     ELSE IF directional /\ score >= 50 THEN "WATCH"
     ELSE IF c.direction \notin Sides THEN "IGNORE" ELSE "NO_DATA"

Opportunity(c, review, score) ==
  [row |-> c, review |-> review, blockers |-> Blockers(c),
   status |-> Status(c, score, Blockers(c)),
   warnings |-> c.warnings
                \cup {f \in {"missing_entry_context"} : "entry" \notin review.levels}
                \cup {f \in {"missing_stop_loss"} : "stop_loss" \notin review.levels}
                \cup {f \in {"validation_unavailable"} : ~Validated(c.evidence)}]

-----------------------------------------------------------------------------
(* Decision: action, readiness, execution candidate.                       *)

Critical == CriticalForStatus \cup {"no_direction", "no_data", "upstream_error"}

MapAction(o) ==
  IF o.status = "ACTIONABLE" /\ o.row.recommendation \in Directional THEN o.row.recommendation
  ELSE IF o.status \in {"WATCH", "EXPIRED"} THEN "WAIT"
  ELSE IF o.status \in {"BLOCKED", "IGNORE"} THEN o.status ELSE "NO_DATA"

\* Mutant: a missing target is not looked at.
RiskComplete_NoTarget(o) ==
  /\ {"entry", "stop_loss"} \subseteq o.review.levels
  /\ o.row.evidence.timeframe
  /\ Validated(o.row.evidence)

RiskComplete(o) ==
  /\ {"entry", "stop_loss"} \subseteq o.review.levels
  /\ o.review.levels \cap {"take_profit", "targets"} # {}
  /\ o.row.evidence.timeframe
  /\ Validated(o.row.evidence)

Readiness(o, action, blockers, score) ==
  LET e == o.row.evidence IN
    IF blockers \cap Critical # {} \/ action = "BLOCKED" THEN "BLOCKED"
    ELSE IF action \in {"NO_DATA", "IGNORE"} THEN "NOT_READY"
    ELSE IF action = "WAIT" THEN "WATCH"
    ELSE IF score < 55 \/ e.quality < 40 \/ e.fresh < 35 \/ o.row.direction \notin Sides
      THEN "NOT_READY"
    ELSE IF e.conflict > 55 \/ ~RiskComplete(o) \/ o.warnings # {}
      THEN "READY_WITH_WARNINGS" ELSE "READY"

\* Mutant: every decision carries an execution candidate.
HasCandidate_Always(readiness) == TRUE
HasCandidate(readiness) == readiness \in {"READY", "READY_WITH_WARNINGS"}

Decision(o, score) ==
  LET action == MapAction(o)
      blockers == o.blockers \cup {b \in {"no_direction"} :
                    o.row.direction \notin Sides /\ action \notin {"NO_DATA", "IGNORE"}}
      readiness == Readiness(o, action, blockers, score)
  IN [opportunity |-> o, action |-> action, direction |-> o.row.direction, score |-> score,
      readiness |-> readiness, blockers |-> blockers, candidate |-> HasCandidate(readiness)]

-----------------------------------------------------------------------------
(* Strategy evaluation.                                                    *)

\* The value a rule compares; a missing validation score passes no comparison.
Value(d, field) ==
  CASE field = "decision_score"   -> d.score
    [] field = "conflict_score"   -> d.opportunity.row.evidence.conflict
    [] field = "validation_score" -> IF Validated(d.opportunity.row.evidence)
                                     THEN d.opportunity.row.evidence.rate ELSE NoRate
    [] field = "readiness"        -> d.readiness

Passes(rule, d) ==
  LET v == Value(d, rule.field) IN
    \/ ~rule.enabled
    \/ rule.operator = "EXISTS" /\ v # NoRate
    \/ rule.operator = "GTE" /\ v # NoRate /\ v >= rule.value
    \/ rule.operator = "LTE" /\ v # NoRate /\ v <= rule.value
    \/ rule.operator = "IN" /\ v \in rule.value

\* The outcomes of a group's parts, combined; an empty group holds.
Combine(combinator, outcomes) ==
  \/ outcomes = {}
  \/ combinator = "ALL" /\ FALSE \notin outcomes
  \/ combinator = "ANY" /\ TRUE \in outcomes
  \/ combinator = "NONE" /\ TRUE \notin outcomes

Holds(group, d) ==
  Combine(group.combinator,
    {Passes(r, d) : r \in group.rules}
    \cup {Combine(g.combinator, {Passes(r, d) : r \in g.rules}) : g \in group.groups})

Rules(group) == group.rules \cup UNION {g.rules : g \in group.groups}

\* Weights are at least one: a passed optional rule gives the whole score.
PassScore(st, d) ==
  IF Rules(st.group) = {} \/ \E r \in Rules(st.group) : r.enabled /\ ~r.required /\ Passes(r, d)
  THEN 100 ELSE 0

RiskPolicy(st, d) ==
  LET o == d.opportunity  p == st.policy IN
    /\ \/ d.readiness \in p.readiness
       \/ d.readiness = "WATCH" /\ p.watchAllowed
    /\ p.require \subseteq o.review.levels
    /\ o.row.evidence.conflict <= p.maxConflict

Active == {st \in strategies : st.enabled /\ st.status = "ACTIVE"}
Matches(st, s, d) ==
  /\ st.symbols = {} \/ s \in st.symbols
  /\ st.directions = {} \/ d.direction \in st.directions

\* The evaluator reads the decision id of the candidate, and iterates over the number
\* of warnings: a decision without a candidate raises, and one with warnings raises in
\* the risk policy of every strategy whose filters it passes.
Raises(s, d) ==
  \E st \in Active : ~d.candidate \/ (Matches(st, s, d) /\ d.opportunity.warnings # {})

Approval(st, s, d, aged) ==
  IF ~Matches(st, s, d) THEN "REJECTED"
  ELSE IF st.policy.maxAge /\ aged THEN "EXPIRED"
  ELSE IF st.mode = "OBSERVATION" /\ st.policy.watchAllowed THEN "WATCH_ONLY"
  ELSE IF \/ \E r \in Rules(st.group) : r.required /\ ~Passes(r, d)
          \/ ~Holds(st.group, d) \/ ~RiskPolicy(st, d) \/ PassScore(st, d) < st.minimum
    THEN "REJECTED"
  ELSE IF d.readiness = "READY_WITH_WARNINGS" THEN "APPROVED_WITH_WARNINGS" ELSE "APPROVED"

Approving == {"APPROVED", "APPROVED_WITH_WARNINGS"}
Evaluation(st, s, d, aged) ==
  [strategy |-> st, symbol |-> s, decision |-> d, status |-> Approval(st, s, d, aged)]

-----------------------------------------------------------------------------
Empty == [s \in {} |-> NoRate]

RulesInit ==
  /\ rows = Empty /\ opportunities = Empty /\ decisions = Empty
  /\ strategies \in Strategies
  /\ evaluations = {} /\ approved = {} /\ due = {}
  /\ rebuilds = 0

\* One more of the bounded number of rebuilds.
Rebuild == rebuilds < MaxRebuilds /\ rebuilds' = rebuilds + 1

\* ConfluenceEngine.rebuild: a symbol nobody speaks of, or that cannot be built, has no row.
RebuildConfluence ==
  /\ Rebuild
  /\ \E known \in SUBSET Symbols : \E e \in [known -> UNION {Evidence[s] : s \in known}] :
       /\ \A s \in known : e[s] \in Evidence[s]
       /\ rows' = [s \in known |-> Confluence(e[s])]
  /\ UNCHANGED <<opportunities, decisions, strategies, evaluations, approved, due>>

\* OpportunityEngine.rebuild, over the reviews of the catalog as they are now.
RebuildOpportunities ==
  /\ Rebuild
  /\ \E ideas \in SUBSET Reviews :
     \E pick \in [DOMAIN rows -> Reviews \cup {NoReview}] : \E score \in [DOMAIN rows -> Scores] :
       /\ \A s \in DOMAIN rows : pick[s] \in Fullest(ideas, rows[s].direction)
       /\ opportunities' = [s \in DOMAIN rows |-> Opportunity(rows[s], pick[s], score[s])]
  /\ UNCHANGED <<rows, decisions, strategies, evaluations, approved, due>>

\* DecisionEngine.rebuild; without opportunities one NO_DATA decision stands for all.
RebuildDecisions ==
  /\ Rebuild
  /\ \E score \in [DOMAIN opportunities -> Scores] :
       decisions' = [s \in DOMAIN opportunities |-> Decision(opportunities[s], score[s])]
  /\ UNCHANGED <<rows, opportunities, strategies, evaluations, approved, due>>

\* StrategyEngine.evaluate_all, up to its first write; nothing is saved when one
\* evaluation raises or the write fails.
EvaluateAll(aged) ==
  /\ due = {}
  /\ \A s \in DOMAIN decisions : ~Raises(s, decisions[s])
  /\ DOMAIN decisions # {} \/ Active = {}
  /\ evaluations' = {Evaluation(st, s, decisions[s], aged) : st \in Active, s \in DOMAIN decisions}
  /\ due' = {{v \in evaluations' : v.status \in Approving}}
  /\ UNCHANGED <<rows, opportunities, decisions, strategies, approved, rebuilds>>

\* Its second write, which may fail, or never come because the process died.
SaveApproved ==
  /\ due # {} /\ due' = {}
  /\ approved' \in due \cup {approved}
  /\ UNCHANGED <<rows, opportunities, decisions, strategies, evaluations, rebuilds>>

\* A strategy mutation endpoint.
MutateStrategies ==
  /\ strategies' \in Strategies
  /\ UNCHANGED <<rows, opportunities, decisions, evaluations, approved, due, rebuilds>>

RulesNext ==
  \/ RebuildConfluence \/ RebuildOpportunities \/ RebuildDecisions
  \/ \E aged \in BOOLEAN : EvaluateAll(aged)
  \/ SaveApproved \/ MutateStrategies
RulesSpec == RulesInit /\ [][RulesNext]_rulesVars

-----------------------------------------------------------------------------
(* Properties.                                                             *)

RulesTypeOK ==
  /\ DOMAIN rows \subseteq Symbols
  /\ \A s \in DOMAIN rows : rows[s] \in {Confluence(e) : e \in Evidence[s]}
  /\ DOMAIN opportunities \subseteq Symbols /\ DOMAIN decisions \subseteq Symbols
  /\ \A s \in DOMAIN decisions :
       /\ decisions[s].action \in Directional \cup {"WAIT", "BLOCKED", "IGNORE", "NO_DATA"}
       /\ decisions[s].readiness \in {"NOT_READY", "WATCH", "READY", "READY_WITH_WARNINGS", "BLOCKED"}
  /\ strategies \in Strategies
  /\ \A v \in approved : v.status \in Approving
  /\ due = {} \/ due = {{v \in evaluations : v.status \in Approving}}
  /\ rebuilds \in 0..MaxRebuilds

\* What is approved was worth trading all the way down, whatever the strategies allow:
\* the totals lead by the margin on the side that is traded, and the evidence is
\* neither contradictory, thin nor stale.  Readiness, status and the candidate each
\* test a part of it.
Worth(e, side) ==
  /\ e.score >= 70 /\ e.quality >= 40 /\ e.fresh >= 35 /\ ~e.old
  /\ e.conflict <= 45
  /\ side = "BUY" => e.buy >= e.sell + 12
  /\ side = "SELL" => e.sell >= e.buy + 12

ApprovedIsWorthTrading ==
  \A v \in approved :
    LET d == v.decision IN
      /\ d.direction \in Sides
      /\ d.action \in {d.direction, Strong[d.direction]}
      /\ Worth(d.opportunity.row.evidence, d.direction)

\* Entry, stop and target of an approved signal come from a review of its own
\* direction, even when a fuller review says the opposite.
LevelsOfItsSide ==
  \A v \in approved :
    v.decision.opportunity.review.levels # {} =>
      v.decision.opportunity.review.direction = v.decision.direction

\* A plain approval has its stop, its target, two authors and a win rate behind it and no caveat,
\* and no strategy's rules can lift it from a decision with warnings.
PlainApprovalComplete ==
  \A v \in approved : v.status = "APPROVED" =>
    LET o == v.decision.opportunity IN
      /\ {"entry", "stop_loss"} \subseteq o.review.levels
      /\ o.review.levels \cap {"take_profit", "targets"} # {}
      /\ o.row.evidence.authors >= 2
      /\ o.row.evidence.rate > 0 /\ ~o.row.evidence.caveat
=============================================================================
