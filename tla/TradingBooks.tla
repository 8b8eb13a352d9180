---------------------------- MODULE TradingBooks ----------------------------
(***************************************************************************)
(* The files of the trading side (data/*.json) and the operations that     *)
(* write them: strategies, evaluations and approved signals                *)
(* (app/services/strategy_builder), the four files of the paper account    *)
(* (paper_trading), the three of the portfolio (portfolio).                *)
(*                                                                         *)
(* An operation reads and computes, then writes its files one after the    *)
(* other, each atomically.  OPS endpoints run under one non-blocking lock  *)
(* per operation, so an operation never overlaps itself; different ones    *)
(* do overlap, and the scheduler's evaluation takes no lock.               *)
(***************************************************************************)
EXTENDS Integers, Sequences, FiniteSets, FiniteSetsExt, SequencesExt

CONSTANTS
  StrategyIds,
  Batches,      \* what the decision loader may return: sets of decisions
  Raising,      \* decisions no active strategy can evaluate (SignalRules!Raises)
  Approves,     \* <<strategy, decision>> pairs that are approved
  Tradable,     \* those whose signal validates and has a side, an entry, a stop, a target
  SignalId,     \* the id of each signal
  Outcomes,     \* what the candles may make of a position: profit, or Open
  HistoryMax,   \* entries of the portfolio history (1000 in the code)
  MaxOps,       \* bound: operations started
  MaxChanges,   \* bound: changes of the strategies or of the decisions
  MaxCrashes    \* bound: restarts of the process

Open  == 0      \* the position has not closed: no trade
START == 10     \* starting balance

ASSUME BooksAssumption ==
  /\ Outcomes \subseteq Int /\ HistoryMax \in Nat \ {0}
  /\ MaxOps \in Nat /\ MaxChanges \in Nat /\ MaxCrashes \in Nat

Group == [scheduler |-> "signals", strategy_rebuild |-> "signals",
          paper_rebuild |-> "paper", paper_reset |-> "paper",
          portfolio_rebuild |-> "portfolio", portfolio_reset |-> "portfolio"]
Ops == DOMAIN Group

VARIABLES
  active,     \* strategies.json: those enabled and ACTIVE
  decisions,  \* what the decision engine returns
  files,      \* the other files, by name
  op,         \* op[o]: where operation o is, and what it holds
  started, changes, crashes,
  \* history, for the properties
  alone,      \* alone[o]: no operation that writes o's files, or what o reads, met o
  stained,    \* groups of files that operations that met, or a crash, wrote last
  age         \* age[g]: changes of the strategies the files of g know of

vars == <<active, decisions, files, op, started, changes, crashes, alone, stained, age>>

Idle == [at |-> "idle"]
Running(o) == op[o].at # "idle"
Sum(trades) == MapThenSumSet(LAMBDA s : trades[s], DOMAIN trades)

NoTrades == [s \in {} |-> 0]
EmptyAccount == [balance |-> START, realized |-> 0]

Init ==
  /\ active = StrategyIds
  /\ decisions \in Batches
  /\ files = [evaluations |-> {}, approved |-> {},
              account |-> START, positions |-> {}, trades |-> NoTrades, statistics |-> 0,
              portfolio |-> EmptyAccount, portfolio_statistics |-> EmptyAccount, history |-> <<>>]
  /\ op = [o \in Ops |-> Idle]
  /\ started = 0 /\ changes = 0 /\ crashes = 0
  /\ alone = [o \in Ops |-> FALSE]
  /\ stained = {}
  /\ age = [signals |-> -1, paper |-> -1]

-----------------------------------------------------------------------------
(* Starting and ending an operation.                                       *)

\* Whether o and p write the same files, or one reads what the other writes.
Meet(o, p) ==
  \/ Group[o] = Group[p]
  \/ {Group[o], Group[p]} = {"paper", "portfolio"}

\* _run_locked_ops answers 409 to an operation that is running.
Begin(o, state) ==
  /\ ~Running(o)
  /\ started < MaxOps
  /\ started' = started + 1
  /\ op' = [op EXCEPT ![o] = state]
  /\ alone' = [p \in Ops |->
                IF p = o THEN \A q \in Ops \ {o} : Meet(o, q) => ~Running(q)
                ELSE alone[p] /\ ~(Running(p) /\ Meet(o, p))]
  /\ UNCHANGED <<active, decisions, files, changes, crashes, stained, age>>

Writes(list, known) == [at |-> "write", left |-> list, age |-> known]
W(file, value) == [file |-> file, value |-> value]

\* One file is replaced; with the last one the operation returns.
Write(o) ==
  /\ op[o].at = "write"
  /\ LET w == Head(op[o].left)  last == Len(op[o].left) = 1 IN
       /\ files' = [files EXCEPT ![w.file] = w.value]
       /\ op' = [op EXCEPT ![o] = IF last THEN Idle ELSE Writes(Tail(op[o].left), op[o].age)]
       /\ stained' = IF ~last THEN stained
                     ELSE IF alone[o] /\ (Group[o] = "portfolio" => "paper" \notin stained)
                       THEN stained \ {Group[o]} ELSE stained \cup {Group[o]}
       /\ age' = IF last /\ Group[o] \in DOMAIN age
                 THEN [age EXCEPT ![Group[o]] = op[o].age] ELSE age
       /\ alone' = IF last THEN [alone EXCEPT ![o] = FALSE] ELSE alone
  /\ UNCHANGED <<active, decisions, started, changes, crashes>>

\* Nobody is writing the group, and the last to write it was alone and lived.
Settled(group) == group \notin stained /\ \A o \in Ops : Group[o] = group => ~Running(o)

-----------------------------------------------------------------------------
(* StrategyEngine.evaluate_all, from the scheduler or from an endpoint.    *)

StartEvaluation(o) ==
  /\ o \in {"scheduler", "strategy_rebuild"}
  /\ Begin(o, [at |-> "evaluate", todo |-> decisions, found |-> {}, age |-> changes])

\* active_strategies reads the file again for every decision.
ActiveStrategies == active

EvaluateOne(o) ==
  /\ op[o].at = "evaluate" /\ op[o].todo # {}
  /\ \E d \in op[o].todo :
       op' = [op EXCEPT ![o] =
               IF d \in Raising /\ ActiveStrategies # {} THEN Idle
               ELSE [at |-> "evaluate", todo |-> op[o].todo \ {d},
                     found |-> op[o].found \cup {<<st, d>> : st \in ActiveStrategies}, age |-> op[o].age]]
  /\ UNCHANGED <<active, decisions, files, started, changes, crashes, alone, stained, age>>

\* Mutant: the approved signals are added to the ones in the file.
SaveEvaluations_Merges(o) ==
  /\ op[o].at = "evaluate" /\ op[o].todo = {}
  /\ op' = [op EXCEPT ![o] =
             Writes(<<W("evaluations", op[o].found),
                      W("approved", files.approved \cup (op[o].found \cap Approves))>>, op[o].age)]
  /\ UNCHANGED <<active, decisions, files, started, changes, crashes, alone, stained, age>>

SaveEvaluations(o) ==
  /\ op[o].at = "evaluate" /\ op[o].todo = {}
  /\ op' = [op EXCEPT ![o] = Writes(<<W("evaluations", op[o].found),
                                      W("approved", op[o].found \cap Approves)>>, op[o].age)]
  /\ UNCHANGED <<active, decisions, files, started, changes, crashes, alone, stained, age>>

-----------------------------------------------------------------------------
(* PaperTradingEngine.rebuild and reset.                                   *)

\* Mutant: the account carries its balance over.
Opening_Carried == files.account
\* Every rebuild starts from a new PaperAccount.
Opening == START

\* What becomes positions: of the signals of one id the first in the file, if it can be
\* traded; a later one of that id is not looked at.
OnePerId(signals) ==
  {first \in SUBSET signals :
     \A s \in signals : \E f \in first : \A g \in first : SignalId[g] = SignalId[s] <=> g = f}
Taken(signals) == {first \cap Tradable : first \in OnePerId(signals)}

\* The approved signals are read once; the candles then decide each position.
PaperRebuild ==
  \E taken \in Taken(files.approved) : \E outcome \in [taken -> Outcomes] :
    LET trades == [s \in {t \in taken : outcome[t] # Open} |-> outcome[s]]
    IN Begin("paper_rebuild",
         Writes(<<W("account", Opening + Sum(trades)), W("positions", taken),
                  W("trades", trades), W("statistics", Sum(trades))>>,
                IF Settled("signals") THEN age.signals ELSE -1))

\* Mutant: the trades stay.
PaperReset_KeepsTrades ==
  Begin("paper_reset", Writes(<<W("account", START), W("positions", {}), W("statistics", 0)>>, -1))

PaperReset ==
  Begin("paper_reset",
    Writes(<<W("account", START), W("positions", {}), W("trades", NoTrades), W("statistics", 0)>>, -1))

-----------------------------------------------------------------------------
(* PortfolioEngine.rebuild and reset.                                      *)

\* Mutant: the history starts again with every rebuild.
PortfolioRebuild_Anew ==
  Begin("portfolio_rebuild", [at |-> "account", history |-> <<>>])

PortfolioRebuild ==
  Begin("portfolio_rebuild", [at |-> "account", history |-> files.history])

ReadAccount ==
  LET me == op["portfolio_rebuild"] IN
  /\ me.at = "account"
  /\ op' = [op EXCEPT !["portfolio_rebuild"] =
             [at |-> "trades", history |-> me.history, balance |-> files.account]]
  /\ UNCHANGED <<active, decisions, files, started, changes, crashes, alone, stained, age>>

Kept(history) ==
  SubSeq(history, IF Len(history) > HistoryMax THEN Len(history) - HistoryMax + 1 ELSE 1, Len(history))

\* The positions are read in between; they enter neither balance nor realized profit.
ReadTrades ==
  LET me == op["portfolio_rebuild"]
      summary == [balance |-> me.balance, realized |-> Sum(files.trades)]
  IN /\ me.at = "trades"
     /\ op' = [op EXCEPT !["portfolio_rebuild"] =
                Writes(<<W("portfolio", summary), W("portfolio_statistics", summary),
                         W("history", Kept(Append(me.history, summary)))>>, 0)]
     /\ UNCHANGED <<active, decisions, files, started, changes, crashes, alone, stained, age>>

PortfolioReset ==
  Begin("portfolio_reset",
    Writes(<<W("portfolio", EmptyAccount), W("portfolio_statistics", EmptyAccount),
             W("history", <<>>)>>, 0))

-----------------------------------------------------------------------------
(* Surroundings.                                                           *)

\* activate and pause, under the lock of the strategy mutations: one file, one writer.
MutateStrategy ==
  /\ changes < MaxChanges
  /\ changes' = changes + 1
  /\ \E s \in StrategyIds : active' = IF s \in active THEN active \ {s} ELSE active \cup {s}
  /\ UNCHANGED <<decisions, files, op, started, crashes, alone, stained, age>>

\* The decision engine has rebuilt.
NewDecisions ==
  /\ changes < MaxChanges
  /\ changes' = changes + 1
  /\ decisions' \in Batches \ {decisions}
  /\ UNCHANGED <<active, files, op, started, crashes, alone, stained, age>>

\* The process dies and starts again: files stay, operations and their locks are gone.
Crash ==
  /\ crashes < MaxCrashes
  /\ crashes' = crashes + 1
  /\ op' = [o \in Ops |-> Idle]
  /\ stained' = stained \cup {Group[o] : o \in {p \in Ops : op[p].at = "write"}}
  /\ alone' = [o \in Ops |-> FALSE]
  /\ UNCHANGED <<active, decisions, files, started, changes, age>>

Next ==
  \/ \E o \in Ops : StartEvaluation(o) \/ EvaluateOne(o) \/ SaveEvaluations(o) \/ Write(o)
  \/ PaperRebuild \/ PaperReset
  \/ PortfolioRebuild \/ ReadAccount \/ ReadTrades \/ PortfolioReset
  \/ MutateStrategy \/ NewDecisions \/ Crash
Spec == Init /\ [][Next]_vars

-----------------------------------------------------------------------------
(* Properties.                                                             *)

Signals  == StrategyIds \X UNION Batches
Trades   == UNION {[D -> Outcomes] : D \in SUBSET Signals}
Profits  == {Sum(t) : t \in Trades}
Balances == {START + p : p \in Profits}
Accounts == [balance : Balances, realized : Profits]
Histories == {h \in Seq(Accounts) : Len(h) <= HistoryMax}

Books == [evaluations : SUBSET Signals, approved : SUBSET Signals,
          account : Balances, positions : SUBSET Signals, trades : Trades, statistics : Profits,
          portfolio : Accounts, portfolio_statistics : Accounts, history : Histories]

FilesOf == [signals   |-> {"evaluations", "approved"},
            paper     |-> {"account", "positions", "trades", "statistics"},
            portfolio |-> {"portfolio", "portfolio_statistics", "history"}]

Entries ==
  [file : {"evaluations", "approved", "positions"}, value : SUBSET Signals] \cup
  [file : {"account"}, value : Balances] \cup [file : {"trades"}, value : Trades] \cup
  [file : {"statistics"}, value : Profits] \cup
  [file : {"portfolio", "portfolio_statistics"}, value : Accounts] \cup
  [file : {"history"}, value : Histories]

Ages == -1..changes
Evaluating == [at : {"evaluate"}, todo : SUBSET UNION Batches, found : SUBSET Signals, age : Ages]
Reading == [at : {"account"}, history : Histories] \cup
           [at : {"trades"}, history : Histories, balance : Balances]
Writing == [at : {"write"}, left : Seq(Entries) \ {<<>>}, age : Ages]

TypeOK ==
  /\ active \subseteq StrategyIds
  /\ decisions \in Batches
  /\ files \in Books
  /\ op \in [Ops -> {Idle} \cup Evaluating \cup Reading \cup Writing]
  /\ \A o \in Ops :
       /\ op[o] \in Evaluating => Group[o] = "signals"
       /\ op[o] \in Reading => o = "portfolio_rebuild"
       /\ op[o] \in Writing => \A i \in 1..Len(op[o].left) : op[o].left[i].file \in FilesOf[Group[o]]
  /\ started \in 0..MaxOps /\ changes \in 0..MaxChanges /\ crashes \in 0..MaxCrashes
  /\ alone \in [Ops -> BOOLEAN]
  /\ stained \subseteq {"signals", "paper", "portfolio"}
  /\ age \in [signals : Ages, paper : Ages]

\* Once an undisturbed evaluation has run after the last change, the approved signals
\* are exactly what the active strategies approve of the current decisions: a paused
\* strategy is out of the file, and after an undisturbed paper rebuild out of the
\* account, whose positions are those approvals that can be traded, one of each id.
\* Crashes and operations that met before are forgotten.
FreshIsExact ==
  LET exact == Approves \cap (active \X decisions) IN
    /\ Settled("signals") /\ age.signals = changes => files.approved = exact
    /\ Settled("paper") /\ age.paper = changes => files.positions \in Taken(exact)

\* The four files of the account agree: the balance is the starting balance and the
\* booked trades, the statistics count the same, and no trade is without a position.
AccountAdds ==
  Settled("paper") =>
    /\ files.account = START + Sum(files.trades)
    /\ files.statistics = Sum(files.trades)
    /\ DOMAIN files.trades \subseteq files.positions

\* The portfolio is a picture of one account: balance and realized profit come from
\* the same paper rebuild, and its history ends with what it shows.
PortfolioOfOneAccount ==
  Settled("portfolio") =>
    /\ files.portfolio = files.portfolio_statistics
    /\ files.portfolio.balance = START + files.portfolio.realized
    /\ files.history # <<>> => Last(files.history) = files.portfolio

\* The equity history is read at the start of a rebuild and written at its end.  The
\* lock of the operation keeps what is in the file: a write adds one entry and drops
\* at most the oldest, and that only when the history is full, or it is a reset.
HistoryKept ==
  [][files'.history # files.history =>
       \/ files.history = <<>> \/ files'.history = <<>>
       \/ LET kept == IF Len(files.history) = HistoryMax THEN Tail(files.history) ELSE files.history
          IN files'.history = Append(kept, Last(files'.history))]_vars
=============================================================================
