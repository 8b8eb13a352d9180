------------------------- MODULE TradingBooksProofs -------------------------
(***************************************************************************)
(* Proofs about TradingBooks: the files of the signals, of the paper       *)
(* account and of the portfolio agree whenever nobody is writing them and  *)
(* the last to write them was alone, for every set of strategies and       *)
(* decisions, every outcome of the candles and any number of operations.   *)
(***************************************************************************)
EXTENDS TradingBooks, TLAPS

\* An account without trades has made nothing.
LEMMA EmptySum == Sum(NoTrades) = 0
<1> DEFINE iter[s \in SUBSET {}] ==
      IF s = {} THEN 0 ELSE LET x == CHOOSE x \in s : TRUE IN NoTrades[x] + iter[s \ {x}]
<1>1. iter = [s \in SUBSET {} |-> 0]
  <2> DEFINE G(g) == [s \in SUBSET {} |->
               IF s = {} THEN 0 ELSE LET x == CHOOSE x \in s : TRUE IN NoTrades[x] + g[s \ {x}]]
  <2>1. \A g : G(g) = [s \in SUBSET {} |-> 0]
    OBVIOUS
  <2>2. iter = CHOOSE g : g = G(g)
    OBVIOUS
  <2>3. QED BY <2>1, <2>2
<1>2. QED BY <1>1 DEF Sum, MapThenSumSet, MapThenFoldSet, NoTrades

\* The rest of a list of writes.
LEMMA TailOf ==
  ASSUME NEW S, NEW s \in Seq(S), s # <<>>
  PROVE  /\ Tail(s) \in Seq(S)
         /\ Len(s) \in Nat /\ Len(s) >= 1
         /\ Len(Tail(s)) = Len(s) - 1
         /\ Head(s) = s[1] /\ s[1] \in S
         /\ \A i \in 1..Len(Tail(s)) : Tail(s)[i] = s[i + 1]
  OBVIOUS

\* What an account and a portfolio start with is of the types of what they become.
LEMMA EmptyTypes ==
  /\ NoTrades \in Trades /\ 0 \in Profits /\ START \in Balances
  /\ EmptyAccount \in Accounts /\ <<>> \in Histories
<1>1. NoTrades \in Trades
  BY DEF NoTrades, Trades
<1>2. 0 \in Profits
  BY <1>1, EmptySum DEF Profits
<1>3. START \in Balances
  <2>1. START = START + 0
    BY DEF START
  <2>2. QED BY <1>2, <2>1 DEF Balances
<1>4. EmptyAccount \in Accounts
  BY <1>2, <1>3 DEF EmptyAccount, Accounts
<1>5. <<>> \in Histories
  BY BooksAssumption DEF Histories
<1>6. QED BY <1>1, <1>2, <1>3, <1>4, <1>5

\* A rebuild of the portfolio adds its picture to the history and drops at most the
\* oldest one, when the history is full.
LEMMA KeptAdds ==
  ASSUME NEW h \in Histories, NEW s \in Accounts
  PROVE  /\ Kept(Append(h, s)) \in Histories
         /\ Kept(Append(h, s)) # <<>> /\ Last(Kept(Append(h, s))) = s
         /\ Kept(Append(h, s)) = Append(IF Len(h) = HistoryMax THEN Tail(h) ELSE h, s)
<1> DEFINE a == Append(h, s)
           k == IF Len(h) = HistoryMax THEN Tail(h) ELSE h
<1>1. h \in Seq(Accounts) /\ Len(h) \in Nat /\ Len(h) <= HistoryMax /\ HistoryMax \in Nat \ {0}
  BY BooksAssumption DEF Histories
<1>2. a \in Seq(Accounts) /\ Len(a) = Len(h) + 1
  BY <1>1
<1>3. k \in Seq(Accounts) /\ Len(k) <= HistoryMax - 1 /\ Len(k) \in Nat
  <2>1. CASE Len(h) = HistoryMax
    <3>1. h # <<>>
      BY <1>1, <2>1
    <3>2. QED BY <1>1, <2>1, <3>1, TailOf
  <2>2. CASE Len(h) # HistoryMax
    BY <1>1, <2>2
  <2>3. QED BY <2>1, <2>2
<1>4. Kept(a) = Append(k, s)
  <2>1. CASE Len(h) = HistoryMax
    <3>1. Kept(a) = SubSeq(a, 2, Len(h) + 1)
      BY <1>1, <1>2, <2>1 DEF Kept
    <3>2. h # <<>> /\ k = Tail(h)
      BY <1>1, <2>1
    <3>3. SubSeq(a, 2, Len(h) + 1) \in Seq(Accounts) /\ Len(SubSeq(a, 2, Len(h) + 1)) = Len(h)
      BY <1>1, <1>2
    <3>4. Append(k, s) \in Seq(Accounts) /\ Len(Append(k, s)) = Len(h)
      BY <1>1, <1>3, <3>2, TailOf
    <3>5. ASSUME NEW i \in 1..Len(h)
          PROVE  SubSeq(a, 2, Len(h) + 1)[i] = Append(k, s)[i]
      <4>1. SubSeq(a, 2, Len(h) + 1)[i] = a[i + 1]
        BY <1>1, <1>2
      <4>2. Len(k) = Len(h) - 1 /\ \A j \in 1..Len(k) : k[j] = h[j + 1]
        BY <1>1, <3>2, TailOf
      <4>3. CASE i = Len(h)
        BY <1>1, <1>2, <1>3, <4>1, <4>2, <4>3
      <4>4. CASE i # Len(h)
        BY <1>1, <1>2, <1>3, <4>1, <4>2, <4>4
      <4>5. QED BY <4>3, <4>4
    <3>6. QED BY <1>1, <3>1, <3>3, <3>4, <3>5
  <2>2. CASE Len(h) # HistoryMax
    <3>1. ~(Len(a) > HistoryMax)
      BY <1>1, <1>2, <2>2
    <3>2. Kept(a) = SubSeq(a, 1, Len(a))
      <4> HIDE DEF a
      <4>1. QED BY <3>1 DEF Kept
    <3>3. SubSeq(a, 1, Len(a)) = a
      BY <1>2
    <3>4. QED BY <2>2, <3>2, <3>3
  <2>3. QED BY <2>1, <2>2
<1>5. Append(k, s) \in Histories /\ Append(k, s) # <<>> /\ Last(Append(k, s)) = s
  BY <1>1, <1>3 DEF Histories, Last
<1>6. QED BY <1>4, <1>5

-----------------------------------------------------------------------------
(* Types.                                                                  *)

\* A write changes one file, and the operation has the others still to write.
LEMMA WriteEffect ==
  ASSUME TypeOK, NEW o \in Ops, Write(o)
  PROVE  /\ op[o] \in Writing
         /\ op[o].left \in Seq(Entries) /\ op[o].left # <<>>
         /\ \A i \in 1..Len(op[o].left) : op[o].left[i].file \in FilesOf[Group[o]]
         /\ op[o].left[1] \in Entries
         /\ files' \in Books
         /\ \A f \in DOMAIN files :
              files'[f] = IF f = op[o].left[1].file THEN op[o].left[1].value ELSE files[f]
         /\ op' = [op EXCEPT ![o] = IF Len(op[o].left) = 1 THEN Idle
                                    ELSE Writes(Tail(op[o].left), op[o].age)]
<1> DEFINE w == op[o].left[1]
<1>1. op[o] \in Writing
  BY DEF TypeOK, Write, Idle, Evaluating, Reading
<1>2. /\ op[o].left \in Seq(Entries) /\ op[o].left # <<>>
      /\ \A i \in 1..Len(op[o].left) : op[o].left[i].file \in FilesOf[Group[o]]
  BY <1>1 DEF TypeOK, Writing
<1>3. w \in Entries /\ Head(op[o].left) = w
  BY <1>2, TailOf
<1>4. files' = [files EXCEPT ![w.file] = w.value]
  BY <1>3 DEF Write
<1>5. files \in Books
  BY DEF TypeOK
<1>6. \A f \in DOMAIN files : files'[f] = IF f = w.file THEN w.value ELSE files[f]
  BY <1>4, <1>5 DEF Books
<1>7. files' \in Books
  <2>1. w.file \in {"evaluations", "approved", "account", "positions", "trades", "statistics",
                    "portfolio", "portfolio_statistics", "history"}
    BY <1>3 DEF Entries
  <2>2. /\ w.file \in {"evaluations", "approved", "positions"} => w.value \in SUBSET Signals
        /\ w.file = "account" => w.value \in Balances
        /\ w.file = "trades" => w.value \in Trades
        /\ w.file = "statistics" => w.value \in Profits
        /\ w.file \in {"portfolio", "portfolio_statistics"} => w.value \in Accounts
        /\ w.file = "history" => w.value \in Histories
    BY <1>3 DEF Entries
  <2>3. QED BY <1>4, <1>5, <2>1, <2>2 DEF Books
<1>8. QED BY <1>1, <1>2, <1>3, <1>6, <1>7 DEF Write

\* An operation begins in a state of its type.
LEMMA BeginTypes ==
  ASSUME TypeOK, NEW o \in Ops, NEW state, Begin(o, state),
         \/ state \in Evaluating /\ Group[o] = "signals"
         \/ state \in Reading /\ o = "portfolio_rebuild"
         \/ state \in Writing /\ \A i \in 1..Len(state.left) : state.left[i].file \in FilesOf[Group[o]]
  PROVE  TypeOK'
<1>1. op' = [op EXCEPT ![o] = state] /\ op \in [Ops -> {Idle} \cup Evaluating \cup Reading \cup Writing]
  BY DEF Begin, TypeOK
<1>2. Evaluating' = Evaluating /\ Reading' = Reading /\ Writing' = Writing /\ Ages' = Ages
  BY DEF Begin, Evaluating, Reading, Writing, Ages
<1>3. op' \in [Ops -> ({Idle} \cup Evaluating \cup Reading \cup Writing)']
  BY <1>1, <1>2
<1>4. ASSUME NEW p \in Ops
      PROVE  /\ op'[p] \in Evaluating => Group[p] = "signals"
             /\ op'[p] \in Reading => p = "portfolio_rebuild"
             /\ op'[p] \in Writing =>
                  \A i \in 1..Len(op'[p].left) : op'[p].left[i].file \in FilesOf[Group[p]]
  <2>1. CASE p = o
    <3>1. op'[p] = state
      BY <1>1, <2>1
    <3>2. QED BY <2>1, <3>1 DEF Evaluating, Reading, Writing
  <2>2. CASE p # o
    BY <1>1, <2>2 DEF TypeOK
  <2>3. QED BY <2>1, <2>2
<1>5. alone' \in [Ops -> BOOLEAN]
  BY DEF Begin, TypeOK, Running
<1>6. started' \in 0..MaxOps /\ changes' \in 0..MaxChanges /\ crashes' \in 0..MaxCrashes
  BY BooksAssumption DEF Begin, TypeOK
<1>7. /\ active' \subseteq StrategyIds /\ decisions' \in Batches /\ files' \in Books
      /\ stained' \subseteq {"signals", "paper", "portfolio"}
      /\ age' \in [signals : Ages', paper : Ages']
  BY <1>2 DEF Begin, TypeOK
<1>8. QED BY <1>2, <1>3, <1>4, <1>5, <1>6, <1>7 DEF TypeOK

\* What the operations that begin hold is of its type.
LEMMA StartTypes ==
  ASSUME TypeOK,
         \/ \E o \in Ops : StartEvaluation(o)
         \/ PaperRebuild \/ PaperReset \/ PortfolioRebuild \/ PortfolioReset
  PROVE  TypeOK'
<1>1. changes \in Nat /\ 0 \in Ages /\ -1 \in Ages /\ changes \in Ages /\ files \in Books /\ age \in [signals : Ages, paper : Ages]
  BY BooksAssumption DEF TypeOK, Ages
<1>2. ASSUME NEW o \in Ops, StartEvaluation(o) PROVE TypeOK'
  <2>1. [at |-> "evaluate", todo |-> decisions, found |-> {}, age |-> changes] \in Evaluating
    BY <1>1 DEF Evaluating, TypeOK
  <2>2. Group[o] = "signals"
    BY <1>2 DEF StartEvaluation, Group
  <2>3. QED BY <1>2, <2>1, <2>2, BeginTypes DEF StartEvaluation
<1>3. ASSUME PaperRebuild PROVE TypeOK'
  <2>1. PICK taken \in Taken(files.approved) : \E outcome \in [taken -> Outcomes] :
          LET trades == [s \in {t \in taken : outcome[t] # Open} |-> outcome[s]]
          IN Begin("paper_rebuild",
               Writes(<<W("account", Opening + Sum(trades)), W("positions", taken),
                        W("trades", trades), W("statistics", Sum(trades))>>,
                      IF Settled("signals") THEN age.signals ELSE -1))
    BY <1>3 DEF PaperRebuild
  <2>0. PICK outcome \in [taken -> Outcomes] :
          LET trades == [s \in {t \in taken : outcome[t] # Open} |-> outcome[s]]
          IN Begin("paper_rebuild",
               Writes(<<W("account", Opening + Sum(trades)), W("positions", taken),
                        W("trades", trades), W("statistics", Sum(trades))>>,
                      IF Settled("signals") THEN age.signals ELSE -1))
    BY <2>1
  <2> DEFINE trades == [s \in {t \in taken : outcome[t] # Open} |-> outcome[s]]
             known == IF Settled("signals") THEN age.signals ELSE -1
             list == <<W("account", Opening + Sum(trades)), W("positions", taken),
                       W("trades", trades), W("statistics", Sum(trades))>>
  <2>2. taken \in SUBSET Signals
    BY <1>1 DEF Books, Taken, OnePerId
  <2>3. trades \in Trades
    <3> DEFINE D == {t \in taken : outcome[t] # Open}
    <3>1. trades \in [D -> Outcomes]
      OBVIOUS
    <3>2. D \in SUBSET Signals
      BY <2>2
    <3> HIDE DEF D, trades
    <3>3. QED BY <3>1, <3>2 DEF Trades
  <2>4. known \in Ages
    BY <1>1
  <2>5. Sum(trades) \in Profits /\ Opening + Sum(trades) \in Balances
    BY <2>3 DEF Profits, Balances, Opening
  <2> HIDE DEF trades, known
  <2>6. /\ W("account", Opening + Sum(trades)) \in Entries /\ W("positions", taken) \in Entries
        /\ W("trades", trades) \in Entries /\ W("statistics", Sum(trades)) \in Entries
    BY <2>2, <2>3, <2>5 DEF W, Entries
  <2>7. list \in Seq(Entries) /\ list # <<>> /\ Len(list) = 4
    BY <2>6
  <2>8. \A i \in 1..4 : list[i].file \in FilesOf["paper"]
    BY DEF W, FilesOf
  <2>9. Writes(list, known) \in Writing /\ Writes(list, known).left = list
    BY <2>4, <2>7 DEF Writes, Writing
  <2>10. "paper_rebuild" \in Ops /\ Group["paper_rebuild"] = "paper"
    BY DEF Ops, Group
  <2>11. Begin("paper_rebuild", Writes(list, known))
    BY <2>0 DEF trades, known
  <2> HIDE DEF list
  <2>12. QED BY <2>7, <2>8, <2>9, <2>10, <2>11, BeginTypes
<1>4. ASSUME PaperReset PROVE TypeOK'
  <2> DEFINE list == <<W("account", START), W("positions", {}), W("trades", NoTrades), W("statistics", 0)>>
  <2>1. /\ W("account", START) \in Entries /\ W("positions", {}) \in Entries
        /\ W("trades", NoTrades) \in Entries /\ W("statistics", 0) \in Entries
    BY EmptyTypes DEF W, Entries
  <2>2. list \in Seq(Entries) /\ list # <<>> /\ Len(list) = 4
    BY <2>1
  <2>3. \A i \in 1..4 : list[i].file \in FilesOf["paper"]
    BY DEF W, FilesOf
  <2>4. Writes(list, -1) \in Writing /\ Writes(list, -1).left = list
    BY <1>1, <2>2 DEF Writes, Writing
  <2>5. "paper_reset" \in Ops /\ Group["paper_reset"] = "paper"
    BY DEF Ops, Group
  <2>6. Begin("paper_reset", Writes(list, -1))
    BY <1>4 DEF PaperReset
  <2> HIDE DEF list
  <2>7. QED BY <2>2, <2>3, <2>4, <2>5, <2>6, BeginTypes
<1>5. ASSUME PortfolioRebuild PROVE TypeOK'
  <2>1. [at |-> "account", history |-> files.history] \in Reading
    BY <1>1 DEF Reading, Books
  <2>2. "portfolio_rebuild" \in Ops
    BY DEF Ops, Group
  <2>3. QED BY <1>5, <2>1, <2>2, BeginTypes DEF PortfolioRebuild
<1>6. ASSUME PortfolioReset PROVE TypeOK'
  <2> DEFINE list == <<W("portfolio", EmptyAccount), W("portfolio_statistics", EmptyAccount), W("history", <<>>)>>
  <2>1. /\ W("portfolio", EmptyAccount) \in Entries /\ W("portfolio_statistics", EmptyAccount) \in Entries
        /\ W("history", <<>>) \in Entries
    BY EmptyTypes DEF W, Entries
  <2>2. list \in Seq(Entries) /\ list # <<>> /\ Len(list) = 3
    BY <2>1
  <2>3. \A i \in 1..3 : list[i].file \in FilesOf["portfolio"]
    BY DEF W, FilesOf
  <2>4. Writes(list, 0) \in Writing /\ Writes(list, 0).left = list
    BY <1>1, <2>2 DEF Writes, Writing
  <2>5. "portfolio_reset" \in Ops /\ Group["portfolio_reset"] = "portfolio"
    BY DEF Ops, Group
  <2>6. Begin("portfolio_reset", Writes(list, 0))
    BY <1>6 DEF PortfolioReset
  <2> HIDE DEF list
  <2>7. QED BY <2>2, <2>3, <2>4, <2>5, <2>6, BeginTypes
<1>7. QED BY <1>2, <1>3, <1>4, <1>5, <1>6

\* An operation that goes on stays in a state of its type.
LEMMA StepTypes ==
  ASSUME TypeOK, NEW o \in Ops, NEW state,
         op' = [op EXCEPT ![o] = state],
         UNCHANGED <<active, decisions, files, started, changes, crashes, alone, stained, age>>,
         \/ state = Idle
         \/ state \in Evaluating /\ Group[o] = "signals"
         \/ state \in Reading /\ o = "portfolio_rebuild"
         \/ state \in Writing /\ \A i \in 1..Len(state.left) : state.left[i].file \in FilesOf[Group[o]]
  PROVE  TypeOK'
<1>1. op \in [Ops -> {Idle} \cup Evaluating \cup Reading \cup Writing]
  BY DEF TypeOK
<1>2. Evaluating' = Evaluating /\ Reading' = Reading /\ Writing' = Writing /\ Ages' = Ages
  BY DEF Evaluating, Reading, Writing, Ages
<1>3. op' \in [Ops -> ({Idle} \cup Evaluating \cup Reading \cup Writing)']
  BY <1>1, <1>2
<1>4. ASSUME NEW p \in Ops
      PROVE  /\ op'[p] \in Evaluating => Group[p] = "signals"
             /\ op'[p] \in Reading => p = "portfolio_rebuild"
             /\ op'[p] \in Writing =>
                  \A i \in 1..Len(op'[p].left) : op'[p].left[i].file \in FilesOf[Group[p]]
  <2>1. CASE p = o
    <3>1. op'[p] = state
      BY <1>1, <2>1
    <3>2. QED BY <2>1, <3>1 DEF Evaluating, Reading, Writing, Idle
  <2>2. CASE p # o
    BY <1>1, <2>2 DEF TypeOK
  <2>3. QED BY <2>1, <2>2
<1>5. QED BY <1>2, <1>3, <1>4 DEF TypeOK

LEMMA GoOnTypes ==
  ASSUME TypeOK,
         \/ \E o \in Ops : EvaluateOne(o) \/ SaveEvaluations(o)
         \/ ReadAccount \/ ReadTrades
  PROVE  TypeOK'
<1>1. op \in [Ops -> {Idle} \cup Evaluating \cup Reading \cup Writing] /\ files \in Books
  BY DEF TypeOK
<1>2. ASSUME NEW o \in Ops, op[o].at = "evaluate"
      PROVE  op[o] \in Evaluating /\ Group[o] = "signals"
  BY <1>1, <1>2 DEF TypeOK, Idle, Reading, Writing
<1>3. ASSUME NEW o \in Ops, EvaluateOne(o) PROVE TypeOK'
  <2>1. op[o] \in Evaluating /\ Group[o] = "signals"
    BY <1>2, <1>3 DEF EvaluateOne
  <2>2. PICK d \in op[o].todo :
          op' = [op EXCEPT ![o] =
                  IF d \in Raising /\ ActiveStrategies # {} THEN Idle
                  ELSE [at |-> "evaluate", todo |-> op[o].todo \ {d},
                        found |-> op[o].found \cup {<<st, d>> : st \in ActiveStrategies}, age |-> op[o].age]]
    BY <1>3 DEF EvaluateOne
  <2>3. {<<st, d>> : st \in ActiveStrategies} \subseteq Signals
    <3>1. active \subseteq StrategyIds /\ d \in UNION Batches
      BY <2>1 DEF TypeOK, Evaluating
    <3>2. QED BY <3>1 DEF Signals, ActiveStrategies
  <2>4. [at |-> "evaluate", todo |-> op[o].todo \ {d},
         found |-> op[o].found \cup {<<st, d>> : st \in ActiveStrategies}, age |-> op[o].age] \in Evaluating
    BY <2>1, <2>3 DEF Evaluating
  <2>5. QED BY <1>3, <2>1, <2>2, <2>4, StepTypes DEF EvaluateOne
<1>4. ASSUME NEW o \in Ops, SaveEvaluations(o) PROVE TypeOK'
  <2>1. op[o] \in Evaluating /\ Group[o] = "signals"
    BY <1>2, <1>4 DEF SaveEvaluations
  <2> DEFINE list == <<W("evaluations", op[o].found), W("approved", op[o].found \cap Approves)>>
  <2>2. W("evaluations", op[o].found) \in Entries /\ W("approved", op[o].found \cap Approves) \in Entries
    BY <2>1 DEF W, Entries, Evaluating
  <2>3. list \in Seq(Entries) /\ list # <<>> /\ Len(list) = 2
    BY <2>2
  <2>4. \A i \in 1..2 : list[i].file \in FilesOf["signals"]
    BY DEF W, FilesOf
  <2>5. Writes(list, op[o].age) \in Writing /\ Writes(list, op[o].age).left = list
    BY <2>1, <2>3 DEF Writes, Writing, Evaluating
  <2>6. op' = [op EXCEPT ![o] = Writes(list, op[o].age)]
    BY <1>4 DEF SaveEvaluations
  <2> HIDE DEF list
  <2>7. \A i \in 1..Len(Writes(list, op[o].age).left) : Writes(list, op[o].age).left[i].file \in FilesOf[Group[o]]
    BY <2>1, <2>3, <2>4, <2>5
  <2>8. UNCHANGED <<active, decisions, files, started, changes, crashes, alone, stained, age>>
    BY <1>4 DEF SaveEvaluations
  <2>9. QED BY <2>5, <2>6, <2>7, <2>8, StepTypes
<1>5. "portfolio_rebuild" \in Ops /\ Group["portfolio_rebuild"] = "portfolio"
  BY DEF Ops, Group
<1>6. ASSUME ReadAccount PROVE TypeOK'
  <2> DEFINE me == op["portfolio_rebuild"]
  <2>1. me \in Reading /\ me.history \in Histories
    BY <1>1, <1>5, <1>6 DEF ReadAccount, Idle, Evaluating, Reading, Writing
  <2>2. [at |-> "trades", history |-> me.history, balance |-> files.account] \in Reading
    BY <1>1, <2>1 DEF Reading, Books
  <2>3. op' = [op EXCEPT !["portfolio_rebuild"] =
                [at |-> "trades", history |-> me.history, balance |-> files.account]]
    BY <1>6 DEF ReadAccount
  <2>4. QED BY <1>5, <1>6, <2>2, <2>3, StepTypes DEF ReadAccount
<1>7. ASSUME ReadTrades PROVE TypeOK'
  <2> DEFINE me == op["portfolio_rebuild"]
             summary == [balance |-> me.balance, realized |-> Sum(files.trades)]
             list == <<W("portfolio", summary), W("portfolio_statistics", summary),
                       W("history", Kept(Append(me.history, summary)))>>
  <2>1. me \in [at : {"trades"}, history : Histories, balance : Balances]
    BY <1>1, <1>5, <1>7 DEF ReadTrades, Idle, Evaluating, Reading, Writing
  <2>2. summary \in Accounts
    BY <1>1, <2>1 DEF Accounts, Books, Profits
  <2>3. Kept(Append(me.history, summary)) \in Histories
    BY <2>1, <2>2, KeptAdds
  <2>4. op' = [op EXCEPT !["portfolio_rebuild"] = Writes(list, 0)]
    BY <1>7 DEF ReadTrades
  <2> HIDE DEF summary
  <2>5. /\ W("portfolio", summary) \in Entries /\ W("portfolio_statistics", summary) \in Entries
        /\ W("history", Kept(Append(me.history, summary))) \in Entries
    BY <2>2, <2>3 DEF W, Entries
  <2>6. list \in Seq(Entries) /\ list # <<>> /\ Len(list) = 3
    BY <2>5
  <2>7. \A i \in 1..3 : list[i].file \in FilesOf["portfolio"]
    BY DEF W, FilesOf
  <2>8. 0 \in Ages
    BY BooksAssumption DEF TypeOK, Ages
  <2>9. Writes(list, 0) \in Writing /\ Writes(list, 0).left = list
    BY <2>6, <2>8 DEF Writes, Writing
  <2> HIDE DEF list
  <2>10. \A i \in 1..Len(Writes(list, 0).left) : Writes(list, 0).left[i].file \in FilesOf[Group["portfolio_rebuild"]]
    BY <1>5, <2>6, <2>7, <2>9
  <2>11. UNCHANGED <<active, decisions, files, started, changes, crashes, alone, stained, age>>
    BY <1>7 DEF ReadTrades
  <2>12. QED BY <1>5, <2>4, <2>9, <2>10, <2>11, StepTypes
<1>8. QED BY <1>3, <1>4, <1>6, <1>7

LEMMA WriteTypes ==
  ASSUME TypeOK, NEW o \in Ops, Write(o)
  PROVE  TypeOK'
<1> DEFINE state == IF Len(op[o].left) = 1 THEN Idle ELSE Writes(Tail(op[o].left), op[o].age)
<1>1. /\ op[o] \in Writing /\ op[o].left \in Seq(Entries) /\ op[o].left # <<>>
      /\ \A i \in 1..Len(op[o].left) : op[o].left[i].file \in FilesOf[Group[o]]
      /\ files' \in Books /\ op' = [op EXCEPT ![o] = state]
  BY WriteEffect
<1>2. op \in [Ops -> {Idle} \cup Evaluating \cup Reading \cup Writing]
  BY DEF TypeOK
<1>3. Evaluating' = Evaluating /\ Reading' = Reading /\ Writing' = Writing /\ Ages' = Ages
  BY DEF Write, Evaluating, Reading, Writing, Ages
<1>4. \/ state = Idle
      \/ state \in Writing /\ \A i \in 1..Len(state.left) : state.left[i].file \in FilesOf[Group[o]]
  <2> DEFINE rest == Tail(op[o].left)
  <2>1. /\ rest \in Seq(Entries) /\ Len(op[o].left) \in Nat /\ Len(op[o].left) >= 1
        /\ Len(rest) = Len(op[o].left) - 1 /\ \A i \in 1..Len(rest) : rest[i] = op[o].left[i + 1]
    BY <1>1, TailOf
  <2>2. CASE Len(op[o].left) = 1
    BY <2>2
  <2>3. CASE Len(op[o].left) # 1
    <3>1. rest # <<>>
      <4> HIDE DEF rest
      <4>1. Len(rest) # 0
        BY <2>1, <2>3
      <4>2. QED BY <4>1
    <3>2. \A i \in 1..Len(rest) : rest[i].file \in FilesOf[Group[o]]
      BY <1>1, <2>1
    <3>3. op[o].age \in Ages
      BY <1>1 DEF Writing
    <3> HIDE DEF rest
    <3>4. Writes(rest, op[o].age) \in Writing /\ Writes(rest, op[o].age).left = rest
      BY <2>1, <3>1, <3>3 DEF Writes, Writing
    <3>5. state = Writes(rest, op[o].age)
      BY <2>3 DEF rest
    <3> HIDE DEF state
    <3>6. QED BY <3>2, <3>4, <3>5
  <2>4. QED BY <2>2, <2>3
<1> HIDE DEF state
<1>5. op' \in [Ops -> ({Idle} \cup Evaluating \cup Reading \cup Writing)']
  BY <1>1, <1>2, <1>3, <1>4
<1>6. ASSUME NEW p \in Ops
      PROVE  /\ op'[p] \in Evaluating => Group[p] = "signals"
             /\ op'[p] \in Reading => p = "portfolio_rebuild"
             /\ op'[p] \in Writing =>
                  \A i \in 1..Len(op'[p].left) : op'[p].left[i].file \in FilesOf[Group[p]]
  <2>1. CASE p = o
    <3>1. op'[p] = state
      BY <1>1, <1>2, <2>1
    <3>2. QED BY <1>4, <2>1, <3>1 DEF Evaluating, Reading, Writing, Idle
  <2>2. CASE p # o
    BY <1>1, <1>2, <2>2 DEF TypeOK
  <2>3. QED BY <2>1, <2>2
<1>7. op[o].age \in Ages
  BY <1>1 DEF Writing
<1>8. age' \in [signals : Ages', paper : Ages']
  BY <1>3, <1>7 DEF Write, TypeOK
<1>9. alone' \in [Ops -> BOOLEAN]
  BY DEF Write, TypeOK
<1>10. stained' \subseteq {"signals", "paper", "portfolio"}
  <2>1. Group[o] \in {"signals", "paper", "portfolio"}
    BY DEF Ops, Group
  <2>2. stained' \in {stained, stained \ {Group[o]}, stained \cup {Group[o]}}
    BY DEF Write
  <2>3. QED BY <2>1, <2>2 DEF TypeOK
<1>11. /\ active' \subseteq StrategyIds /\ decisions' \in Batches
       /\ started' \in 0..MaxOps /\ changes' \in 0..MaxChanges /\ crashes' \in 0..MaxCrashes
  BY DEF Write, TypeOK
<1>12. QED BY <1>1, <1>3, <1>5, <1>6, <1>8, <1>9, <1>10, <1>11 DEF TypeOK

\* What happens around the operations keeps the types: an older age is still an age.
LEMMA AroundTypes ==
  ASSUME TypeOK, MutateStrategy \/ NewDecisions \/ Crash
  PROVE  TypeOK'
<1>1. Ages \subseteq Ages' /\ changes' \in 0..MaxChanges /\ crashes' \in 0..MaxCrashes
  BY BooksAssumption DEF TypeOK, Ages, MutateStrategy, NewDecisions, Crash
<1>2. Evaluating \subseteq Evaluating' /\ Reading \subseteq Reading' /\ Writing \subseteq Writing'
  BY <1>1 DEF Evaluating, Reading, Writing
<1>3. op' = op \/ op' = [o \in Ops |-> Idle]
  BY DEF MutateStrategy, NewDecisions, Crash
<1>4. op' \in [Ops -> ({Idle} \cup Evaluating \cup Reading \cup Writing)']
  BY <1>2, <1>3 DEF TypeOK
<1>5. ASSUME NEW p \in Ops
      PROVE  /\ op'[p] \in Evaluating' => Group[p] = "signals"
             /\ op'[p] \in Reading' => p = "portfolio_rebuild"
             /\ op'[p] \in Writing' =>
                  \A i \in 1..Len(op'[p].left) : op'[p].left[i].file \in FilesOf[Group[p]]
  <2>1. CASE op' = op
    <3>1. op[p] \in {Idle} \cup Evaluating \cup Reading \cup Writing
      BY DEF TypeOK
    <3>2. /\ op[p] \in Evaluating' => op[p] \in Evaluating
          /\ op[p] \in Reading' => op[p] \in Reading
          /\ op[p] \in Writing' => op[p] \in Writing
      BY <3>1 DEF Idle, Evaluating, Reading, Writing
    <3>3. QED BY <2>1, <3>2 DEF TypeOK
  <2>2. CASE op' = [o \in Ops |-> Idle]
    BY <2>2 DEF Idle, Evaluating, Reading, Writing
  <2>3. QED BY <1>3, <2>1, <2>2
<1>6. active' \subseteq StrategyIds /\ decisions' \in Batches
  BY DEF TypeOK, MutateStrategy, NewDecisions, Crash
<1>7. files' \in Books /\ started' \in 0..MaxOps /\ alone' \in [Ops -> BOOLEAN]
  <2>1. files' = files /\ started' = started /\ (alone' = alone \/ alone' = [o \in Ops |-> FALSE])
    BY DEF MutateStrategy, NewDecisions, Crash
  <2>2. files' \in Books /\ started' \in 0..MaxOps
    BY <2>1 DEF TypeOK
  <2>3. alone \in [Ops -> BOOLEAN]
    BY DEF TypeOK
  <2>4. [o \in Ops |-> FALSE] \in [Ops -> BOOLEAN]
    BY Zenon
  <2>5. alone' \in [Ops -> BOOLEAN]
    BY <2>1, <2>3, <2>4, Zenon
  <2>6. QED BY <2>2, <2>5
<1>8. stained' \subseteq {"signals", "paper", "portfolio"}
  <2>1. \A o \in Ops : Group[o] \in {"signals", "paper", "portfolio"}
    BY DEF Ops, Group
  <2>2. \/ stained' = stained
        \/ stained' = stained \cup {Group[o] : o \in {p \in Ops : op[p].at = "write"}}
    BY DEF MutateStrategy, NewDecisions, Crash
  <2>3. {Group[o] : o \in {p \in Ops : op[p].at = "write"}} \subseteq {"signals", "paper", "portfolio"}
    BY <2>1
  <2>4. QED BY <2>2, <2>3 DEF TypeOK
<1>9. age' \in [signals : Ages', paper : Ages']
  BY <1>1 DEF TypeOK, MutateStrategy, NewDecisions, Crash
<1>10. QED BY <1>1, <1>4, <1>5, <1>6, <1>7, <1>8, <1>9 DEF TypeOK

LEMMA InitTypes == Init => TypeOK
<1> SUFFICES ASSUME Init PROVE TypeOK
  OBVIOUS
<1>1. changes = 0 /\ 0 \in Ages /\ -1 \in Ages
  BY DEF Init, Ages
<1>2. files \in Books
  BY EmptyTypes DEF Init, Books
<1>3. op \in [Ops -> {Idle} \cup Evaluating \cup Reading \cup Writing]
  BY DEF Init
<1>4. \A o \in Ops : op[o] \notin Evaluating /\ op[o] \notin Reading /\ op[o] \notin Writing
  BY DEF Init, Idle, Evaluating, Reading, Writing
<1>5. started \in 0..MaxOps /\ changes \in 0..MaxChanges /\ crashes \in 0..MaxCrashes
  BY BooksAssumption DEF Init
<1>6. age \in [signals : Ages, paper : Ages]
  BY <1>1 DEF Init
<1>7. QED BY <1>2, <1>3, <1>4, <1>5, <1>6 DEF Init, TypeOK

LEMMA TypeInductive == TypeOK /\ [Next]_vars => TypeOK'
<1> SUFFICES ASSUME TypeOK, [Next]_vars PROVE TypeOK'
  OBVIOUS
<1>1. CASE UNCHANGED vars
  BY <1>1 DEF vars, TypeOK, Evaluating, Reading, Writing, Ages
<1>2. CASE Next
  BY <1>2, StartTypes, GoOnTypes, WriteTypes, AroundTypes DEF Next
<1>3. QED BY <1>1, <1>2

\* The files, what operations hold and what they still have to write are of their
\* types, and an operation writes only the files of its group.
THEOREM TypeCorrect == Spec => []TypeOK
<1> QED BY InitTypes, TypeInductive, PTL DEF Spec

-----------------------------------------------------------------------------
(* The history of the portfolio.                                           *)

\* What a rebuild read at its start is still in the file, unless a reset emptied it;
\* the history is the last file it writes.
HistInv ==
  LET me == op["portfolio_rebuild"]  reset == op["portfolio_reset"] IN
  /\ me.at \in {"account", "trades"} => files.history \in {me.history, <<>>}
  /\ me.at = "write" =>
       \E H \in Histories, s \in Accounts :
          /\ files.history \in {H, <<>>}
          /\ \A i \in 1..Len(me.left) : me.left[i].file = "history" =>
                i = Len(me.left) /\ me.left[i].value = Kept(Append(H, s))
  /\ reset.at = "write" =>
       \A i \in 1..Len(reset.left) : reset.left[i].file = "history" => reset.left[i].value = <<>>

LEMMA InitHist == Init => HistInv
BY DEF Init, HistInv, Idle, Ops, Group

\* The two operations that write the history.
LEMMA PortfolioOps ==
  /\ "portfolio_rebuild" \in Ops /\ Group["portfolio_rebuild"] = "portfolio"
  /\ "portfolio_reset" \in Ops /\ Group["portfolio_reset"] = "portfolio"
  /\ \A o \in Ops : Group[o] = "portfolio" => o \in {"portfolio_rebuild", "portfolio_reset"}
BY DEF Ops, Group

\* A write of the history is of a rebuild's or a reset's, and leaves no other behind.
LEMMA HistoryWrite ==
  ASSUME TypeOK, HistInv, NEW o \in Ops, Write(o), op[o].left[1].file = "history"
  PROVE  \/ o = "portfolio_reset" /\ files'.history = <<>>
         \/ /\ o = "portfolio_rebuild" /\ Len(op[o].left) = 1
            /\ \E H \in Histories, s \in Accounts :
                  files.history \in {H, <<>>} /\ files'.history = Kept(Append(H, s))
<1>1. /\ op[o] \in Writing /\ op[o].left \in Seq(Entries) /\ op[o].left # <<>>
      /\ \A i \in 1..Len(op[o].left) : op[o].left[i].file \in FilesOf[Group[o]]
      /\ \A f \in DOMAIN files :
           files'[f] = IF f = op[o].left[1].file THEN op[o].left[1].value ELSE files[f]
  BY WriteEffect
<1>2. Len(op[o].left) \in Nat /\ Len(op[o].left) >= 1
  BY <1>1, TailOf
<1>3. 1 \in 1..Len(op[o].left)
  BY <1>2
<1>4. "history" \in FilesOf[Group[o]]
  BY <1>1, <1>3
<1>5. Group[o] = "portfolio"
  BY <1>4 DEF FilesOf, Ops, Group
<1>6. "history" \in DOMAIN files
  BY DEF TypeOK, Books
<1>7. files'.history = op[o].left[1].value
  BY <1>1, <1>6
<1>8. op[o].at = "write"
  BY DEF Write
<1>9. CASE o = "portfolio_reset"
  BY <1>3, <1>7, <1>8, <1>9 DEF HistInv
<1>10. CASE o = "portfolio_rebuild"
  <2>1. PICK H \in Histories, s \in Accounts :
          /\ files.history \in {H, <<>>}
          /\ \A i \in 1..Len(op[o].left) : op[o].left[i].file = "history" =>
                i = Len(op[o].left) /\ op[o].left[i].value = Kept(Append(H, s))
    BY <1>8, <1>10 DEF HistInv
  <2>2. QED BY <1>3, <1>7, <1>10, <2>1
<1>11. QED BY <1>5, <1>9, <1>10, PortfolioOps

\* Nothing is said of the history by an operation that is idle.
LEMMA HistKept ==
  ASSUME HistInv, files'.history = files.history,
         op'["portfolio_rebuild"] = op["portfolio_rebuild"] \/ op'["portfolio_rebuild"] = Idle,
         op'["portfolio_reset"] = op["portfolio_reset"] \/ op'["portfolio_reset"] = Idle
  PROVE  HistInv'
BY DEF HistInv, Idle

LEMMA HistWrite ==
  ASSUME TypeOK, HistInv, NEW o \in Ops, Write(o)
  PROVE  HistInv'
<1> DEFINE me == op["portfolio_rebuild"]
           rest == Tail(op[o].left)
<1>1. /\ op[o] \in Writing /\ op[o].left \in Seq(Entries) /\ op[o].left # <<>>
      /\ \A f \in DOMAIN files :
           files'[f] = IF f = op[o].left[1].file THEN op[o].left[1].value ELSE files[f]
      /\ op' = [op EXCEPT ![o] = IF Len(op[o].left) = 1 THEN Idle
                                 ELSE Writes(rest, op[o].age)]
  BY WriteEffect
<1>2. op \in [Ops -> {Idle} \cup Evaluating \cup Reading \cup Writing]
  BY DEF TypeOK
<1>3. /\ Len(op[o].left) \in Nat /\ Len(op[o].left) >= 1 /\ Len(rest) = Len(op[o].left) - 1
      /\ \A i \in 1..Len(rest) : rest[i] = op[o].left[i + 1]
  BY <1>1, TailOf
<1>4. op[o].at = "write"
  BY DEF Write
<1>5. files'.history = files.history \/ op[o].left[1].file = "history"
  BY <1>1 DEF TypeOK, Books
<1>6. \/ files'.history \in {files.history, <<>>}
      \/ o = "portfolio_rebuild" /\ Len(op[o].left) = 1
  BY <1>5, HistoryWrite
<1> HIDE DEF rest
<1>7. \/ op'[o] = Idle
      \/ op'[o] = Writes(rest, op[o].age) /\ Len(op[o].left) # 1
  BY <1>1, <1>2
<1>8. \A p \in Ops : p # o => op'[p] = op[p]
  BY <1>1, <1>2
<1>9. ASSUME op'["portfolio_rebuild"].at \in {"account", "trades"}
      PROVE  files'.history \in {op'["portfolio_rebuild"].history, <<>>}
  <2>1. o # "portfolio_rebuild"
    BY <1>7, <1>9 DEF Idle, Writes
  <2>2. op'["portfolio_rebuild"] = op["portfolio_rebuild"]
    BY <1>8, <2>1, PortfolioOps
  <2>3. QED BY <1>6, <1>9, <2>1, <2>2 DEF HistInv
<1>10. ASSUME op'["portfolio_rebuild"].at = "write"
       PROVE  \E H \in Histories, s \in Accounts :
                /\ files'.history \in {H, <<>>}
                /\ \A i \in 1..Len(op'["portfolio_rebuild"].left) :
                     op'["portfolio_rebuild"].left[i].file = "history" =>
                       /\ i = Len(op'["portfolio_rebuild"].left)
                       /\ op'["portfolio_rebuild"].left[i].value = Kept(Append(H, s))
  <2>1. op["portfolio_rebuild"].at = "write"
    BY <1>4, <1>8, <1>10, PortfolioOps
  <2>2. PICK H \in Histories, s \in Accounts :
          /\ files.history \in {H, <<>>}
          /\ \A i \in 1..Len(me.left) : me.left[i].file = "history" =>
                i = Len(me.left) /\ me.left[i].value = Kept(Append(H, s))
    BY <2>1 DEF HistInv
  <2>3. CASE o = "portfolio_rebuild"
    <3>1. op'[o] = Writes(rest, op[o].age) /\ Len(op[o].left) # 1
      BY <1>7, <1>10, <2>3 DEF Idle
    <3>2. files'.history \in {H, <<>>}
      BY <1>6, <2>2, <3>1
    <3>3. op'[o].left = rest
      BY <3>1 DEF Writes
    <3>4. ASSUME NEW i \in 1..Len(rest), rest[i].file = "history"
          PROVE  i = Len(rest) /\ rest[i].value = Kept(Append(H, s))
      <4>1. i + 1 \in 1..Len(op[o].left) /\ rest[i] = op[o].left[i + 1]
        BY <1>3
      <4>2. i + 1 = Len(op[o].left) /\ rest[i].value = Kept(Append(H, s))
        BY <2>2, <2>3, <3>4, <4>1
      <4>3. QED BY <1>3, <4>2
    <3>5. QED BY <2>3, <3>2, <3>3, <3>4
  <2>4. CASE o # "portfolio_rebuild"
    <3>1. op'["portfolio_rebuild"] = me
      BY <1>8, <2>4, PortfolioOps
    <3>2. files'.history \in {H, <<>>}
      BY <1>6, <2>2, <2>4
    <3>3. QED BY <2>2, <3>1, <3>2
  <2>5. QED BY <2>3, <2>4
<1>11. ASSUME op'["portfolio_reset"].at = "write"
       PROVE  \A i \in 1..Len(op'["portfolio_reset"].left) :
                op'["portfolio_reset"].left[i].file = "history" => op'["portfolio_reset"].left[i].value = <<>>
  <2>1. op["portfolio_reset"].at = "write"
    BY <1>4, <1>8, <1>11, PortfolioOps
  <2>2. \A i \in 1..Len(op["portfolio_reset"].left) :
           op["portfolio_reset"].left[i].file = "history" => op["portfolio_reset"].left[i].value = <<>>
    BY <2>1 DEF HistInv
  <2>3. CASE o = "portfolio_reset"
    <3>1. op'[o] = Writes(rest, op[o].age)
      BY <1>7, <1>11, <2>3 DEF Idle
    <3>2. op'[o].left = rest
      BY <3>1 DEF Writes
    <3>3. \A i \in 1..Len(rest) : i + 1 \in 1..Len(op[o].left) /\ rest[i] = op[o].left[i + 1]
      BY <1>3
    <3>4. QED BY <2>2, <2>3, <3>2, <3>3
  <2>4. CASE o # "portfolio_reset"
    BY <1>8, <2>2, <2>4, PortfolioOps
  <2>5. QED BY <2>3, <2>4
<1>12. QED BY <1>9, <1>10, <1>11 DEF HistInv

LEMMA HistInductive == TypeOK /\ HistInv /\ [Next]_vars => HistInv'
<1> SUFFICES ASSUME TypeOK, HistInv, [Next]_vars PROVE HistInv'
  OBVIOUS
<1> DEFINE rebuild == "portfolio_rebuild"
           reset == "portfolio_reset"
<1>1. op \in [Ops -> {Idle} \cup Evaluating \cup Reading \cup Writing]
  BY DEF TypeOK
<1>2. ASSUME NEW o \in Ops, NEW state, o \notin {rebuild, reset},
             op' = [op EXCEPT ![o] = state], files' = files
      PROVE  HistInv'
  BY <1>1, <1>2, HistKept, PortfolioOps
<1>3. CASE UNCHANGED vars \/ MutateStrategy \/ NewDecisions \/ Crash
  BY <1>3, HistKept, PortfolioOps DEF vars, MutateStrategy, NewDecisions, Crash
<1>4. ASSUME NEW o \in Ops, StartEvaluation(o) \/ EvaluateOne(o) \/ SaveEvaluations(o)
      PROVE  HistInv'
  <2>1. o \notin {rebuild, reset}
    <3>1. CASE StartEvaluation(o)
      BY <3>1 DEF StartEvaluation
    <3>2. CASE EvaluateOne(o) \/ SaveEvaluations(o)
      <4>1. op[o] \in Evaluating
        BY <1>1, <3>2 DEF EvaluateOne, SaveEvaluations, Idle, Reading, Writing
      <4>2. Group[o] = "signals"
        BY <4>1 DEF TypeOK
      <4>3. QED BY <4>2, PortfolioOps
    <3>3. QED BY <1>4, <3>1, <3>2
  <2>2. \E state : op' = [op EXCEPT ![o] = state]
    BY <1>4 DEF StartEvaluation, Begin, EvaluateOne, SaveEvaluations
  <2>3. files' = files
    BY <1>4 DEF StartEvaluation, Begin, EvaluateOne, SaveEvaluations
  <2>4. QED BY <1>2, <2>1, <2>2, <2>3
<1>5. CASE PaperRebuild \/ PaperReset
  <2>1. PICK o \in Ops : /\ o \notin {rebuild, reset} /\ files' = files
                         /\ \E state : op' = [op EXCEPT ![o] = state]
    BY <1>5 DEF PaperRebuild, PaperReset, Begin, Ops, Group
  <2>2. QED BY <1>2, <2>1
<1>6. CASE PortfolioRebuild
  <2>1. /\ op' = [op EXCEPT ![rebuild] = [at |-> "account", history |-> files.history]]
        /\ files' = files
    BY <1>6 DEF PortfolioRebuild, Begin
  <2>2. /\ op'[rebuild] = [at |-> "account", history |-> files.history]
        /\ op'[reset] = op[reset]
    BY <1>1, <2>1, PortfolioOps
  <2>3. QED BY <2>1, <2>2 DEF HistInv
<1>7. CASE ReadAccount
  <2>1. /\ op' = [op EXCEPT ![rebuild] =
                   [at |-> "trades", history |-> op[rebuild].history, balance |-> files.account]]
        /\ files' = files /\ op[rebuild].at = "account"
    BY <1>7 DEF ReadAccount
  <2>2. /\ op'[rebuild].at = "trades" /\ op'[rebuild].history = op[rebuild].history
        /\ op'[reset] = op[reset]
    BY <1>1, <2>1, PortfolioOps
  <2>3. QED BY <2>1, <2>2 DEF HistInv
<1>8. CASE ReadTrades
  <2> DEFINE H == op[rebuild].history
             s == [balance |-> op[rebuild].balance, realized |-> Sum(files.trades)]
             list == <<W("portfolio", s), W("portfolio_statistics", s), W("history", Kept(Append(H, s)))>>
  <2>1. /\ op' = [op EXCEPT ![rebuild] = Writes(list, 0)]
        /\ files' = files /\ op[rebuild].at = "trades"
    BY <1>8 DEF ReadTrades
  <2>2. op[rebuild] \in [at : {"trades"}, history : Histories, balance : Balances]
    BY <1>1, <2>1, PortfolioOps DEF Idle, Evaluating, Reading, Writing
  <2>3. H \in Histories /\ s \in Accounts
    BY <2>2 DEF Accounts, TypeOK, Books, Profits
  <2>4. files.history \in {H, <<>>}
    BY <2>1 DEF HistInv
  <2>5. \A i \in 1..3 : list[i].file = "history" => i = 3 /\ list[i].value = Kept(Append(H, s))
    BY DEF W
  <2>6. Len(list) = 3
    OBVIOUS
  <2> HIDE DEF H, s, list
  <2>7. op'[rebuild].at = "write" /\ op'[rebuild].left = list /\ op'[reset] = op[reset]
    BY <1>1, <2>1, PortfolioOps DEF Writes
  <2>8. \E h \in Histories, a \in Accounts :
          /\ files'.history \in {h, <<>>}
          /\ \A i \in 1..Len(op'[rebuild].left) : op'[rebuild].left[i].file = "history" =>
                i = Len(op'[rebuild].left) /\ op'[rebuild].left[i].value = Kept(Append(h, a))
    BY <2>1, <2>3, <2>4, <2>5, <2>6, <2>7
  <2>9. QED BY <2>7, <2>8 DEF HistInv
<1>9. CASE PortfolioReset
  <2> DEFINE list == <<W("portfolio", EmptyAccount), W("portfolio_statistics", EmptyAccount), W("history", <<>>)>>
  <2>1. op' = [op EXCEPT ![reset] = Writes(list, 0)] /\ files' = files
    BY <1>9 DEF PortfolioReset, Begin
  <2>2. \A i \in 1..3 : list[i].file = "history" => list[i].value = <<>>
    BY DEF W
  <2>3. Len(list) = 3
    OBVIOUS
  <2> HIDE DEF list
  <2>4. op'[reset].left = list /\ op'[rebuild] = op[rebuild]
    BY <1>1, <2>1, PortfolioOps DEF Writes
  <2>5. QED BY <2>1, <2>2, <2>3, <2>4 DEF HistInv
<1>10. ASSUME NEW o \in Ops, Write(o) PROVE HistInv'
  BY <1>10, HistWrite
<1>11. QED
  BY <1>3, <1>4, <1>5, <1>6, <1>7, <1>8, <1>9, <1>10 DEF Next

\* However rebuilds, resets and restarts interleave, a write of the portfolio's
\* history adds one picture to it and drops at most the oldest, or empties it.
THEOREM HistoryGrows == Spec => HistoryKept
<1> DEFINE Grown ==
      files'.history # files.history =>
        \/ files.history = <<>> \/ files'.history = <<>>
        \/ LET kept == IF Len(files.history) = HistoryMax THEN Tail(files.history) ELSE files.history
           IN files'.history = Append(kept, Last(files'.history))
<1>1. TypeOK /\ HistInv /\ [Next]_vars => [Grown]_vars
  <2> SUFFICES ASSUME TypeOK, HistInv, Next, files'.history # files.history,
                      files.history # <<>>, files'.history # <<>>
               PROVE  files'.history =
                        Append(IF Len(files.history) = HistoryMax THEN Tail(files.history) ELSE files.history,
                               Last(files'.history))
    OBVIOUS
  <2>1. PICK o \in Ops : Write(o)
    BY DEF Next, StartEvaluation, Begin, EvaluateOne, SaveEvaluations, PaperRebuild, PaperReset,
           PortfolioRebuild, ReadAccount, ReadTrades, PortfolioReset, MutateStrategy, NewDecisions, Crash
  <2>2. op[o].left[1].file = "history"
    <3>1. \A f \in DOMAIN files :
            files'[f] = IF f = op[o].left[1].file THEN op[o].left[1].value ELSE files[f]
      BY <2>1, WriteEffect
    <3>2. "history" \in DOMAIN files
      BY DEF TypeOK, Books
    <3>3. QED BY <3>1, <3>2
  <2>3. PICK H \in Histories, s \in Accounts :
          files.history \in {H, <<>>} /\ files'.history = Kept(Append(H, s))
    BY <2>1, <2>2, HistoryWrite
  <2>4. files.history = H
    BY <2>3
  <2>5. QED BY <2>3, <2>4, KeptAdds
<1> QED BY <1>1, InitTypes, InitHist, TypeInductive, HistInductive, PTL DEF Spec, HistoryKept

-----------------------------------------------------------------------------
(* What the files of a group say of each other.                            *)

\* An operation that is alone has met nobody who writes its files or what it reads.
AloneInv ==
  \A o, p \in Ops : (alone[o] /\ Running(o) /\ p # o /\ Meet(o, p)) => ~Running(p)

Exact == Approves \cap (active \X decisions)
Known(g) == IF g \in DOMAIN age THEN age[g] ELSE 0
Groups == {"signals", "paper", "portfolio"}

\* Files F agree on what group g is about, if they know of the changes up to known.
Agree(g, F, known) ==
  /\ g = "signals" => (known = changes => F.approved = Exact)
  /\ g = "paper" =>
       /\ F.account = START + Sum(F.trades)
       /\ F.statistics = Sum(F.trades)
       /\ DOMAIN F.trades \subseteq F.positions
       /\ known = changes => F.positions \in Taken(Exact)
  /\ g = "portfolio" =>
       /\ F.portfolio = F.portfolio_statistics
       /\ F.portfolio.balance = START + F.portfolio.realized
       /\ F.history # <<>> => Last(F.history) = F.portfolio

Quiet(g) == g \notin stained /\ \A o \in Ops : Group[o] = g => op[o].at # "write"

\* The writes left make the files of group g those of F.
Toward(g, left, F) ==
  /\ \A i \in 1..Len(left) : left[i].value = F[left[i].file]
  /\ \A f \in FilesOf[g] : files[f] = F[f] \/ \E i \in 1..Len(left) : left[i].file = f

\* Whether what o writes will be trusted.
Trusted(o) == alone[o] /\ (Group[o] = "portfolio" => "paper" \notin stained)

QuietInv == \A g \in Groups : Quiet(g) => Agree(g, files, Known(g))
PendingInv ==
  \A o \in Ops : op[o].at = "write" /\ Trusted(o) =>
    \E F \in Books : Toward(Group[o], op[o].left, F) /\ Agree(Group[o], F, op[o].age)
EvaluationInv ==
  \A o \in Ops : op[o].at = "evaluate" /\ op[o].age = changes =>
    op[o].todo \subseteq decisions /\ op[o].found = active \X (decisions \ op[o].todo)
AccountInv ==
  op["portfolio_rebuild"].at = "trades" /\ alone["portfolio_rebuild"]
    => op["portfolio_rebuild"].balance = files.account
BooksInv == QuietInv /\ PendingInv /\ EvaluationInv /\ AccountInv

LEMMA InitAlone == Init => AloneInv
BY DEF Init, AloneInv

LEMMA AloneInductive == TypeOK /\ AloneInv /\ [Next]_vars => AloneInv'
<1> SUFFICES ASSUME TypeOK, AloneInv, [Next]_vars PROVE AloneInv'
  OBVIOUS
<1>1. op \in [Ops -> {Idle} \cup Evaluating \cup Reading \cup Writing] /\ alone \in [Ops -> BOOLEAN]
  BY DEF TypeOK
<1>2. ASSUME \A p \in Ops : Running(p)' => Running(p), \A p \in Ops : alone'[p] => alone[p]
      PROVE  AloneInv'
  BY <1>2 DEF AloneInv
<1>3. ASSUME NEW o \in Ops, NEW state, Begin(o, state) PROVE AloneInv'
  <2>1. \A p \in Ops : p # o => op'[p] = op[p]
    BY <1>1, <1>3 DEF Begin
  <2>2. alone'[o] => \A q \in Ops \ {o} : Meet(o, q) => ~Running(q)
    BY <1>3 DEF Begin
  <2>3. \A p \in Ops : p # o /\ alone'[p] => alone[p] /\ ~(Running(p) /\ Meet(o, p))
    BY <1>3 DEF Begin
  <2>4. \A p \in Ops : p # o => Running(p)' = Running(p)
    BY <2>1 DEF Running
  <2>5. \A p, q \in Ops : Meet(p, q) => Meet(q, p)
    BY DEF Meet
  <2>6. ASSUME NEW p \in Ops, NEW q \in Ops, alone'[p], Running(p)', q # p, Meet(p, q)
        PROVE  ~Running(q)'
    <3>1. CASE p = o
      BY <2>2, <2>4, <2>6, <3>1
    <3>2. CASE p # o /\ q = o
      BY <2>3, <2>4, <2>5, <2>6, <3>2
    <3>3. CASE p # o /\ q # o
      BY <2>3, <2>4, <2>6, <3>3 DEF AloneInv
    <3>4. QED BY <3>1, <3>2, <3>3
  <2>7. QED BY <2>6 DEF AloneInv, Meet
<1>4. ASSUME NEW o \in Ops, NEW state, Running(o), op' = [op EXCEPT ![o] = state],
             \A p \in Ops : alone'[p] => alone[p]
      PROVE  AloneInv'
  BY <1>1, <1>2, <1>4 DEF Running
<1>5. CASE UNCHANGED vars
  BY <1>2, <1>5 DEF vars, Running
<1>6. CASE \E o \in Ops : StartEvaluation(o)
  BY <1>3, <1>6 DEF StartEvaluation
<1>7. CASE PaperRebuild \/ PaperReset \/ PortfolioRebuild \/ PortfolioReset
  <2>1. PICK o \in Ops : \E state : Begin(o, state)
    BY <1>7 DEF PaperRebuild, PaperReset, PortfolioRebuild, PortfolioReset, Ops, Group
  <2>2. QED BY <1>3, <2>1
<1>8. CASE (\E o \in Ops : EvaluateOne(o) \/ SaveEvaluations(o)) \/ ReadAccount \/ ReadTrades
  <2>1. PICK o \in Ops : op[o].at # "idle" /\ (\E state : op' = [op EXCEPT ![o] = state]) /\ alone' = alone
    BY <1>8, PortfolioOps DEF EvaluateOne, SaveEvaluations, ReadAccount, ReadTrades
  <2>2. QED BY <1>4, <2>1 DEF Running
<1>9. ASSUME NEW o \in Ops, Write(o) PROVE AloneInv'
  <2>1. Running(o) /\ \E state : op' = [op EXCEPT ![o] = state]
    BY <1>9 DEF Write, Running
  <2>2. \A p \in Ops : alone'[p] => alone[p]
    BY <1>1, <1>9 DEF Write
  <2>3. QED BY <1>4, <2>1, <2>2
<1>10. CASE MutateStrategy \/ NewDecisions \/ Crash
  <2>1. \A p \in Ops : Running(p)' => Running(p)
    BY <1>10 DEF MutateStrategy, NewDecisions, Crash, Running, Idle
  <2>2. \A p \in Ops : alone'[p] => alone[p]
    BY <1>10 DEF MutateStrategy, NewDecisions, Crash
  <2>3. QED BY <1>2, <2>1, <2>2
<1>11. QED BY <1>5, <1>6, <1>7, <1>8, <1>9, <1>10 DEF Next

\* A group is about its own files.
LEMMA AgreeOfFiles ==
  ASSUME NEW g \in Groups, NEW F \in Books, NEW G \in Books, NEW known,
         \A f \in FilesOf[g] : F[f] = G[f], Agree(g, F, known)
  PROVE  Agree(g, G, known)
<1>1. CASE g = "signals"
  BY <1>1 DEF Agree, FilesOf
<1>2. CASE g = "paper"
  BY <1>2 DEF Agree, FilesOf
<1>3. CASE g = "portfolio"
  BY <1>3 DEF Agree, FilesOf
<1>4. QED BY <1>1, <1>2, <1>3 DEF Groups

\* What agreed goes on agreeing: files that know of the last change know of none that
\* comes after it.
LEMMA AgreeLater ==
  ASSUME TypeOK, NEW g \in Groups, NEW CONSTANT F, NEW CONSTANT known \in Int,
         known <= changes, Agree(g, F, known),
         UNCHANGED <<active, decisions, changes>> \/ changes' = changes + 1
  PROVE  Agree(g, F, known)'
<1>1. CASE UNCHANGED <<active, decisions, changes>>
  BY <1>1 DEF Agree, Exact
<1>2. CASE changes' = changes + 1
  <2>1. known # changes'
    BY <1>2 DEF TypeOK
  <2>2. QED BY <2>1 DEF Agree
<1>3. QED BY <1>1, <1>2

\* An operation that goes on without writing disturbs nothing, if what it begins to
\* write, has evaluated and has read is right.
LEMMA StepKeeps ==
  ASSUME TypeOK, BooksInv, NEW o \in Ops, NEW CONSTANT state,
         op' = [op EXCEPT ![o] = state], op[o].at # "write",
         UNCHANGED <<active, decisions, files, changes, stained, age>>,
         \A p \in Ops : p # o /\ alone'[p] => alone[p],
         state.at = "write" /\ Trusted(o)' =>
           \E F \in Books : Toward(Group[o], state.left, F) /\ Agree(Group[o], F, state.age),
         state.at = "evaluate" /\ state.age = changes =>
           state.todo \subseteq decisions /\ state.found = active \X (decisions \ state.todo),
         o = "portfolio_rebuild" /\ state.at = "trades" /\ alone'[o] => state.balance = files.account
  PROVE  BooksInv'
<1>1. op'[o] = state /\ \A p \in Ops : p # o => op'[p] = op[p]
  BY DEF TypeOK
<1>2. ASSUME NEW g \in Groups, Quiet(g)' PROVE Agree(g, files, Known(g))'
  <2>1. Quiet(g)
    BY <1>1, <1>2 DEF Quiet
  <2>2. Agree(g, files, Known(g))
    BY <2>1 DEF BooksInv, QuietInv
  <2>3. QED BY <2>2 DEF Agree, Exact, Known
<1>3. ASSUME NEW p \in Ops, op'[p].at = "write", Trusted(p)'
      PROVE  (\E F \in Books : Toward(Group[p], op[p].left, F) /\ Agree(Group[p], F, op[p].age))'
  <2>1. \E F \in Books : Toward(Group[p], op'[p].left, F) /\ Agree(Group[p], F, op'[p].age)
    <3>1. CASE p = o
      BY <1>1, <1>3, <3>1
    <3>2. CASE p # o
      <4>1. op'[p] = op[p] /\ Trusted(p)
        BY <1>1, <1>3, <3>2 DEF Trusted
      <4>2. QED BY <1>3, <4>1 DEF BooksInv, PendingInv
    <3>3. QED BY <3>1, <3>2
  <2>2. PICK F \in Books : Toward(Group[p], op'[p].left, F) /\ Agree(Group[p], F, op'[p].age)
    BY <2>1
  <2>3. Toward(Group[p], op[p].left, F)'
    BY <2>2 DEF Toward
  <2>4. Agree(Group[p], F, op[p].age)'
    BY <2>2 DEF Agree, Exact
  <2>5. Books' = Books
    OBVIOUS
  <2>6. QED BY <2>3, <2>4
<1>4. ASSUME NEW p \in Ops, op'[p].at = "evaluate", op'[p].age = changes'
      PROVE  op'[p].todo \subseteq decisions' /\ op'[p].found = active' \X (decisions' \ op'[p].todo)
  BY <1>1, <1>4 DEF BooksInv, EvaluationInv
<1>5. ASSUME op'["portfolio_rebuild"].at = "trades", alone'["portfolio_rebuild"]
      PROVE  op'["portfolio_rebuild"].balance = files'.account
  BY <1>1, <1>5, PortfolioOps DEF BooksInv, AccountInv
<1>6. QED BY <1>2, <1>3, <1>4, <1>5 DEF BooksInv, QuietInv, PendingInv, EvaluationInv, AccountInv

\* One write, of a file nobody else has met, brings the files of its group nearer to
\* what the operation has computed; with the last one they are it.
LEMMA WriteKeeps ==
  ASSUME TypeOK, AloneInv, BooksInv, NEW o \in Ops, Write(o)
  PROVE  BooksInv'
<1> DEFINE left == op[o].left
           w == left[1]
           rest == Tail(left)
<1>1. /\ op[o] \in Writing /\ left \in Seq(Entries) /\ left # <<>>
      /\ \A i \in 1..Len(left) : left[i].file \in FilesOf[Group[o]]
      /\ files' \in Books
      /\ \A f \in DOMAIN files : files'[f] = IF f = w.file THEN w.value ELSE files[f]
      /\ op' = [op EXCEPT ![o] = IF Len(left) = 1 THEN Idle ELSE Writes(rest, op[o].age)]
  BY WriteEffect
<1>2. /\ Len(left) \in Nat /\ Len(left) >= 1 /\ Len(rest) = Len(left) - 1
      /\ \A i \in 1..Len(rest) : rest[i] = left[i + 1]
  BY <1>1, TailOf
<1>3. /\ op[o].at = "write"
      /\ stained' = IF Len(left) # 1 THEN stained
                    ELSE IF Trusted(o) THEN stained \ {Group[o]} ELSE stained \cup {Group[o]}
      /\ age' = IF Len(left) = 1 /\ Group[o] \in DOMAIN age THEN [age EXCEPT ![Group[o]] = op[o].age] ELSE age
      /\ alone' = IF Len(left) = 1 THEN [alone EXCEPT ![o] = FALSE] ELSE alone
      /\ UNCHANGED <<active, decisions, changes>>
  BY DEF Write, Trusted
<1>4. /\ \A p \in Ops : p # o => op'[p] = op[p]
      /\ op'[o] = IF Len(left) = 1 THEN Idle ELSE Writes(rest, op[o].age)
      /\ \A p \in Ops : alone'[p] => alone[p]
  BY <1>1, <1>3 DEF TypeOK
<1>5. 1 \in 1..Len(left) /\ w.file \in FilesOf[Group[o]]
  BY <1>1, <1>2
<1>6. /\ \A p \in Ops : Group[p] \in Groups
      /\ \A g \in Groups : FilesOf[g] \subseteq DOMAIN files
      /\ \A g, h \in Groups : g # h => FilesOf[g] \cap FilesOf[h] = {}
  <2>1. \A p \in Ops : Group[p] \in Groups
    BY DEF Ops, Group, Groups
  <2>2. \A g \in Groups : FilesOf[g] \subseteq DOMAIN files
    BY DEF Groups, FilesOf, TypeOK, Books
  <2>3. \A g, h \in Groups : g # h => FilesOf[g] \cap FilesOf[h] = {}
    BY DEF Groups, FilesOf
  <2>4. QED BY <2>1, <2>2, <2>3
<1>7. \A g \in Groups : g # Group[o] => \A f \in FilesOf[g] : files'[f] = files[f]
  BY <1>1, <1>5, <1>6
<1>8. files \in Books /\ age \in [signals : Ages, paper : Ages]
  BY DEF TypeOK
<1>9. ASSUME NEW p \in Ops, p # o, Running(p), alone[p]
      PROVE  Group[p] # Group[o] /\ {Group[p], Group[o]} # {"paper", "portfolio"}
  BY <1>3, <1>9 DEF AloneInv, Running, Meet
<1> HIDE DEF left, rest, w
<1>10. ASSUME NEW g \in Groups, Quiet(g)' PROVE Agree(g, files, Known(g))'
  <2>1. ASSUME NEW F \in Books, NEW known, Agree(g, F, known),
               \A f \in FilesOf[g] : files'[f] = F[f], g # "portfolio" => Known(g)' = known
        PROVE  Agree(g, files, Known(g))'
    <3>1. PICK G \in Books : G = files'
      BY <1>1
    <3>2. Agree(g, G, known)
      BY <2>1, <3>1, AgreeOfFiles
    <3>3. QED BY <1>3, <2>1, <3>1, <3>2 DEF Agree, Exact
  <2>2. CASE g # Group[o]
    <3>1. Quiet(g)
      <4>1. g \notin stained
        BY <1>3, <1>10, <2>2 DEF Quiet
      <4>2. \A p \in Ops : Group[p] = g => op[p].at # "write"
        BY <1>4, <1>10, <2>2 DEF Quiet
      <4>3. QED BY <4>1, <4>2 DEF Quiet
    <3>2. Agree(g, files, Known(g))
      BY <3>1 DEF BooksInv, QuietInv
    <3>3. Known(g)' = Known(g)
      BY <1>3, <1>6, <1>8, <2>2 DEF Known
    <3>4. PICK G \in Books : G = files
      BY <1>8
    <3>5. PICK known : known = Known(g)
      OBVIOUS
    <3>6. QED BY <1>7, <2>1, <2>2, <3>2, <3>3, <3>4, <3>5
  <2>3. CASE g = Group[o]
    <3>1. Len(left) = 1
      BY <1>4, <1>10, <2>3 DEF Quiet, Writes
    <3>2. Trusted(o)
      BY <1>3, <1>10, <2>3, <3>1 DEF Quiet
    <3>3. PICK F \in Books : Toward(g, left, F) /\ Agree(g, F, op[o].age)
      BY <1>3, <2>3, <3>2 DEF BooksInv, PendingInv, left
    <3>4. \A f \in FilesOf[g] : files'[f] = F[f]
      BY <1>1, <1>5, <1>6, <3>1, <3>3 DEF Toward, w
    <3>5. g # "portfolio" => Known(g)' = op[o].age
      BY <1>3, <1>8, <2>3, <3>1 DEF Known, Groups
    <3>6. PICK known : known = op[o].age
      OBVIOUS
    <3>7. QED BY <2>1, <3>3, <3>4, <3>5, <3>6
  <2>4. QED BY <2>2, <2>3
<1>11. ASSUME NEW p \in Ops, op'[p].at = "write", Trusted(p)'
       PROVE  (\E F \in Books : Toward(Group[p], op[p].left, F) /\ Agree(Group[p], F, op[p].age))'
  <2>1. CASE p = o
    <3>1. /\ Len(left) # 1 /\ op'[o].left = rest /\ op'[o].age = op[o].age /\ Trusted(o)
      BY <1>3, <1>4, <1>11, <2>1 DEF Idle, Writes, Trusted
    <3>2. PICK F \in Books : Toward(Group[o], left, F) /\ Agree(Group[o], F, op[o].age)
      BY <1>3, <3>1 DEF BooksInv, PendingInv, left
    <3>3. \A i \in 1..Len(rest) : rest[i].value = F[rest[i].file]
      BY <1>2, <3>2 DEF Toward
    <3>4. ASSUME NEW f \in FilesOf[Group[o]]
          PROVE  files'[f] = F[f] \/ \E i \in 1..Len(rest) : rest[i].file = f
      <4>1. f \in DOMAIN files /\ w.value = F[w.file]
        BY <1>5, <1>6, <3>2 DEF Toward, w
      <4>2. CASE f = w.file
        BY <1>1, <4>1, <4>2
      <4>3. CASE f # w.file /\ files[f] = F[f]
        BY <1>1, <4>1, <4>3
      <4>4. CASE f # w.file /\ files[f] # F[f]
        <5>1. PICK i \in 1..Len(left) : left[i].file = f
          BY <3>2, <4>4 DEF Toward
        <5>2. i # 1
          BY <4>4, <5>1 DEF w
        <5>3. i - 1 \in 1..Len(rest) /\ rest[i - 1] = left[i]
          BY <1>2, <5>1, <5>2
        <5>4. QED BY <5>1, <5>3
      <4>5. QED BY <4>2, <4>3, <4>4
    <3>5. Toward(Group[p], op[p].left, F)'
      BY <2>1, <3>1, <3>3, <3>4 DEF Toward
    <3>6. Agree(Group[p], F, op[p].age)'
      BY <1>3, <2>1, <3>1, <3>2 DEF Agree, Exact
    <3>7. QED BY <3>5, <3>6
  <2>2. CASE p # o
    <3>1. op'[p] = op[p] /\ alone[p]
      BY <1>4, <1>11, <2>2 DEF Trusted
    <3>2. Group[p] # Group[o] /\ {Group[p], Group[o]} # {"paper", "portfolio"}
      BY <1>9, <1>11, <2>2, <3>1 DEF Running
    <3>3. Trusted(p)
      BY <1>3, <1>6, <1>11, <3>1, <3>2 DEF Trusted, Groups
    <3>4. PICK F \in Books : Toward(Group[p], op[p].left, F) /\ Agree(Group[p], F, op[p].age)
      BY <1>11, <3>1, <3>3 DEF BooksInv, PendingInv
    <3>5. Toward(Group[p], op[p].left, F)'
      BY <1>6, <1>7, <3>1, <3>2, <3>4 DEF Toward
    <3>6. Agree(Group[p], F, op[p].age)'
      BY <1>3, <3>1, <3>4 DEF Agree, Exact
    <3>7. QED BY <3>5, <3>6
  <2>3. QED BY <2>1, <2>2
<1>12. ASSUME NEW p \in Ops, op'[p].at = "evaluate", op'[p].age = changes'
       PROVE  op'[p].todo \subseteq decisions' /\ op'[p].found = active' \X (decisions' \ op'[p].todo)
  <2>1. p # o
    BY <1>4, <1>12 DEF Idle, Writes
  <2>2. QED BY <1>3, <1>4, <1>12, <2>1 DEF BooksInv, EvaluationInv
<1>13. ASSUME op'["portfolio_rebuild"].at = "trades", alone'["portfolio_rebuild"]
       PROVE  op'["portfolio_rebuild"].balance = files'.account
  <2>1. o # "portfolio_rebuild"
    BY <1>4, <1>13 DEF Idle, Writes
  <2>2. op'["portfolio_rebuild"] = op["portfolio_rebuild"] /\ alone["portfolio_rebuild"]
    BY <1>4, <1>13, <2>1, PortfolioOps
  <2>3. Group[o] # "paper"
    BY <1>9, <1>13, <2>1, <2>2, PortfolioOps DEF Running
  <2>4. files'.account = files.account
    BY <1>7, <2>3 DEF Groups, FilesOf
  <2>5. QED BY <1>13, <2>2, <2>4 DEF BooksInv, AccountInv
<1>14. QED BY <1>10, <1>11, <1>12, <1>13 DEF BooksInv, QuietInv, PendingInv, EvaluationInv, AccountInv

\* What an operation sets out to write is what it will have written.
LEMMA TowardAll ==
  ASSUME NEW g \in Groups, NEW left, NEW F, NEW n \in Nat, Len(left) = n,
         \A i \in 1..n : left[i].value = F[left[i].file],
         \A f \in FilesOf[g] : \E i \in 1..n : left[i].file = f
  PROVE  Toward(g, left, F)
BY DEF Toward

\* What evaluate_all has found of the decisions it started from is what the active
\* strategies find in them, unless something has changed since.
LEMMA EvaluationKeeps ==
  ASSUME TypeOK, BooksInv, NEW o \in Ops,
         StartEvaluation(o) \/ EvaluateOne(o) \/ SaveEvaluations(o)
  PROVE  BooksInv'
<1>1. op \in [Ops -> {Idle} \cup Evaluating \cup Reading \cup Writing] /\ files \in Books
  BY DEF TypeOK
<1>2. \A p \in Ops : Group[p] = "signals" => p # "portfolio_rebuild"
  BY PortfolioOps
<1>3. CASE StartEvaluation(o)
  <2>1. PICK state : state = [at |-> "evaluate", todo |-> decisions, found |-> {}, age |-> changes]
    OBVIOUS
  <2>2. /\ op' = [op EXCEPT ![o] = state] /\ op[o].at = "idle"
        /\ UNCHANGED <<active, decisions, files, changes, stained, age>>
        /\ \A p \in Ops : p # o /\ alone'[p] => alone[p]
    BY <1>3, <2>1 DEF StartEvaluation, Begin, Running
  <2>3. state.todo \subseteq decisions /\ state.found = active \X (decisions \ state.todo)
    BY <2>1
  <2>4. state.at = "evaluate"
    BY <2>1
  <2>5. QED BY <2>2, <2>3, <2>4, StepKeeps
<1>4. CASE EvaluateOne(o)
  <2>1. op[o] \in Evaluating /\ Group[o] = "signals"
    BY <1>1, <1>4 DEF EvaluateOne, TypeOK, Idle, Reading, Writing
  <2>2. PICK d \in op[o].todo :
          op' = [op EXCEPT ![o] =
                  IF d \in Raising /\ ActiveStrategies # {} THEN Idle
                  ELSE [at |-> "evaluate", todo |-> op[o].todo \ {d},
                        found |-> op[o].found \cup {<<st, d>> : st \in ActiveStrategies}, age |-> op[o].age]]
    BY <1>4 DEF EvaluateOne
  <2>3. PICK state :
          state = IF d \in Raising /\ ActiveStrategies # {} THEN Idle
                  ELSE [at |-> "evaluate", todo |-> op[o].todo \ {d},
                        found |-> op[o].found \cup {<<st, d>> : st \in ActiveStrategies}, age |-> op[o].age]
    OBVIOUS
  <2>4. state.at \in {"idle", "evaluate"}
    BY <2>3 DEF Idle
  <2>5. ASSUME state.at = "evaluate", state.age = changes
        PROVE  state.todo \subseteq decisions /\ state.found = active \X (decisions \ state.todo)
    <3>1. /\ state.todo = op[o].todo \ {d} /\ state.age = op[o].age
          /\ state.found = op[o].found \cup {<<st, d>> : st \in active}
      BY <2>3, <2>5 DEF Idle, ActiveStrategies
    <3>2. op[o].todo \subseteq decisions /\ op[o].found = active \X (decisions \ op[o].todo)
      BY <1>4, <2>5, <3>1 DEF EvaluateOne, BooksInv, EvaluationInv
    <3>3. decisions \ state.todo = (decisions \ op[o].todo) \cup {d}
      BY <2>2, <3>1, <3>2
    <3>4. active \X ((decisions \ op[o].todo) \cup {d})
            = (active \X (decisions \ op[o].todo)) \cup {<<st, d>> : st \in active}
      OBVIOUS
    <3>5. QED BY <3>1, <3>2, <3>3, <3>4
  <2>6. UNCHANGED <<active, decisions, files, changes, stained, age, alone>> /\ op[o].at # "write"
    BY <1>4 DEF EvaluateOne
  <2>7. op' = [op EXCEPT ![o] = state]
    BY <2>2, <2>3
  <2>8. QED BY <1>2, <2>4, <2>5, <2>6, <2>7, StepKeeps
<1>5. CASE SaveEvaluations(o)
  <2>1. op[o] \in Evaluating /\ Group[o] = "signals"
    BY <1>1, <1>5 DEF SaveEvaluations, TypeOK, Idle, Reading, Writing
  <2> DEFINE list == <<W("evaluations", op[o].found), W("approved", op[o].found \cap Approves)>>
             F == [files EXCEPT !.evaluations = op[o].found, !.approved = op[o].found \cap Approves]
  <2>2. PICK state : state = Writes(list, op[o].age)
    OBVIOUS
  <2>3. /\ op' = [op EXCEPT ![o] = state] /\ op[o].at = "evaluate" /\ op[o].todo = {}
        /\ UNCHANGED <<active, decisions, files, changes, stained, age, alone>>
    BY <1>5, <2>2 DEF SaveEvaluations
  <2>4. /\ F \in Books
        /\ F["evaluations"] = op[o].found /\ F["approved"] = op[o].found \cap Approves
    BY <1>1, <2>1 DEF Books, Evaluating
  <2> HIDE DEF F
  <2>5. Toward("signals", list, F)
    <3>1. Len(list) = 2 /\ "signals" \in Groups
      BY DEF Groups
    <3>2. \A i \in 1..2 : list[i].value = F[list[i].file]
      BY <2>4 DEF W
    <3>3. list[1].file = "evaluations" /\ list[2].file = "approved" /\ FilesOf["signals"] = {"evaluations", "approved"}
      BY DEF W, FilesOf
    <3>4. \A f \in FilesOf["signals"] : \E i \in 1..2 : list[i].file = f
      BY <3>3
    <3> HIDE DEF list
    <3>5. QED BY <3>1, <3>2, <3>4, TowardAll
  <2>6. Agree("signals", F, op[o].age)
    <3>1. ASSUME op[o].age = changes PROVE op[o].found = active \X decisions
      BY <2>3, <3>1 DEF BooksInv, EvaluationInv
    <3>2. op[o].age = changes => F.approved = Exact
      BY <2>4, <3>1 DEF Exact
    <3>3. QED BY <3>2 DEF Agree
  <2>7. state.at = "write" /\ state.left = list /\ state.age = op[o].age
    BY <2>2 DEF Writes
  <2>8. \E G \in Books : Toward(Group[o], state.left, G) /\ Agree(Group[o], G, state.age)
    BY <2>1, <2>4, <2>5, <2>6, <2>7
  <2>9. QED BY <1>2, <2>1, <2>3, <2>7, <2>8, StepKeeps
<1>6. QED BY <1>3, <1>4, <1>5

\* An account rebuilt or reset adds up, and its positions are those of the approved signals
\* that can be traded.
LEMMA PaperKeeps ==
  ASSUME TypeOK, BooksInv, PaperRebuild \/ PaperReset
  PROVE  BooksInv'
<1>1. files \in Books /\ age \in [signals : Ages, paper : Ages] /\ changes \in Nat
  BY BooksAssumption DEF TypeOK
<1>2. /\ "paper_rebuild" \in Ops /\ Group["paper_rebuild"] = "paper"
      /\ "paper_reset" \in Ops /\ Group["paper_reset"] = "paper"
      /\ "paper" \in Groups
  BY DEF Ops, Group, Groups
<1>3. ASSUME NEW o \in Ops, Group[o] = "paper", NEW trades \in Trades, NEW positions \in SUBSET Signals,
             NEW known, DOMAIN trades \subseteq positions, known = changes => positions \in Taken(Exact),
             Begin(o, Writes(<<W("account", START + Sum(trades)), W("positions", positions),
                               W("trades", trades), W("statistics", Sum(trades))>>, known))
      PROVE  BooksInv'
  <2> DEFINE list == <<W("account", START + Sum(trades)), W("positions", positions),
                       W("trades", trades), W("statistics", Sum(trades))>>
             F == [files EXCEPT !.account = START + Sum(trades), !.positions = positions,
                                !.trades = trades, !.statistics = Sum(trades)]
  <2>1. PICK state : state = Writes(list, known)
    OBVIOUS
  <2>2. /\ op' = [op EXCEPT ![o] = state] /\ op[o].at = "idle"
        /\ UNCHANGED <<active, decisions, files, changes, stained, age>>
        /\ \A p \in Ops : p # o /\ alone'[p] => alone[p]
    BY <1>3, <2>1 DEF Begin, Running
  <2>3. Sum(trades) \in Profits /\ START + Sum(trades) \in Balances
    BY DEF Profits, Balances
  <2>4. /\ F \in Books
        /\ F["account"] = START + Sum(trades) /\ F["positions"] = positions
        /\ F["trades"] = trades /\ F["statistics"] = Sum(trades)
    BY <1>1, <2>3 DEF Books
  <2> HIDE DEF F
  <2>5. Toward("paper", list, F)
    <3>1. Len(list) = 4
      OBVIOUS
    <3>2. \A i \in 1..4 : list[i].value = F[list[i].file]
      BY <2>4 DEF W
    <3>3. /\ list[1].file = "account" /\ list[2].file = "positions"
          /\ list[3].file = "trades" /\ list[4].file = "statistics"
          /\ FilesOf["paper"] = {"account", "positions", "trades", "statistics"}
      BY DEF W, FilesOf
    <3>4. \A f \in FilesOf["paper"] : \E i \in 1..4 : list[i].file = f
      BY <3>3
    <3> HIDE DEF list
    <3>5. QED BY <1>2, <3>1, <3>2, <3>4, TowardAll
  <2>6. Agree("paper", F, known)
    BY <1>3, <2>4 DEF Agree
  <2>7. state.at = "write" /\ state.left = list /\ state.age = known
    BY <2>1 DEF Writes
  <2>8. \E G \in Books : Toward(Group[o], state.left, G) /\ Agree(Group[o], G, state.age)
    BY <1>3, <2>4, <2>5, <2>6, <2>7
  <2>9. QED BY <1>3, <2>2, <2>7, <2>8, StepKeeps
<1>4. CASE PaperRebuild
  <2>0. PICK taken \in Taken(files.approved) : \E outcome \in [taken -> Outcomes] :
          LET trades == [s \in {t \in taken : outcome[t] # Open} |-> outcome[s]]
          IN Begin("paper_rebuild",
               Writes(<<W("account", Opening + Sum(trades)), W("positions", taken),
                        W("trades", trades), W("statistics", Sum(trades))>>,
                      IF Settled("signals") THEN age.signals ELSE -1))
    BY <1>4 DEF PaperRebuild
  <2>1. PICK outcome \in [taken -> Outcomes] :
          LET trades == [s \in {t \in taken : outcome[t] # Open} |-> outcome[s]]
          IN Begin("paper_rebuild",
               Writes(<<W("account", Opening + Sum(trades)), W("positions", taken),
                        W("trades", trades), W("statistics", Sum(trades))>>,
                      IF Settled("signals") THEN age.signals ELSE -1))
    BY <2>0
  <2> DEFINE D == {t \in taken : outcome[t] # Open}
             trades == [s \in D |-> outcome[s]]
             known == IF Settled("signals") THEN age.signals ELSE -1
  <2>2. taken \in SUBSET Signals
    BY <1>1 DEF Books, Taken, OnePerId
  <2>3. trades \in Trades /\ DOMAIN trades \subseteq taken
    <3>1. trades \in [D -> Outcomes] /\ DOMAIN trades \subseteq taken
      OBVIOUS
    <3>2. D \in SUBSET Signals
      BY <2>2
    <3> HIDE DEF D, trades
    <3>3. QED BY <3>1, <3>2 DEF Trades
  <2>4. ASSUME known = changes PROVE taken \in Taken(Exact)
    <3>1. Settled("signals") /\ age.signals = changes
      BY <1>1, <2>4
    <3>2. Quiet("signals")
      BY <3>1 DEF Quiet, Settled, Running
    <3>3. Known("signals") = age.signals
      BY <1>1 DEF Known
    <3>4. files.approved = Exact
      BY <3>1, <3>2, <3>3 DEF BooksInv, QuietInv, Agree, Groups
    <3>5. QED BY <3>4
  <2>5. Begin("paper_rebuild",
          Writes(<<W("account", START + Sum(trades)), W("positions", taken),
                   W("trades", trades), W("statistics", Sum(trades))>>, known))
    BY <2>1 DEF Opening
  <2> HIDE DEF trades, known
  <2>6. QED BY <1>2, <1>3, <2>2, <2>3, <2>4, <2>5
<1>5. CASE PaperReset
  <2>1. NoTrades \in Trades /\ DOMAIN NoTrades = {}
    BY EmptyTypes DEF NoTrades
  <2>2. START + Sum(NoTrades) = START
    BY EmptySum DEF START
  <2>3. Begin("paper_reset",
          Writes(<<W("account", START + Sum(NoTrades)), W("positions", {}),
                   W("trades", NoTrades), W("statistics", Sum(NoTrades))>>, -1))
    BY <1>5, <2>2, EmptySum DEF PaperReset
  <2>4. -1 # changes
    BY <1>1
  <2>5. QED BY <1>2, <1>3, <2>1, <2>3, <2>4
<1>6. QED BY <1>4, <1>5

\* A portfolio that was rebuilt while nobody touched the account shows one account.
LEMMA PortfolioKeeps ==
  ASSUME TypeOK, AloneInv, BooksInv,
         PortfolioRebuild \/ ReadAccount \/ ReadTrades \/ PortfolioReset
  PROVE  BooksInv'
<1> DEFINE rebuild == "portfolio_rebuild"
<1>1. /\ op \in [Ops -> {Idle} \cup Evaluating \cup Reading \cup Writing]
      /\ files \in Books /\ "portfolio" \in Groups
  BY DEF TypeOK, Groups
<1>2. ASSUME NEW o \in Ops, Group[o] = "portfolio", NEW summary \in Accounts, NEW history \in Histories,
             NEW CONSTANT state,
             state = Writes(<<W("portfolio", summary), W("portfolio_statistics", summary),
                              W("history", history)>>, 0),
             Trusted(o)' => summary.balance = START + summary.realized,
             history # <<>> => Last(history) = summary,
             op' = [op EXCEPT ![o] = state], op[o].at # "write",
             UNCHANGED <<active, decisions, files, changes, stained, age>>,
             \A p \in Ops : p # o /\ alone'[p] => alone[p]
      PROVE  BooksInv'
  <2> DEFINE list == <<W("portfolio", summary), W("portfolio_statistics", summary), W("history", history)>>
             F == [files EXCEPT !.portfolio = summary, !.portfolio_statistics = summary, !.history = history]
  <2>1. /\ F \in Books
        /\ F["portfolio"] = summary /\ F["portfolio_statistics"] = summary /\ F["history"] = history
    BY <1>1 DEF Books
  <2> HIDE DEF F
  <2>2. Toward("portfolio", list, F)
    <3>1. Len(list) = 3
      OBVIOUS
    <3>2. \A i \in 1..3 : list[i].value = F[list[i].file]
      BY <2>1 DEF W
    <3>3. /\ list[1].file = "portfolio" /\ list[2].file = "portfolio_statistics" /\ list[3].file = "history"
          /\ FilesOf["portfolio"] = {"portfolio", "portfolio_statistics", "history"}
      BY DEF W, FilesOf
    <3>4. \A f \in FilesOf["portfolio"] : \E i \in 1..3 : list[i].file = f
      BY <3>3
    <3> HIDE DEF list
    <3>5. QED BY <1>1, <3>1, <3>2, <3>4, TowardAll
  <2>3. Trusted(o)' => Agree("portfolio", F, 0)
    BY <1>2, <2>1 DEF Agree
  <2>4. state.at = "write" /\ state.left = list /\ state.age = 0
    BY <1>2 DEF Writes
  <2>5. Trusted(o)' => \E G \in Books : Toward(Group[o], state.left, G) /\ Agree(Group[o], G, state.age)
    BY <1>2, <2>1, <2>2, <2>3, <2>4
  <2>6. QED BY <1>2, <2>4, <2>5, StepKeeps
<1>3. CASE PortfolioRebuild
  <2>1. PICK state : state = [at |-> "account", history |-> files.history]
    OBVIOUS
  <2>2. /\ op' = [op EXCEPT ![rebuild] = state] /\ op[rebuild].at = "idle"
        /\ UNCHANGED <<active, decisions, files, changes, stained, age>>
        /\ \A p \in Ops : p # rebuild /\ alone'[p] => alone[p]
    BY <1>3, <2>1 DEF PortfolioRebuild, Begin, Running
  <2>3. state.at = "account"
    BY <2>1
  <2>4. QED BY <2>2, <2>3, StepKeeps, PortfolioOps
<1>4. CASE ReadAccount
  <2>1. PICK state : state = [at |-> "trades", history |-> op[rebuild].history, balance |-> files.account]
    OBVIOUS
  <2>2. /\ op' = [op EXCEPT ![rebuild] = state] /\ op[rebuild].at = "account"
        /\ UNCHANGED <<active, decisions, files, changes, stained, age, alone>>
    BY <1>4, <2>1 DEF ReadAccount
  <2>3. state.at = "trades" /\ state.balance = files.account
    BY <2>1
  <2>4. QED BY <2>2, <2>3, StepKeeps, PortfolioOps
<1>5. CASE ReadTrades
  <2> DEFINE me == op[rebuild]
             summary == [balance |-> me.balance, realized |-> Sum(files.trades)]
             history == Kept(Append(me.history, summary))
  <2>1. me.at = "trades" /\ me \in [at : {"trades"}, history : Histories, balance : Balances]
    BY <1>1, <1>5, PortfolioOps DEF ReadTrades, Idle, Evaluating, Reading, Writing
  <2>2. summary \in Accounts
    BY <1>1, <2>1 DEF Accounts, Books, Profits
  <2>3. history \in Histories /\ Last(history) = summary
    BY <2>1, <2>2, KeptAdds
  <2>4. UNCHANGED <<active, decisions, files, changes, stained, age, alone>>
    BY <1>5 DEF ReadTrades
  <2>5. PICK state : state = Writes(<<W("portfolio", summary), W("portfolio_statistics", summary),
                                      W("history", history)>>, 0)
    OBVIOUS
  <2>6. op' = [op EXCEPT ![rebuild] = state]
    BY <1>5, <2>5 DEF ReadTrades
  <2>7. ASSUME Trusted(rebuild)' PROVE summary.balance = START + summary.realized
    <3>1. alone[rebuild] /\ "paper" \notin stained
      BY <2>4, <2>7, PortfolioOps DEF Trusted
    <3>2. ASSUME NEW p \in Ops, Group[p] = "paper" PROVE op[p].at # "write"
      <4>1. p # rebuild /\ Meet(rebuild, p)
        BY <3>2, PortfolioOps DEF Meet
      <4>2. ~Running(p)
        BY <2>1, <3>1, <4>1, PortfolioOps DEF AloneInv, Running
      <4>3. QED BY <4>2 DEF Running
    <3>3. Quiet("paper")
      BY <3>1, <3>2 DEF Quiet
    <3>4. files.account = START + Sum(files.trades)
      BY <3>3 DEF BooksInv, QuietInv, Agree, Groups
    <3>5. me.balance = files.account
      BY <2>1, <3>1 DEF BooksInv, AccountInv
    <3>6. QED BY <3>4, <3>5
  <2> HIDE DEF summary, history
  <2>8. QED BY <1>2, <2>1, <2>2, <2>3, <2>4, <2>5, <2>6, <2>7, PortfolioOps
<1>6. CASE PortfolioReset
  <2>1. PICK state : state = Writes(<<W("portfolio", EmptyAccount), W("portfolio_statistics", EmptyAccount),
                                      W("history", <<>>)>>, 0)
    OBVIOUS
  <2>2. /\ op' = [op EXCEPT !["portfolio_reset"] = state] /\ op["portfolio_reset"].at = "idle"
        /\ UNCHANGED <<active, decisions, files, changes, stained, age>>
        /\ \A p \in Ops : p # "portfolio_reset" /\ alone'[p] => alone[p]
    BY <1>6, <2>1 DEF PortfolioReset, Begin, Running
  <2>3. EmptyAccount.balance = START + EmptyAccount.realized
    BY DEF EmptyAccount, START
  <2>4. QED BY <1>2, <2>1, <2>2, <2>3, EmptyTypes, PortfolioOps
<1>7. QED BY <1>3, <1>4, <1>5, <1>6

\* A change of the strategies or of the decisions makes every file one change older,
\* and a death leaves the groups that were being written untrusted.
LEMMA AroundKeeps ==
  ASSUME TypeOK, BooksInv, MutateStrategy \/ NewDecisions \/ Crash
  PROVE  BooksInv'
<1>1. /\ op \in [Ops -> {Idle} \cup Evaluating \cup Reading \cup Writing]
      /\ changes \in Nat /\ age \in [signals : Ages, paper : Ages]
  BY BooksAssumption DEF TypeOK
<1>2. CASE MutateStrategy \/ NewDecisions
  <2>1. changes' = changes + 1 /\ UNCHANGED <<files, op, alone, stained, age>>
    BY <1>2 DEF MutateStrategy, NewDecisions
  <2>2. \A g : Known(g) \in Ages
    <3>1. 0 \in Ages
      BY <1>1 DEF Ages
    <3>2. QED BY <1>1, <3>1 DEF Known
  <2>3. ASSUME NEW g \in Groups, Quiet(g)' PROVE Agree(g, files, Known(g))'
    <3>1. Agree(g, files, Known(g))
      BY <2>1, <2>3 DEF BooksInv, QuietInv, Quiet
    <3>2. Known(g)' = Known(g)
      BY <2>1 DEF Known
    <3>3. Known(g) # changes'
      BY <1>1, <2>1, <2>2 DEF Ages
    <3>4. QED BY <2>1, <3>1, <3>2, <3>3 DEF Agree
  <2>4. ASSUME NEW p \in Ops, op'[p].at = "write", Trusted(p)'
        PROVE  (\E F \in Books : Toward(Group[p], op[p].left, F) /\ Agree(Group[p], F, op[p].age))'
    <3>1. op[p].at = "write" /\ Trusted(p)
      BY <2>1, <2>4 DEF Trusted
    <3>2. PICK F \in Books : Toward(Group[p], op[p].left, F) /\ Agree(Group[p], F, op[p].age)
      BY <3>1 DEF BooksInv, PendingInv
    <3>3. op[p].age \in Ages
      BY <1>1, <3>1 DEF Idle, Evaluating, Reading, Writing
    <3>4. op[p].age # changes'
      BY <1>1, <2>1, <3>3 DEF Ages
    <3>5. Toward(Group[p], op[p].left, F)'
      BY <2>1, <3>2 DEF Toward
    <3>6. Agree(Group[p], F, op[p].age)'
      BY <2>1, <3>2, <3>4 DEF Agree
    <3>7. QED BY <3>5, <3>6
  <2>5. ASSUME NEW p \in Ops, op'[p].at = "evaluate" PROVE op'[p].age # changes'
    <3>1. op[p].age \in Ages
      BY <1>1, <2>1, <2>5 DEF Idle, Evaluating, Reading, Writing
    <3>2. QED BY <1>1, <2>1, <3>1 DEF Ages
  <2>6. AccountInv'
    BY <2>1 DEF BooksInv, AccountInv
  <2>7. QED BY <2>3, <2>4, <2>5, <2>6 DEF BooksInv, QuietInv, PendingInv, EvaluationInv
<1>3. CASE Crash
  <2>1. /\ op' = [o \in Ops |-> Idle]
        /\ stained' = stained \cup {Group[o] : o \in {p \in Ops : op[p].at = "write"}}
        /\ UNCHANGED <<active, decisions, files, changes, age>>
    BY <1>3 DEF Crash
  <2>2. \A p \in Ops : op'[p].at = "idle"
    BY <2>1 DEF Idle
  <2>3. ASSUME NEW g \in Groups, Quiet(g)' PROVE Agree(g, files, Known(g))'
    <3>1. Quiet(g)
      BY <2>1, <2>3 DEF Quiet
    <3>2. Agree(g, files, Known(g))
      BY <3>1 DEF BooksInv, QuietInv
    <3>3. QED BY <2>1, <3>2 DEF Agree, Exact, Known
  <2>4. QED BY <2>2, <2>3, PortfolioOps DEF BooksInv, QuietInv, PendingInv, EvaluationInv, AccountInv
<1>4. QED BY <1>2, <1>3

LEMMA InitBooks == Init => BooksInv
<1> SUFFICES ASSUME Init PROVE BooksInv
  OBVIOUS
<1>1. changes = 0 /\ age.signals = -1 /\ age.paper = -1 /\ DOMAIN age = {"signals", "paper"}
  BY DEF Init
<1>2. \A o \in Ops : op[o].at = "idle"
  BY DEF Init, Idle
<1>3. Agree("signals", files, Known("signals"))
  BY <1>1 DEF Agree, Known
<1>4. Agree("paper", files, Known("paper"))
  <2>1. /\ files.account = START /\ files.trades = NoTrades /\ files.statistics = 0
        /\ DOMAIN files.trades = {}
    BY DEF Init, NoTrades
  <2>2. START = START + Sum(NoTrades)
    BY EmptySum DEF START
  <2>3. QED BY <1>1, <2>1, <2>2, EmptySum DEF Agree, Known
<1>5. Agree("portfolio", files, Known("portfolio"))
  BY DEF Init, Agree, EmptyAccount, START
<1>6. QED
  BY <1>2, <1>3, <1>4, <1>5, PortfolioOps
  DEF BooksInv, QuietInv, PendingInv, EvaluationInv, AccountInv, Groups

LEMMA BooksInductive == TypeOK /\ AloneInv /\ BooksInv /\ [Next]_vars => BooksInv'
<1> SUFFICES ASSUME TypeOK, AloneInv, BooksInv, [Next]_vars PROVE BooksInv'
  OBVIOUS
<1>1. CASE UNCHANGED vars
  <2>1. UNCHANGED <<active, decisions, files, op, changes, alone, stained, age>>
    BY <1>1 DEF vars
  <2>2. QuietInv'
    BY <2>1 DEF BooksInv, QuietInv, Quiet, Known, Agree, Exact
  <2>3. PendingInv'
    <3>1. \A p \in Ops : Trusted(p)' = Trusted(p)
      BY <2>1 DEF Trusted
    <3>2. \A p \in Ops : \A F \in Books : Toward(Group[p], op[p].left, F) => Toward(Group[p], op[p].left, F)'
      BY <2>1 DEF Toward
    <3>3. \A p \in Ops : \A F \in Books : Agree(Group[p], F, op[p].age) => Agree(Group[p], F, op[p].age)'
      BY <2>1 DEF Agree, Exact
    <3>4. QED BY <2>1, <3>1, <3>2, <3>3 DEF BooksInv, PendingInv
  <2>4. EvaluationInv' /\ AccountInv'
    BY <2>1 DEF BooksInv, EvaluationInv, AccountInv
  <2>5. QED BY <2>2, <2>3, <2>4 DEF BooksInv
<1>2. CASE Next
  BY <1>2, EvaluationKeeps, WriteKeeps, PaperKeeps, PortfolioKeeps, AroundKeeps DEF Next
<1>3. QED BY <1>1, <1>2

LEMMA Inductive == Spec => [](TypeOK /\ AloneInv /\ BooksInv)
BY InitTypes, InitAlone, InitBooks, TypeInductive, AloneInductive, BooksInductive, PTL DEF Spec

\* A settled group is quiet, so its files agree.
LEMMA SettledAgree ==
  ASSUME BooksInv, NEW g \in Groups, Settled(g)
  PROVE  Agree(g, files, Known(g))
<1>1. Quiet(g)
  BY DEF Settled, Quiet, Running
<1>2. QED BY <1>1 DEF BooksInv, QuietInv

\* Once an undisturbed evaluation has run after the last change of strategies and
\* decisions, approved_signals.json is exactly what the active strategies approve,
\* and after an undisturbed paper rebuild the positions are those of them that can be
\* traded, one of each id.
THEOREM FreshFilesExact == Spec => []FreshIsExact
<1>1. TypeOK /\ BooksInv => FreshIsExact
  <2> SUFFICES ASSUME TypeOK, BooksInv PROVE FreshIsExact
    OBVIOUS
  <2>1. Known("signals") = age.signals /\ Known("paper") = age.paper
    BY DEF TypeOK, Known
  <2>2. "signals" \in Groups /\ "paper" \in Groups
    BY DEF Groups
  <2>3. ASSUME Settled("signals"), age.signals = changes PROVE files.approved = Exact
    BY <2>1, <2>2, <2>3, SettledAgree DEF Agree
  <2>4. ASSUME Settled("paper"), age.paper = changes PROVE files.positions \in Taken(Exact)
    BY <2>1, <2>2, <2>4, SettledAgree DEF Agree
  <2>5. QED BY <2>3, <2>4 DEF FreshIsExact, Exact
<1>2. QED BY <1>1, Inductive, PTL

\* Whenever the paper account was last written by an operation that met no other and
\* nobody is writing it, its four files agree: no trade is booked twice, lost or
\* without a position, whatever the candles made of the positions.
THEOREM AccountsAdd == Spec => []AccountAdds
<1>1. BooksInv => AccountAdds
  BY SettledAgree DEF AccountAdds, Agree, Groups
<1>2. QED BY <1>1, Inductive, PTL

\* A portfolio rebuilt while nobody touched the account shows the balance and the
\* profit of one paper rebuild, though it reads the files one after the other.
THEOREM PortfolioIsOnePicture == Spec => []PortfolioOfOneAccount
<1>1. BooksInv => PortfolioOfOneAccount
  BY SettledAgree DEF PortfolioOfOneAccount, Agree, Groups
<1>2. QED BY <1>1, Inductive, PTL
=============================================================================
