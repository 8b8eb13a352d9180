----------------------- MODULE ExecutionGatewayProofs -----------------------
(***************************************************************************)
(* Proofs about ExecutionGateway, for every set of signals, every set of   *)
(* requested operations and every set of faults.                           *)
(***************************************************************************)
EXTENDS ExecutionGateway, TLAPS

LEMMA OpNamesDistinct ==
  /\ Builders \subseteq OpNames
  /\ Dispatch \in OpNames \ Builders
  /\ Cancel \in OpNames \ Builders
  /\ KillSwitch \in OpNames \ Builders
  /\ Dispatch # Cancel /\ Dispatch # KillSwitch /\ Cancel # KillSwitch
  /\ FreeLock \notin OpNames
BY DEF Builders, OpNames, Dispatch, Cancel, KillSwitch, FreeLock

\* Ending a request keeps the types of the in-memory objects.
LEMMA FinishType ==
  ASSUME TypeOK, NEW op \in OpNames, Finish(op)
  PROVE  /\ pc' \in [OpNames -> {"idle", "next", "decide", "wait", "load", "place",
                                 "save", "save_orders", "save_results", "save_state"}]
         /\ todo' \in [Builders -> SUBSET Signals]
         /\ current' \in [Builders -> SUBSET Signals]
         /\ loaded' \in [OpNames -> Seq(Order)]
         /\ target' \in [OpNames -> SUBSET Signals]
<1>1. <<>> \in Seq(Order)
  OBVIOUS
<1>2. QED BY <1>1 DEF TypeOK, Finish

LEMMA NewOrderType ==
  ASSUME NEW s \in Signals, NEW fit \in BOOLEAN
  PROVE  /\ NewOrder(s, fit) \in Order
         /\ NewOrder(s, fit).signal = s
<1>1. MinVolume[s] \in Nat
  BY SignalAssumption
<1>2. QED BY <1>1 DEF NewOrder, Order, OrderStatus

\* The adapter settles an order without touching its signal or its volume.
LEMMA OutcomeType ==
  ASSUME NEW o \in Order
  PROVE  /\ Outcome(o) \in {"FAILED", "DRY_RUN_COMPLETED"}
         /\ [o EXCEPT !.status = Outcome(o)] \in Order
         /\ [signal |-> o.signal, status |-> Outcome(o)] \in Result
BY DEF Outcome, Order, OrderStatus, Result

LEMMA CancelledType ==
  ASSUME NEW o \in Order, NEW s \in Signals
  PROVE  /\ Cancelled(o, s) \in Order
         /\ Cancelled(o, s).signal = o.signal
BY DEF Cancelled, Order, OrderStatus

LEMMA InitType == Init => TypeOK
<1> SUFFICES ASSUME Init PROVE TypeOK
  OBVIOUS
<1>1. <<>> \in Seq(Order) /\ <<>> \in Seq(Result)
  OBVIOUS
<1>2. lock \in Builders \cup {"execution_dispatch", FreeLock}
  BY DEF Init
<1>3. placed \in [Signals -> 0..2]
  BY DEF Init
<1>4. loaded \in [OpNames -> Seq(Order)]
  BY <1>1 DEF Init
<1>5. /\ todo \in [Builders -> SUBSET Signals]
      /\ current \in [Builders -> SUBSET Signals]
      /\ target \in [OpNames -> SUBSET Signals]
  BY DEF Init
<1>6. pc \in [OpNames -> {"idle", "next", "decide", "wait", "load", "place",
                         "save", "save_orders", "save_results", "save_state"}]
  BY DEF Init
<1>7. cursor \in Nat \ {0}
  BY DEF Init
<1>8. QED BY <1>1, <1>2, <1>3, <1>4, <1>5, <1>6, <1>7 DEF Init, TypeOK

LEMMA NextType == TypeOK /\ [Next]_vars => TypeOK'
<1> SUFFICES ASSUME TypeOK, [Next]_vars PROVE TypeOK'
  OBVIOUS
<1> USE OpNamesDistinct
<1>1. ASSUME NEW op \in Builders, BuildRequest(op) PROVE TypeOK'
  BY <1>1 DEF BuildRequest, TypeOK, files, history
<1>2. ASSUME NEW op \in Builders, BuildAcquire(op) PROVE TypeOK'
  <2>1. PICK s \in todo[op] :
          /\ todo' = [todo EXCEPT ![op] = @ \ {s}]
          /\ IF HasOrder(orderFile, s)
             THEN UNCHANGED <<lock, pc, current, loaded>>
             ELSE /\ lock' = op
                  /\ pc' = [pc EXCEPT ![op] = "decide"]
                  /\ current' = [current EXCEPT ![op] = {s}]
                  /\ loaded' = [loaded EXCEPT ![op] = orderFile]
    BY <1>2 DEF BuildAcquire
  <2>2. todo' \in [Builders -> SUBSET Signals]
    BY <2>1 DEF TypeOK
  <2>3. CASE HasOrder(orderFile, s)
    BY <1>2, <2>1, <2>2, <2>3 DEF BuildAcquire, TypeOK, files, history
  <2>4. CASE ~HasOrder(orderFile, s)
    <3>1. s \in Signals
      BY <2>1 DEF TypeOK
    <3>2. /\ lock' = op
          /\ pc' = [pc EXCEPT ![op] = "decide"]
          /\ current' = [current EXCEPT ![op] = {s}]
          /\ loaded' = [loaded EXCEPT ![op] = orderFile]
      BY <2>1, <2>4
    <3>3. current' \in [Builders -> SUBSET Signals]
      BY <3>1, <3>2 DEF TypeOK
    <3>4. QED BY <1>2, <2>2, <3>2, <3>3 DEF BuildAcquire, TypeOK, files, history
  <2>5. QED BY <2>3, <2>4
<1>3. ASSUME NEW op \in Builders, BuildDecide(op) PROVE TypeOK'
  <2>1. PICK s \in current[op] \ Malformed, fit \in BOOLEAN :
          loaded' = [loaded EXCEPT ![op] = Append(@, NewOrder(s, fit))]
    BY <1>3 DEF BuildDecide
  <2>2. s \in Signals
    BY <2>1 DEF TypeOK
  <2>3. Append(loaded[op], NewOrder(s, fit)) \in Seq(Order)
    BY <2>2, NewOrderType DEF TypeOK
  <2>4. loaded' \in [OpNames -> Seq(Order)]
    BY <2>1, <2>3 DEF TypeOK
  <2>5. QED BY <1>3, <2>4 DEF BuildDecide, TypeOK, files, history
<1>4. ASSUME NEW op \in Builders, BuildRaises(op) PROVE TypeOK'
  BY <1>4, FinishType DEF BuildRaises, Release, TypeOK, files, history
<1>5. ASSUME NEW op \in Builders, BuildSave(op) PROVE TypeOK'
  <2>1. <<>> \in Seq(Order)
    OBVIOUS
  <2>2. QED BY <1>5, <2>1 DEF BuildSave, Release, TypeOK, history
<1>6. ASSUME NEW op \in Builders, BuildReturn(op) PROVE TypeOK'
  BY <1>6, FinishType DEF BuildReturn, TypeOK, files, history
<1>7. ASSUME DispatchRequest PROVE TypeOK'
  BY <1>7 DEF DispatchRequest, TypeOK, files, history
<1>8. ASSUME DispatchAcquire PROVE TypeOK'
  BY <1>8 DEF DispatchAcquire, Dispatch, TypeOK, files, history
<1>9. ASSUME DispatchLoad PROVE TypeOK'
  BY <1>9 DEF DispatchLoad, TypeOK, files, history
<1>10. ASSUME DispatchBlockedByKill PROVE TypeOK'
  <2>1. <<>> \in Seq(Result)
    OBVIOUS
  <2>2. QED BY <1>10, <2>1, FinishType DEF DispatchBlockedByKill, DropDispatchState, Release, TypeOK, files, history
<1>11. ASSUME DispatchPlace PROVE TypeOK'
  <2> DEFINE o == loaded[Dispatch][cursor]
             rest == [loaded[Dispatch] EXCEPT ![cursor] = [o EXCEPT !.status = Outcome(o)]]
             res == [signal |-> o.signal, status |-> Outcome(o)]
  <2>1. loaded[Dispatch] \in Seq(Order) /\ cursor \in 1..Len(loaded[Dispatch])
    BY <1>11 DEF DispatchPlace, TypeOK
  <2>2. o \in Order
    BY <2>1
  <2>3. CASE Picks(o)
    <3>1. [o EXCEPT !.status = Outcome(o)] \in Order /\ res \in Result
      BY <2>2, OutcomeType
    <3>2. rest \in Seq(Order)
      BY <2>1, <3>1
    <3>3. loaded' = [loaded EXCEPT ![Dispatch] = rest]
      BY <1>11, <2>3 DEF DispatchPlace
    <3>4. loaded' \in [OpNames -> Seq(Order)]
      BY <3>2, <3>3 DEF TypeOK
    <3>5. newResults' = Append(newResults, res)
      BY <1>11, <2>3 DEF DispatchPlace
    <3>6. newResults' \in Seq(Result)
      BY <3>1, <3>5 DEF TypeOK
    <3>7. placed' = [placed EXCEPT ![o.signal] = IF @ < 2 THEN @ + 1 ELSE @]
      BY <1>11, <2>3 DEF DispatchPlace
    <3>8. o.signal \in Signals
      BY <2>2 DEF Order
    <3>9. placed[o.signal] \in 0..2
      BY <3>8 DEF TypeOK
    <3>10. placed' \in [Signals -> 0..2]
      BY <3>7, <3>8, <3>9 DEF TypeOK
    <3>11. QED BY <1>11, <3>4, <3>6, <3>10 DEF DispatchPlace, TypeOK, files
  <2>4. CASE ~Picks(o)
    BY <1>11, <2>4 DEF DispatchPlace, TypeOK, files
  <2>5. QED BY <2>3, <2>4
<1>12. ASSUME DispatchLoopDone PROVE TypeOK'
  BY <1>12 DEF DispatchLoopDone, TypeOK, files, history, locals
<1>13. ASSUME DispatchSaveOrders PROVE TypeOK'
  BY <1>13 DEF DispatchSaveOrders, TypeOK, history, locals
<1>14. ASSUME DispatchSaveResults PROVE TypeOK'
  BY <1>14 DEF DispatchSaveResults, TypeOK, history, locals
<1>15. ASSUME DispatchSaveState PROVE TypeOK'
  <2>1. <<>> \in Seq(Result)
    OBVIOUS
  <2>2. QED BY <1>15, <2>1, FinishType DEF DispatchSaveState, DropDispatchState, Release, TypeOK, history
<1>16. ASSUME CancelRequest PROVE TypeOK'
  <2>1. PICK s \in Signals : loaded' = [loaded EXCEPT ![Cancel] =
                    [i \in DOMAIN orderFile |-> Cancelled(orderFile[i], s)]]
    BY <1>16 DEF CancelRequest
  <2>2. [i \in DOMAIN orderFile |-> Cancelled(orderFile[i], s)] \in Seq(Order)
    <3>1. DOMAIN orderFile = 1..Len(orderFile) /\ Len(orderFile) \in Nat
      BY DEF TypeOK
    <3>2. \A i \in DOMAIN orderFile : Cancelled(orderFile[i], s) \in Order
      BY CancelledType DEF TypeOK
    <3>3. QED BY <3>1, <3>2
  <2>3. QED BY <1>16, <2>1, <2>2 DEF CancelRequest, TypeOK, files, history
<1>17. ASSUME CancelSave PROVE TypeOK'
  BY <1>17, FinishType DEF CancelSave, TypeOK, history
<1>18. ASSUME SetKillRequest PROVE TypeOK'
  BY <1>18 DEF SetKillRequest, TypeOK, files, history
<1>19. ASSUME SetKillSave PROVE TypeOK'
  BY <1>19, FinishType DEF SetKillSave, TypeOK
<1>20. ASSUME NEW op \in OpNames, WriteFails(op) PROVE TypeOK'
  <2>1. <<>> \in Seq(Result)
    OBVIOUS
  <2>2. Finish(op) /\ Release(op)
    BY <1>20 DEF WriteFails
  <2>3. cursor' \in Nat \ {0} /\ newResults' \in Seq(Result) /\ stateKill' \in BOOLEAN
    <3>1. CASE op = Dispatch
      BY <1>20, <2>1, <3>1 DEF WriteFails, DropDispatchState, TypeOK
    <3>2. CASE op # Dispatch
      BY <1>20, <3>2 DEF WriteFails, KeepDispatchState, TypeOK
    <3>3. QED BY <3>1, <3>2
  <2>4. killValue' \in BOOLEAN
    BY <1>20 DEF WriteFails, TypeOK
  <2>5. lock' \in Builders \cup {"execution_dispatch", FreeLock}
    BY <2>2 DEF Release, TypeOK
  <2>6. QED BY <1>20, <2>2, <2>3, <2>4, <2>5, FinishType DEF WriteFails, TypeOK, files, history
<1>21. ASSUME Crash PROVE TypeOK'
  <2>1. <<>> \in Seq(Result) /\ <<>> \in Seq(Order)
    OBVIOUS
  <2>2. QED BY <1>21, <2>1 DEF Crash, DropDispatchState, TypeOK, files, history
<1>22. CASE UNCHANGED vars
  BY <1>22 DEF vars, TypeOK, files, locals, history
<1>23. QED
  BY <1>1, <1>2, <1>3, <1>4, <1>5, <1>6, <1>7, <1>8, <1>9, <1>10, <1>11, <1>12, <1>13,
     <1>14, <1>15, <1>16, <1>17, <1>18, <1>19, <1>20, <1>21, <1>22
  DEF Next, BuildStep, DispatchStep

\* The files, the lock, the requests and the in-memory objects always have
\* their types: no interleaving, fault or restart produces anything else.
THEOREM TypeCorrect == Spec => []TypeOK
<1>1. QED BY InitType, NextType, PTL DEF Spec
-----------------------------------------------------------------------------
(* The inductive invariants behind the safety properties.                  *)

Holding == {"load", "place", "save_orders", "save_results", "save_state"}

\* GATEWAY_LOCK is held exactly by the request that is inside its `with` block.
LockInv ==
  /\ \A b \in Builders :
       /\ pc[b] \in {"idle", "next", "decide", "save"}
       /\ pc[b] \in {"decide", "save"} <=> lock = b
  /\ pc[Dispatch] \in Holding \cup {"idle", "wait"}
  /\ pc[Dispatch] \in Holding <=> lock = Dispatch
  /\ pc[Cancel] \in {"idle", "save"}
  /\ pc[KillSwitch] \in {"idle", "save"}

\* Unless a set_kill slipped in, file, acknowledgement and dispatch's copy agree.
KillInv ==
  ~raced => /\ killFile = acked
            /\ lock = Dispatch => stateKill = killFile

UniqueIn(orders) ==
  \A i, j \in DOMAIN orders : orders[i].signal = orders[j].signal => i = j

\* Every copy of the order list, however stale, holds one order per signal.
UniqueInv ==
  /\ UniqueIn(orderFile)
  /\ \A op \in OpNames : UniqueIn(loaded[op])
  /\ \A b \in Builders : pc[b] = "decide" =>
       \A s \in current[b] : ~HasOrder(loaded[b], s)

\* The list a dispatch is about to save extends the file.
Extends(new, old) ==
  /\ Len(new) >= Len(old)
  /\ \A i \in DOMAIN old : new[i] = old[i]
ResultInv ==
  pc[Dispatch] \in {"place", "save_orders", "save_results"} => Extends(newResults, resultFile)

\* Only a signal that can pass the risk checks is ever queued, in any copy, and a
\* dispatch reaches its loop only outside LIVE mode and with the switch read as off.
QueuedTradable(orders) ==
  \A i \in DOMAIN orders : orders[i].status = "QUEUED" => orders[i].signal \in Tradable
PlacingInv ==
  /\ QueuedTradable(orderFile)
  /\ \A op \in OpNames : QueuedTradable(loaded[op])
  /\ pc[Dispatch] = "place" => mode # "LIVE" /\ ~stateKill

\* Without cancel, the copy under the lock is the file, the file with one more order,
\* or the file with some queued orders settled.
Settling == {"FAILED", "DRY_RUN_COMPLETED"}
Grown(new, old) ==
  \E o \in Order :
    /\ new = Append(old, o) /\ ~HasOrder(old, o.signal)
    /\ o.status \in {"QUEUED", "REJECTED"}
SettledFrom(new, old) ==
  /\ Len(new) = Len(old)
  /\ \A i \in DOMAIN old :
       \/ new[i] = old[i]
       \/ /\ old[i].status = "QUEUED" /\ new[i].status \in Settling
          /\ new[i].signal = old[i].signal
CopyInv ==
  /\ pc[Cancel] = "idle"
  /\ \A b \in Builders :
       /\ pc[b] = "decide" => loaded[b] = orderFile
       /\ pc[b] = "save" => Grown(loaded[b], orderFile)
  /\ pc[Dispatch] \in {"place", "save_orders"} => SettledFrom(loaded[Dispatch], orderFile)

\* Every result is the only one of its order, which says the same; so are the results a
\* dispatch holds, of the orders it holds and then of those it has written.
Agree(results, orders) ==
  \A r \in DOMAIN results :
    /\ \A q \in DOMAIN results : results[q].signal = results[r].signal => q = r
    /\ \E i \in DOMAIN orders :
         orders[i].signal = results[r].signal /\ orders[i].status = results[r].status
AgreeInv ==
  /\ Agree(resultFile, orderFile)
  /\ pc[Dispatch] \in {"place", "save_orders"} => Agree(newResults, loaded[Dispatch])
  /\ pc[Dispatch] = "save_results" => Agree(newResults, orderFile)

\* GATEWAY_LOCK and the program counters stay in step, through exceptions, failed
\* writes and restarts.
LEMMA LockStep ==
  ASSUME TypeOK, LockInv, [Next]_vars
  PROVE  LockInv'
<1> USE OpNamesDistinct
<1>1. ASSUME NEW op \in Builders, BuildRequest(op) PROVE LockInv'
  BY <1>1 DEF BuildRequest, LockInv, Holding, TypeOK, FreeLock
<1>2. ASSUME NEW op \in Builders, BuildAcquire(op) PROVE LockInv'
  <2>1. CASE UNCHANGED <<lock, pc>>
    BY <2>1 DEF LockInv
  <2>2. CASE lock' = op /\ pc' = [pc EXCEPT ![op] = "decide"]
    BY <1>2, <2>2 DEF BuildAcquire, LockInv, Holding, TypeOK
  <2>3. QED BY <1>2, <2>1, <2>2 DEF BuildAcquire
<1>3. ASSUME NEW op \in Builders, BuildDecide(op) PROVE LockInv'
  BY <1>3 DEF BuildDecide, LockInv, Holding, TypeOK, FreeLock
<1>4. ASSUME NEW op \in Builders, BuildRaises(op) PROVE LockInv'
  BY <1>4 DEF BuildRaises, LockInv, Holding, TypeOK, Finish, Release, FreeLock
<1>5. ASSUME NEW op \in Builders, BuildSave(op) PROVE LockInv'
  BY <1>5 DEF BuildSave, LockInv, Holding, TypeOK, Finish, Release, FreeLock
<1>6. ASSUME NEW op \in Builders, BuildReturn(op) PROVE LockInv'
  BY <1>6 DEF BuildReturn, LockInv, Holding, TypeOK, Finish, Release, FreeLock
<1>7. ASSUME DispatchRequest PROVE LockInv'
  BY <1>7 DEF DispatchRequest, LockInv, Holding, TypeOK, FreeLock
<1>8. ASSUME DispatchAcquire PROVE LockInv'
  BY <1>8 DEF DispatchAcquire, LockInv, Holding, TypeOK, FreeLock
<1>9. ASSUME DispatchLoad PROVE LockInv'
  BY <1>9 DEF DispatchLoad, LockInv, Holding, TypeOK, FreeLock
<1>10. ASSUME DispatchBlockedByKill PROVE LockInv'
  BY <1>10 DEF DispatchBlockedByKill, LockInv, Holding, TypeOK, Finish, Release, FreeLock
<1>11. ASSUME DispatchPlace PROVE LockInv'
  BY <1>11 DEF DispatchPlace, LockInv, Holding, TypeOK, FreeLock
<1>12. ASSUME DispatchLoopDone PROVE LockInv'
  BY <1>12 DEF DispatchLoopDone, LockInv, Holding, TypeOK, FreeLock
<1>13. ASSUME DispatchSaveOrders PROVE LockInv'
  BY <1>13 DEF DispatchSaveOrders, LockInv, Holding, TypeOK, FreeLock
<1>14. ASSUME DispatchSaveResults PROVE LockInv'
  BY <1>14 DEF DispatchSaveResults, LockInv, Holding, TypeOK, FreeLock
<1>15. ASSUME DispatchSaveState PROVE LockInv'
  BY <1>15 DEF DispatchSaveState, LockInv, Holding, TypeOK, Finish, Release, FreeLock
<1>16. ASSUME CancelRequest PROVE LockInv'
  BY <1>16 DEF CancelRequest, LockInv, Holding, TypeOK, FreeLock
<1>17. ASSUME CancelSave PROVE LockInv'
  BY <1>17 DEF CancelSave, LockInv, Holding, TypeOK, Finish, Release, FreeLock
<1>18. ASSUME SetKillRequest PROVE LockInv'
  BY <1>18 DEF SetKillRequest, LockInv, Holding, TypeOK, FreeLock
<1>19. ASSUME SetKillSave PROVE LockInv'
  BY <1>19 DEF SetKillSave, LockInv, Holding, TypeOK, Finish, Release, FreeLock
<1>20. ASSUME NEW op \in OpNames, WriteFails(op) PROVE LockInv'
  BY <1>20 DEF WriteFails, LockInv, Holding, TypeOK, Finish, Release, FreeLock
<1>21. ASSUME Crash PROVE LockInv'
  BY <1>21 DEF Crash, LockInv, Holding, FreeLock, OpNames, Builders, Dispatch, Cancel, KillSwitch
<1>22. CASE UNCHANGED vars
  BY <1>22 DEF vars, LockInv, Holding, locals
<1>23. QED
  BY <1>1, <1>2, <1>3, <1>4, <1>5, <1>6, <1>7, <1>8, <1>9, <1>10, <1>11, <1>12, <1>13, <1>14, <1>15, <1>16, <1>17, <1>18, <1>19, <1>20, <1>21, <1>22 DEF Next, BuildStep, DispatchStep

\* The kill switch file moves with the acknowledgement unless a set_kill raced.
LEMMA KillStep ==
  ASSUME TypeOK, LockInv, KillInv, [Next]_vars
  PROVE  KillInv'
<1> USE OpNamesDistinct
<1>1. ASSUME NEW op \in Builders, BuildRequest(op) PROVE KillInv'
  BY <1>1 DEF BuildRequest, KillInv, files, history, Holding, LockInv, FreeLock
<1>2. ASSUME NEW op \in Builders, BuildAcquire(op) PROVE KillInv'
  BY <1>2 DEF BuildAcquire, KillInv, files, history, Holding, LockInv, FreeLock
<1>3. ASSUME NEW op \in Builders, BuildDecide(op) PROVE KillInv'
  BY <1>3 DEF BuildDecide, KillInv, files, history, Holding, LockInv, FreeLock
<1>4. ASSUME NEW op \in Builders, BuildRaises(op) PROVE KillInv'
  BY <1>4 DEF BuildRaises, KillInv, files, history, Holding, LockInv, FreeLock, Finish, Release, DropDispatchState, KeepDispatchState
<1>5. ASSUME NEW op \in Builders, BuildSave(op) PROVE KillInv'
  BY <1>5 DEF BuildSave, KillInv, files, history, Holding, LockInv, FreeLock, Finish, Release, DropDispatchState, KeepDispatchState
<1>6. ASSUME NEW op \in Builders, BuildReturn(op) PROVE KillInv'
  BY <1>6 DEF BuildReturn, KillInv, files, history, Holding, LockInv, FreeLock, Finish, Release, DropDispatchState, KeepDispatchState
<1>7. ASSUME DispatchRequest PROVE KillInv'
  BY <1>7 DEF DispatchRequest, KillInv, files, history, Holding, LockInv, FreeLock
<1>8. ASSUME DispatchAcquire PROVE KillInv'
  BY <1>8 DEF DispatchAcquire, KillInv, files, history, Holding, LockInv, FreeLock
<1>9. ASSUME DispatchLoad PROVE KillInv'
  BY <1>9 DEF DispatchLoad, KillInv, files, history, Holding, LockInv, FreeLock
<1>10. ASSUME DispatchBlockedByKill PROVE KillInv'
  BY <1>10 DEF DispatchBlockedByKill, KillInv, files, history, Holding, LockInv, FreeLock, Finish, Release, DropDispatchState, KeepDispatchState
<1>11. ASSUME DispatchPlace PROVE KillInv'
  BY <1>11 DEF DispatchPlace, KillInv, files, history, Holding, LockInv, FreeLock
<1>12. ASSUME DispatchLoopDone PROVE KillInv'
  BY <1>12 DEF DispatchLoopDone, KillInv, files, history, Holding, LockInv, FreeLock, locals
<1>13. ASSUME DispatchSaveOrders PROVE KillInv'
  BY <1>13 DEF DispatchSaveOrders, KillInv, files, history, Holding, LockInv, FreeLock, locals
<1>14. ASSUME DispatchSaveResults PROVE KillInv'
  BY <1>14 DEF DispatchSaveResults, KillInv, files, history, Holding, LockInv, FreeLock, locals
<1>15. ASSUME DispatchSaveState PROVE KillInv'
  BY <1>15 DEF DispatchSaveState, KillInv, files, history, Holding, LockInv, FreeLock, locals, Finish, Release, DropDispatchState, KeepDispatchState
<1>16. ASSUME CancelRequest PROVE KillInv'
  BY <1>16 DEF CancelRequest, KillInv, files, history, Holding, LockInv, FreeLock
<1>17. ASSUME CancelSave PROVE KillInv'
  BY <1>17 DEF CancelSave, KillInv, files, history, Holding, LockInv, FreeLock, Finish, Release, DropDispatchState, KeepDispatchState
<1>18. ASSUME SetKillRequest PROVE KillInv'
  BY <1>18 DEF SetKillRequest, KillInv, files, history, Holding, LockInv, FreeLock
<1>19. ASSUME SetKillSave PROVE KillInv'
  BY <1>19 DEF SetKillSave, KillInv, files, history, Holding, LockInv, FreeLock, Finish, Release, DropDispatchState, KeepDispatchState
<1>20. ASSUME NEW op \in OpNames, WriteFails(op) PROVE KillInv'
  BY <1>20 DEF WriteFails, KillInv, files, history, Holding, LockInv, FreeLock, Finish, Release, DropDispatchState, KeepDispatchState
<1>21. ASSUME Crash PROVE KillInv'
  BY <1>21 DEF Crash, KillInv, files, history, Holding, LockInv, FreeLock, DropDispatchState
<1>22. CASE UNCHANGED vars
  BY <1>22 DEF vars, KillInv, files, history, Holding, LockInv, FreeLock, locals
<1>23. QED
  BY <1>1, <1>2, <1>3, <1>4, <1>5, <1>6, <1>7, <1>8, <1>9, <1>10, <1>11, <1>12, <1>13, <1>14, <1>15, <1>16, <1>17, <1>18, <1>19, <1>20, <1>21, <1>22 DEF Next, BuildStep, DispatchStep

\* A dispatch only ever appends to the results it loaded.
LEMMA ResultStep ==
  ASSUME TypeOK, LockInv, ResultInv, [Next]_vars
  PROVE  ResultInv'
<1> USE OpNamesDistinct
<1>1. ASSUME NEW op \in Builders, BuildRequest(op) PROVE ResultInv'
  BY <1>1 DEF BuildRequest, ResultInv, files, history, Holding, LockInv, Extends, TypeOK
<1>2. ASSUME NEW op \in Builders, BuildAcquire(op) PROVE ResultInv'
  BY <1>2 DEF BuildAcquire, ResultInv, files, history, Holding, LockInv, Extends, TypeOK
<1>3. ASSUME NEW op \in Builders, BuildDecide(op) PROVE ResultInv'
  BY <1>3 DEF BuildDecide, ResultInv, files, history, Holding, LockInv, Extends, TypeOK
<1>4. ASSUME NEW op \in Builders, BuildRaises(op) PROVE ResultInv'
  BY <1>4 DEF BuildRaises, ResultInv, files, history, Holding, LockInv, Extends, TypeOK, Finish, Release, DropDispatchState, KeepDispatchState
<1>5. ASSUME NEW op \in Builders, BuildSave(op) PROVE ResultInv'
  BY <1>5 DEF BuildSave, ResultInv, files, history, Holding, LockInv, Extends, TypeOK, Finish, Release, DropDispatchState, KeepDispatchState
<1>6. ASSUME NEW op \in Builders, BuildReturn(op) PROVE ResultInv'
  BY <1>6 DEF BuildReturn, ResultInv, files, history, Holding, LockInv, Extends, TypeOK, Finish, Release, DropDispatchState, KeepDispatchState
<1>7. ASSUME DispatchRequest PROVE ResultInv'
  BY <1>7 DEF DispatchRequest, ResultInv, files, history, Holding, LockInv, Extends, TypeOK
<1>8. ASSUME DispatchAcquire PROVE ResultInv'
  BY <1>8 DEF DispatchAcquire, ResultInv, files, history, Holding, LockInv, Extends, TypeOK
<1>9. ASSUME DispatchLoad PROVE ResultInv'
  BY <1>9 DEF DispatchLoad, ResultInv, files, history, Holding, LockInv, Extends, TypeOK
<1>10. ASSUME DispatchBlockedByKill PROVE ResultInv'
  BY <1>10 DEF DispatchBlockedByKill, ResultInv, files, history, Holding, LockInv, Extends, TypeOK, Finish, Release, DropDispatchState, KeepDispatchState
<1>11. ASSUME DispatchPlace PROVE ResultInv'
  <2>1. Extends(newResults, resultFile) /\ resultFile' = resultFile
    BY <1>11 DEF DispatchPlace, ResultInv, files
  <2>2. CASE newResults' = newResults
    BY <2>1, <2>2 DEF ResultInv
  <2>3. CASE newResults' # newResults
    <3>1. PICK r \in Result : newResults' = Append(newResults, r)
      <4>1. loaded[Dispatch][cursor] \in Order
        BY <1>11 DEF DispatchPlace, TypeOK
      <4>2. QED BY <1>11, <2>3, <4>1, OutcomeType DEF DispatchPlace
    <3>2. newResults \in Seq(Result) /\ resultFile \in Seq(Result)
      BY DEF TypeOK
    <3>3. Extends(newResults', resultFile)
      BY <2>1, <3>1, <3>2 DEF Extends
    <3>4. QED BY <2>1, <3>3 DEF ResultInv
  <2>4. QED BY <2>2, <2>3
<1>12. ASSUME DispatchLoopDone PROVE ResultInv'
  BY <1>12 DEF DispatchLoopDone, ResultInv, files, history, Holding, LockInv, Extends, locals
<1>13. ASSUME DispatchSaveOrders PROVE ResultInv'
  BY <1>13 DEF DispatchSaveOrders, ResultInv, files, history, Holding, LockInv, Extends, locals
<1>14. ASSUME DispatchSaveResults PROVE ResultInv'
  BY <1>14 DEF DispatchSaveResults, ResultInv, files, history, Holding, LockInv, Extends, locals
<1>15. ASSUME DispatchSaveState PROVE ResultInv'
  BY <1>15 DEF DispatchSaveState, ResultInv, files, history, Holding, LockInv, Extends, locals, TypeOK, Finish, Release, DropDispatchState, KeepDispatchState
<1>16. ASSUME CancelRequest PROVE ResultInv'
  BY <1>16 DEF CancelRequest, ResultInv, files, history, Holding, LockInv, Extends, TypeOK
<1>17. ASSUME CancelSave PROVE ResultInv'
  BY <1>17 DEF CancelSave, ResultInv, files, history, Holding, LockInv, Extends, TypeOK, Finish, Release, DropDispatchState, KeepDispatchState
<1>18. ASSUME SetKillRequest PROVE ResultInv'
  BY <1>18 DEF SetKillRequest, ResultInv, files, history, Holding, LockInv, Extends, TypeOK
<1>19. ASSUME SetKillSave PROVE ResultInv'
  BY <1>19 DEF SetKillSave, ResultInv, files, history, Holding, LockInv, Extends, TypeOK, Finish, Release, DropDispatchState, KeepDispatchState
<1>20. ASSUME NEW op \in OpNames, WriteFails(op) PROVE ResultInv'
  BY <1>20 DEF WriteFails, ResultInv, files, history, Holding, LockInv, Extends, TypeOK, Finish, Release, DropDispatchState, KeepDispatchState
<1>21. ASSUME Crash PROVE ResultInv'
  BY <1>21 DEF Crash, ResultInv, files, history, Holding, LockInv, Extends, TypeOK, DropDispatchState
<1>22. CASE UNCHANGED vars
  BY <1>22 DEF vars, ResultInv, files, history, Holding, LockInv, Extends, locals
<1>23. QED
  BY <1>1, <1>2, <1>3, <1>4, <1>5, <1>6, <1>7, <1>8, <1>9, <1>10, <1>11, <1>12, <1>13, <1>14, <1>15, <1>16, <1>17, <1>18, <1>19, <1>20, <1>21, <1>22 DEF Next, BuildStep, DispatchStep

\* The objects a finished request drops were unique; the empty list is too.
LEMMA FinishUnique ==
  ASSUME TypeOK, UniqueInv, NEW op \in OpNames, Finish(op)
  PROVE  /\ \A p \in OpNames : UniqueIn(loaded'[p])
         /\ \A b \in Builders : pc'[b] = "decide" =>
              \A s \in current'[b] : ~HasOrder(loaded'[b], s)
<1>1. UniqueIn(<<>>)
  BY DEF UniqueIn
<1>2. QED BY <1>1, OpNamesDistinct DEF Finish, UniqueInv, TypeOK

\* Nobody can make a list with two orders of one signal: builders append only a
\* signal their copy lacks, everybody else keeps the signals of the copy.
LEMMA UniqueStep ==
  ASSUME TypeOK, UniqueInv, [Next]_vars
  PROVE  UniqueInv'
<1> USE OpNamesDistinct
<1>1. ASSUME NEW op \in Builders, BuildRequest(op) PROVE UniqueInv'
  BY <1>1 DEF BuildRequest, UniqueInv, files, TypeOK
<1>2. ASSUME NEW op \in Builders, BuildAcquire(op) PROVE UniqueInv'
  <2>1. UNCHANGED orderFile
    BY <1>2 DEF BuildAcquire, files
  <2>2. CASE UNCHANGED <<pc, current, loaded>>
    BY <2>1, <2>2 DEF UniqueInv
  <2>3. CASE ~UNCHANGED <<pc, current, loaded>>
    <3>1. PICK s \in todo[op] :
            /\ ~HasOrder(orderFile, s)
            /\ current' = [current EXCEPT ![op] = {s}]
            /\ loaded' = [loaded EXCEPT ![op] = orderFile]
            /\ pc' = [pc EXCEPT ![op] = "decide"]
      BY <1>2, <2>3 DEF BuildAcquire
    <3>2. \A p \in OpNames : UniqueIn(loaded'[p])
      BY <3>1 DEF UniqueInv, TypeOK
    <3>3. \A b \in Builders : pc'[b] = "decide" => \A x \in current'[b] : ~HasOrder(loaded'[b], x)
      BY <3>1 DEF UniqueInv, TypeOK
    <3>4. QED BY <2>1, <3>2, <3>3 DEF UniqueInv
  <2>4. QED BY <2>2, <2>3
<1>3. ASSUME NEW op \in Builders, BuildDecide(op) PROVE UniqueInv'
  <2>1. PICK s \in current[op], fit \in BOOLEAN :
          loaded' = [loaded EXCEPT ![op] = Append(@, NewOrder(s, fit))]
    BY <1>3 DEF BuildDecide
  <2>2. s \in Signals /\ pc[op] = "decide" /\ ~HasOrder(loaded[op], s)
    BY <1>3, <2>1 DEF BuildDecide, UniqueInv, TypeOK
  <2>3. NewOrder(s, fit).signal = s
    BY <2>2, NewOrderType
  <2>4. UniqueIn(Append(loaded[op], NewOrder(s, fit)))
    BY <2>2, <2>3 DEF UniqueInv, UniqueIn, HasOrder, TypeOK
  <2>5. \A p \in OpNames : UniqueIn(loaded'[p])
    BY <2>1, <2>4 DEF UniqueInv, TypeOK
  <2>6. pc' = [pc EXCEPT ![op] = "save"] /\ UNCHANGED <<orderFile, current>>
    BY <1>3 DEF BuildDecide, files
  <2>7. \A b \in Builders : pc'[b] = "decide" => \A x \in current'[b] : ~HasOrder(loaded'[b], x)
    BY <2>1, <2>6 DEF UniqueInv, TypeOK
  <2>8. QED BY <2>5, <2>6, <2>7 DEF UniqueInv
<1>4. ASSUME NEW op \in Builders, BuildRaises(op) PROVE UniqueInv'
  BY <1>4, FinishUnique DEF BuildRaises, UniqueInv, files, TypeOK, HasOrder
<1>5. ASSUME NEW op \in Builders, BuildSave(op) PROVE UniqueInv'
  <2>1. UniqueIn(<<>>)
    BY DEF UniqueIn
  <2>2. QED BY <1>5, <2>1 DEF BuildSave, UniqueInv, TypeOK
<1>6. ASSUME NEW op \in Builders, BuildReturn(op) PROVE UniqueInv'
  BY <1>6, FinishUnique DEF BuildReturn, UniqueInv, files, TypeOK, HasOrder
<1>7. ASSUME DispatchRequest PROVE UniqueInv'
  BY <1>7 DEF DispatchRequest, UniqueInv, files, TypeOK
<1>8. ASSUME DispatchAcquire PROVE UniqueInv'
  BY <1>8 DEF DispatchAcquire, UniqueInv, files, TypeOK
<1>9. ASSUME DispatchLoad PROVE UniqueInv'
  BY <1>9 DEF DispatchLoad, UniqueInv, files, TypeOK
<1>10. ASSUME DispatchBlockedByKill PROVE UniqueInv'
  BY <1>10, FinishUnique DEF DispatchBlockedByKill, UniqueInv, files, TypeOK, HasOrder
<1>11. ASSUME DispatchPlace PROVE UniqueInv'
  <2>1. UNCHANGED <<orderFile, pc, current>>
    BY <1>11 DEF DispatchPlace, files
  <2>2. CASE loaded' = loaded
    BY <2>1, <2>2 DEF UniqueInv
  <2>3. CASE loaded' # loaded
    <3>1. loaded' = [loaded EXCEPT ![Dispatch][cursor].status = Outcome(loaded[Dispatch][cursor])]
      BY <1>11, <2>3 DEF DispatchPlace
    <3>2. UniqueIn(loaded'[Dispatch])
      BY <3>1 DEF UniqueInv, UniqueIn, TypeOK, Order
    <3>3. \A p \in OpNames \ {Dispatch} : loaded'[p] = loaded[p]
      BY <3>1 DEF TypeOK
    <3>4. QED BY <2>1, <3>2, <3>3 DEF UniqueInv
  <2>4. QED BY <2>2, <2>3
<1>12. ASSUME DispatchLoopDone PROVE UniqueInv'
  BY <1>12 DEF DispatchLoopDone, UniqueInv, files, TypeOK, locals
<1>13. ASSUME DispatchSaveOrders PROVE UniqueInv'
  BY <1>13 DEF DispatchSaveOrders, UniqueInv, files, TypeOK, locals
<1>14. ASSUME DispatchSaveResults PROVE UniqueInv'
  BY <1>14 DEF DispatchSaveResults, UniqueInv, files, TypeOK, locals
<1>15. ASSUME DispatchSaveState PROVE UniqueInv'
  BY <1>15, FinishUnique DEF DispatchSaveState, UniqueInv, files, TypeOK, HasOrder
<1>16. ASSUME CancelRequest PROVE UniqueInv'
  <2>1. PICK s \in Signals : loaded' = [loaded EXCEPT ![Cancel] =
                    [i \in DOMAIN orderFile |-> Cancelled(orderFile[i], s)]]
    BY <1>16 DEF CancelRequest
  <2>2. pc' = [pc EXCEPT ![Cancel] = "save"] /\ UNCHANGED <<orderFile, current>>
    BY <1>16 DEF CancelRequest, files
  <2>3. \A i \in DOMAIN orderFile : Cancelled(orderFile[i], s).signal = orderFile[i].signal
    BY CancelledType DEF TypeOK
  <2>4. UniqueIn([i \in DOMAIN orderFile |-> Cancelled(orderFile[i], s)])
    BY <2>3 DEF UniqueIn, UniqueInv
  <2>5. \A p \in OpNames : UniqueIn(loaded'[p])
    BY <2>1, <2>4 DEF UniqueInv, TypeOK
  <2>6. \A b \in Builders : loaded'[b] = loaded[b] /\ pc'[b] = pc[b]
    BY <2>1, <2>2 DEF TypeOK
  <2>7. QED BY <2>2, <2>5, <2>6 DEF UniqueInv
<1>17. ASSUME CancelSave PROVE UniqueInv'
  BY <1>17, FinishUnique DEF CancelSave, UniqueInv, files, TypeOK, HasOrder
<1>18. ASSUME SetKillRequest PROVE UniqueInv'
  BY <1>18 DEF SetKillRequest, UniqueInv, files, TypeOK
<1>19. ASSUME SetKillSave PROVE UniqueInv'
  BY <1>19, FinishUnique DEF SetKillSave, UniqueInv, files, TypeOK, HasOrder
<1>20. ASSUME NEW op \in OpNames, WriteFails(op) PROVE UniqueInv'
  BY <1>20, FinishUnique DEF WriteFails, UniqueInv, files, TypeOK, HasOrder
<1>21. ASSUME Crash PROVE UniqueInv'
  <2>1. UniqueIn(<<>>)
    BY DEF UniqueIn
  <2>2. QED BY <1>21, <2>1 DEF Crash, UniqueInv, files
<1>22. CASE UNCHANGED vars
  BY <1>22 DEF vars, UniqueInv, files, TypeOK, locals
<1>23. QED
  BY <1>1, <1>2, <1>3, <1>4, <1>5, <1>6, <1>7, <1>8, <1>9, <1>10, <1>11, <1>12, <1>13, <1>14, <1>15, <1>16, <1>17, <1>18, <1>19, <1>20, <1>21, <1>22 DEF Next, BuildStep, DispatchStep

LEMMA FinishPlacing ==
  ASSUME TypeOK, PlacingInv, NEW op \in OpNames, Finish(op)
  PROVE  /\ \A p \in OpNames : QueuedTradable(loaded'[p])
         /\ pc'[Dispatch] = "place" => pc[Dispatch] = "place" /\ op # Dispatch
<1>1. QueuedTradable(<<>>)
  BY DEF QueuedTradable
<1>2. QED BY <1>1, OpNamesDistinct DEF Finish, PlacingInv, TypeOK

\* Risk-checked signals only are queued, whatever copies overlap, and the loop of a
\* dispatch is entered in DRY_RUN with the switch off.
LEMMA PlacingStep ==
  ASSUME TypeOK, PlacingInv, [Next]_vars
  PROVE  PlacingInv'
<1> USE OpNamesDistinct
<1>1. ASSUME NEW op \in Builders, BuildRequest(op) PROVE PlacingInv'
  BY <1>1 DEF BuildRequest, PlacingInv, files, TypeOK
<1>2. ASSUME NEW op \in Builders, BuildAcquire(op) PROVE PlacingInv'
  <2>1. \A p \in OpNames : loaded'[p] \in {loaded[p], orderFile}
    BY <1>2 DEF BuildAcquire, TypeOK
  <2>2. pc'[Dispatch] = pc[Dispatch]
    BY <1>2 DEF BuildAcquire, TypeOK
  <2>3. QED BY <1>2, <2>1, <2>2 DEF BuildAcquire, PlacingInv, files
<1>3. ASSUME NEW op \in Builders, BuildDecide(op) PROVE PlacingInv'
  <2>1. PICK s \in current[op], fit \in BOOLEAN :
          loaded' = [loaded EXCEPT ![op] = Append(@, NewOrder(s, fit))]
    BY <1>3 DEF BuildDecide
  <2>2. NewOrder(s, fit).status = "QUEUED" => NewOrder(s, fit).signal \in Tradable
    BY DEF NewOrder, Blocked
  <2>3. QueuedTradable(Append(loaded[op], NewOrder(s, fit)))
    BY <2>2 DEF PlacingInv, QueuedTradable, TypeOK
  <2>4. \A p \in OpNames : QueuedTradable(loaded'[p])
    BY <2>1, <2>3 DEF PlacingInv, TypeOK
  <2>5. QED BY <1>3, <2>4 DEF BuildDecide, PlacingInv, files, TypeOK
<1>4. ASSUME NEW op \in Builders, BuildRaises(op) PROVE PlacingInv'
  BY <1>4, FinishPlacing DEF BuildRaises, PlacingInv, files, TypeOK, KeepDispatchState
<1>5. ASSUME NEW op \in Builders, BuildSave(op) PROVE PlacingInv'
  <2>1. QueuedTradable(<<>>)
    BY DEF QueuedTradable
  <2>2. QED BY <1>5, <2>1 DEF BuildSave, PlacingInv, TypeOK
<1>6. ASSUME NEW op \in Builders, BuildReturn(op) PROVE PlacingInv'
  BY <1>6, FinishPlacing DEF BuildReturn, PlacingInv, files, TypeOK, KeepDispatchState
<1>7. ASSUME DispatchRequest PROVE PlacingInv'
  BY <1>7 DEF DispatchRequest, PlacingInv, files, TypeOK
<1>8. ASSUME DispatchAcquire PROVE PlacingInv'
  BY <1>8 DEF DispatchAcquire, PlacingInv, files, TypeOK
<1>9. ASSUME DispatchLoad PROVE PlacingInv'
  BY <1>9 DEF DispatchLoad, PlacingInv, files, TypeOK
<1>10. ASSUME DispatchBlockedByKill PROVE PlacingInv'
  BY <1>10, FinishPlacing DEF DispatchBlockedByKill, PlacingInv, files, TypeOK, KeepDispatchState
<1>11. ASSUME DispatchPlace PROVE PlacingInv'
  <2>1. UNCHANGED <<orderFile, pc, mode, stateKill>>
    BY <1>11 DEF DispatchPlace, files
  <2>2. CASE loaded' = loaded
    BY <2>1, <2>2 DEF PlacingInv
  <2>3. CASE loaded' # loaded
    <3>1. loaded' = [loaded EXCEPT ![Dispatch][cursor].status = Outcome(loaded[Dispatch][cursor])]
      BY <1>11, <2>3 DEF DispatchPlace
    <3>2. QueuedTradable(loaded'[Dispatch])
      BY <3>1 DEF PlacingInv, QueuedTradable, Outcome, TypeOK, Order
    <3>3. \A p \in OpNames \ {Dispatch} : loaded'[p] = loaded[p]
      BY <3>1 DEF TypeOK
    <3>4. QED BY <2>1, <3>2, <3>3 DEF PlacingInv
  <2>4. QED BY <2>2, <2>3
<1>12. ASSUME DispatchLoopDone PROVE PlacingInv'
  BY <1>12 DEF DispatchLoopDone, PlacingInv, files, TypeOK, locals
<1>13. ASSUME DispatchSaveOrders PROVE PlacingInv'
  BY <1>13 DEF DispatchSaveOrders, PlacingInv, files, TypeOK, locals
<1>14. ASSUME DispatchSaveResults PROVE PlacingInv'
  BY <1>14 DEF DispatchSaveResults, PlacingInv, files, TypeOK, locals
<1>15. ASSUME DispatchSaveState PROVE PlacingInv'
  BY <1>15, FinishPlacing DEF DispatchSaveState, PlacingInv, files, TypeOK, KeepDispatchState
<1>16. ASSUME CancelRequest PROVE PlacingInv'
  <2>1. PICK s \in Signals : loaded' = [loaded EXCEPT ![Cancel] =
                    [i \in DOMAIN orderFile |-> Cancelled(orderFile[i], s)]]
    BY <1>16 DEF CancelRequest
  <2>2. \A i \in DOMAIN orderFile :
          Cancelled(orderFile[i], s).status = "QUEUED" => Cancelled(orderFile[i], s) = orderFile[i]
    BY DEF Cancelled, TypeOK, Order
  <2>3. QueuedTradable([i \in DOMAIN orderFile |-> Cancelled(orderFile[i], s)])
    BY <2>2 DEF PlacingInv, QueuedTradable
  <2>4. \A p \in OpNames : QueuedTradable(loaded'[p])
    BY <2>1, <2>3 DEF PlacingInv, TypeOK
  <2>5. QED BY <1>16, <2>4 DEF CancelRequest, PlacingInv, files, TypeOK
<1>17. ASSUME CancelSave PROVE PlacingInv'
  BY <1>17, FinishPlacing DEF CancelSave, PlacingInv, files, TypeOK, KeepDispatchState
<1>18. ASSUME SetKillRequest PROVE PlacingInv'
  BY <1>18 DEF SetKillRequest, PlacingInv, files, TypeOK
<1>19. ASSUME SetKillSave PROVE PlacingInv'
  BY <1>19, FinishPlacing DEF SetKillSave, PlacingInv, files, TypeOK, KeepDispatchState
<1>20. ASSUME NEW op \in OpNames, WriteFails(op) PROVE PlacingInv'
  BY <1>20, FinishPlacing DEF WriteFails, PlacingInv, files, TypeOK, KeepDispatchState
<1>21. ASSUME Crash PROVE PlacingInv'
  <2>1. QueuedTradable(<<>>)
    BY DEF QueuedTradable
  <2>2. QED BY <1>21, <2>1 DEF Crash, PlacingInv, files
<1>22. CASE UNCHANGED vars
  BY <1>22 DEF vars, PlacingInv, files, TypeOK, locals
<1>23. QED
  BY <1>1, <1>2, <1>3, <1>4, <1>5, <1>6, <1>7, <1>8, <1>9, <1>10, <1>11, <1>12, <1>13, <1>14, <1>15, <1>16, <1>17, <1>18, <1>19, <1>20, <1>21, <1>22 DEF Next, BuildStep, DispatchStep

\* Under the lock a copy of the order list is the file, or the file with one more
\* order, or the file with queued orders settled.
LEMMA CopyStep ==
  ASSUME TypeOK, LockInv, UniqueInv, Cancel \notin Ops, CopyInv, [Next]_vars
  PROVE  CopyInv'
<1> USE OpNamesDistinct
<1>1. ASSUME NEW op \in Builders, BuildRequest(op) PROVE CopyInv'
  BY <1>1 DEF BuildRequest, CopyInv, files, TypeOK
<1>2. ASSUME NEW op \in Builders, BuildAcquire(op) PROVE CopyInv'
  <2>1. UNCHANGED orderFile /\ pc'[Dispatch] = pc[Dispatch] /\ pc'[Cancel] = pc[Cancel]
    BY <1>2 DEF BuildAcquire, TypeOK, files
  <2>2. \A b \in Builders \ {op} : loaded'[b] = loaded[b] /\ pc'[b] = pc[b]
    BY <1>2 DEF BuildAcquire, TypeOK
  <2>3. loaded'[Dispatch] = loaded[Dispatch]
    BY <1>2 DEF BuildAcquire, TypeOK
  <2>4. pc'[op] # "save" /\ (pc'[op] = "decide" => loaded'[op] = orderFile)
    BY <1>2 DEF BuildAcquire, TypeOK
  <2>5. QED BY <2>1, <2>2, <2>3, <2>4 DEF CopyInv
<1>3. ASSUME NEW op \in Builders, BuildDecide(op) PROVE CopyInv'
  <2>1. PICK s \in current[op], fit \in BOOLEAN :
          loaded' = [loaded EXCEPT ![op] = Append(@, NewOrder(s, fit))]
    BY <1>3 DEF BuildDecide
  <2>2. pc[op] = "decide" /\ pc' = [pc EXCEPT ![op] = "save"] /\ UNCHANGED orderFile
    BY <1>3 DEF BuildDecide, files
  <2>3. loaded[op] = orderFile /\ ~HasOrder(orderFile, s) /\ s \in Signals
    BY <2>2 DEF CopyInv, UniqueInv, TypeOK
  <2>4. /\ NewOrder(s, fit) \in Order /\ NewOrder(s, fit).signal = s
        /\ NewOrder(s, fit).status \in {"QUEUED", "REJECTED"}
    BY <2>3, NewOrderType DEF NewOrder
  <2>5. Grown(Append(loaded[op], NewOrder(s, fit)), orderFile)
    BY <2>3, <2>4 DEF Grown
  <2>6. /\ loaded'[op] = Append(loaded[op], NewOrder(s, fit)) /\ pc'[op] = "save"
        /\ \A p \in OpNames \ {op} : loaded'[p] = loaded[p] /\ pc'[p] = pc[p]
    BY <2>1, <2>2 DEF TypeOK
  <2>7. QED BY <2>2, <2>5, <2>6 DEF CopyInv
<1>4. ASSUME NEW op \in Builders, BuildRaises(op) PROVE CopyInv'
  BY <1>4 DEF BuildRaises, CopyInv, files, TypeOK, Finish
<1>5. ASSUME NEW op \in Builders, BuildSave(op) PROVE CopyInv'
  <2>1. lock = op /\ pc[Dispatch] \notin Holding
    BY <1>5 DEF BuildSave, LockInv
  <2>2. \A b \in Builders \ {op} : pc[b] \notin {"decide", "save"}
    BY <2>1 DEF LockInv
  <2>3. QED BY <1>5, <2>1, <2>2 DEF BuildSave, CopyInv, Holding, TypeOK
<1>6. ASSUME NEW op \in Builders, BuildReturn(op) PROVE CopyInv'
  BY <1>6 DEF BuildReturn, CopyInv, files, TypeOK, Finish
<1>7. ASSUME DispatchRequest PROVE CopyInv'
  BY <1>7 DEF DispatchRequest, CopyInv, files, TypeOK
<1>8. ASSUME DispatchAcquire PROVE CopyInv'
  BY <1>8 DEF DispatchAcquire, CopyInv, files, TypeOK
<1>9. ASSUME DispatchLoad PROVE CopyInv'
  <2>1. SettledFrom(orderFile, orderFile)
    BY DEF SettledFrom
  <2>2. QED BY <1>9, <2>1 DEF DispatchLoad, CopyInv, files, TypeOK
<1>10. ASSUME DispatchBlockedByKill PROVE CopyInv'
  BY <1>10 DEF DispatchBlockedByKill, CopyInv, files, TypeOK, Finish
<1>11. ASSUME DispatchPlace PROVE CopyInv'
  <2>1. UNCHANGED <<orderFile, pc>>
    BY <1>11 DEF DispatchPlace, files
  <2>2. CASE loaded' = loaded
    BY <2>1, <2>2 DEF CopyInv
  <2>3. CASE loaded' # loaded
    <3> DEFINE o == loaded[Dispatch][cursor]
               rest == [loaded[Dispatch] EXCEPT ![cursor] = [o EXCEPT !.status = Outcome(o)]]
    <3>1. loaded' = [loaded EXCEPT ![Dispatch] = rest]
      BY <1>11, <2>3 DEF DispatchPlace
    <3>2. /\ o.status = "QUEUED" /\ cursor \in DOMAIN loaded[Dispatch]
          /\ SettledFrom(loaded[Dispatch], orderFile)
      BY <1>11, <2>3 DEF DispatchPlace, Picks, CopyInv, TypeOK
    <3>3. /\ [o EXCEPT !.status = Outcome(o)].signal = o.signal
          /\ [o EXCEPT !.status = Outcome(o)].status \in Settling
      <4>1. loaded[Dispatch] \in Seq(Order)
        BY DEF TypeOK
      <4>2. o \in Order
        BY <3>2, <4>1
      <4>3. QED BY <4>2 DEF Order, Outcome, Settling
    <3>4. SettledFrom(rest, orderFile)
      <4>0. Len(rest) = Len(loaded[Dispatch]) /\ DOMAIN orderFile = DOMAIN loaded[Dispatch]
        BY <3>2 DEF SettledFrom, TypeOK
      <4> SUFFICES ASSUME NEW i \in DOMAIN orderFile
                   PROVE  \/ rest[i] = orderFile[i]
                          \/ /\ orderFile[i].status = "QUEUED" /\ rest[i].status \in Settling
                             /\ rest[i].signal = orderFile[i].signal
        BY <3>2, <4>0 DEF SettledFrom
      <4>1. \/ loaded[Dispatch][i] = orderFile[i]
            \/ /\ orderFile[i].status = "QUEUED" /\ loaded[Dispatch][i].status \in Settling
               /\ loaded[Dispatch][i].signal = orderFile[i].signal
        BY <3>2 DEF SettledFrom
      <4>2. CASE i = cursor
        BY <3>2, <3>3, <4>0, <4>1, <4>2 DEF Settling
      <4>3. CASE i # cursor
        BY <4>1, <4>3
      <4>4. QED BY <4>2, <4>3
    <3>5. loaded'[Dispatch] = rest /\ \A p \in OpNames \ {Dispatch} : loaded'[p] = loaded[p]
      BY <3>1 DEF TypeOK
    <3>6. QED BY <2>1, <3>4, <3>5 DEF CopyInv
  <2>4. QED BY <2>2, <2>3
<1>12. ASSUME DispatchLoopDone PROVE CopyInv'
  BY <1>12 DEF DispatchLoopDone, CopyInv, files, TypeOK, locals
<1>13. ASSUME DispatchSaveOrders PROVE CopyInv'
  <2>1. \A b \in Builders : pc[b] \notin {"decide", "save"}
    BY <1>13 DEF DispatchSaveOrders, LockInv, Holding
  <2>2. QED BY <1>13, <2>1 DEF DispatchSaveOrders, CopyInv, TypeOK
<1>14. ASSUME DispatchSaveResults PROVE CopyInv'
  BY <1>14 DEF DispatchSaveResults, CopyInv, files, TypeOK, locals
<1>15. ASSUME DispatchSaveState PROVE CopyInv'
  BY <1>15 DEF DispatchSaveState, CopyInv, files, TypeOK, Finish
<1>16. ASSUME CancelRequest PROVE CopyInv'
  BY <1>16 DEF CancelRequest
<1>17. ASSUME CancelSave PROVE CopyInv'
  BY <1>17 DEF CancelSave, CopyInv
<1>18. ASSUME SetKillRequest PROVE CopyInv'
  BY <1>18 DEF SetKillRequest, CopyInv, files, TypeOK
<1>19. ASSUME SetKillSave PROVE CopyInv'
  BY <1>19 DEF SetKillSave, CopyInv, files, TypeOK, Finish
<1>20. ASSUME NEW op \in OpNames, WriteFails(op) PROVE CopyInv'
  BY <1>20 DEF WriteFails, CopyInv, files, TypeOK, Finish
<1>21. ASSUME Crash PROVE CopyInv'
  BY <1>21 DEF Crash, CopyInv
<1>22. CASE UNCHANGED vars
  BY <1>22 DEF vars, CopyInv, files, TypeOK, locals
<1>23. QED
  BY <1>1, <1>2, <1>3, <1>4, <1>5, <1>6, <1>7, <1>8, <1>9, <1>10, <1>11, <1>12, <1>13, <1>14, <1>15, <1>16, <1>17, <1>18, <1>19, <1>20, <1>21, <1>22 DEF Next, BuildStep, DispatchStep

\* What is in the list agrees with a later stage of the orders too: a result's order has
\* left QUEUED.
LEMMA AgreeLater ==
  ASSUME NEW results \in Seq(Result), NEW old \in Seq(Order), NEW new \in Seq(Order),
         Agree(results, old), Grown(new, old) \/ SettledFrom(new, old)
  PROVE  Agree(results, new)
<1>1. ASSUME NEW i \in DOMAIN old, old[i].status \in Settling
      PROVE  i \in DOMAIN new /\ new[i] = old[i]
  <2>1. CASE Grown(new, old)
    BY <2>1 DEF Grown
  <2>2. CASE SettledFrom(new, old)
    BY <1>1, <2>2 DEF SettledFrom, Settling
  <2>3. QED BY <2>1, <2>2
<1>2. ASSUME NEW r \in DOMAIN results PROVE results[r].status \in Settling
  <2>1. results[r] \in Result
    OBVIOUS
  <2>2. QED BY <2>1 DEF Result, Settling
<1>3. QED BY <1>1, <1>2 DEF Agree

\* Placing one more queued order keeps results and orders together.
LEMMA AgreePlace ==
  ASSUME NEW results \in Seq(Result), NEW orders \in Seq(Order), NEW k \in DOMAIN orders,
         Agree(results, orders), UniqueIn(orders), orders[k].status = "QUEUED",
         NEW status \in Settling
  PROVE  Agree(Append(results, [signal |-> orders[k].signal, status |-> status]),
               [orders EXCEPT ![k] = [orders[k] EXCEPT !.status = status]])
<1> DEFINE o == [orders[k] EXCEPT !.status = status]
           new == [orders EXCEPT ![k] = o]
           res == [signal |-> orders[k].signal, status |-> status]
           all == Append(results, res)
<1>1. o.signal = orders[k].signal /\ o.status = status
  <2>1. orders[k] \in Order
    OBVIOUS
  <2>2. QED BY <2>1 DEF Order
<1>2. DOMAIN new = DOMAIN orders /\ new[k] = o /\ \A i \in DOMAIN orders \ {k} : new[i] = orders[i]
  OBVIOUS
<1>3. /\ DOMAIN all = 1..(Len(results) + 1) /\ DOMAIN results = 1..Len(results)
      /\ Len(results) \in Nat
      /\ all[Len(results) + 1] = res /\ \A r \in 1..Len(results) : all[r] = results[r]
  OBVIOUS
<1>4. res.signal = orders[k].signal /\ res.status = status
  OBVIOUS
<1> HIDE DEF o, new, res, all
<1>5. ASSUME NEW r \in DOMAIN results PROVE results[r].status # "QUEUED"
  <2>1. results[r] \in Result
    OBVIOUS
  <2>2. QED BY <2>1 DEF Result
<1>6. ASSUME NEW r \in DOMAIN results
      PROVE  /\ results[r].signal # orders[k].signal
             /\ \E i \in DOMAIN new :
                  new[i].signal = results[r].signal /\ new[i].status = results[r].status
  <2>1. PICK i \in DOMAIN orders : orders[i].signal = results[r].signal /\ orders[i].status = results[r].status
    BY DEF Agree
  <2>2. i # k
    BY <1>5, <2>1
  <2>3. QED BY <1>2, <2>1, <2>2 DEF UniqueIn
<1>7. ASSUME NEW r \in DOMAIN all
      PROVE  /\ \A q \in DOMAIN all : all[q].signal = all[r].signal => q = r
             /\ \E i \in DOMAIN new : new[i].signal = all[r].signal /\ new[i].status = all[r].status
  <2>1. CASE r \in DOMAIN results
    <3>1. all[r] = results[r] /\ results[r].signal # orders[k].signal
      BY <1>3, <1>6, <2>1
    <3>2. ASSUME NEW q \in DOMAIN all, all[q].signal = all[r].signal PROVE q = r
      <4>1. q \in DOMAIN results
        BY <1>3, <1>4, <3>1, <3>2
      <4>2. QED BY <1>3, <2>1, <3>1, <3>2, <4>1 DEF Agree
    <3>3. QED BY <1>6, <2>1, <3>1, <3>2
  <2>2. CASE r = Len(results) + 1
    <3>1. all[r] = res
      BY <1>3, <2>2
    <3>2. ASSUME NEW q \in DOMAIN all, all[q].signal = all[r].signal PROVE q = r
      <4>1. q \notin DOMAIN results
        BY <1>3, <1>4, <1>6, <3>1, <3>2
      <4>2. QED BY <1>3, <2>2, <4>1
    <3>3. QED BY <1>1, <1>2, <1>4, <3>1, <3>2
  <2>3. QED BY <1>3, <2>1, <2>2
<1>8. Agree(all, new)
  BY <1>7 DEF Agree
<1>9. QED BY <1>8 DEF all, new, o, res

\* The files of orders and results agree through every step: the orders are written
\* first, so what a failed write or a crash leaves is an order without its result.
LEMMA AgreeStep ==
  ASSUME TypeOK, LockInv, UniqueInv, CopyInv, AgreeInv, [Next]_vars
  PROVE  AgreeInv'
<1> USE OpNamesDistinct
<1>1. ASSUME UNCHANGED <<orderFile, resultFile, newResults, loaded>>,
             pc'[Dispatch] = pc[Dispatch]
      PROVE  AgreeInv'
  BY <1>1 DEF AgreeInv, Agree
<1>2. ASSUME UNCHANGED <<orderFile, resultFile>>, pc'[Dispatch] \notin {"place", "save_orders", "save_results"}
      PROVE  AgreeInv'
  BY <1>2 DEF AgreeInv, Agree
<1>3. ASSUME UNCHANGED <<orderFile, resultFile, newResults>>, loaded'[Dispatch] = loaded[Dispatch],
             pc'[Dispatch] = pc[Dispatch]
      PROVE  AgreeInv'
  BY <1>3 DEF AgreeInv, Agree
<1>4. ASSUME NEW op \in Builders, BuildRequest(op) \/ BuildAcquire(op) \/ BuildDecide(op) PROVE AgreeInv'
  <2>1. UNCHANGED <<orderFile, resultFile, newResults>>
    BY <1>4 DEF BuildRequest, BuildAcquire, BuildDecide, files
  <2>2. loaded'[Dispatch] = loaded[Dispatch] /\ pc'[Dispatch] = pc[Dispatch]
    BY <1>4 DEF BuildRequest, BuildAcquire, BuildDecide, TypeOK
  <2>3. QED BY <1>3, <2>1, <2>2
<1>5. ASSUME NEW op \in Builders, BuildRaises(op) \/ BuildReturn(op) PROVE AgreeInv'
  <2>1. UNCHANGED <<orderFile, resultFile, newResults>>
    BY <1>5 DEF BuildRaises, BuildReturn, files
  <2>2. loaded'[Dispatch] = loaded[Dispatch] /\ pc'[Dispatch] = pc[Dispatch]
    BY <1>5 DEF BuildRaises, BuildReturn, Finish, TypeOK
  <2>3. QED BY <1>3, <2>1, <2>2
<1>6. ASSUME NEW op \in Builders, BuildSave(op) PROVE AgreeInv'
  <2>1. lock = op /\ pc[Dispatch] \notin Holding /\ pc'[Dispatch] = pc[Dispatch]
    BY <1>6 DEF BuildSave, LockInv, TypeOK
  <2>2. Grown(orderFile', orderFile) /\ orderFile' \in Seq(Order) /\ resultFile' = resultFile
    BY <1>6 DEF BuildSave, CopyInv, TypeOK
  <2>3. Agree(resultFile, orderFile')
    BY <2>2, AgreeLater DEF AgreeInv, TypeOK
  <2>4. QED BY <2>1, <2>2, <2>3 DEF AgreeInv, Holding, Agree
<1>7. ASSUME DispatchRequest \/ DispatchAcquire \/ DispatchBlockedByKill \/ DispatchSaveState
      PROVE  AgreeInv'
  <2>1. UNCHANGED <<orderFile, resultFile>>
    BY <1>7 DEF DispatchRequest, DispatchAcquire, DispatchBlockedByKill, DispatchSaveState, files
  <2>2. pc'[Dispatch] \in {"wait", "load", "idle"}
    BY <1>7 DEF DispatchRequest, DispatchAcquire, DispatchBlockedByKill, DispatchSaveState, Finish, TypeOK
  <2>3. QED BY <1>2, <2>1, <2>2
<1>8. ASSUME DispatchLoad PROVE AgreeInv'
  <2>1. /\ UNCHANGED <<orderFile, resultFile>> /\ newResults' = resultFile
        /\ loaded'[Dispatch] = orderFile /\ pc'[Dispatch] \in {"place", "save_state"}
    BY <1>8 DEF DispatchLoad, files, TypeOK
  <2>2. QED BY <2>1 DEF AgreeInv, Agree
<1>9. ASSUME DispatchPlace PROVE AgreeInv'
  <2> DEFINE o == loaded[Dispatch][cursor]
  <2>1. UNCHANGED <<orderFile, resultFile, pc>> /\ pc[Dispatch] = "place"
    BY <1>9 DEF DispatchPlace, files
  <2>2. CASE Picks(o)
    <3> DEFINE rest == [loaded[Dispatch] EXCEPT ![cursor] = [o EXCEPT !.status = Outcome(o)]]
    <3>1. newResults' = Append(newResults, [signal |-> o.signal, status |-> Outcome(o)])
      BY <1>9, <2>2 DEF DispatchPlace
    <3>2. loaded'[Dispatch] = rest
      <4>1. loaded' = [loaded EXCEPT ![Dispatch] = rest]
        BY <1>9, <2>2 DEF DispatchPlace
      <4>2. QED BY <4>1 DEF TypeOK
    <3>3. /\ loaded[Dispatch] \in Seq(Order) /\ newResults \in Seq(Result)
          /\ cursor \in DOMAIN loaded[Dispatch]
      BY <1>9 DEF DispatchPlace, TypeOK
    <3>4. Agree(newResults, loaded[Dispatch]) /\ UniqueIn(loaded[Dispatch])
      BY <2>1 DEF AgreeInv, UniqueInv
    <3>5. o.status = "QUEUED" /\ Outcome(o) \in Settling
      BY <2>2 DEF Picks, Outcome, Settling
    <3>6. Agree(Append(newResults, [signal |-> o.signal, status |-> Outcome(o)]),
                [loaded[Dispatch] EXCEPT ![cursor] = [o EXCEPT !.status = Outcome(o)]])
      BY <3>3, <3>4, <3>5, AgreePlace
    <3>7. Agree(newResults', loaded'[Dispatch])
      BY <3>1, <3>2, <3>6
    <3>8. QED BY <2>1, <3>7 DEF AgreeInv, Agree
  <2>3. CASE ~Picks(o)
    BY <1>1, <1>9, <2>1, <2>3 DEF DispatchPlace
  <2>4. QED BY <2>2, <2>3
<1>10. ASSUME DispatchLoopDone PROVE AgreeInv'
  <2>1. /\ UNCHANGED <<orderFile, resultFile, newResults, loaded>> /\ pc[Dispatch] = "place"
        /\ pc'[Dispatch] = "save_orders"
    BY <1>10 DEF DispatchLoopDone, files, locals, TypeOK
  <2>2. QED BY <2>1 DEF AgreeInv, Agree
<1>11. ASSUME DispatchSaveOrders PROVE AgreeInv'
  <2>1. /\ orderFile' = loaded[Dispatch] /\ UNCHANGED <<resultFile, newResults>>
        /\ pc[Dispatch] = "save_orders" /\ pc'[Dispatch] = "save_results"
    BY <1>11 DEF DispatchSaveOrders, locals, TypeOK
  <2>2. SettledFrom(orderFile', orderFile) /\ orderFile' \in Seq(Order)
    BY <2>1 DEF CopyInv, TypeOK
  <2>3. Agree(resultFile, orderFile')
    BY <2>2, AgreeLater DEF AgreeInv, TypeOK
  <2>4. QED BY <2>1, <2>3 DEF AgreeInv, Agree
<1>12. ASSUME DispatchSaveResults PROVE AgreeInv'
  <2>1. /\ resultFile' = newResults /\ orderFile' = orderFile
        /\ pc[Dispatch] = "save_results" /\ pc'[Dispatch] = "save_state"
    BY <1>12 DEF DispatchSaveResults, TypeOK
  <2>2. QED BY <2>1 DEF AgreeInv, Agree
<1>13. ASSUME CancelRequest \/ CancelSave \/ SetKillRequest \/ SetKillSave PROVE AgreeInv'
  <2>1. UNCHANGED <<resultFile, newResults>>
    BY <1>13 DEF CancelRequest, CancelSave, SetKillRequest, SetKillSave, files
  <2>2. ~CancelSave
    BY DEF CancelSave, CopyInv
  <2>3. orderFile' = orderFile
    BY <1>13, <2>2 DEF CancelRequest, SetKillRequest, SetKillSave, files
  <2>4. loaded'[Dispatch] = loaded[Dispatch] /\ pc'[Dispatch] = pc[Dispatch]
    BY <1>13, <2>2 DEF CancelRequest, SetKillRequest, SetKillSave, Finish, TypeOK
  <2>5. QED BY <1>3, <2>1, <2>3, <2>4
<1>14. ASSUME NEW op \in OpNames, WriteFails(op) PROVE AgreeInv'
  <2>1. UNCHANGED <<orderFile, resultFile>>
    BY <1>14 DEF WriteFails, files
  <2>2. CASE op = Dispatch
    <3>1. pc'[Dispatch] = "idle"
      BY <1>14, <2>2 DEF WriteFails, Finish, TypeOK
    <3>2. QED BY <1>2, <2>1, <3>1
  <2>3. CASE op # Dispatch
    <3>1. loaded'[Dispatch] = loaded[Dispatch] /\ pc'[Dispatch] = pc[Dispatch] /\ newResults' = newResults
      BY <1>14, <2>3 DEF WriteFails, Finish, KeepDispatchState, TypeOK
    <3>2. QED BY <1>3, <2>1, <3>1
  <2>4. QED BY <2>2, <2>3
<1>15. ASSUME Crash PROVE AgreeInv'
  BY <1>2, <1>15 DEF Crash, files
<1>16. CASE UNCHANGED vars
  BY <1>1, <1>16 DEF vars, files, locals
<1>17. QED
  BY <1>4, <1>5, <1>6, <1>7, <1>8, <1>9, <1>10, <1>11, <1>12, <1>13, <1>14, <1>15, <1>16
  DEF Next, BuildStep, DispatchStep
-----------------------------------------------------------------------------
(* The theorems.                                                           *)

\* All the invariants that hold whatever operations are requested.
IInv == LockInv /\ KillInv /\ UniqueInv /\ ResultInv /\ PlacingInv

LEMMA InitIInv == Init => IInv
<1> SUFFICES ASSUME Init PROVE IInv
  OBVIOUS
<1> USE OpNamesDistinct DEF Init
<1>1. LockInv
  BY DEF LockInv, Holding
<1>2. KillInv
  BY DEF KillInv
<1>3. UniqueInv
  BY DEF UniqueInv, UniqueIn
<1>4. ResultInv
  BY DEF ResultInv
<1>5. PlacingInv
  BY DEF PlacingInv, QueuedTradable
<1>6. QED BY <1>1, <1>2, <1>3, <1>4, <1>5 DEF IInv

THEOREM Inductive == Spec => [](TypeOK /\ IInv)
<1>1. Init => TypeOK /\ IInv
  BY InitType, InitIInv
<1>2. TypeOK /\ IInv /\ [Next]_vars => (TypeOK /\ IInv)'
  BY NextType, LockStep, KillStep, UniqueStep, ResultStep, PlacingStep DEF IInv
<1>3. QED BY <1>1, <1>2, PTL DEF Spec

\* The order file never holds two orders of one signal, although cancel and
\* set_kill run outside GATEWAY_LOCK.
THEOREM OrdersUnique == Spec => []UniqueOrders
<1>1. IInv => UniqueOrders
  BY DEF IInv, UniqueInv, UniqueIn, UniqueOrders
<1>2. QED BY <1>1, Inductive, PTL

\* The kill switch file says what was last acknowledged, unless that set_kill
\* was saved while a dispatch held its copy of the state.
THEOREM KillSwitchKept == Spec => []KillSwitchHonoured
<1>1. IInv => KillSwitchHonoured
  BY DEF IInv, KillInv, KillSwitchHonoured
<1>2. QED BY <1>1, Inductive, PTL

\* An order is placed only in DRY_RUN, for a signal that can pass the risk
\* checks, with the kill switch last acknowledged off unless it raced.
THEOREM PlacingSafe == Spec => PlacingIsSafe
<1> DEFINE Safe == \A s \in Signals : placed'[s] # placed[s] =>
                     mode # "LIVE" /\ s \in Tradable /\ (~acked \/ raced)
<1>1. TypeOK /\ IInv /\ [Next]_vars => [Safe]_vars
  <2> SUFFICES ASSUME TypeOK, IInv, [Next]_vars, placed' # placed PROVE Safe
    OBVIOUS
  <2>1. DispatchPlace
    BY DEF Next, BuildStep, DispatchStep, BuildRequest, BuildAcquire, BuildDecide, BuildRaises,
           BuildSave, BuildReturn, DispatchRequest, DispatchAcquire, DispatchLoad,
           DispatchBlockedByKill, DispatchLoopDone, DispatchSaveOrders, DispatchSaveResults,
           DispatchSaveState, CancelRequest, CancelSave, SetKillRequest, SetKillSave,
           WriteFails, Crash, vars, history
  <2> DEFINE o == loaded[Dispatch][cursor]
  <2>2. /\ o.status = "QUEUED" /\ cursor \in DOMAIN loaded[Dispatch]
        /\ placed' = [placed EXCEPT ![o.signal] = IF @ < 2 THEN @ + 1 ELSE @]
    BY <2>1, OpNamesDistinct DEF DispatchPlace, Picks, TypeOK
  <2>3. o.signal \in Tradable
    BY <2>2, OpNamesDistinct DEF IInv, PlacingInv, QueuedTradable
  <2>4. mode # "LIVE" /\ ~stateKill /\ lock = Dispatch
    BY <2>1 DEF DispatchPlace, IInv, PlacingInv, LockInv, Holding
  <2>5. ~acked \/ raced
    BY <2>4 DEF IInv, KillInv
  <2>6. QED BY <2>2, <2>3, <2>4, <2>5 DEF TypeOK
<1>2. QED BY <1>1, Inductive, PTL DEF Spec, PlacingIsSafe

\* No interleaving, failed write or restart drops or rewrites a recorded result.
THEOREM ResultsKept == Spec => ResultsAppendOnly
<1> DEFINE Kept == /\ Len(resultFile') >= Len(resultFile)
                   /\ \A i \in DOMAIN resultFile : resultFile'[i] = resultFile[i]
<1>1. TypeOK /\ IInv /\ [Next]_vars => [Kept]_resultFile
  <2> SUFFICES ASSUME TypeOK, IInv, [Next]_vars, resultFile' # resultFile PROVE Kept
    OBVIOUS
  <2>1. DispatchSaveResults
    BY DEF Next, BuildStep, DispatchStep, BuildRequest, BuildAcquire, BuildDecide, BuildRaises,
           BuildSave, BuildReturn, DispatchRequest, DispatchAcquire, DispatchLoad,
           DispatchBlockedByKill, DispatchPlace, DispatchLoopDone, DispatchSaveOrders,
           DispatchSaveState, CancelRequest, CancelSave, SetKillRequest, SetKillSave,
           WriteFails, Crash, vars, files
  <2>2. QED BY <2>1 DEF DispatchSaveResults, IInv, ResultInv, Extends
<1>2. QED BY <1>1, Inductive, PTL DEF Spec, ResultsAppendOnly

\* Where no cancel is requested, the copies and the results stay in step as well.
LEMMA InductiveWithoutCancel ==
  ASSUME Cancel \notin Ops
  PROVE  Spec => [](TypeOK /\ IInv /\ CopyInv /\ AgreeInv)
<1>1. Init => CopyInv /\ AgreeInv
  BY OpNamesDistinct DEF Init, CopyInv, AgreeInv, Agree
<1>2. TypeOK /\ IInv /\ CopyInv /\ AgreeInv /\ [Next]_vars => CopyInv' /\ AgreeInv'
  BY CopyStep, AgreeStep DEF IInv
<1>3. QED BY <1>1, <1>2, Inductive, PTL DEF Spec

\* Without cancel, whatever write fails and whenever the process dies, no order is
\* dispatched and recorded twice, and the two files say the same of it.
THEOREM ResultsMatch ==
  ASSUME Cancel \notin Ops
  PROVE  Spec => []ResultsMatchOrders
<1>1. AgreeInv => ResultsMatchOrders
  BY DEF AgreeInv, Agree, ResultsMatchOrders
<1>2. QED BY <1>1, InductiveWithoutCancel, PTL

\* Without cancel, an order that left QUEUED keeps its status for ever and no
\* order vanishes.
THEOREM Settled ==
  ASSUME Cancel \notin Ops
  PROVE  Spec => SettledForEver
<1> DEFINE Kept == \A i \in DOMAIN orderFile :
                     /\ i \in DOMAIN orderFile'
                     /\ orderFile'[i].signal = orderFile[i].signal
                     /\ orderFile[i].status # "QUEUED" => orderFile'[i] = orderFile[i]
<1>1. TypeOK /\ IInv /\ CopyInv /\ [Next]_vars => [Kept]_orderFile
  <2> SUFFICES ASSUME TypeOK, CopyInv, [Next]_vars, orderFile' # orderFile PROVE Kept
    OBVIOUS
  <2>1. (\E op \in Builders : BuildSave(op)) \/ DispatchSaveOrders \/ CancelSave
    BY DEF Next, BuildStep, DispatchStep, BuildRequest, BuildAcquire, BuildDecide, BuildRaises,
           BuildReturn, DispatchRequest, DispatchAcquire, DispatchLoad, DispatchBlockedByKill,
           DispatchPlace, DispatchLoopDone, DispatchSaveResults, DispatchSaveState,
           CancelRequest, SetKillRequest, SetKillSave, WriteFails, Crash, vars, files
  <2>2. ~CancelSave
    BY DEF CancelSave, CopyInv
  <2>3. CASE \E op \in Builders : BuildSave(op)
    <3>1. Grown(orderFile', orderFile)
      BY <2>3 DEF BuildSave, CopyInv
    <3>2. QED BY <3>1 DEF Grown, TypeOK
  <2>4. CASE DispatchSaveOrders
    <3>1. SettledFrom(orderFile', orderFile)
      BY <2>4 DEF DispatchSaveOrders, CopyInv
    <3>2. orderFile' \in Seq(Order)
      BY <2>4, OpNamesDistinct DEF DispatchSaveOrders, TypeOK
    <3>3. QED BY <3>1, <3>2 DEF SettledFrom, TypeOK
  <2>5. QED BY <2>1, <2>2, <2>3, <2>4
<1>2. QED BY <1>1, InductiveWithoutCancel, PTL DEF Spec, SettledForEver

-----------------------------------------------------------------------------
(* The gateway implements OrderBook.                                        *)

\* The status of a signal's entry in a list, as the refinement mapping reads it.
StatusIn(list, s) ==
  IF HasOrder(list, s)
  THEN (CHOOSE o \in {list[i] : i \in DOMAIN list} : o.signal = s).status
  ELSE "NONE"

\* Where each signal has one entry, the mapping reads that one.
LEMMA StatusOfEntry ==
  ASSUME NEW list, UniqueIn(list), NEW i \in DOMAIN list
  PROVE  StatusIn(list, list[i].signal) = list[i].status
<1> DEFINE all == {list[j] : j \in DOMAIN list}
           entry == CHOOSE o \in all : o.signal = list[i].signal
<1>1. list[i] \in all
  OBVIOUS
<1>2. entry \in all /\ entry.signal = list[i].signal
  BY <1>1
<1>3. entry = list[i]
  BY <1>2 DEF UniqueIn
<1>4. HasOrder(list, list[i].signal)
  BY DEF HasOrder
<1>5. QED BY <1>3, <1>4 DEF StatusIn

LEMMA MappingReads ==
  ASSUME NEW s \in Signals
  PROVE  /\ OrderOf(s) = StatusIn(orderFile, s) /\ ResultOf(s) = StatusIn(resultFile, s)
         /\ OrderOf(s)' = StatusIn(orderFile', s) /\ ResultOf(s)' = StatusIn(resultFile', s)
BY DEF OrderOf, ResultOf, StatusIn, HasOrder

\* An order appended for a signal that had none is one Build of the order book.
LEMMA GrownIsBuild ==
  ASSUME TypeOK, TypeOK', UniqueOrders', Grown(orderFile', orderFile), resultFile' = resultFile
  PROVE  \E s \in Signals : Book!Build(s)
<1>1. PICK o \in Order : /\ orderFile' = Append(orderFile, o) /\ ~HasOrder(orderFile, o.signal)
                         /\ o.status \in {"QUEUED", "REJECTED"}
  BY DEF Grown
<1>2. UniqueIn(orderFile')
  BY DEF UniqueOrders, UniqueIn
<1>3. /\ DOMAIN orderFile = 1..Len(orderFile) /\ Len(orderFile) \in Nat
      /\ DOMAIN orderFile' = 1..(Len(orderFile) + 1)
      /\ orderFile'[Len(orderFile) + 1] = o
      /\ \A i \in DOMAIN orderFile : orderFile'[i] = orderFile[i]
  BY <1>1 DEF TypeOK
<1>4. UniqueIn(orderFile)
  BY <1>2, <1>3 DEF UniqueIn
<1>5. o.signal \in Signals
  BY DEF Order
<1>6. StatusIn(orderFile, o.signal) = "NONE" /\ StatusIn(orderFile', o.signal) = o.status
  <2>1. Len(orderFile) + 1 \in DOMAIN orderFile'
    BY <1>3
  <2>2. StatusIn(orderFile', orderFile'[Len(orderFile) + 1].signal) = orderFile'[Len(orderFile) + 1].status
    BY <1>2, <2>1, StatusOfEntry
  <2>3. StatusIn(orderFile, o.signal) = "NONE"
    BY <1>1 DEF StatusIn
  <2>4. QED BY <1>3, <2>2, <2>3
<1>7. ASSUME NEW s \in Signals \ {o.signal} PROVE StatusIn(orderFile', s) = StatusIn(orderFile, s)
  <2>1. CASE HasOrder(orderFile, s)
    <3>1. PICK i \in DOMAIN orderFile : orderFile[i].signal = s
      BY <2>1 DEF HasOrder
    <3>2. i \in DOMAIN orderFile' /\ orderFile'[i] = orderFile[i]
      BY <1>3
    <3>3. QED BY <1>2, <1>4, <3>1, <3>2, StatusOfEntry
  <2>2. CASE ~HasOrder(orderFile, s)
    <3>1. ~HasOrder(orderFile', s)
      BY <1>3, <2>2 DEF HasOrder
    <3>2. QED BY <2>2, <3>1 DEF StatusIn
  <2>3. QED BY <2>1, <2>2
<1>8. \A s \in Signals : OrderOf(s)' = IF s = o.signal THEN o.status ELSE OrderOf(s)
  BY <1>6, <1>7, MappingReads
<1>9. \A s \in Signals : ResultOf(s)' = ResultOf(s)
  BY MappingReads
<1>10. OrderOf(o.signal) = "NONE"
  BY <1>5, <1>6, MappingReads
<1>11. [s \in Signals |-> OrderOf(s)'] = [[s \in Signals |-> OrderOf(s)] EXCEPT ![o.signal] = o.status]
  BY <1>8
<1>12. Book!Build(o.signal)
  BY <1>1, <1>5, <1>9, <1>10, <1>11 DEF Book!Build
<1>13. QED BY <1>5, <1>12

\* What a dispatch writes back settles some queued orders and touches no other.
LEMMA SettledIsSettle ==
  ASSUME TypeOK, TypeOK', UniqueOrders, SettledFrom(orderFile', orderFile), resultFile' = resultFile
  PROVE  \/ \E S \in SUBSET Signals : Book!Settle(S)
         \/ \A s \in Signals : OrderOf(s)' = OrderOf(s)
<1> DEFINE changed == {i \in DOMAIN orderFile : orderFile'[i] # orderFile[i]}
           S == {orderFile[i].signal : i \in changed}
<1>1. /\ DOMAIN orderFile' = DOMAIN orderFile
      /\ \A i \in DOMAIN orderFile : orderFile'[i].signal = orderFile[i].signal
      /\ \A i \in changed : orderFile[i].status = "QUEUED" /\ orderFile'[i].status \in Settling
  BY DEF SettledFrom, TypeOK
<1>2. UniqueIn(orderFile) /\ UniqueIn(orderFile')
  BY <1>1 DEF UniqueOrders, UniqueIn
<1>3. ASSUME NEW i \in DOMAIN orderFile
      PROVE  /\ orderFile[i].signal \in Signals
             /\ OrderOf(orderFile[i].signal) = orderFile[i].status
             /\ OrderOf(orderFile[i].signal)' = orderFile'[i].status
  <2>1. orderFile[i] \in Order
    BY DEF TypeOK
  <2>2. orderFile[i].signal \in Signals
    BY <2>1 DEF Order
  <2>3. StatusIn(orderFile, orderFile[i].signal) = orderFile[i].status
    BY <1>2, StatusOfEntry
  <2>4. StatusIn(orderFile', orderFile'[i].signal) = orderFile'[i].status
    BY <1>1, <1>2, StatusOfEntry
  <2>5. QED BY <1>1, <2>2, <2>3, <2>4, MappingReads
<1>4. ASSUME NEW s \in Signals \ S PROVE OrderOf(s)' = OrderOf(s)
  <2>1. CASE HasOrder(orderFile, s)
    <3>1. PICK i \in DOMAIN orderFile : orderFile[i].signal = s
      BY <2>1 DEF HasOrder
    <3>2. orderFile'[i] = orderFile[i]
      BY <3>1
    <3>3. QED BY <1>3, <3>1, <3>2
  <2>2. CASE ~HasOrder(orderFile, s)
    <3>1. ~HasOrder(orderFile', s)
      BY <1>1, <2>2 DEF HasOrder
    <3>2. QED BY <2>2, <3>1, MappingReads DEF StatusIn
  <2>3. QED BY <2>1, <2>2
<1>5. ASSUME NEW s \in S
      PROVE  s \in Signals /\ OrderOf(s) = "QUEUED" /\ OrderOf(s)' \in Settling
  <2>1. PICK i \in changed : orderFile[i].signal = s
    OBVIOUS
  <2>2. QED BY <1>1, <1>3, <2>1
<1> HIDE DEF S, changed
<1>6. CASE S = {}
  BY <1>4, <1>6
<1>7. CASE S # {}
  <2> DEFINE f == [s \in S |-> OrderOf(s)']
  <2>1. f \in [S -> Book!Dispatched]
    BY <1>5 DEF Book!Dispatched, Settling
  <2>2. [s \in Signals |-> OrderOf(s)'] = [s \in Signals |-> IF s \in S THEN f[s] ELSE OrderOf(s)]
    BY <1>4
  <2>3. \A s \in Signals : ResultOf(s)' = ResultOf(s)
    BY MappingReads
  <2>4. S \in SUBSET Signals /\ \A s \in S : OrderOf(s) = "QUEUED"
    BY <1>5
  <2> HIDE DEF f
  <2>5. Book!Settle(S)
    BY <1>7, <2>1, <2>2, <2>3, <2>4 DEF Book!Settle
  <2>6. QED BY <2>4, <2>5
<1>8. QED BY <1>6, <1>7

\* A longer list of results that agrees with the orders records some of them, once.
LEMMA AgreedIsRecord ==
  ASSUME TypeOK, TypeOK', UniqueOrders, orderFile' = orderFile,
         Extends(resultFile', resultFile), Agree(resultFile', orderFile)
  PROVE  \/ \E S \in SUBSET Signals : Book!Record(S)
         \/ \A s \in Signals : ResultOf(s)' = ResultOf(s)
<1>1. UniqueIn(orderFile) /\ UniqueIn(resultFile')
  BY DEF UniqueOrders, UniqueIn, Agree
<1>2. DOMAIN resultFile \subseteq DOMAIN resultFile' /\ \A r \in DOMAIN resultFile : resultFile'[r] = resultFile[r]
  BY DEF Extends, TypeOK
<1>3. UniqueIn(resultFile)
  BY <1>1, <1>2 DEF UniqueIn
<1>4. ASSUME NEW s \in Signals, HasOrder(resultFile', s)
      PROVE  ResultOf(s)' = OrderOf(s) /\ OrderOf(s) \in Settling
  <2>1. PICK r \in DOMAIN resultFile' : resultFile'[r].signal = s
    BY <1>4 DEF HasOrder
  <2>2. PICK i \in DOMAIN orderFile :
          orderFile[i].signal = resultFile'[r].signal /\ orderFile[i].status = resultFile'[r].status
    BY DEF Agree
  <2>3. StatusIn(resultFile', resultFile'[r].signal) = resultFile'[r].status
    BY <1>1, StatusOfEntry
  <2>4. StatusIn(orderFile, orderFile[i].signal) = orderFile[i].status
    BY <1>1, StatusOfEntry
  <2>5. resultFile'[r] \in Result
    BY DEF TypeOK
  <2>6. resultFile'[r].status \in Settling
    BY <2>5 DEF Result, Settling
  <2>7. QED BY <2>1, <2>2, <2>3, <2>4, <2>6, MappingReads
<1>5. ASSUME NEW s \in Signals, HasOrder(resultFile, s)
      PROVE  ResultOf(s)' = ResultOf(s)
  <2>1. PICK r \in DOMAIN resultFile : resultFile[r].signal = s
    BY <1>5 DEF HasOrder
  <2>2. StatusIn(resultFile, resultFile[r].signal) = resultFile[r].status
    BY <1>3, StatusOfEntry
  <2>3. StatusIn(resultFile', resultFile'[r].signal) = resultFile'[r].status
    BY <1>1, <1>2, StatusOfEntry
  <2>4. QED BY <1>2, <2>1, <2>2, <2>3, MappingReads
<1>6. ASSUME NEW s \in Signals, ~HasOrder(resultFile', s)
      PROVE  ResultOf(s)' = ResultOf(s)
  <2>1. ~HasOrder(resultFile, s)
    BY <1>2, <1>6 DEF HasOrder
  <2>2. QED BY <1>6, <2>1, MappingReads DEF StatusIn
<1>7. ASSUME NEW s \in Signals, ~HasOrder(resultFile, s) PROVE ResultOf(s) = "NONE"
  BY <1>7, MappingReads DEF StatusIn
<1> DEFINE S == {s \in Signals : HasOrder(resultFile', s) /\ ~HasOrder(resultFile, s)}
<1>8. \A s \in S : ResultOf(s) = "NONE" /\ ResultOf(s)' = OrderOf(s) /\ OrderOf(s) \in Settling
  BY <1>4, <1>7
<1>9. \A s \in Signals \ S : ResultOf(s)' = ResultOf(s)
  BY <1>5, <1>6
<1>10. S \in SUBSET Signals
  OBVIOUS
<1> HIDE DEF S
<1>11. CASE S = {}
  BY <1>9, <1>11
<1>12. CASE S # {}
  <2>1. [s \in Signals |-> ResultOf(s)'] = [s \in Signals |-> IF s \in S THEN OrderOf(s) ELSE ResultOf(s)]
    BY <1>8, <1>9
  <2>2. \A s \in Signals : OrderOf(s)' = OrderOf(s)
    BY MappingReads
  <2>3. Book!Record(S)
    BY <1>8, <1>10, <1>12, <2>1, <2>2 DEF Book!Record, Book!Dispatched, Settling
  <2>4. QED BY <1>10, <2>3
<1>13. QED BY <1>11, <1>12

\* Without cancel, the files, the locks and the requests of the gateway implement the
\* order book: an order is built once, settled once and recorded once, through any
\* interleaving, failed write and restart.
THEOREM ImplementsBook ==
  ASSUME Cancel \notin Ops
  PROVE  Spec => ImplementsOrderBook
<1> DEFINE mapped == <<[s \in Signals |-> OrderOf(s)], [s \in Signals |-> ResultOf(s)]>>
<1>1. Init => Book!Init
  <2> SUFFICES ASSUME Init PROVE Book!Init
    OBVIOUS
  <2>1. \A s : ~HasOrder(orderFile, s) /\ ~HasOrder(resultFile, s)
    BY DEF Init, HasOrder
  <2>2. QED BY <2>1, MappingReads DEF StatusIn, Book!Init
<1>2. TypeOK /\ TypeOK' /\ IInv /\ IInv' /\ CopyInv /\ AgreeInv /\ [Next]_vars => [Book!Next]_mapped
  <2> SUFFICES ASSUME TypeOK, TypeOK', IInv, IInv', CopyInv, AgreeInv, [Next]_vars
               PROVE  [Book!Next]_mapped
    OBVIOUS
  <2>1. UniqueOrders /\ UniqueOrders'
    BY DEF IInv, UniqueInv, UniqueIn, UniqueOrders
  <2>2. CASE UNCHANGED <<orderFile, resultFile>>
    <3>1. \A s \in Signals : OrderOf(s)' = OrderOf(s) /\ ResultOf(s)' = ResultOf(s)
      BY <2>2, MappingReads
    <3>2. QED BY <3>1
  <2>3. ASSUME NEW op \in Builders, BuildSave(op) PROVE [Book!Next]_mapped
    <3>1. Grown(orderFile', orderFile) /\ resultFile' = resultFile
      BY <2>3 DEF BuildSave, CopyInv
    <3>2. QED BY <2>1, <3>1, GrownIsBuild DEF Book!Next
  <2>4. CASE DispatchSaveOrders
    <3>1. SettledFrom(orderFile', orderFile) /\ resultFile' = resultFile
      BY <2>4 DEF DispatchSaveOrders, CopyInv
    <3>2. \A s \in Signals : ResultOf(s)' = ResultOf(s)
      BY <3>1, MappingReads
    <3>3. QED BY <2>1, <3>1, <3>2, SettledIsSettle DEF Book!Next
  <2>5. CASE DispatchSaveResults
    <3>1. /\ Extends(resultFile', resultFile) /\ Agree(resultFile', orderFile)
          /\ orderFile' = orderFile
      BY <2>5 DEF DispatchSaveResults, IInv, ResultInv, AgreeInv
    <3>2. \A s \in Signals : OrderOf(s)' = OrderOf(s)
      BY <3>1, MappingReads
    <3>3. QED BY <2>1, <3>1, <3>2, AgreedIsRecord DEF Book!Next
  <2>6. ~CancelSave
    BY DEF CancelSave, CopyInv
  <2>7. QED
    BY <2>2, <2>3, <2>4, <2>5, <2>6
    DEF Next, BuildStep, DispatchStep, BuildRequest, BuildAcquire, BuildDecide, BuildRaises,
        BuildReturn, DispatchRequest, DispatchAcquire, DispatchLoad, DispatchBlockedByKill,
        DispatchPlace, DispatchLoopDone, DispatchSaveState, CancelRequest, SetKillRequest,
        SetKillSave, WriteFails, Crash, vars, files
<1>3. QED BY <1>1, <1>2, InductiveWithoutCancel, PTL DEF Spec, ImplementsOrderBook, Book!Spec
=============================================================================
