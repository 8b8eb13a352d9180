-------------------------- MODULE ExecutionGateway --------------------------
(***************************************************************************)
(* The broker execution gateway (app/services/execution_gateway) behind    *)
(* the OPS endpoints of app/main.py.                                       *)
(*                                                                         *)
(* Every endpoint runs under its own non-blocking lock of OPS_LOCKS, so at *)
(* most one request per operation name is in progress: an operation name   *)
(* is a process here.  Handlers run in the server's thread pool and share  *)
(* three JSON files.  build_from_signal and dispatch work under the        *)
(* process-wide GATEWAY_LOCK; cancel and set_kill read and write the same  *)
(* files without it.  A step is one file read, one adapter call or one     *)
(* atomic file write, with the local computation that follows it.          *)
(***************************************************************************)
EXTENDS Naturals, Sequences, FiniteSets

CONSTANTS
  Signals,    \* ids of the approved signals the strategy engine can hand over
  Tradable,   \* those with a valid approval, a direction, a stop and a risk in range
  Malformed,  \* those whose direction is no ExecutionSide: building one raises
  MinVolume,  \* minimum_volume of the instrument of each signal
  Modes,      \* values of FXPILOT_EXECUTION_MODE a start of the process may see
  Ops,        \* the operations requested in this configuration
  Faults,     \* {"crash", "write"}: which faults may happen
  MaxResults  \* bound: no dispatch is requested once so many results are recorded

Builders == {"execution_build", "execution_rebuild"}
OpNames  == Builders \cup {"execution_dispatch", "execution_cancel", "execution_kill_switch"}
FreeLock == "none"

ASSUME SignalAssumption ==
  /\ Tradable \subseteq Signals
  /\ Malformed \subseteq Signals \ Tradable
  /\ MinVolume \in [Signals -> Nat]
ASSUME ConfigAssumption ==
  /\ Ops \subseteq OpNames
  /\ MaxResults \in Nat

\* Statuses the gateway gives an order; SENT, ACKNOWLEDGED, FILLED... are never assigned.
OrderStatus == {"QUEUED", "REJECTED", "CANCELLED", "FAILED", "DRY_RUN_COMPLETED"}
Order  == [signal : Signals, status : OrderStatus, volume : Nat]
Result == [signal : Signals, status : {"FAILED", "DRY_RUN_COMPLETED"}]

VARIABLES
  orderFile,   \* execution_orders.json
  resultFile,  \* execution_results.json
  killFile,    \* kill_switch.enabled of execution_state.json
  mode,        \* the mode of the running process
  lock,        \* holder of GATEWAY_LOCK
  pc,          \* where the request of each operation stands
  todo,        \* signals a build_all still has to build
  current,     \* the signals (at most one) a builder is building under the lock
  loaded,      \* the order list each operation holds in memory
  target,      \* signals whose orders a dispatch or a cancel is about
  cursor,      \* index of the dispatch loop
  newResults,  \* the result list a dispatch holds in memory
  stateKill,   \* kill_switch.enabled of the state object a dispatch holds
  killValue,   \* argument of the set_kill in progress
  \* History, read by properties only:
  placed,      \* adapter.place_order calls for each signal, counted up to 2
  acked,       \* argument of the last set_kill that was saved
  raced        \* that set_kill was saved while a dispatch held a state object

files   == <<orderFile, resultFile, killFile>>
locals  == <<todo, current, loaded, target, cursor, newResults, stateKill, killValue>>
history == <<placed, acked, raced>>
vars    == <<files, mode, lock, pc, locals, history>>

TypeOK ==
  /\ orderFile \in Seq(Order)
  /\ resultFile \in Seq(Result)
  /\ killFile \in BOOLEAN
  /\ mode \in Modes
  /\ lock \in Builders \cup {"execution_dispatch", FreeLock}
  /\ pc \in [OpNames -> {"idle", "next", "decide", "wait", "load", "place",
                         "save", "save_orders", "save_results", "save_state"}]
  /\ todo \in [Builders -> SUBSET Signals]
  /\ current \in [Builders -> SUBSET Signals]
  /\ loaded \in [OpNames -> Seq(Order)]
  /\ target \in [OpNames -> SUBSET Signals]
  /\ cursor \in Nat \ {0}
  /\ newResults \in Seq(Result)
  /\ stateKill \in BOOLEAN
  /\ killValue \in BOOLEAN
  /\ placed \in [Signals -> 0..2]
  /\ acked \in BOOLEAN
  /\ raced \in BOOLEAN

\* First start: no files, so load_state yields the default, kill switch on.
Init ==
  /\ orderFile = <<>>
  /\ resultFile = <<>>
  /\ killFile = TRUE
  /\ mode \in Modes
  /\ lock = FreeLock
  /\ pc = [op \in OpNames |-> "idle"]
  /\ todo = [op \in Builders |-> {}]
  /\ current = [op \in Builders |-> {}]
  /\ loaded = [op \in OpNames |-> <<>>]
  /\ target = [op \in OpNames |-> {}]
  /\ cursor = 1
  /\ newResults = <<>>
  /\ stateKill = TRUE
  /\ killValue = TRUE
  /\ placed = [s \in Signals |-> 0]
  /\ acked = TRUE
  /\ raced = FALSE

-----------------------------------------------------------------------------
\* The request of op is over; its in-memory objects are gone.
Finish(op) ==
  /\ pc' = [pc EXCEPT ![op] = "idle"]
  /\ loaded' = [loaded EXCEPT ![op] = <<>>]
  /\ target' = [target EXCEPT ![op] = {}]
  /\ todo' = [b \in Builders |-> IF b = op THEN {} ELSE todo[b]]
  /\ current' = [b \in Builders |-> IF b = op THEN {} ELSE current[b]]

\* Leaving the `with GATEWAY_LOCK` block, normally or by an exception.
Release(op) == lock' = IF lock = op THEN FreeLock ELSE lock

\* The same for the objects only a dispatch holds.
DropDispatchState ==
  /\ cursor' = 1
  /\ newResults' = <<>>
  /\ stateKill' = TRUE
KeepDispatchState == UNCHANGED <<cursor, newResults, stateKill>>

\* Mutant: finished orders no longer count when a signal is looked up.
HasOrder_Unfinished(orders, s) ==
  \E i \in DOMAIN orders : orders[i].signal = s /\ orders[i].status = "QUEUED"

HasOrder(orders, s) == \E i \in DOMAIN orders : orders[i].signal = s

-----------------------------------------------------------------------------
(* build_all: read the approved signals once, then build them one by one.  *)

BuildRequest(op) ==
  /\ op \in Ops
  /\ pc[op] = "idle"
  /\ \E S \in SUBSET Signals :
       /\ todo' = [todo EXCEPT ![op] = S]
       /\ pc' = [pc EXCEPT ![op] = "next"]
  /\ UNCHANGED <<files, mode, lock, current, loaded, target, cursor, newResults,
                 stateKill, killValue, history>>

\* Mutant: the orders are loaded without GATEWAY_LOCK.
BuildAcquire_Unlocked(op) ==
  /\ pc[op] = "next"
  /\ \E s \in todo[op] :
       /\ todo' = [todo EXCEPT ![op] = @ \ {s}]
       /\ IF HasOrder(orderFile, s)
          THEN UNCHANGED <<pc, current, loaded>>
          ELSE /\ pc' = [pc EXCEPT ![op] = "decide"]
               /\ current' = [current EXCEPT ![op] = {s}]
               /\ loaded' = [loaded EXCEPT ![op] = orderFile]
  /\ UNCHANGED <<files, mode, lock, target, cursor, newResults, stateKill, killValue, history>>

\* The first statement under the lock: load the orders and look for the signal.
BuildAcquire(op) ==
  /\ pc[op] = "next"
  /\ lock = FreeLock
  /\ \E s \in todo[op] :
       /\ todo' = [todo EXCEPT ![op] = @ \ {s}]
       /\ IF HasOrder(orderFile, s)
          THEN UNCHANGED <<lock, pc, current, loaded>>
          ELSE /\ lock' = op
               /\ pc' = [pc EXCEPT ![op] = "decide"]
               /\ current' = [current EXCEPT ![op] = {s}]
               /\ loaded' = [loaded EXCEPT ![op] = orderFile]
  /\ UNCHANGED <<files, mode, target, cursor, newResults, stateKill, killValue, history>>

\* required_checks: fit stands for the checks whose inputs change between calls
\* (strategy status, expiry, instrument metadata, open positions).
Blocked(s, fit) == mode = "LIVE" \/ killFile \/ s \notin Tradable \/ ~fit

NewOrder(s, fit) ==
  IF Blocked(s, fit)
  THEN [signal |-> s, status |-> "REJECTED", volume |-> 0]
  ELSE [signal |-> s, status |-> "QUEUED", volume |-> MinVolume[s]]

\* Read the kill switch and the risk inputs and append the new order.
BuildDecide(op) ==
  /\ pc[op] = "decide"
  /\ \E s \in current[op] \ Malformed, fit \in BOOLEAN :
       loaded' = [loaded EXCEPT ![op] = Append(@, NewOrder(s, fit))]
  /\ pc' = [pc EXCEPT ![op] = "save"]
  /\ UNCHANGED <<files, mode, lock, todo, current, target, cursor, newResults,
                 stateKill, killValue, history>>

\* Mutant: lock taken without `with`, so an exception keeps it.
BuildRaises_KeepsLock(op) ==
  /\ pc[op] = "decide"
  /\ current[op] \cap Malformed # {}
  /\ Finish(op)
  /\ UNCHANGED <<files, mode, lock, cursor, newResults, stateKill, killValue, history>>

\* ExecutionSide(...) raises: the rest of the build_all is abandoned.
BuildRaises(op) ==
  /\ pc[op] = "decide"
  /\ current[op] \cap Malformed # {}
  /\ Finish(op)
  /\ Release(op)
  /\ UNCHANGED <<files, mode, cursor, newResults, stateKill, killValue, history>>

BuildSave(op) ==
  /\ pc[op] = "save"
  /\ orderFile' = loaded[op]
  /\ pc' = [pc EXCEPT ![op] = "next"]
  /\ current' = [current EXCEPT ![op] = {}]
  /\ loaded' = [loaded EXCEPT ![op] = <<>>]
  /\ Release(op)
  /\ UNCHANGED <<resultFile, killFile, mode, todo, target, cursor, newResults,
                 stateKill, killValue, history>>

BuildReturn(op) ==
  /\ pc[op] = "next"
  /\ todo[op] = {}
  /\ Finish(op)
  /\ UNCHANGED <<files, mode, lock, cursor, newResults, stateKill, killValue, history>>

-----------------------------------------------------------------------------
(* dispatch: place every queued order, then write orders, results, state.  *)

Dispatch == "execution_dispatch"

\* POST /dispatch is about every order, POST /dispatch/{order_id} about one.
DispatchRequest ==
  /\ Dispatch \in Ops
  /\ pc[Dispatch] = "idle"
  /\ Len(resultFile) < MaxResults
  /\ \E S \in {Signals} \cup {{s} : s \in Signals} :
       target' = [target EXCEPT ![Dispatch] = S]
  /\ pc' = [pc EXCEPT ![Dispatch] = "wait"]
  /\ UNCHANGED <<files, mode, lock, todo, current, loaded, cursor, newResults,
                 stateKill, killValue, history>>

\* Mutant: the kill switch of the state is not looked at.
DispatchAcquire_IgnoresKill ==
  /\ pc[Dispatch] = "wait"
  /\ lock = FreeLock
  /\ lock' = Dispatch
  /\ stateKill' = FALSE
  /\ pc' = [pc EXCEPT ![Dispatch] = "load"]
  /\ UNCHANGED <<files, mode, todo, current, loaded, target, cursor, newResults,
                 killValue, history>>

DispatchAcquire ==
  /\ pc[Dispatch] = "wait"
  /\ lock = FreeLock
  /\ lock' = Dispatch
  /\ stateKill' = killFile
  /\ pc' = [pc EXCEPT ![Dispatch] = "load"]
  /\ UNCHANGED <<files, mode, todo, current, loaded, target, cursor, newResults,
                 killValue, history>>

\* Mutant: the results recorded so far are not loaded.
DispatchLoad_LosesResults ==
  /\ pc[Dispatch] = "load"
  /\ mode = "LIVE" \/ ~stateKill
  /\ loaded' = [loaded EXCEPT ![Dispatch] = orderFile]
  /\ newResults' = <<>>
  /\ cursor' = 1
  /\ pc' = [pc EXCEPT ![Dispatch] = IF mode = "LIVE" THEN "save_state" ELSE "place"]
  /\ UNCHANGED <<files, mode, lock, todo, current, target, stateKill, killValue, history>>

\* In LIVE mode only the state object (with last_error) is written back.
DispatchLoad ==
  /\ pc[Dispatch] = "load"
  /\ mode = "LIVE" \/ ~stateKill
  /\ loaded' = [loaded EXCEPT ![Dispatch] = orderFile]
  /\ newResults' = resultFile
  /\ cursor' = 1
  /\ pc' = [pc EXCEPT ![Dispatch] = IF mode = "LIVE" THEN "save_state" ELSE "place"]
  /\ UNCHANGED <<files, mode, lock, todo, current, target, stateKill, killValue, history>>

DispatchBlockedByKill ==
  /\ pc[Dispatch] = "load"
  /\ mode # "LIVE" /\ stateKill
  /\ Finish(Dispatch)
  /\ Release(Dispatch)
  /\ DropDispatchState
  /\ UNCHANGED <<files, mode, killValue, history>>

\* DryRunExecutionAdapter.place_order: validate_order wants a positive volume.
Outcome(o) == IF o.volume > 0 THEN "DRY_RUN_COMPLETED" ELSE "FAILED"

\* Mutant: the status is not looked at.
Picks_AnyStatus(o) == o.signal \in target[Dispatch]

\* The dispatch loop picks o: its order_id is asked for and it is still queued.
Picks(o) == o.signal \in target[Dispatch] /\ o.status = "QUEUED"

DispatchPlace ==
  /\ pc[Dispatch] = "place"
  /\ cursor <= Len(loaded[Dispatch])
  /\ LET o == loaded[Dispatch][cursor] IN
       IF Picks(o)
       THEN /\ newResults' = Append(newResults, [signal |-> o.signal, status |-> Outcome(o)])
            /\ loaded' = [loaded EXCEPT ![Dispatch][cursor].status = Outcome(o)]
            /\ placed' = [placed EXCEPT ![o.signal] = IF @ < 2 THEN @ + 1 ELSE @]
       ELSE UNCHANGED <<newResults, loaded, placed>>
  /\ cursor' = cursor + 1
  /\ UNCHANGED <<files, mode, lock, pc, todo, current, target, stateKill, killValue,
                 acked, raced>>

DispatchLoopDone ==
  /\ pc[Dispatch] = "place"
  /\ cursor > Len(loaded[Dispatch])
  /\ pc' = [pc EXCEPT ![Dispatch] = "save_orders"]
  /\ UNCHANGED <<files, mode, lock, locals, history>>

DispatchSaveOrders ==
  /\ pc[Dispatch] = "save_orders"
  /\ orderFile' = loaded[Dispatch]
  /\ pc' = [pc EXCEPT ![Dispatch] = "save_results"]
  /\ UNCHANGED <<resultFile, killFile, mode, lock, locals, history>>

DispatchSaveResults ==
  /\ pc[Dispatch] = "save_results"
  /\ resultFile' = newResults
  /\ pc' = [pc EXCEPT ![Dispatch] = "save_state"]
  /\ UNCHANGED <<orderFile, killFile, mode, lock, locals, history>>

\* Mutant: a fresh state object is saved, with the default kill switch.
DispatchSaveState_Fresh ==
  /\ pc[Dispatch] = "save_state"
  /\ killFile' = TRUE
  /\ Finish(Dispatch)
  /\ Release(Dispatch)
  /\ DropDispatchState
  /\ UNCHANGED <<orderFile, resultFile, mode, killValue, history>>

\* The state object read at the start is written back whole, kill switch included.
DispatchSaveState ==
  /\ pc[Dispatch] = "save_state"
  /\ killFile' = stateKill
  /\ Finish(Dispatch)
  /\ Release(Dispatch)
  /\ DropDispatchState
  /\ UNCHANGED <<orderFile, resultFile, mode, killValue, history>>

-----------------------------------------------------------------------------
(* cancel and set_kill: read, modify and write without GATEWAY_LOCK.       *)

Cancel == "execution_cancel"
Cancelled(o, s) ==
  IF o.signal = s /\ o.status = "QUEUED" THEN [o EXCEPT !.status = "CANCELLED"] ELSE o

CancelRequest ==
  /\ Cancel \in Ops
  /\ pc[Cancel] = "idle"
  /\ \E s \in Signals :
       loaded' = [loaded EXCEPT ![Cancel] =
                    [i \in DOMAIN orderFile |-> Cancelled(orderFile[i], s)]]
  /\ pc' = [pc EXCEPT ![Cancel] = "save"]
  /\ UNCHANGED <<files, mode, lock, todo, current, target, cursor, newResults,
                 stateKill, killValue, history>>

CancelSave ==
  /\ pc[Cancel] = "save"
  /\ orderFile' = loaded[Cancel]
  /\ Finish(Cancel)
  /\ UNCHANGED <<resultFile, killFile, mode, lock, cursor, newResults, stateKill,
                 killValue, history>>

KillSwitch == "execution_kill_switch"

SetKillRequest ==
  /\ KillSwitch \in Ops
  /\ pc[KillSwitch] = "idle"
  /\ killValue' \in BOOLEAN
  /\ pc' = [pc EXCEPT ![KillSwitch] = "save"]
  /\ UNCHANGED <<files, mode, lock, todo, current, loaded, target, cursor, newResults,
                 stateKill, history>>

SetKillSave ==
  /\ pc[KillSwitch] = "save"
  /\ killFile' = killValue
  /\ Finish(KillSwitch)
  /\ killValue' = TRUE
  /\ acked' = killValue
  /\ raced' = (lock = Dispatch)
  /\ UNCHANGED <<orderFile, resultFile, mode, lock, cursor, newResults, stateKill, placed>>

-----------------------------------------------------------------------------
(* Faults.                                                                 *)

\* atomic_write_json raises: the file keeps its content, the request ends with a 500.
WriteFails(op) ==
  /\ "write" \in Faults
  /\ pc[op] \in {"save", "save_orders", "save_results", "save_state"}
  /\ Finish(op)
  /\ Release(op)
  /\ IF op = Dispatch THEN DropDispatchState ELSE KeepDispatchState
  /\ killValue' = IF op = KillSwitch THEN TRUE ELSE killValue
  /\ UNCHANGED <<files, mode, history>>

\* The process dies and is started again: only the files survive.
Crash ==
  /\ "crash" \in Faults
  /\ mode' \in Modes
  /\ lock' = FreeLock
  /\ pc' = [op \in OpNames |-> "idle"]
  /\ todo' = [op \in Builders |-> {}]
  /\ current' = [op \in Builders |-> {}]
  /\ loaded' = [op \in OpNames |-> <<>>]
  /\ target' = [op \in OpNames |-> {}]
  /\ killValue' = TRUE
  /\ DropDispatchState
  /\ UNCHANGED <<files, history>>

-----------------------------------------------------------------------------
BuildStep(op) ==
  BuildAcquire(op) \/ BuildDecide(op) \/ BuildRaises(op) \/ BuildSave(op) \/ BuildReturn(op)

DispatchStep ==
  \/ DispatchAcquire \/ DispatchLoad \/ DispatchBlockedByKill \/ DispatchPlace
  \/ DispatchLoopDone \/ DispatchSaveOrders \/ DispatchSaveResults \/ DispatchSaveState

Next ==
  \/ \E op \in Builders : BuildRequest(op) \/ BuildStep(op)
  \/ DispatchRequest \/ DispatchStep
  \/ CancelRequest \/ CancelSave
  \/ SetKillRequest \/ SetKillSave
  \/ \E op \in OpNames : WriteFails(op)
  \/ Crash

Spec == Init /\ [][Next]_vars

\* Fairness: the threads of the requests in progress keep running.  New
\* requests, faults and the order in which signals are picked are not assumed.
Fairness ==
  /\ \A op \in Builders : WF_vars(BuildStep(op))
  /\ WF_vars(DispatchStep)
  /\ WF_vars(CancelSave)
  /\ WF_vars(SetKillSave)
FairSpec == Spec /\ Fairness

-----------------------------------------------------------------------------
(* Properties.                                                             *)

\* The scan before the append in build_from_signal is worth something only if
\* nobody else appends to the same snapshot: the order file never holds two
\* orders of one signal, whatever builds, dispatches, cancels and faults overlap.
UniqueOrders ==
  \A i, j \in DOMAIN orderFile : orderFile[i].signal = orderFile[j].signal => i = j

\* The kill switch file says what the operator last set, unless that set_kill
\* was saved while a dispatch already held a copy of the state it writes back.
KillSwitchHonoured == ~raced => killFile = acked

\* An order is handed to the adapter only outside LIVE mode, for a signal that
\* can pass the risk checks, and with the kill switch last acknowledged off
\* (again except for a set_kill that raced with the dispatch).
PlacingIsSafe ==
  [][\A s \in Signals : placed'[s] # placed[s] =>
       mode # "LIVE" /\ s \in Tradable /\ (~acked \/ raced)]_vars

\* dispatch appends to the result ledger: no overlap of operations and no fault
\* ever drops or rewrites a recorded result.
ResultsAppendOnly ==
  [][/\ Len(resultFile') >= Len(resultFile)
     /\ \A i \in DOMAIN resultFile : resultFile'[i] = resultFile[i]]_resultFile

\* An order that left QUEUED keeps its status for ever, and no order vanishes,
\* across overlapping builds, dispatches, set_kills and faults (no cancel).
SettledForEver ==
  [][\A i \in DOMAIN orderFile :
       /\ i \in DOMAIN orderFile'
       /\ orderFile'[i].signal = orderFile[i].signal
       /\ orderFile[i].status # "QUEUED" => orderFile'[i] = orderFile[i]]_orderFile

\* Orders are written before results, so that after a crash or a failed write
\* in between nothing is dispatched and recorded a second time: every recorded
\* result is the only one of its order, and the order file agrees with it.
ResultsMatchOrders ==
  \A r \in DOMAIN resultFile :
    /\ \A q \in DOMAIN resultFile : resultFile[q].signal = resultFile[r].signal => q = r
    /\ \E i \in DOMAIN orderFile :
         orderFile[i].signal = resultFile[r].signal /\ orderFile[i].status = resultFile[r].status

\* Once operators stop sending requests, every request in progress returns and
\* GATEWAY_LOCK is free again, whatever exception ended a request.
Quiet == lock = FreeLock /\ \A op \in OpNames : pc[op] = "idle"
NewRequest == \E op \in OpNames : pc[op] = "idle" /\ pc'[op] # "idle"
RequestsReturn == <>[][~NewRequest]_vars => <>[]Quiet

\* What the gateway promises about each signal's order: see OrderBook.
OrderOf(s) ==
  IF HasOrder(orderFile, s)
  THEN (CHOOSE o \in {orderFile[i] : i \in DOMAIN orderFile} : o.signal = s).status
  ELSE "NONE"
ResultOf(s) ==
  IF \E i \in DOMAIN resultFile : resultFile[i].signal = s
  THEN (CHOOSE r \in {resultFile[i] : i \in DOMAIN resultFile} : r.signal = s).status
  ELSE "NONE"
Book == INSTANCE OrderBook WITH
  order <- [s \in Signals |-> OrderOf(s)], result <- [s \in Signals |-> ResultOf(s)]
ImplementsOrderBook == Book!Spec
=============================================================================
