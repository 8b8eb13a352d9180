----------------------------- MODULE OrderBook -----------------------------
(***************************************************************************)
(* What the execution gateway promises about the order of each approved    *)
(* signal, with no files, locks or requests: an order is created once,     *)
(* queued or rejected; a queued order is settled once, by a dispatch or by *)
(* a cancel; a dispatched order's result is recorded at most once, after   *)
(* the order is settled, and says what the order says.                     *)
(***************************************************************************)
CONSTANT Signals

VARIABLES
  order,   \* status of the signal's order, "NONE" before it is built
  result   \* status in the recorded result, "NONE" before it is recorded

Dispatched == {"FAILED", "DRY_RUN_COMPLETED"}

Init ==
  /\ order = [s \in Signals |-> "NONE"]
  /\ result = [s \in Signals |-> "NONE"]

Build(s) ==
  /\ order[s] = "NONE"
  /\ \E st \in {"QUEUED", "REJECTED"} : order' = [order EXCEPT ![s] = st]
  /\ UNCHANGED result

\* One dispatch settles all the orders in S.
Settle(S) ==
  /\ S # {} /\ \A s \in S : order[s] = "QUEUED"
  /\ \E f \in [S -> Dispatched] :
       order' = [s \in Signals |-> IF s \in S THEN f[s] ELSE order[s]]
  /\ UNCHANGED result

Record(S) ==
  /\ S # {} /\ \A s \in S : order[s] \in Dispatched /\ result[s] = "NONE"
  /\ result' = [s \in Signals |-> IF s \in S THEN order[s] ELSE result[s]]
  /\ UNCHANGED order

CancelOrder(s) ==
  /\ order[s] = "QUEUED"
  /\ order' = [order EXCEPT ![s] = "CANCELLED"]
  /\ UNCHANGED result

Next ==
  \/ \E s \in Signals : Build(s) \/ CancelOrder(s)
  \/ \E S \in SUBSET Signals : Settle(S) \/ Record(S)

Spec == Init /\ [][Next]_<<order, result>>
=============================================================================
