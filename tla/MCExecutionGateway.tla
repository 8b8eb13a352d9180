------------------------ MODULE MCExecutionGateway ------------------------
(* Values of the constants of ExecutionGateway for TLC.                     *)
EXTENDS ExecutionGateway

CONSTANTS good, flat, odd

\* good: every static check passes, volume 1; flat: the same with a minimum volume
\* of 0, so that the adapter refuses it; odd: a direction that is no side, like
\* "WAIT", which the risk checks would refuse if building it did not raise.
GoodFlat   == {good, flat}
GoodOdd    == {good, odd}
OnlyGood   == {good}
OnlyOdd    == {odd}
Volumes(S) == [s \in S |-> IF s = flat THEN 0 ELSE 1]
VolumesGoodFlat == Volumes(GoodFlat)
VolumesGoodOdd  == Volumes(GoodOdd)

AllOps    == OpNames
\* Requests that change the orders under GATEWAY_LOCK only, and set_kill.
LockedOps == {"execution_build", Dispatch, KillSwitch}
AllModes  == {"DRY_RUN", "LIVE"}
AllFaults == {"crash", "write"}
NoSignals == {}
DryRun    == {"DRY_RUN"}
=============================================================================
