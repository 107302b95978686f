---------------------------- MODULE TranLogPower ----------------------------
(* TranLog on two kinds of terminals: those whose power never fails, and       *)
(* those whose power may fail at any time.  The batch number of SYSPARAM and   *)
(* the record index of SYSCTRL are saved one after the other, so what is true  *)
(* of batch numbers differs between the two.                                   *)
EXTENDS TranLog

VARIABLE steady     \* the power never fails

PowerInit == Init /\ steady \in BOOLEAN
PowerNext == Next /\ UNCHANGED steady /\ (steady => pc' # "off")
PowerSpec == PowerInit /\ [][PowerNext]_<<vars, steady>>
FairPowerSpec == PowerSpec /\ Fairness

\* While the power stays on, no batch gets the number of the one settled before it,
\* the wrap of GetNewBatchNo included.
SteadyBatchIsFresh == steady => BatchIsFresh
==============================================================================
