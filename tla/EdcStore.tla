------------------------------- MODULE EdcStore -------------------------------
(***************************************************************************)
(* Edc on the store that AtomicLog promises, and TranLog implements: every *)
(* step of the host protocol makes at most one change to the store, and    *)
(* one that AtomicLog has.  A transaction stands for the slot of its       *)
(* record.  What Edc leaves out of the store is the last record, which a   *)
(* reprint takes; it is added here.                                        *)
(***************************************************************************)
EXTENDS Edc

TheAcq == "acquirer"      \* the one acquirer of Edc

ASSUME RecordsAssumption == \A flags \in SUBSET Flag : [acq |-> TheAcq, body |-> flags] # NoRec

VARIABLES
    last,       \* uiLastRecNo
    adjusted    \* uiRecNo at the end of TransAdjust: the record to become the last

storeVars == <<vars, last, adjusted>>

StoreInit == Init /\ last = NoTxn /\ adjusted = NoTxn

------------------------------------------------------------------------------
\* RecoverTranLog makes the record it has written the last one; ClearRecord forgets
\* a last record that it erases.
Written == {t \in Txn : log[t] = NoRec /\ log'[t] # NoRec}

KeepLast ==
    \/ last' \in Written
    \/ Written = {} /\ last' = IF last \in Logged' THEN last ELSE NoTxn

\* TransAdjust: UpdateTranLog.
Adjust ==
    /\ adjusted = NoTxn
    /\ \E t \in Txn : TransAdjust(t) /\ adjusted' = t
    /\ UNCHANGED last

\* TransAdjust, "use reprint to print adjust", unless power fails first.
AdjustLast ==
    /\ adjusted # NoTxn /\ adjusted' = NoTxn
    /\ last' = adjusted \/ ("power" \in Feature /\ UNCHANGED last)
    /\ UNCHANGED vars

\* Everything else; the terminal does one thing at a time.
BeginOther ==
    \/ \E t \in Txn, chip \in BOOLEAN : TransSaleSub(t, chip) \/ FinishOffLine(t, chip)
    \/ \E t \in Txn : TransVoid(t)
    \/ TransSettle \/ TransLogon \/ ClearReversalSub

Other ==
    /\ adjusted = NoTxn /\ UNCHANGED adjusted
    /\ BeginOther \/ Continue \/ PowerFail
    /\ KeepLast

StoreNext == Adjust \/ AdjustLast \/ Other

StoreSpec == StoreInit /\ [][StoreNext]_storeVars

------------------------------------------------------------------------------
records == [t \in Txn |-> IF log[t] = NoRec THEN NoRec ELSE [acq |-> TheAcq, body |-> log[t]]]

Store == INSTANCE AtomicLog WITH
    Acq <- {TheAcq}, Slot <- Txn, Body <- SUBSET Flag,
    Unsent <- {flags \in SUBSET Flag : "NOSEND" \in flags},
    Pack <- Req, NoSlot <- NoTxn, NoPack <- NoReq,
    txn <- records, rev <- [a \in {TheAcq} |-> rev]

\* The layering of the program: no step of the host protocol, whatever is lost and
\* whenever the power fails, changes the store but by one operation of AtomicLog.
OnAtomicLog == Store!Spec
==============================================================================
