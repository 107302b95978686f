--------------------------- MODULE TranLog_proofs ---------------------------
(***************************************************************************)
(* Proofs about TranLog, for every value of its constants: the safety      *)
(* invariants of the store, that it implements AtomicLog, and what becomes *)
(* of the batch numbers while the power stays on.                          *)
(***************************************************************************)
EXTENDS TranLogPower, FiniteSetTheorems, TLAPS

Recovering == pc \in {"recLog", "recRev", "recBase"}

(* What each RAM copy may differ in from its file. *)
RamOK ==
    /\ ctl = ctlFile
    /\ rev = revFile
    /\ pc # "param" => par = parFile

(* The journal is in use exactly while RecoverTranLog has work to do, or the
   power is off; the index already names its record. *)
JournalOK ==
    /\ Recovering => ctl.write # NoWrite
    /\ ctl.write # NoWrite =>
          /\ Recovering \/ pc = "off"
          /\ ctl.key[ctl.write.slot] = ctl.write.rec.acq

LogOK == \A s \in Slot : ctl.key[s] # NoAcq =>
    \/ ctl.write # NoWrite /\ ctl.write.slot = s
    \/ log[s] # NoRec /\ log[s].acq = ctl.key[s]

(* Progress of the recovery: what has been written already. *)
StepOK ==
    /\ pc \in {"recRev", "recBase"} => log[ctl.write.slot] = ctl.write.rec
    /\ pc = "recBase" /\ ctl.write.rec.body \notin Unsent =>
          rev[ctl.write.rec.acq] = NoPack

LastOK == ctl.last # NoSlot => ctl.key[ctl.last] # NoAcq

(* Without low-battery starts, a closed batch is seen by nothing but the code
   that erases it. *)
ClosedOK ==
    /\ pc \in {"idle", "off", "clear"} => ~boot
    /\ pc = "init" => boot
    /\ pc = "clear" => ctl.status[cur] = "S_CLR_LOG"
    /\ ~LowBattery => \A a \in Acq : ctl.status[a] = "S_CLR_LOG" =>
          /\ ctl.write = NoWrite
          /\ \/ pc \in {"off", "init"}
             \/ pc = "param" /\ boot
             \/ pc = "clear" /\ a = cur

IInv ==
    /\ TypeOK
    /\ RamOK
    /\ JournalOK
    /\ LogOK
    /\ StepOK
    /\ LastOK
    /\ ClosedOK

(* A terminal with its acquirers and an empty log starts in IInv. *)
LEMMA InitIInv == Init => IInv
<1> SUFFICES ASSUME Init PROVE IInv
  OBVIOUS
<1>1. CtrlDefault \in Ctl
  BY DEF CtrlDefault, Ctl, AcqStatus
<1>2. TypeOK
  <2>1. 1 \in Batch
    BY ConstantsAssumption DEF Batch
  <2>2. /\ ctl \in Ctl /\ ctlFile \in Ctl
        /\ rev \in RevInfo /\ revFile \in RevInfo
    BY <1>1 DEF Init, RevInfo
  <2>3. /\ par \in [Acq -> Batch] /\ parFile \in [Acq -> Batch]
        /\ log \in [Slot -> Rec \cup {NoRec}]
        /\ settled \in [Acq -> Batch \cup {0}]
    BY <2>1 DEF Init
  <2> QED
    BY <2>2, <2>3 DEF Init, TypeOK
<1>3. RamOK /\ JournalOK /\ LogOK /\ StepOK /\ LastOK /\ ClosedOK
  BY DEF Init, CtrlDefault, RamOK, JournalOK, LogOK, StepOK, LastOK, ClosedOK,
         Recovering
<1> QED
  BY <1>2, <1>3 DEF IInv

-----------------------------------------------------------------------------
(* Every step keeps the types. *)

(* A journal in use holds a slot and a record of an acquirer. *)
LEMMA WriteType ==
  ASSUME TypeOK, ctl.write # NoWrite
  PROVE  /\ ctl.write.slot \in Slot
         /\ ctl.write.rec \in Rec
         /\ ctl.write.rec.acq \in Acq
         /\ ctl.write.rec.body \in Body
  BY DEF TypeOK, Ctl, WriteInfo, Rec

(* No handler, recovery step or power failure takes a value out of its type. *)
LEMMA TypeStep == IInv /\ [Next]_vars => TypeOK'
<1> SUFFICES ASSUME IInv, [Next]_vars PROVE TypeOK'
  OBVIOUS
<1> USE DEF IInv
<1>1. CASE CheckTermSatus
  BY <1>1 DEF CheckTermSatus, Dispatch, TypeOK, files
<1>2. CASE PowerFail
  BY <1>2 DEF PowerFail, TypeOK, files
<1>3. CASE RecoverWriteLog
  <2>1. ctl.write.slot \in Slot /\ ctl.write.rec \in Rec
    BY <1>3, WriteType DEF RecoverWriteLog, JournalOK, Recovering
  <2> QED
    BY <1>3, <2>1 DEF RecoverWriteLog, TypeOK, ram
<1>4. CASE RecoverDropRev
  BY <1>4 DEF RecoverDropRev, SaveRevInfo, TypeOK, RevInfo
<1>5. CASE RecoverEndWrite
  <2>1. ctl.write.slot \in Slot
    BY <1>5, WriteType DEF RecoverEndWrite, JournalOK, Recovering
  <2>2. ctl' \in Ctl
    BY <1>5, <2>1 DEF RecoverEndWrite, TypeOK, Ctl
  <2> QED
    BY <1>5, <2>2 DEF RecoverEndWrite, SaveSysCtrlBase, TypeOK
<1>6. CASE \E a \in Acq, b \in Body : SaveTranLog(a, b)
  <2> PICK a \in Acq, b \in Body : SaveTranLog(a, b)
    BY <1>6
  <2>1. PICK s \in Slot :
           ctl' = [ctl EXCEPT !.key[s] = a,
                              !.write = [slot |-> s, rec |-> [acq |-> a, body |-> b]]]
    BY DEF SaveTranLog
  <2>2. [slot |-> s, rec |-> [acq |-> a, body |-> b]] \in WriteInfo
    BY DEF WriteInfo, Rec
  <2>3. ctl' \in Ctl
    BY <2>1, <2>2 DEF TypeOK, Ctl
  <2> QED
    BY <2>3 DEF SaveTranLog, SaveSysCtrlBase, TypeOK
<1>7. CASE \E s \in Slot, b \in Body : UpdateTranLog(s, b)
  <2> PICK s \in Slot, b \in Body : UpdateTranLog(s, b)
    BY <1>7
  <2>1. log[s] \in Rec
    BY DEF UpdateTranLog, LogOK, JournalOK, Recovering, TypeOK
  <2>2. [acq |-> log[s].acq, body |-> b] \in Rec
    BY <2>1 DEF Rec
  <2> QED
    BY <2>2 DEF UpdateTranLog, TypeOK, ram
<1>8. CASE \E s \in Slot : AdjustLast(s)
  BY <1>8 DEF AdjustLast, SaveSysCtrlBase, TypeOK, Ctl
<1>9. CASE \E a \in Acq, p \in Pack : NeedReversal(a, p)
  BY <1>9 DEF NeedReversal, SaveRevInfo, TypeOK, RevInfo
<1>10. CASE \E a \in Acq : DropReversal(a)
  BY <1>10 DEF DropReversal, SaveRevInfo, TypeOK, RevInfo
<1>11. CASE \E a \in Acq : SettlementSent(a)
  <2> PICK a \in Acq : SettlementSent(a)
    BY <1>11
  <2>1. ctl' \in Ctl
    BY DEF SettlementSent, TypeOK, Ctl, AcqStatus
  <2> QED
    BY <2>1 DEF SettlementSent, SaveSysCtrlBase, TypeOK
<1>12. CASE \E a \in Acq : CloseBatch(a)
  <2> PICK a \in Acq : CloseBatch(a)
    BY <1>12
  <2>1. ctl' \in Ctl
    BY DEF CloseBatch, TypeOK, Ctl, AcqStatus
  <2>2. settled' \in [Acq -> Batch \cup {0}]
    BY DEF CloseBatch, TypeOK
  <2> QED
    BY <2>1, <2>2 DEF CloseBatch, SaveSysCtrlBase, TypeOK
<1>13. CASE ClearReversalSub
  <2>1. ctl' \in Ctl
    BY <1>13 DEF ClearReversalSub, TypeOK, Ctl, AcqStatus
  <2>2. rev' \in RevInfo
    BY <1>13 DEF ClearReversalSub, RevInfo
  <2> QED
    BY <1>13, <2>1, <2>2 DEF ClearReversalSub, SaveSysCtrlNormal, TypeOK
<1>14. CASE ClearSettled \/ \E a \in Acq : InitErase(a)
  <2> PICK a \in Acq : ClearRecord(a)
    BY <1>14 DEF ClearSettled, InitErase, TypeOK
  <2>1. ctl' \in Ctl
    BY DEF ClearRecord, TypeOK, Ctl, AcqStatus
  <2>2. rev' \in RevInfo
    BY DEF ClearRecord, TypeOK, RevInfo
  <2>3. par' \in [Acq -> Batch]
    BY ConstantsAssumption DEF ClearRecord, TypeOK, GetNewBatchNo, Batch
  <2> QED
    BY <2>1, <2>2, <2>3 DEF ClearRecord, SaveSysCtrlNormal, TypeOK
<1>15. CASE InitDone
  BY <1>15 DEF InitDone, TypeOK, ram, files
<1>16. CASE ClearAllRecord
  <2>1. ctl' \in Ctl
    BY <1>16 DEF ClearAllRecord, CtrlDefault, TypeOK, Ctl, AcqStatus
  <2>2. rev' \in RevInfo
    BY <1>16 DEF ClearAllRecord, RevInfo
  <2> QED
    BY <1>16, <2>1, <2>2 DEF ClearAllRecord, SaveSysCtrlNormal, TypeOK
<1>17. CASE SaveAppTransParam
  BY <1>17 DEF SaveAppTransParam, TypeOK, ram
<1>18. CASE UNCHANGED vars
  BY <1>18 DEF vars, TypeOK
<1> QED
  BY <1>1, <1>2, <1>3, <1>4, <1>5, <1>6, <1>7, <1>8, <1>9, <1>10, <1>11, <1>12,
     <1>13, <1>14, <1>15, <1>16, <1>17, <1>18 DEF Next, Continue

-----------------------------------------------------------------------------
(* Every step keeps the invariant.  Rest is IInv without TypeOK, which
   TypeStep has dealt with. *)

Rest == RamOK /\ JournalOK /\ LogOK /\ StepOK /\ LastOK /\ ClosedOK

(* IInv is inductive: one step per action, one per conjunct it can disturb. *)
LEMMA IInvStep == IInv /\ [Next]_vars => IInv'
<1> SUFFICES ASSUME IInv, [Next]_vars, TypeOK' PROVE Rest'
  BY TypeStep DEF IInv, Rest
<1> USE DEF IInv, Rest, Recovering
<1> USE ConstantsAssumption
<1>1. CASE CheckTermSatus
  <2>1. ctl' = ctl /\ rev' = rev /\ par' = parFile /\ log' = log
    BY <1>1 DEF CheckTermSatus, files, RamOK
  <2>2. RamOK' /\ LogOK' /\ LastOK'
    BY <1>1, <2>1 DEF CheckTermSatus, files, RamOK, LogOK, LastOK
  <2>3. JournalOK' /\ StepOK' /\ ClosedOK'
    BY <1>1, <2>1 DEF CheckTermSatus, Dispatch, RamOK, JournalOK, StepOK, ClosedOK
  <2> QED
    BY <2>2, <2>3
<1>2. CASE PowerFail
  BY <1>2 DEF PowerFail, files, RamOK, JournalOK, LogOK, StepOK, LastOK, ClosedOK
<1>3. CASE RecoverWriteLog
  <2>1. ctl.write # NoWrite /\ ctl.write.slot \in Slot /\ ctl.write.rec \in Rec
    BY <1>3, WriteType DEF RecoverWriteLog, JournalOK
  <2>2. log'[ctl.write.slot] = ctl.write.rec
    BY <1>3, <2>1 DEF RecoverWriteLog, TypeOK
  <2>3. RamOK' /\ JournalOK' /\ LastOK' /\ ClosedOK' /\ StepOK'
    BY <1>3, <2>1, <2>2
       DEF RecoverWriteLog, ram, RamOK, JournalOK, LastOK, ClosedOK, StepOK
  <2>4. LogOK'
    BY <1>3, <2>1, <2>2 DEF RecoverWriteLog, ram, LogOK, TypeOK
  <2> QED
    BY <2>3, <2>4
<1>4. CASE RecoverDropRev
  <2>1. ctl.write # NoWrite /\ ctl.write.rec.acq \in Acq
    BY <1>4, WriteType DEF RecoverDropRev, JournalOK
  <2>2. RamOK' /\ JournalOK' /\ LogOK' /\ LastOK' /\ ClosedOK'
    BY <1>4 DEF RecoverDropRev, SaveRevInfo, RamOK, JournalOK, LogOK, LastOK, ClosedOK
  <2>3. StepOK'
    BY <1>4, <2>1 DEF RecoverDropRev, SaveRevInfo, StepOK, TypeOK, RevInfo
  <2> QED
    BY <2>2, <2>3
<1>5. CASE RecoverEndWrite
  <2>1. /\ ctl.write # NoWrite
        /\ ctl.write.slot \in Slot /\ ctl.write.rec \in Rec
        /\ ctl.write.rec.acq \in Acq
    BY <1>5, WriteType DEF RecoverEndWrite, JournalOK
  <2>2. /\ ctl'.key = ctl.key /\ ctl'.status = ctl.status
        /\ ctl'.write = NoWrite /\ ctl'.last = ctl.write.slot
    BY <1>5 DEF RecoverEndWrite, TypeOK, Ctl
  <2>3. LogOK'
    <3>1. log[ctl.write.slot] # NoRec
          /\ log[ctl.write.slot].acq = ctl.key[ctl.write.slot]
      BY <1>5, <2>1 DEF RecoverEndWrite, StepOK, JournalOK
    <3> QED
      BY <1>5, <2>2, <3>1 DEF RecoverEndWrite, LogOK
  <2>4. LastOK'
    BY <2>1, <2>2 DEF JournalOK, LastOK
  <2>5. RamOK' /\ JournalOK' /\ StepOK' /\ ClosedOK'
    BY <1>5, <2>1, <2>2
       DEF RecoverEndWrite, SaveSysCtrlBase, RamOK, JournalOK, StepOK, ClosedOK
  <2> QED
    BY <2>3, <2>4, <2>5
<1>6. CASE \E a \in Acq, b \in Body : SaveTranLog(a, b)
  <2> PICK a \in Acq, b \in Body : SaveTranLog(a, b)
    BY <1>6
  <2> DEFINE r == [acq |-> a, body |-> b]
  <2>1. PICK s \in Slot :
           /\ FirstFree(s)
           /\ ctl' = [ctl EXCEPT !.key[s] = a, !.write = [slot |-> s, rec |-> r]]
    BY DEF SaveTranLog
  <2>2. /\ ctl'.key = [ctl.key EXCEPT ![s] = a]
        /\ ctl'.write = [slot |-> s, rec |-> r]
        /\ ctl'.last = ctl.last /\ ctl'.status = ctl.status
    BY <2>1 DEF TypeOK, Ctl
  <2>3. ctl'.write \in WriteInfo
    BY <2>2 DEF WriteInfo, Rec
  <2>4. ctl'.key[s] = a
    BY <2>2 DEF TypeOK, Ctl
  <2>5. LogOK'
    BY <2>2, <2>3 DEF SaveTranLog, LogOK, JournalOK, TypeOK, Ctl
  <2>6. LastOK'
    BY <2>1, <2>2 DEF FirstFree, LastOK, TypeOK, Ctl
  <2>7. JournalOK'
    BY <2>2, <2>3, <2>4 DEF SaveTranLog, JournalOK
  <2>8. RamOK' /\ StepOK' /\ ClosedOK'
    BY <2>2 DEF SaveTranLog, SaveSysCtrlBase, RamOK, StepOK, ClosedOK
  <2> QED
    BY <2>5, <2>6, <2>7, <2>8
<1>7. CASE \E s \in Slot, b \in Body : UpdateTranLog(s, b)
  <2> PICK s \in Slot, b \in Body : UpdateTranLog(s, b)
    BY <1>7
  <2> DEFINE r == [acq |-> log[s].acq, body |-> b]
  <2>1. log[s] \in Rec /\ log[s].acq = ctl.key[s]
    BY DEF UpdateTranLog, LogOK, JournalOK, TypeOK
  <2>2. r \in Rec /\ r # NoRec /\ r.acq = ctl.key[s]
    BY <2>1 DEF Rec
  <2>3. log' = [log EXCEPT ![s] = r]
    BY DEF UpdateTranLog
  <2>4. LogOK'
    BY <2>2, <2>3 DEF UpdateTranLog, ram, LogOK, TypeOK
  <2>5. RamOK' /\ JournalOK' /\ StepOK' /\ LastOK' /\ ClosedOK'
    BY DEF UpdateTranLog, ram, RamOK, JournalOK, StepOK, LastOK, ClosedOK
  <2> QED
    BY <2>4, <2>5
<1>8. CASE \E s \in Slot : AdjustLast(s)
  <2> PICK s \in Slot : AdjustLast(s)
    BY <1>8
  <2>1. /\ ctl'.key = ctl.key /\ ctl'.status = ctl.status
        /\ ctl'.write = ctl.write /\ ctl'.last = s
    BY DEF AdjustLast, TypeOK, Ctl
  <2> QED
    BY <2>1 DEF AdjustLast, SaveSysCtrlBase, RamOK, JournalOK, LogOK, StepOK, LastOK, ClosedOK
<1>9. CASE \E a \in Acq, p \in Pack : NeedReversal(a, p)
  BY <1>9 DEF NeedReversal, SaveRevInfo, RamOK, JournalOK, LogOK, StepOK, LastOK, ClosedOK
<1>10. CASE \E a \in Acq : DropReversal(a)
  BY <1>10 DEF DropReversal, SaveRevInfo, RamOK, JournalOK, LogOK, StepOK, LastOK, ClosedOK
<1>11. CASE \E a \in Acq : SettlementSent(a)
  <2> PICK a \in Acq : SettlementSent(a)
    BY <1>11
  <2>1. /\ ctl'.key = ctl.key /\ ctl'.last = ctl.last /\ ctl'.write = ctl.write
        /\ ctl'.status = [ctl.status EXCEPT ![a] = "S_PENDING"]
    BY DEF SettlementSent, TypeOK, Ctl
  <2>2. \A c \in Acq : ctl'.status[c] = "S_CLR_LOG" => ctl.status[c] = "S_CLR_LOG"
    BY <2>1 DEF TypeOK, Ctl
  <2> QED
    BY <2>1, <2>2
       DEF SettlementSent, SaveSysCtrlBase, RamOK, JournalOK, LogOK, StepOK, LastOK, ClosedOK
<1>12. CASE \E a \in Acq : CloseBatch(a)
  <2> PICK a \in Acq : CloseBatch(a)
    BY <1>12
  <2>1. /\ ctl'.key = ctl.key /\ ctl'.last = ctl.last /\ ctl'.write = ctl.write
        /\ ctl'.status = [ctl.status EXCEPT ![a] = "S_CLR_LOG"]
    BY DEF CloseBatch, TypeOK, Ctl
  <2>2. /\ \A c \in Acq : c # a => ctl'.status[c] = ctl.status[c]
        /\ ctl'.status[a] = "S_CLR_LOG"
    BY <2>1 DEF TypeOK, Ctl
  <2>3. ClosedOK'
    BY <2>1, <2>2 DEF CloseBatch, ClosedOK, JournalOK
  <2>4. RamOK' /\ JournalOK' /\ LogOK' /\ StepOK' /\ LastOK'
    BY <2>1 DEF CloseBatch, SaveSysCtrlBase, RamOK, JournalOK, LogOK, StepOK, LastOK
  <2> QED
    BY <2>3, <2>4
<1>13. CASE ClearReversalSub
  <2>1. /\ ctl'.key = ctl.key /\ ctl'.last = ctl.last /\ ctl'.write = ctl.write
        /\ \A a \in Acq : ctl'.status[a] = "S_CLR_LOG" => ctl.status[a] = "S_CLR_LOG"
    BY <1>13 DEF ClearReversalSub, TypeOK, Ctl
  <2> QED
    BY <1>13, <2>1
       DEF ClearReversalSub, SaveSysCtrlNormal, RamOK, JournalOK, LogOK, StepOK, LastOK, ClosedOK
<1>14. CASE ClearSettled \/ \E a \in Acq : InitErase(a)
  <2>1. PICK a \in Acq : /\ ClearRecord(a)
                         /\ (pc = "clear" /\ a = cur) \/ pc = "init"
    BY <1>14 DEF ClearSettled, InitErase, TypeOK
  <2>2. /\ ctl'.key = [s \in Slot |-> IF ctl.key[s] = a THEN NoAcq ELSE ctl.key[s]]
        /\ ctl'.last = IF ctl.last \in Slot /\ ctl.key[ctl.last] = a
                       THEN NoSlot ELSE ctl.last
        /\ ctl'.write = ctl.write /\ ctl.write = NoWrite
        /\ ctl'.status = [ctl.status EXCEPT ![a] = "S_USE"]
    BY <2>1 DEF ClearRecord, JournalOK
  <2>3. /\ ctl'.status[a] = "S_USE"
        /\ \A c \in Acq : c # a => ctl'.status[c] = ctl.status[c]
    BY <2>2 DEF TypeOK, Ctl
  <2>4. LogOK'
    BY <2>1, <2>2 DEF ClearRecord, LogOK
  <2>5. LastOK'
    BY <2>2 DEF LastOK, TypeOK, Ctl
  <2>6. ClosedOK'
    BY <2>1, <2>2, <2>3 DEF ClearRecord, ClosedOK
  <2>7. RamOK' /\ JournalOK' /\ StepOK'
    BY <2>1, <2>2 DEF ClearRecord, SaveSysCtrlNormal, RamOK, JournalOK, StepOK
  <2> QED
    BY <2>4, <2>5, <2>6, <2>7
<1>15. CASE InitDone
  BY <1>15 DEF InitDone, ram, files, RamOK, JournalOK, LogOK, StepOK, LastOK, ClosedOK
<1>16. CASE ClearAllRecord
  <2>1. /\ ctl'.key = [s \in Slot |-> NoAcq] /\ ctl'.last = NoSlot
        /\ ctl'.write = NoWrite /\ ctl'.status = [a \in Acq |-> "S_USE"]
    BY <1>16 DEF ClearAllRecord, CtrlDefault, JournalOK
  <2> QED
    BY <1>16, <2>1
       DEF ClearAllRecord, SaveSysCtrlNormal, RamOK, JournalOK, LogOK, StepOK, LastOK, ClosedOK
<1>17. CASE SaveAppTransParam
  BY <1>17 DEF SaveAppTransParam, ram, RamOK, JournalOK, LogOK, StepOK, LastOK, ClosedOK
<1>18. CASE UNCHANGED vars
  BY <1>18 DEF vars, RamOK, JournalOK, LogOK, StepOK, LastOK, ClosedOK
<1> QED
  BY <1>1, <1>2, <1>3, <1>4, <1>5, <1>6, <1>7, <1>8, <1>9, <1>10, <1>11, <1>12,
     <1>13, <1>14, <1>15, <1>16, <1>17, <1>18 DEF Next, Continue

(* IInv: RAM agrees with the files where a handler may rely on it, the journal
   names a slot of the index, and every used slot has its acquirer's record. *)
THEOREM Invariance == Spec => []IInv
<1> QED
  BY InitIInv, IInvStep, PTL DEF Spec

-----------------------------------------------------------------------------
(* The invariants the TLC runs check. *)

(* TypeOK: every field of the two parameter files keeps to its range. *)
THEOREM TypeCorrect == Spec => []TypeOK
<1>1. IInv => TypeOK
  BY DEF IInv
<1> QED
  BY <1>1, Invariance, PTL

(* IndexMatchesLog: at any power failure, the record index of SYSCTRL and the
   records of TRANLOG agree once the journal is applied. *)
THEOREM IndexAgrees == Spec => []IndexMatchesLog
<1>1. IInv => IndexMatchesLog
  <2> SUFFICES ASSUME IInv, NEW s \in Slot, ctlFile.key[s] # NoAcq
               PROVE  Record(s) # NoRec /\ Record(s).acq = ctlFile.key[s]
    BY DEF IndexMatchesLog
  <2>1. ctl = ctlFile
    BY DEF IInv, RamOK
  <2>2. CASE ctl.write # NoWrite /\ ctl.write.slot = s
    <3>1. ctl.write.rec \in Rec
      BY <2>2, WriteType DEF IInv
    <3> QED
      BY <2>1, <2>2, <3>1, ConstantsAssumption
         DEF IInv, JournalOK, Record, Journaled
  <2>3. CASE ~(ctl.write # NoWrite /\ ctl.write.slot = s)
    BY <2>1, <2>3 DEF IInv, LogOK, Record, Journaled
  <2> QED
    BY <2>2, <2>3
<1> QED
  BY <1>1, Invariance, PTL

(* LastIsLive: uiLastRecNo never names a slot that a settlement has freed. *)
THEOREM LastAlwaysLive == Spec => []LastIsLive
<1>1. IInv => LastIsLive
  BY DEF IInv, RamOK, LastOK, LastIsLive
<1> QED
  BY <1>1, Invariance, PTL

(* ReloadLosesNothing: what a handler leaves in RAM is on file. *)
THEOREM ReloadSafe == Spec => []ReloadLosesNothing
<1>1. IInv => ReloadLosesNothing
  BY DEF IInv, RamOK, ReloadLosesNothing
<1> QED
  BY <1>1, Invariance, PTL

(* HandlersSeeNoJournal: recovery comes before every handler. *)
THEOREM NoJournalInUse == Spec => []HandlersSeeNoJournal
<1>1. IInv => HandlersSeeNoJournal
  BY DEF IInv, JournalOK, Recovering, HandlersSeeNoJournal
<1> QED
  BY <1>1, Invariance, PTL

(* ClosedIsErased: if the start-up event is always handled, a batch the host
   has closed is gone before any handler runs. *)
THEOREM ClosedGone ==
  ASSUME ~LowBattery
  PROVE  Spec => []ClosedIsErased
<1>1. IInv => ClosedIsErased
  BY DEF IInv, ClosedOK, ClosedIsErased
<1> QED
  BY <1>1, Invariance, PTL

-----------------------------------------------------------------------------
(* TranLog implements AtomicLog. *)

abs == <<absTxn, absLast, absRev>>

(* The empty files show the empty store. *)
LEMMA RefinesInit == Init => Atomic!Init
  BY ConstantsAssumption
     DEF Init, Atomic!Init, CtrlDefault, absTxn, absLast, absRev, Journaled,
         JournalDrops, Closed

(* While a handler runs nothing is journaled and nothing is closed. *)
LEMMA IdleView ==
  ASSUME IInv, ~LowBattery, pc = "idle"
  PROVE  /\ ctlFile = ctl /\ revFile = rev
         /\ ctl.write = NoWrite
         /\ \A a \in Acq : ctl.status[a] # "S_CLR_LOG"
         /\ absTxn = [s \in Slot |-> IF ctl.key[s] = NoAcq THEN NoRec ELSE log[s]]
         /\ absLast = ctl.last
         /\ absRev = rev
<1>1. /\ ctlFile = ctl /\ revFile = rev
      /\ ctl.write = NoWrite
      /\ \A a \in Acq : ctl.status[a] # "S_CLR_LOG"
  BY DEF IInv, RamOK, JournalOK, Recovering, ClosedOK
<1>2. ~Journaled /\ \A a \in Acq : ~Closed(a) /\ ~JournalDrops(a)
  BY <1>1 DEF Journaled, Closed, JournalDrops
<1>3. absTxn = [s \in Slot |-> IF ctl.key[s] = NoAcq THEN NoRec ELSE log[s]]
  BY <1>1, <1>2 DEF absTxn, Record, Closed
<1>4. absLast = ctl.last
  BY <1>1, <1>2 DEF absLast, Closed
<1>5. absRev = rev
  BY <1>1, <1>2 DEF absRev, IInv, TypeOK, RevInfo
<1> QED
  BY <1>1, <1>3, <1>4, <1>5

(* Of the four steps of SaveTranLog, index and journal are the abstract Save. *)
LEMMA RefinesSave ==
  ASSUME IInv, ~LowBattery, NEW a \in Acq, NEW b \in Body, SaveTranLog(a, b)
  PROVE  \E s \in Slot : Atomic!Save(s, a, b)
<1> DEFINE r == [acq |-> a, body |-> b]
<1>1. PICK s \in Slot :
         /\ FirstFree(s)
         /\ ctl' = [ctl EXCEPT !.key[s] = a, !.write = [slot |-> s, rec |-> r]]
  BY DEF SaveTranLog
<1>2. /\ ctl'.key = [ctl.key EXCEPT ![s] = a]
      /\ ctl'.write = [slot |-> s, rec |-> r] /\ ctl'.write # NoWrite
      /\ ctl'.status = ctl.status
  <2>1. [slot |-> s, rec |-> r] \in WriteInfo
    BY DEF WriteInfo, Rec
  <2> QED
    BY <1>1, <2>1, ConstantsAssumption DEF IInv, TypeOK, Ctl
<1>3. /\ pc = "idle" /\ ctlFile' = ctl' /\ revFile' = revFile /\ log' = log
  BY DEF SaveTranLog, SaveSysCtrlBase
<1>4. Journaled' /\ \A c \in Acq : ~Closed(c)'
  BY <1>2, <1>3, IdleView DEF Journaled, Closed
<1>5. absTxn[s] = NoRec
  BY <1>1, <1>3, IdleView DEF FirstFree
<1>6. absTxn' = [absTxn EXCEPT ![s] = r]
  <2>1. absTxn' = [t \in Slot |-> IF ctl'.key[t] = NoAcq THEN NoRec
                                  ELSE IF t = s THEN r ELSE log[t]]
    <3>1. \A t \in Slot : Record(t)' = IF t = s THEN r ELSE log[t]
      BY <1>2, <1>3, <1>4 DEF Record
    <3>2. \A t \in Slot : ~(ctl'.key[t] \in Acq /\ ctlFile'.status[ctl'.key[t]] = "S_CLR_LOG")
      BY <1>4 DEF Closed
    <3> HIDE DEF r
    <3> QED
      BY <1>3, <3>1, <3>2 DEF absTxn, Closed
  <2>2. \A t \in Slot : ctl'.key[t] = IF t = s THEN a ELSE ctl.key[t]
    BY <1>2 DEF IInv, TypeOK, Ctl
  <2>3. absTxn = [t \in Slot |-> IF ctl.key[t] = NoAcq THEN NoRec ELSE log[t]]
    BY <1>3, IdleView
  <2>4. \A t \in Slot : absTxn'[t] = IF t = s THEN r ELSE absTxn[t]
    <3> HIDE DEF r
    <3> QED
      BY <2>1, <2>2, <2>3, ConstantsAssumption
  <2> HIDE DEF r
  <2> QED
    BY <2>1, <2>3, <2>4
<1>7. absLast' = s
  BY <1>2, <1>3, <1>4 DEF absLast
<1>8. absRev' = IF b \in Unsent THEN absRev ELSE [absRev EXCEPT ![a] = NoPack]
  <2>1. \A c \in Acq : JournalDrops(c)' <=> c = a /\ b \notin Unsent
    BY <1>2, <1>3, <1>4 DEF JournalDrops
  <2>2. absRev' = [c \in Acq |-> IF c = a /\ b \notin Unsent THEN NoPack ELSE revFile[c]]
    BY <1>3, <1>4, <2>1 DEF absRev
  <2>3. absRev = revFile /\ revFile \in [Acq -> Pack \cup {NoPack}]
    BY <1>3, IdleView DEF IInv, TypeOK, RevInfo
  <2> QED
    BY <2>2, <2>3
<1> QED
  BY <1>5, <1>6, <1>7, <1>8 DEF Atomic!Save

(* RecoverTranLog changes the files but not what they show. *)
LEMMA RefinesRecovery ==
  ASSUME IInv, ~LowBattery, RecoverWriteLog \/ RecoverDropRev \/ RecoverEndWrite
  PROVE  UNCHANGED abs
<1>1. /\ ctl = ctlFile /\ rev = revFile
      /\ ctl.write # NoWrite /\ Journaled
      /\ ctl.write.slot \in Slot /\ ctl.write.rec \in Rec /\ ctl.write.rec.acq \in Acq
      /\ \A a \in Acq : ctl.status[a] # "S_CLR_LOG"
      /\ \A a \in Acq : ~Closed(a)
  BY WriteType DEF IInv, RecoverWriteLog, RecoverDropRev, RecoverEndWrite, RamOK,
     JournalOK, Recovering, Journaled, ClosedOK, Closed
<1>2. CASE RecoverWriteLog
  <2>1. /\ ctlFile' = ctlFile /\ revFile' = revFile
        /\ log' = [log EXCEPT ![ctlFile.write.slot] = ctlFile.write.rec]
    BY <1>1, <1>2 DEF RecoverWriteLog
  <2>2. \A s \in Slot : Record(s)' = Record(s)
    BY <1>1, <2>1 DEF Record, Journaled, IInv, TypeOK
  <2> QED
    BY <2>1, <2>2 DEF abs, absTxn, absLast, absRev, Journaled, JournalDrops, Closed
<1>3. CASE RecoverDropRev
  <2>1. ctlFile' = ctlFile /\ log' = log
    BY <1>3 DEF RecoverDropRev
  <2>2. \A a \in Acq : JournalDrops(a) \/ revFile'[a] = revFile[a]
    BY <1>1, <1>3
       DEF RecoverDropRev, SaveRevInfo, JournalDrops, IInv, TypeOK, RevInfo
  <2>3. absRev' = absRev
    BY <2>1, <2>2 DEF absRev, JournalDrops, Journaled, Closed
  <2>4. absTxn' = absTxn /\ absLast' = absLast
    BY <2>1 DEF absTxn, absLast, Record, Journaled, Closed
  <2> QED
    BY <2>3, <2>4 DEF abs
<1>4. CASE RecoverEndWrite
  <2>1. /\ ctlFile'.key = ctl.key /\ ctlFile'.status = ctl.status
        /\ ctlFile'.write = NoWrite /\ ctlFile'.last = ctl.write.slot
        /\ revFile' = revFile /\ log' = log
    BY <1>4 DEF RecoverEndWrite, SaveSysCtrlBase, IInv, TypeOK, Ctl
  <2>2. ~Journaled' /\ \A a \in Acq : ~Closed(a)' /\ ~JournalDrops(a)'
    BY <1>1, <2>1 DEF Journaled, Closed, JournalDrops
  <2>3. absTxn' = absTxn
    <3>1. log[ctl.write.slot] = ctl.write.rec
      BY <1>4 DEF RecoverEndWrite, IInv, StepOK
    <3>2. \A s \in Slot : Record(s)' = Record(s)
      BY <1>1, <2>1, <2>2, <3>1 DEF Record, Journaled
    <3> QED
      BY <1>1, <2>1, <2>2, <3>2 DEF absTxn, Closed
  <2>4. absLast' = absLast
    BY <1>1, <2>1, <2>2, ConstantsAssumption DEF absLast, Closed, IInv, TypeOK, Ctl
  <2>5. absRev' = absRev
    <3>1. \A a \in Acq : JournalDrops(a) => revFile[a] = NoPack
      BY <1>1, <1>4 DEF RecoverEndWrite, JournalDrops, IInv, StepOK
    <3> QED
      BY <1>1, <2>1, <2>2, <3>1 DEF absRev
  <2> QED
    BY <2>3, <2>4, <2>5 DEF abs
<1> QED
  BY <1>2, <1>3, <1>4

(* Between the handlers' calls the files show the store as it is. *)
LEMMA IdleViewPrimed ==
  ASSUME IInv, ~LowBattery, IInv', pc' = "idle"
  PROVE  /\ absTxn' = [s \in Slot |-> IF ctl'.key[s] = NoAcq THEN NoRec ELSE log'[s]]
         /\ absLast' = ctl'.last
         /\ absRev' = rev'
<1>1. /\ ctlFile' = ctl' /\ revFile' = rev'
      /\ ctl'.write = NoWrite
      /\ \A a \in Acq : ctl'.status[a] # "S_CLR_LOG"
  BY DEF IInv, RamOK, JournalOK, Recovering, ClosedOK
<1>2. ~Journaled' /\ \A a \in Acq : ~Closed(a)' /\ ~JournalDrops(a)'
  BY <1>1 DEF Journaled, Closed, JournalDrops
<1>3. absTxn' = [s \in Slot |-> IF ctl'.key[s] = NoAcq THEN NoRec ELSE log'[s]]
  <2>1. \A s \in Slot : Record(s)' = log'[s]
    BY <1>1, <1>2 DEF Record
  <2>2. \A s \in Slot : ~(ctl'.key[s] \in Acq /\ ctlFile'.status[ctl'.key[s]] = "S_CLR_LOG")
    BY <1>1
  <2> QED
    BY <1>1, <2>1, <2>2 DEF absTxn, Closed
<1>4. absLast' = ctl'.last
  BY <1>1, <1>2 DEF absLast, Closed
<1>5. absRev' = rev'
  BY <1>1, <1>2 DEF absRev, IInv, TypeOK, RevInfo
<1> QED
  BY <1>3, <1>4, <1>5

(* S_CLR_LOG on file is the abstract Clear of the acquirer's batch. *)
LEMMA RefinesClose ==
  ASSUME IInv, ~LowBattery, NEW a \in Acq, CloseBatch(a)
  PROVE  Atomic!Clear({a})
<1>1. /\ pc = "idle" /\ ctlFile' = ctl' /\ revFile' = revFile /\ log' = log
      /\ ctl'.key = ctl.key /\ ctl'.last = ctl.last /\ ctl'.write = ctl.write
      /\ ctl'.status = [ctl.status EXCEPT ![a] = "S_CLR_LOG"]
  BY DEF CloseBatch, SaveSysCtrlBase, IInv, TypeOK, Ctl
<1>2. /\ ~Journaled'
      /\ \A c \in Acq : Closed(c)' <=> c = a
      /\ \A c \in Acq : ~JournalDrops(c)'
  BY <1>1, IdleView DEF Journaled, Closed, JournalDrops, IInv, TypeOK, Ctl
<1>3. \A s \in Slot : Atomic!OfBatch(s, {a}) <=> ctl.key[s] = a
  BY <1>1, IdleView, ConstantsAssumption
     DEF Atomic!OfBatch, IInv, LogOK, JournalOK, Recovering
<1>4. absTxn' = [s \in Slot |-> IF Atomic!OfBatch(s, {a}) THEN NoRec ELSE absTxn[s]]
  <2>1. \A s \in Slot : Record(s)' = log[s]
    BY <1>1, <1>2 DEF Record
  <2>2. \A s \in Slot : ctl.key[s] # NoAcq =>
           (ctl.key[s] \in Acq /\ ctlFile'.status[ctl.key[s]] = "S_CLR_LOG" <=> ctl.key[s] = a)
    BY <1>2 DEF Closed, IInv, TypeOK, Ctl
  <2>3. absTxn' = [s \in Slot |->
                     IF ctl.key[s] = NoAcq \/ ctl.key[s] = a THEN NoRec ELSE log[s]]
    BY <1>1, <2>1, <2>2 DEF absTxn, Closed
  <2>4. absTxn = [s \in Slot |-> IF ctl.key[s] = NoAcq THEN NoRec ELSE log[s]]
    BY <1>1, IdleView
  <2> QED
    BY <1>3, <2>3, <2>4
<1>5. absLast' = IF absLast \in Slot /\ Atomic!OfBatch(absLast, {a}) THEN NoSlot ELSE absLast
  <2>1. absLast = ctl.last
    BY <1>1, IdleView
  <2>2. ctl.last \in Slot =>
           (ctl.key[ctl.last] \in Acq /\ ctlFile'.status[ctl.key[ctl.last]] = "S_CLR_LOG"
              <=> ctl.key[ctl.last] = a)
    <3>1. \A c \in Acq : ctlFile'.status[c] = "S_CLR_LOG" <=> c = a
      BY <1>2 DEF Closed
    <3> QED
      BY <3>1 DEF IInv, TypeOK, Ctl
  <2>3. absLast' = IF ctl.last \in Slot /\ ctl.key[ctl.last] = a THEN NoSlot ELSE ctl.last
    BY <1>1, <1>2, <2>2 DEF absLast, Closed
  <2> QED
    BY <1>3, <2>1, <2>3
<1>6. absRev' = [c \in Acq |-> IF c \in {a} THEN NoPack ELSE absRev[c]]
  <2>1. absRev' = [c \in Acq |-> IF c = a THEN NoPack ELSE revFile[c]]
    BY <1>1, <1>2 DEF absRev
  <2>2. absRev = revFile
    BY <1>1, IdleView
  <2> QED
    BY <2>1, <2>2
<1> QED
  BY <1>4, <1>5, <1>6 DEF Atomic!Clear

(* ClearRecord of a closed batch changes the files but not what they show. *)
LEMMA RefinesErase ==
  ASSUME IInv, ~LowBattery, NEW a \in Acq,
         (ClearSettled /\ a = cur) \/ InitErase(a)
  PROVE  UNCHANGED abs
<1>1. /\ ctlFile = ctl /\ revFile = rev /\ ctl.status[a] = "S_CLR_LOG"
      /\ ctl.write = NoWrite
      /\ ClearRecord(a)
  BY DEF ClearSettled, InitErase, IInv, RamOK, JournalOK, Recovering, ClosedOK
<1>2. /\ ctlFile'.key = [s \in Slot |-> IF ctl.key[s] = a THEN NoAcq ELSE ctl.key[s]]
      /\ ctlFile'.last = IF ctl.last \in Slot /\ ctl.key[ctl.last] = a
                         THEN NoSlot ELSE ctl.last
      /\ ctlFile'.write = NoWrite
      /\ ctlFile'.status = [ctl.status EXCEPT ![a] = "S_USE"]
      /\ revFile' = [rev EXCEPT ![a] = NoPack]
      /\ log' = log
  BY <1>1 DEF ClearRecord, SaveSysCtrlNormal
<1>3. /\ ~Journaled /\ ~Journaled'
      /\ Closed(a) /\ ~Closed(a)'
      /\ \A c \in Acq : c # a => (Closed(c)' <=> Closed(c))
      /\ \A c \in Acq : ~JournalDrops(c) /\ ~JournalDrops(c)'
  BY <1>1, <1>2 DEF Journaled, Closed, JournalDrops, IInv, TypeOK, Ctl
<1>4. absTxn' = absTxn
  <2>1. \A s \in Slot : Record(s) = log[s] /\ Record(s)' = log[s]
    BY <1>2, <1>3 DEF Record
  <2>2. \A s \in Slot :
          (ctlFile'.key[s] = NoAcq \/ Closed(ctlFile.key[s])')
            <=> (ctlFile.key[s] = NoAcq \/ Closed(ctlFile.key[s]))
    BY <1>1, <1>2, <1>3 DEF Closed, IInv, TypeOK, Ctl
  <2> QED
    BY <2>1, <2>2 DEF absTxn
<1>5. absLast' = absLast
  BY <1>1, <1>2, <1>3, ConstantsAssumption DEF absLast, Closed, IInv, TypeOK, Ctl
<1>6. absRev' = absRev
  <2>1. \A c \in Acq : revFile'[c] = IF c = a THEN NoPack ELSE revFile[c]
    BY <1>1, <1>2 DEF IInv, TypeOK, RevInfo
  <2> QED
    BY <1>3, <2>1 DEF absRev
<1> QED
  BY <1>4, <1>5, <1>6 DEF abs

(* Every step of the code shows one step of the atomic store, or none. *)
LEMMA RefinesStep ==
  ASSUME IInv, IInv', ~LowBattery, [Next]_vars
  PROVE  [Atomic!Next]_abs
<1> SUFFICES Atomic!Next \/ UNCHANGED abs
  BY DEF abs, Atomic!vars
<1>1. CASE UNCHANGED files
  BY <1>1 DEF files, abs, absTxn, absLast, absRev, Journaled, JournalDrops, Closed, Record
<1>2. CASE CheckTermSatus \/ PowerFail \/ InitDone \/ UNCHANGED vars
  BY <1>1, <1>2 DEF CheckTermSatus, PowerFail, InitDone, vars, files
<1>3. CASE SaveAppTransParam
  BY <1>3 DEF SaveAppTransParam, abs, absTxn, absLast, absRev, Journaled, JournalDrops,
              Closed, Record
<1>4. CASE RecoverWriteLog \/ RecoverDropRev \/ RecoverEndWrite
  BY <1>4, RefinesRecovery
<1>5. CASE \E a \in Acq, b \in Body : SaveTranLog(a, b)
  BY <1>5, RefinesSave DEF Atomic!Next
<1>6. CASE \E s \in Slot, b \in Body : UpdateTranLog(s, b)
  <2> PICK s \in Slot, b \in Body : UpdateTranLog(s, b)
    BY <1>6
  <2>1. /\ pc = "idle" /\ pc' = "idle" /\ ctl' = ctl /\ rev' = rev
        /\ log' = [log EXCEPT ![s] = [acq |-> log[s].acq, body |-> b]]
        /\ ctl.key[s] # NoAcq
    BY DEF UpdateTranLog, ram
  <2>2. absTxn[s] = log[s] /\ log[s] # NoRec
    BY <2>1, IdleView DEF IInv, LogOK
  <2>3. absTxn' = [absTxn EXCEPT ![s] = [acq |-> absTxn[s].acq, body |-> b]]
    <3> DEFINE r == [acq |-> log[s].acq, body |-> b]
    <3>1. absTxn' = [t \in Slot |-> IF ctl.key[t] = NoAcq THEN NoRec
                                    ELSE IF t = s THEN r ELSE log[t]]
      BY <2>1, IdleViewPrimed DEF IInv, TypeOK
    <3>2. absTxn = [t \in Slot |-> IF ctl.key[t] = NoAcq THEN NoRec ELSE log[t]]
      BY <2>1, IdleView
    <3>3. absTxn' = [absTxn EXCEPT ![s] = r]
      <4> HIDE DEF r
      <4> QED
        BY <2>1, <3>1, <3>2
    <3> QED
      BY <2>2, <3>3
  <2>4. absLast' = absLast /\ absRev' = absRev
    BY <2>1, IdleView, IdleViewPrimed
  <2> QED
    BY <2>2, <2>3, <2>4 DEF Atomic!Update, Atomic!Next
<1>7. CASE \E s \in Slot : AdjustLast(s)
  <2> PICK s \in Slot : AdjustLast(s)
    BY <1>7
  <2>1. /\ pc = "idle" /\ pc' = "idle" /\ rev' = rev /\ log' = log
        /\ ctl'.key = ctl.key /\ ctl'.last = s /\ ctl.key[s] # NoAcq
    BY DEF AdjustLast, IInv, TypeOK, Ctl
  <2>2. absTxn[s] # NoRec
    BY <2>1, IdleView DEF IInv, LogOK
  <2>3. absTxn' = absTxn /\ absLast' = s /\ absRev' = absRev
    BY <2>1, IdleView, IdleViewPrimed
  <2> QED
    BY <2>2, <2>3 DEF Atomic!SetLast, Atomic!Next
<1>8. CASE \E a \in Acq, p \in Pack : NeedReversal(a, p)
  <2> PICK a \in Acq, p \in Pack : NeedReversal(a, p)
    BY <1>8
  <2>1. /\ pc = "idle" /\ pc' = "idle" /\ ctl' = ctl /\ log' = log
        /\ rev' = [rev EXCEPT ![a] = p]
    BY DEF NeedReversal, SaveRevInfo
  <2>2. /\ absTxn' = absTxn /\ absLast' = absLast
        /\ absRev' = [absRev EXCEPT ![a] = p]
    BY <2>1, IdleView, IdleViewPrimed
  <2> QED
    BY <2>2 DEF Atomic!NeedReversal, Atomic!Next
<1>9. CASE \E a \in Acq : DropReversal(a)
  <2> PICK a \in Acq : DropReversal(a)
    BY <1>9
  <2>1. /\ pc = "idle" /\ pc' = "idle" /\ ctl' = ctl /\ log' = log
        /\ rev' = [rev EXCEPT ![a] = NoPack]
    BY DEF DropReversal, SaveRevInfo
  <2>2. /\ absTxn' = absTxn /\ absLast' = absLast
        /\ absRev' = [absRev EXCEPT ![a] = NoPack]
    BY <2>1, IdleView, IdleViewPrimed
  <2> QED
    BY <2>2 DEF Atomic!DropReversal, Atomic!Next
<1>10. CASE \E a \in Acq : SettlementSent(a)
  <2>1. /\ pc = "idle" /\ pc' = "idle" /\ rev' = rev /\ log' = log
        /\ ctl'.key = ctl.key /\ ctl'.last = ctl.last
    BY <1>10 DEF SettlementSent, IInv, TypeOK, Ctl
  <2>2. absTxn' = absTxn /\ absLast' = absLast /\ absRev' = absRev
    BY <2>1, IdleView, IdleViewPrimed
  <2> QED
    BY <2>2 DEF abs
<1>11. CASE ClearReversalSub
  <2>1. /\ pc = "idle" /\ pc' = "idle" /\ log' = log
        /\ ctl'.key = ctl.key /\ ctl'.last = ctl.last
        /\ rev' = [a \in Acq |-> NoPack]
    BY <1>11 DEF ClearReversalSub, IInv, TypeOK, Ctl
  <2>2. /\ absTxn' = absTxn /\ absLast' = absLast
        /\ absRev' = [a \in Acq |-> NoPack]
    BY <2>1, IdleView, IdleViewPrimed
  <2> QED
    BY <2>2 DEF Atomic!DropAllReversals, Atomic!Next
<1>12. CASE \E a \in Acq : CloseBatch(a)
  BY <1>12, RefinesClose DEF Atomic!Next
<1>13. CASE ClearSettled \/ \E a \in Acq : InitErase(a)
  BY <1>13, RefinesErase DEF IInv, TypeOK
<1>14. CASE ClearAllRecord
  <2>1. /\ pc = "idle" /\ revFile' = [a \in Acq |-> NoPack]
        /\ ctlFile'.key = [s \in Slot |-> NoAcq] /\ ctlFile'.last = NoSlot
        /\ ctlFile'.write = NoWrite /\ ctlFile'.status = [a \in Acq |-> "S_USE"]
    BY <1>14, IdleView DEF ClearAllRecord, CtrlDefault, SaveSysCtrlNormal
  <2>2. ~Journaled' /\ \A a \in Acq : ~Closed(a)' /\ ~JournalDrops(a)'
    BY <2>1 DEF Journaled, Closed, JournalDrops
  <2>3. /\ absTxn' = [s \in Slot |-> NoRec] /\ absLast' = NoSlot
        /\ absRev' = [a \in Acq |-> NoPack]
    BY <2>1, <2>2, ConstantsAssumption DEF absTxn, absLast, absRev
  <2>4. \A s \in Slot : Atomic!OfBatch(s, Acq) <=> absTxn[s] # NoRec
    BY <2>1, IdleView DEF Atomic!OfBatch, IInv, LogOK, TypeOK, Ctl
  <2>5. absLast \in Slot => Atomic!OfBatch(absLast, Acq)
    BY <2>1, <2>4, IdleView, ConstantsAssumption DEF IInv, LogOK, LastOK, TypeOK, Ctl
  <2>6. absLast \in Slot \cup {NoSlot}
    BY <2>1, IdleView DEF IInv, TypeOK, Ctl
  <2> QED
    BY <2>3, <2>4, <2>5, <2>6 DEF Atomic!Clear, Atomic!Next
<1> QED
  BY <1>2, <1>3, <1>4, <1>5, <1>6, <1>7, <1>8, <1>9, <1>10, <1>11, <1>12, <1>13, <1>14
     DEF Next, Continue

(* AtomicSpec: whatever write a power failure interrupts, the operations on the
   records and the reversal flags happen at one instant or not at all. *)
THEOREM ImplementsAtomicLog ==
  ASSUME ~LowBattery
  PROVE  Spec => AtomicSpec
<1>1. IInv /\ IInv' /\ [Next]_vars => [Atomic!Next]_abs
  BY RefinesStep
<1>2. Atomic!vars = abs
  BY DEF Atomic!vars, abs
<1> QED
  BY <1>1, RefinesInit, Invariance, PTL DEF Spec, AtomicSpec, Atomic!Spec, Atomic!vars, abs

(* RecoveryIsInvisible: a power failure, the recovery and the erasing of a closed
   batch show nothing of themselves in the atomic store. *)
LEMMA InvisibleStep ==
  ASSUME IInv, ~LowBattery, [Next]_vars, pc # "idle" \/ pc' = "off"
  PROVE  UNCHANGED abs
<1>1. CASE UNCHANGED files
  BY <1>1 DEF files, abs, absTxn, absLast, absRev, Journaled, JournalDrops, Closed, Record
<1>2. CASE CheckTermSatus \/ PowerFail \/ InitDone \/ UNCHANGED vars
  BY <1>1, <1>2 DEF CheckTermSatus, PowerFail, InitDone, vars, files
<1>3. CASE SaveAppTransParam
  BY <1>3 DEF SaveAppTransParam, abs, absTxn, absLast, absRev, Journaled, JournalDrops,
              Closed, Record
<1>4. CASE RecoverWriteLog \/ RecoverDropRev \/ RecoverEndWrite
  BY <1>4, RefinesRecovery
<1>5. CASE ClearSettled \/ \E a \in Acq : InitErase(a)
  <2>1. PICK a \in Acq : (ClearSettled /\ a = cur) \/ InitErase(a)
    BY <1>5 DEF IInv, TypeOK
  <2> QED
    BY <2>1, RefinesErase
<1>6. ASSUME pc = "idle", pc' = "off"
      PROVE  PowerFail \/ UNCHANGED vars
  BY <1>6 DEF Next, Continue, CheckTermSatus, Dispatch, RecoverWriteLog, RecoverDropRev,
     RecoverEndWrite, ClearSettled, InitErase, InitDone, SaveAppTransParam,
     SaveTranLog, UpdateTranLog, AdjustLast, NeedReversal, DropReversal,
     SettlementSent, CloseBatch, ClearReversalSub, ClearAllRecord
<1>7. ASSUME pc # "idle"
      PROVE  \/ CheckTermSatus \/ PowerFail \/ Continue \/ UNCHANGED vars
  BY <1>7 DEF Next, SaveTranLog, UpdateTranLog, AdjustLast, NeedReversal, DropReversal,
     SettlementSent, CloseBatch, ClearReversalSub, ClearAllRecord
<1> QED
  BY <1>2, <1>3, <1>4, <1>5, <1>6, <1>7 DEF Continue

(* Unless a low battery can refuse the start-up event: no power failure, no recovery
   and no erasing of a closed batch changes what the store stands for, and none
   brings a reversal back. *)
THEOREM RecoveryUnseen ==
  ASSUME ~LowBattery
  PROVE  Spec => RecoveryIsInvisible
<1>1. IInv /\ [Next]_vars => (pc # "idle" \/ pc' = "off" => UNCHANGED abs)
  BY InvisibleStep
<1>2. UNCHANGED abs => UNCHANGED <<absTxn, absLast, absRev>>
  BY DEF abs
<1> QED
  BY <1>1, <1>2, Invariance, PTL DEF Spec, RecoveryIsInvisible
-----------------------------------------------------------------------------
(* Batch numbers while the power stays on. *)

(* The power on: a batch that is closed and not yet erased is the one
   TransSettleSub is erasing, and still has the number the host closed; every
   other acquirer is past that number. *)
NumbersOK ==
    \A a \in Acq :
        IF ctl.status[a] = "S_CLR_LOG"
        THEN pc = "clear" /\ a = cur /\ par[a] = settled[a]
        ELSE par[a] # settled[a]

(* GetNewBatchNo gives another number, at the wrap too, unless there is only one. *)
LEMMA NewNumber ==
  ASSUME MaxBatch > 1, NEW n \in Batch
  PROVE  GetNewBatchNo(n) # n
  BY ConstantsAssumption DEF GetNewBatchNo, Batch

(* One step with the power on keeps the numbers. *)
LEMMA NumbersStep ==
  ASSUME MaxBatch > 1, IInv, [Next]_vars, pc' # "off" \/ UNCHANGED vars, NumbersOK
  PROVE  NumbersOK'
<1> USE DEF IInv
<1>1. CASE CheckTermSatus
  <2>1. ctl' = ctl /\ par' = par /\ settled' = settled /\ pc # "clear"
    BY <1>1 DEF CheckTermSatus, RamOK
  <2> QED
    BY <2>1 DEF NumbersOK
<1>2. CASE PowerFail
  BY <1>2 DEF PowerFail, vars, NumbersOK
<1>3. CASE \E a \in Acq : SettlementSent(a)
  <2> PICK a \in Acq : SettlementSent(a)
    BY <1>3
  <2>1. ctl'.status = [ctl.status EXCEPT ![a] = "S_PENDING"]
    BY DEF SettlementSent, TypeOK, Ctl
  <2>2. /\ ctl'.status[a] = "S_PENDING"
        /\ \A c \in Acq : c # a => ctl'.status[c] = ctl.status[c]
    BY <2>1 DEF TypeOK, Ctl
  <2>3. pc = "idle" /\ pc' = pc /\ par' = par /\ settled' = settled
    BY DEF SettlementSent
  <2> QED
    BY <2>2, <2>3 DEF NumbersOK
<1>4. CASE \E a \in Acq : CloseBatch(a)
  <2> PICK a \in Acq : CloseBatch(a)
    BY <1>4
  <2>1. /\ ctl'.status = [ctl.status EXCEPT ![a] = "S_CLR_LOG"]
        /\ settled' = [settled EXCEPT ![a] = par[a]]
        /\ pc = "idle" /\ pc' = "clear" /\ cur' = a /\ par' = par
    BY DEF CloseBatch, TypeOK, Ctl
  <2>2. /\ ctl'.status[a] = "S_CLR_LOG" /\ settled'[a] = par[a]
        /\ \A c \in Acq : c # a =>
              ctl'.status[c] = ctl.status[c] /\ settled'[c] = settled[c]
    BY <2>1 DEF TypeOK, Ctl
  <2> QED
    BY <2>1, <2>2 DEF NumbersOK
<1>5. CASE ClearReversalSub
  <2>1. /\ \A a \in Acq : ctl'.status[a] = "S_CLR_LOG" <=> ctl.status[a] = "S_CLR_LOG"
        /\ pc = "idle" /\ pc' = pc /\ par' = par /\ settled' = settled
    BY <1>5 DEF ClearReversalSub, TypeOK, Ctl
  <2> QED
    BY <2>1 DEF NumbersOK
<1>6. CASE ClearSettled \/ \E a \in Acq : InitErase(a)
  <2>1. PICK a \in Acq : ClearRecord(a) /\ ctl.status[a] = "S_CLR_LOG"
    BY <1>6 DEF ClearSettled, InitErase, TypeOK, ClosedOK
  <2>2. a = cur /\ par[a] = settled[a]
    BY <2>1 DEF NumbersOK
  <2>3. /\ ctl'.status = [ctl.status EXCEPT ![a] = "S_USE"]
        /\ par' = [par EXCEPT ![a] = GetNewBatchNo(par[a])]
        /\ settled' = settled
    BY <2>1 DEF ClearRecord
  <2>4. /\ ctl'.status[a] = "S_USE" /\ par'[a] = GetNewBatchNo(par[a])
        /\ par[a] \in Batch
        /\ \A c \in Acq : c # a => ctl'.status[c] = ctl.status[c] /\ par'[c] = par[c]
    BY <2>3 DEF TypeOK, Ctl
  <2>5. par'[a] # settled'[a]
    BY <2>2, <2>3, <2>4, NewNumber
  <2> QED
    BY <2>2, <2>3, <2>4, <2>5 DEF NumbersOK
<1>7. CASE ClearAllRecord
  <2>1. /\ \A a \in Acq : ctl'.status[a] = "S_USE"
        /\ pc = "idle" /\ par' = par /\ settled' = settled
    BY <1>7 DEF ClearAllRecord, CtrlDefault
  <2> QED
    BY <2>1 DEF NumbersOK
<1>8. CASE \/ RecoverWriteLog \/ RecoverDropRev \/ RecoverEndWrite
           \/ InitDone \/ SaveAppTransParam
           \/ \E a \in Acq, b \in Body : SaveTranLog(a, b)
           \/ \E s \in Slot, b \in Body : UpdateTranLog(s, b)
           \/ \E s \in Slot : AdjustLast(s)
           \/ \E a \in Acq, p \in Pack : NeedReversal(a, p)
           \/ \E a \in Acq : DropReversal(a)
  <2>1. ctl'.status = ctl.status /\ par' = par /\ settled' = settled /\ pc # "clear"
    BY <1>8 DEF RecoverWriteLog, RecoverDropRev, RecoverEndWrite, InitDone,
       SaveAppTransParam, SaveTranLog, UpdateTranLog, AdjustLast, NeedReversal,
       DropReversal, SaveRevInfo, ram, TypeOK, Ctl
  <2> QED
    BY <2>1 DEF NumbersOK
<1>9. CASE UNCHANGED vars
  BY <1>9 DEF vars, NumbersOK
<1> QED
  BY <1>1, <1>2, <1>3, <1>4, <1>5, <1>6, <1>7, <1>8, <1>9 DEF Next, Continue

(* SteadyBatchIsFresh: on a terminal whose power never fails, and whatever else it
   does, no acquirer is left with the batch number the host closed last, provided
   there is more than one number. *)
THEOREM NumbersAreFresh ==
  ASSUME MaxBatch > 1
  PROVE  PowerSpec => []SteadyBatchIsFresh
<1> DEFINE Numbered == IInv /\ (steady => NumbersOK)
<1>1. PowerInit => Numbered
  <2> SUFFICES ASSUME PowerInit PROVE IInv /\ NumbersOK
    OBVIOUS
  <2>1. IInv
    BY InitIInv DEF PowerInit
  <2>2. NumbersOK
    <3>1. \A a \in Acq : ctl.status[a] # "S_CLR_LOG"
      BY DEF PowerInit, Init, CtrlDefault
    <3>2. \A a \in Acq : par[a] = 1 /\ settled[a] = 0
      BY DEF PowerInit, Init
    <3>3. 1 # 0
      BY SMT
    <3>4. \A a \in Acq : par[a] # settled[a]
      BY <3>2, <3>3, Zenon
    <3> QED
      BY <3>1, <3>4 DEF NumbersOK
  <2> QED
    BY <2>1, <2>2
<1>2. Numbered /\ [PowerNext]_<<vars, steady>> => Numbered'
  <2> SUFFICES ASSUME Numbered, [PowerNext]_<<vars, steady>> PROVE Numbered'
    OBVIOUS
  <2>1. /\ [Next]_vars /\ steady' = steady
        /\ steady => pc' # "off" \/ UNCHANGED vars
    BY DEF PowerNext
  <2>2. IInv'
    BY <2>1, IInvStep
  <2>3. steady' => NumbersOK'
    BY <2>1, NumbersStep
  <2> QED
    BY <2>2, <2>3
<1>3. Numbered => SteadyBatchIsFresh
  BY DEF SteadyBatchIsFresh, BatchIsFresh, NumbersOK
<1> QED
  BY <1>1, <1>2, <1>3, PTL DEF PowerSpec

-----------------------------------------------------------------------------
(* Recovery and erasing end: a bound on the steps that are left. *)

(* The closed batches of finitely many acquirers can be counted. *)
LEMMA StepsLeftIsNat ==
  ASSUME IsFiniteSet(Acq), TypeOK
  PROVE  /\ IsFiniteSet(Unerased) /\ Cardinality(Unerased) \in Nat
         /\ StepsHere \in Nat
<1>1. Unerased \subseteq Acq
  BY DEF Unerased
<1>2. IsFiniteSet(Unerased) /\ Cardinality(Unerased) \in Nat
  BY <1>1, FS_Subset, FS_CardinalityType
<1>3. StepsHere \in Nat
  BY DEF StepsHere, TypeOK
<1> QED
  BY <1>2, <1>3

(* Each write of the recovery is made once, and ClearRecord leaves one closed batch
   less. *)
LEMMA ContinueCounts ==
  ASSUME IsFiniteSet(Acq), IInv, Continue
  PROVE  StepsLeft' < StepsLeft
<1>0. TypeOK /\ ClosedOK
  BY DEF IInv
<1>1. CASE ClearSettled \/ \E a \in Acq : InitErase(a)
  <2>1. PICK a \in Acq : ClearRecord(a) /\ ctl.status[a] = "S_CLR_LOG"
    BY <1>0, <1>1 DEF ClearSettled, InitErase, TypeOK, ClosedOK
  <2>2. ctl'.status = [ctl.status EXCEPT ![a] = "S_USE"]
    BY <2>1 DEF ClearRecord
  <2>3. Unerased' = Unerased \ {a} /\ a \in Unerased
    BY <1>0, <2>1, <2>2 DEF Unerased, TypeOK, Ctl
  <2>4. Cardinality(Unerased') = Cardinality(Unerased) - 1
    BY <1>0, <2>3, StepsLeftIsNat, FS_RemoveElement
  <2>5. StepsHere = 1 /\ StepsHere' = 2
    BY <1>1, <2>1 DEF ClearSettled, InitErase, ClearRecord, StepsHere
  <2> QED
    BY <1>0, <2>4, <2>5, StepsLeftIsNat DEF StepsLeft
<1>2. CASE \/ RecoverWriteLog \/ RecoverDropRev \/ RecoverEndWrite
           \/ InitDone \/ SaveAppTransParam
  <2>1. ctl'.status = ctl.status
    BY <1>0, <1>2 DEF RecoverWriteLog, RecoverDropRev, RecoverEndWrite, InitDone,
       SaveAppTransParam, ram, TypeOK, Ctl
  <2>2. Unerased' = Unerased
    BY <2>1 DEF Unerased
  <2>3. StepsHere' < StepsHere /\ StepsHere' \in Nat
    BY <1>2 DEF RecoverWriteLog, RecoverDropRev, RecoverEndWrite, InitDone,
       SaveAppTransParam, StepsHere
  <2> QED
    BY <1>0, <2>2, <2>3, StepsLeftIsNat DEF StepsLeft
<1> QED
  BY <1>1, <1>2 DEF Continue

(* EveryWriteCounts: on a terminal with finitely many acquirers every step of the
   recovery and of the erasing leaves fewer to be made. *)
THEOREM RecoveryIsBounded ==
  ASSUME IsFiniteSet(Acq)
  PROVE  Spec => EveryWriteCounts
<1> DEFINE Counts == Continue => StepsLeft' < StepsLeft
<1>1. ASSUME IInv, [Next]_vars PROVE [Counts]_vars
  BY <1>1, ContinueCounts
<1>2. []IInv /\ [][Next]_vars => [][Counts]_vars
  BY <1>1, PTL
<1> QED
  BY <1>2, Invariance, PTL DEF Spec, EveryWriteCounts
==============================================================================
