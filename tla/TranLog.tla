------------------------------- MODULE TranLog -------------------------------
(***************************************************************************)
(* The transaction store of the terminal: fileoper.c, the record clearing  *)
(* of Manage.c and the start-up recovery of main.c.                        *)
(*                                                                         *)
(* Three files hold the state that outlives a power failure:               *)
(*    SYSCTRL   gstSysCtrlParam, in two parts that are saved separately:   *)
(*              ctlFile, the "base" prefix (record index, acquirer status, *)
(*              journal stWriteInfo), and revFile, the reversal array;     *)
(*    TRANLOG   log, one record per slot, rewritten in place;              *)
(*    SYSPARAM  parFile, the batch number of every acquirer.               *)
(* The program works on RAM copies ctl, rev and par and writes them back.  *)
(* One action is the RAM change of the code up to and including ONE file   *)
(* write, because the power may fail between any two writes; a single      *)
(* PubFileWrite is taken to be atomic.  pc says which write comes next.    *)
(*                                                                         *)
(* What TranLog is for is stated by AtomicLog; absTxn, absLast and absRev  *)
(* below read the atomic store off the files.                              *)
(***************************************************************************)
EXTENDS Naturals, FiniteSets

CONSTANTS
    Acq,          \* acquirers of the parameter file (ucKey, ucIndex)
    MaxTranLog,   \* MAX_TRANLOG, 400 in the code
    Body,         \* contents of a record, its acquirer apart
    Unsent,       \* bodies with TS_NOSEND set
    Pack,         \* reversal packets
    MaxBatch,     \* 999999 in the code
    NoAcq,        \* INV_ACQ_KEY
    NoRec,        \* a slot of TRANLOG never written
    NoSlot,       \* 0xFFFF
    NoPack,       \* bNeedReversal = FALSE
    NoWrite,      \* stWriteInfo.bNeedSave = FALSE
    PowerFails,   \* may the power fail between two file writes?
    LowBattery    \* may PubCheckPosPower refuse the start-up event?

Slot == 0 .. MaxTranLog - 1
Rec == [acq: Acq, body: Body]
WriteInfo == [slot: Slot, rec: Rec]
Batch == 1 .. MaxBatch
AcqStatus == {"S_USE", "S_PENDING", "S_CLR_LOG"}

ASSUME ConstantsAssumption ==
    /\ MaxTranLog \in Nat \ {0}
    /\ MaxBatch \in Nat \ {0}
    /\ Unsent \subseteq Body
    /\ NoAcq \notin Acq
    /\ NoRec \notin Rec
    /\ NoSlot \notin Slot
    /\ NoPack \notin Pack
    /\ NoWrite \notin WriteInfo
    /\ PowerFails \in BOOLEAN
    /\ LowBattery \in BOOLEAN

VARIABLES
    ctl,      \* RAM: sAcqKeyList, uiLastRecNo, sAcqStatus, stWriteInfo
    rev,      \* RAM: stRevInfo
    par,      \* RAM: stAcqList[].ulCurBatchNo
    ctlFile, revFile, parFile, log,
    pc,       \* what the program does next
    boot,     \* the start-up event of this power-on is being handled
    cur,      \* the acquirer whose batch TransSettleSub is erasing
    settled   \* history: the batch number the host last closed, 0 for none

ram == <<ctl, rev, par>>
files == <<ctlFile, revFile, parFile, log>>
vars == <<ctl, rev, par, ctlFile, revFile, parFile, log, pc, boot, cur, settled>>

Ctl == [key:    [Slot -> Acq \cup {NoAcq}],
        last:   Slot \cup {NoSlot},
        status: [Acq -> AcqStatus],
        write:  WriteInfo \cup {NoWrite}]
RevInfo == [Acq -> Pack \cup {NoPack}]

\* The types; the batch numbers stay within their bound.
TypeOK ==
    /\ ctl \in Ctl /\ ctlFile \in Ctl
    /\ rev \in RevInfo /\ revFile \in RevInfo
    /\ par \in [Acq -> Batch] /\ parFile \in [Acq -> Batch]
    /\ log \in [Slot -> Rec \cup {NoRec}]
    /\ pc \in {"off", "idle", "recLog", "recRev", "recBase", "init", "clear", "param"}
    /\ boot \in BOOLEAN
    /\ cur \in Acq
    /\ settled \in [Acq -> Batch \cup {0}]

------------------------------------------------------------------------------
(* The writes of fileoper.c. *)

SaveSysCtrlBase == ctlFile' = ctl' /\ UNCHANGED revFile
SaveSysCtrlNormal == ctlFile' = ctl' /\ revFile' = rev'

\* SaveRevInfo writes the entry of one acquirer.
SaveRevInfo(a, p) ==
    /\ rev' = [rev EXCEPT ![a] = p]
    /\ revFile' = [revFile EXCEPT ![a] = p]

\* LoadCtrlDefault on a terminal that has its acquirers.
CtrlDefault ==
    [key    |-> [s \in Slot |-> NoAcq],
     last   |-> NoSlot,
     status |-> [a \in Acq |-> "S_USE"],
     write  |-> NoWrite]

Init ==
    /\ ctl = CtrlDefault /\ ctlFile = CtrlDefault
    /\ rev = [a \in Acq |-> NoPack] /\ revFile = rev
    /\ par = [a \in Acq |-> 1] /\ parFile = par
    /\ log = [s \in Slot |-> NoRec]
    /\ pc = "off" /\ boot = FALSE
    /\ cur \in Acq
    /\ settled = [a \in Acq |-> 0]

------------------------------------------------------------------------------
(* Power-on, and the check every event starts with. *)

\* Mutant: the start-up event does nothing.
DispatchIdle == "idle"

\* The handler that runs once the journal is empty: ProcAppInitEvent at
\* power-on (unless the battery is low), the event's own handler later.
Dispatch == IF boot' THEN "init" ELSE "idle"

\* Mutant: RecoverTranLog is not called.
CheckTermSatusOnly ==
    /\ pc \in {"off", "idle"}
    /\ boot' \in (IF pc = "idle" THEN {FALSE} ELSE IF LowBattery THEN BOOLEAN ELSE {TRUE})
    /\ ctl' = ctlFile /\ rev' = revFile /\ par' = parFile
    /\ pc' = Dispatch
    /\ UNCHANGED <<files, cur, settled>>

\* CheckTermSatus: read both parameter files back, then RecoverTranLog.
CheckTermSatus ==
    /\ pc \in {"off", "idle"}
    /\ boot' \in (IF pc = "idle" THEN {FALSE} ELSE IF LowBattery THEN BOOLEAN ELSE {TRUE})
    /\ ctl' = ctlFile /\ rev' = revFile /\ par' = parFile
    /\ pc' = IF ctlFile.write # NoWrite THEN "recLog" ELSE Dispatch
    /\ UNCHANGED <<files, cur, settled>>

\* Power failure.  The RAM copies are dead until CheckTermSatus reads them
\* again; they are given the files' values at once.
PowerFail ==
    /\ PowerFails
    /\ pc # "off"
    /\ pc' = "off" /\ boot' = FALSE
    /\ ctl' = ctlFile /\ rev' = revFile /\ par' = parFile
    /\ UNCHANGED <<files, cur, settled>>

------------------------------------------------------------------------------
(* SaveTranLog and RecoverTranLog. *)

FirstFree(s) == ctl.key[s] = NoAcq /\ \A t \in Slot : t < s => ctl.key[t] # NoAcq

\* Mutant: the index is saved before stWriteInfo is filled in.
SaveTranLogIndexOnly(a, b) ==
    /\ pc = "idle"
    /\ ctl.status[a] \in {"S_USE", "S_PENDING"}
    /\ \E s \in Slot :
          /\ FirstFree(s)
          /\ ctl' = [ctl EXCEPT !.key[s] = a,
                                !.write = [slot |-> s, rec |-> [acq |-> a, body |-> b]]]
    /\ ctlFile' = [ctl' EXCEPT !.write = NoWrite]
    /\ pc' = "recLog"
    /\ UNCHANGED <<rev, par, revFile, parFile, log, boot, cur, settled>>

\* Step 1: index and journal.  Without a free slot the call changes nothing.
\* A card is matched to an acquirer only in S_USE or S_PENDING (Card.c).
SaveTranLog(a, b) ==
    /\ pc = "idle"
    /\ ctl.status[a] \in {"S_USE", "S_PENDING"}
    /\ \E s \in Slot :
          /\ FirstFree(s)
          /\ ctl' = [ctl EXCEPT !.key[s] = a,
                                !.write = [slot |-> s, rec |-> [acq |-> a, body |-> b]]]
    /\ SaveSysCtrlBase
    /\ pc' = "recLog"
    /\ UNCHANGED <<rev, par, parFile, log, boot, cur, settled>>

\* Step 2 is RecoverTranLog, one action per write.
RecoverWriteLog ==
    /\ pc = "recLog"
    /\ log' = [log EXCEPT ![ctl.write.slot] = ctl.write.rec]
    /\ pc' = "recRev"
    /\ UNCHANGED <<ram, ctlFile, revFile, parFile, boot, cur, settled>>

\* Mutant: TS_NOSEND is not looked at.
RecoverDropRevAlways ==
    /\ pc = "recRev"
    /\ SaveRevInfo(ctl.write.rec.acq, NoPack)
    /\ pc' = "recBase"
    /\ UNCHANGED <<ctl, par, ctlFile, parFile, log, boot, cur, settled>>

RecoverDropRev ==
    /\ pc = "recRev"
    /\ IF ctl.write.rec.body \in Unsent
       THEN UNCHANGED <<rev, revFile>>
       ELSE SaveRevInfo(ctl.write.rec.acq, NoPack)
    /\ pc' = "recBase"
    /\ UNCHANGED <<ctl, par, ctlFile, parFile, log, boot, cur, settled>>

\* Mutant: bNeedSave is not cleared.
RecoverKeepsWrite ==
    /\ pc = "recBase"
    /\ ctl' = [ctl EXCEPT !.last = ctl.write.slot]
    /\ SaveSysCtrlBase
    /\ pc' = IF boot THEN "init" ELSE "idle"
    /\ UNCHANGED <<rev, par, parFile, log, boot, cur, settled>>

RecoverEndWrite ==
    /\ pc = "recBase"
    /\ ctl' = [ctl EXCEPT !.write = NoWrite, !.last = ctl.write.slot]
    /\ SaveSysCtrlBase
    /\ pc' = IF boot THEN "init" ELSE "idle"
    /\ UNCHANGED <<rev, par, parFile, log, boot, cur, settled>>

------------------------------------------------------------------------------
(* The other operations on the store, called while an event is handled. *)

\* UpdateTranLog overwrites one record, with no journal.
UpdateTranLog(s, b) ==
    /\ pc = "idle"
    /\ ctl.key[s] # NoAcq
    /\ log' = [log EXCEPT ![s] = [acq |-> log[s].acq, body |-> b]]
    /\ UNCHANGED <<ram, ctlFile, revFile, parFile, pc, boot, cur, settled>>

\* The end of TransAdjust.
AdjustLast(s) ==
    /\ pc = "idle"
    /\ ctl.key[s] # NoAcq
    /\ ctl' = [ctl EXCEPT !.last = s]
    /\ SaveSysCtrlBase
    /\ UNCHANGED <<rev, par, parFile, log, pc, boot, cur, settled>>

\* SaveRevInfo(TRUE) with the packet just sent, SaveRevInfo(FALSE).
NeedReversal(a, p) ==
    /\ pc = "idle"
    /\ SaveRevInfo(a, p)
    /\ UNCHANGED <<ctl, par, ctlFile, parFile, log, pc, boot, cur, settled>>

DropReversal(a) ==
    /\ pc = "idle"
    /\ rev[a] # NoPack
    /\ SaveRevInfo(a, NoPack)
    /\ UNCHANGED <<ctl, par, ctlFile, parFile, log, pc, boot, cur, settled>>

\* SendRecvPacket, once a settlement request is on the line.
SettlementSent(a) ==
    /\ pc = "idle"
    /\ ctl' = [ctl EXCEPT !.status[a] = "S_PENDING"]
    /\ SaveSysCtrlBase
    /\ UNCHANGED <<rev, par, parFile, log, pc, boot, cur, settled>>

\* Mutant: the prefix alone is saved, without the reversals.
ClearReversalBase ==
    /\ pc = "idle"
    /\ rev' = [a \in Acq |-> NoPack]
    /\ ctl' = [ctl EXCEPT !.status =
                 [a \in Acq |-> IF ctl.status[a] = "S_PENDING" THEN "S_USE" ELSE ctl.status[a]]]
    /\ SaveSysCtrlBase
    /\ UNCHANGED <<par, parFile, log, pc, boot, cur, settled>>

ClearReversalSub ==
    /\ pc = "idle"
    /\ rev' = [a \in Acq |-> NoPack]
    /\ ctl' = [ctl EXCEPT !.status =
                 [a \in Acq |-> IF ctl.status[a] = "S_PENDING" THEN "S_USE" ELSE ctl.status[a]]]
    /\ SaveSysCtrlNormal
    /\ UNCHANGED <<par, parFile, log, pc, boot, cur, settled>>

------------------------------------------------------------------------------
(* Erasing a settled batch. *)

\* Mutants: no wrap at the last number, no increase.
BatchNoUnbounded(n) == n + 1
BatchNoKept(n) == n

GetNewBatchNo(n) == IF n < MaxBatch THEN n + 1 ELSE 1

\* TransSettleSub: the host has closed the batch of acquirer a.
CloseBatch(a) ==
    /\ pc = "idle"
    /\ ctl.status[a] = "S_PENDING"
    /\ ctl' = [ctl EXCEPT !.status[a] = "S_CLR_LOG"]
    /\ SaveSysCtrlBase
    /\ settled' = [settled EXCEPT ![a] = par[a]]
    /\ cur' = a
    /\ pc' = "clear"
    /\ UNCHANGED <<rev, par, parFile, log, boot>>

\* Mutant: uiLastRecNo is left alone.
ClearRecordKeepsLast(a) ==
    /\ ctl' = [ctl EXCEPT !.key = [s \in Slot |-> IF ctl.key[s] = a THEN NoAcq ELSE ctl.key[s]],
                          !.status[a] = "S_USE"]
    /\ rev' = [rev EXCEPT ![a] = NoPack]
    /\ par' = [par EXCEPT ![a] = GetNewBatchNo(par[a])]
    /\ SaveSysCtrlNormal
    /\ pc' = "param"
    /\ UNCHANGED <<parFile, log, boot, cur, settled>>

\* ClearRecord(ucKey) up to its first write.  The new batch number is in RAM
\* only until SaveAppTransParam.
ClearRecord(a) ==
    /\ ctl' = [key    |-> [s \in Slot |-> IF ctl.key[s] = a THEN NoAcq ELSE ctl.key[s]],
               last   |-> IF ctl.last \in Slot /\ ctl.key[ctl.last] = a THEN NoSlot ELSE ctl.last,
               status |-> [ctl.status EXCEPT ![a] = "S_USE"],
               write  |-> ctl.write]
    /\ rev' = [rev EXCEPT ![a] = NoPack]
    /\ par' = [par EXCEPT ![a] = GetNewBatchNo(par[a])]
    /\ SaveSysCtrlNormal
    /\ pc' = "param"
    /\ UNCHANGED <<parFile, log, boot, cur, settled>>

ClearSettled == pc = "clear" /\ ClearRecord(cur)

\* ProcAppInitEvent, "erase transaction log of last settlement".
InitErase(a) == pc = "init" /\ ctl.status[a] = "S_CLR_LOG" /\ ClearRecord(a)

InitDone ==
    /\ pc = "init"
    /\ \A a \in Acq : ctl.status[a] # "S_CLR_LOG"
    /\ pc' = "idle" /\ boot' = FALSE
    /\ UNCHANGED <<ram, files, cur, settled>>

\* ClearRecord(ACQ_ALL), from the CLR BATCH function: no new batch numbers.
ClearAllRecord ==
    /\ pc = "idle"
    /\ ctl' = [CtrlDefault EXCEPT !.write = ctl.write]
    /\ rev' = [a \in Acq |-> NoPack]
    /\ SaveSysCtrlNormal
    /\ pc' = "param"
    /\ UNCHANGED <<par, parFile, log, boot, cur, settled>>

SaveAppTransParam ==
    /\ pc = "param"
    /\ parFile' = par
    /\ pc' = IF boot THEN "init" ELSE "idle"
    /\ UNCHANGED <<ram, ctlFile, revFile, log, boot, cur, settled>>

------------------------------------------------------------------------------
\* What the program does on its own once an operation has begun.
Continue ==
    \/ RecoverWriteLog \/ RecoverDropRev \/ RecoverEndWrite
    \/ ClearSettled
    \/ \E a \in Acq : InitErase(a)
    \/ InitDone
    \/ SaveAppTransParam

Next ==
    \/ CheckTermSatus
    \/ PowerFail
    \/ Continue
    \/ \E a \in Acq, b \in Body : SaveTranLog(a, b)
    \/ \E s \in Slot, b \in Body : UpdateTranLog(s, b)
    \/ \E s \in Slot : AdjustLast(s)
    \/ \E a \in Acq, p \in Pack : NeedReversal(a, p)
    \/ \E a \in Acq : DropReversal(a) \/ SettlementSent(a) \/ CloseBatch(a)
    \/ ClearReversalSub
    \/ ClearAllRecord

Spec == Init /\ [][Next]_vars

\* The program runs on, and a terminal that lost power is switched on again.
Fairness == WF_vars(Continue) /\ WF_vars(pc = "off" /\ CheckTermSatus)
FairSpec == Spec /\ Fairness

------------------------------------------------------------------------------
(* The atomic store read off the files: the journal counts as applied and  *)
(* the batch of an acquirer in S_CLR_LOG as erased.                        *)

Journaled == ctlFile.write # NoWrite
Closed(a) == a \in Acq /\ ctlFile.status[a] = "S_CLR_LOG"

Record(s) == IF Journaled /\ ctlFile.write.slot = s THEN ctlFile.write.rec ELSE log[s]

absTxn == [s \in Slot |->
             IF ctlFile.key[s] = NoAcq \/ Closed(ctlFile.key[s]) THEN NoRec ELSE Record(s)]

absLast == IF Journaled THEN ctlFile.write.slot
           ELSE IF ctlFile.last \in Slot /\ Closed(ctlFile.key[ctlFile.last]) THEN NoSlot
           ELSE ctlFile.last

JournalDrops(a) ==
    Journaled /\ ctlFile.write.rec.acq = a /\ ctlFile.write.rec.body \notin Unsent

absRev == [a \in Acq |-> IF Closed(a) \/ JournalDrops(a) THEN NoPack ELSE revFile[a]]

Atomic == INSTANCE AtomicLog WITH txn <- absTxn, last <- absLast, rev <- absRev

\* Whatever the power does, the files step from one state of the atomic store to
\* another by one of its operations: saving a record and dropping its reversal, or
\* closing a batch and erasing it, never shows half done.
AtomicSpec == Atomic!Spec

\* AtomicLog leaves open who raises and drops reversals.  A power failure, the
\* recovery after it and the erasing of a closed batch do not: they change nothing
\* of the atomic store, however often the recovery is cut short and begun again,
\* and no reversal a logged transaction has done away with comes back.
RecoveryIsInvisible ==
    [][pc # "idle" \/ pc' = "off" => UNCHANGED <<absTxn, absLast, absRev>>]_vars

------------------------------------------------------------------------------
(* Safety. *)

\* The index (sAcqKeyList, in SYSCTRL) and the records (in TRANLOG) are two
\* files written at different instants, and a freed slot keeps its old record:
\* a used slot must still hold, journal applied, a record of the acquirer the
\* index gives, whatever write a power failure came after.  CalcTotal,
\* TransUpLoad and TransVoid (FindAcq) all rely on it.
IndexMatchesLog ==
    \A s \in Slot : ctlFile.key[s] # NoAcq =>
        Record(s) # NoRec /\ Record(s).acq = ctlFile.key[s]

\* AllowDuplicateTran and the reprint load record uiLastRecNo: it is a record of
\* the current batch, never one a settlement freed (LoadTranLog's PubASSERT).
LastIsLive == ctlFile.last # NoSlot => ctlFile.key[ctlFile.last] # NoAcq

\* Every handler saves all that it changed: what the next event's
\* CheckTermSatus reads back from SYSCTRL and SYSPARAM is what RAM held.
ReloadLosesNothing ==
    pc = "idle" => ctl = ctlFile /\ rev = revFile /\ par = parFile

\* RecoverTranLog runs before any handler: no handler sees a record that is
\* in the index and not yet in TRANLOG, or writes over a journal in use.
HandlersSeeNoJournal == pc \in {"idle", "init", "clear", "param"} => ctl.write = NoWrite

\* main.c, "erase transaction log of last settlement": when handlers run, no
\* acquirer is left with a batch the host has already closed.
ClosedIsErased ==
    pc = "idle" => \A a \in Acq : ctl.status[a] # "S_CLR_LOG"

\* ClearRecord, "increase batch no": once a batch has been closed and erased,
\* the next one is opened under another number.
BatchIsFresh ==
    pc = "idle" => \A a \in Acq : ctl.status[a] # "S_CLR_LOG" => par[a] # settled[a]

------------------------------------------------------------------------------
(* A bound on the steps of Continue that are left: the writes of the recovery *)
(* or of the erasing under way, and two for every closed batch.               *)

StepsHere == CASE pc = "recLog"  -> 5
               [] pc = "recRev"  -> 4
               [] pc = "recBase" -> 3
               [] pc = "param"   -> 2
               [] pc \in {"init", "clear"} -> 1
               [] pc \in {"idle", "off"}   -> 0

Unerased == {a \in Acq : ctl.status[a] = "S_CLR_LOG"}
StepsLeft == StepsHere + 2 * Cardinality(Unerased)

\* RecoverTranLog and ProcAppInitEvent, "erase transaction log of last settlement":
\* nothing is done twice, so that a terminal is ready after five steps and two more
\* for every closed batch, however its power failed before.
EveryWriteCounts == [][Continue => StepsLeft' < StepsLeft]_vars

------------------------------------------------------------------------------
(* Liveness. *)

\* If the power stays on long enough, a journaled record gets into TRANLOG and
\* a closed batch is erased: recovery terminates.
RecoveryEnds ==
    <>[][~PowerFail]_vars =>
        /\ Journaled ~> ~Journaled
        /\ \A a \in Acq : Closed(a) ~> ~Closed(a)
==============================================================================
