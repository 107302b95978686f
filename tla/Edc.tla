--------------------------------- MODULE Edc ---------------------------------
(***************************************************************************)
(* One acquirer of the terminal and its host: TranProcess, SendRecvPacket  *)
(* and AfterTranProc of Commproc.c, FinishEmvTran of Emvproc.c, and the    *)
(* reversal, offline upload, TC upload and settlement of Transproc.c.      *)
(*                                                                         *)
(* The terminal handles one operation at a time, as a chain of exchanges   *)
(* with the host.  The store (log, rev, status) is taken to be atomic, as  *)
(* AtomicLog states and TranLog implements: every action below makes at    *)
(* most one change to it, and the power may fail between any two.          *)
(*                                                                         *)
(* The host and the line are external, modelled from how the code uses     *)
(* them: a request reaches the host at once or not at all, its answer may  *)
(* be lost, and the host applies what it answers "00" to.  The model is of *)
(* the program built without OFFLINE_TEST_VERSION, which stubs the line.   *)
(***************************************************************************)
EXTENDS Naturals, FiniteSets

CONSTANTS
    Txn,         \* the transactions of one run, by their STAN
    MaxTranLog,  \* MAX_TRANLOG, 400 in the code
    NoRec,       \* the transaction has no record
    NoTxn,       \* no transaction is being processed
    NoReq,       \* bNeedReversal = FALSE
    Feature      \* what may happen in this instance

Features == {"chip",      \* cards with a chip
             "offline",   \* TransOffSale, voice referral
             "void",      \* TransVoid
             "adjust",    \* TransAdjust
             "auto",      \* EDC_AUTO_SETTLEMENT is on
             "logon",     \* TransLogon, on the first acquirer
             "manager",   \* CLR REVERSAL
             "mismatch",  \* answers that ProcRecvPacket refuses, to a swiped card
             "chip mismatch",  \* the same, to a chip
             "power"}     \* power failures

Flag == {"NOSEND", "VOID", "NEED_TC"}        \* the uiStatus bits told apart
Req == [type: {"sale", "void"}, txn: Txn]    \* stRevPack
Call == {"reverse", "request", "offline", "tc", "settle", "upload", "resettle"}
RspCode == {"00", "01", "05", "95"}

ASSUME ConstantsAssumption ==
    /\ MaxTranLog \in Nat \ {0}
    /\ \A flags \in SUBSET Flag : NoRec # flags
    /\ NoTxn \notin Txn
    /\ NoReq \notin Req
    /\ Feature \subseteq Features

VARIABLES
    log,      \* the records and their uiStatus
    rev,      \* stRevInfo of the acquirer
    status,   \* sAcqStatus of the acquirer
    run,      \* gstTransInfo: the operation in progress
    pc,       \* what the program does next: a call, or a place between calls
    step,     \* where SendRecvPacket is in the call
    reply,    \* what the host answered, "none" if nothing will arrive
    host,     \* the host's open batch: its sales, the voided ones, closed or not
    fresh,    \* the transactions not yet begun
    exposed,  \* history: power failed after this one was sent, before SaveRevInfo
    dropped,  \* history: a LOGON dropped the reversal of this one, which the host has
    refused,  \* history: the host, which lacks this one, refused its advice
    lapsed    \* history: power failed after a settlement was sent, before S_PENDING

store == <<log, rev, status>>
marks == <<exposed, dropped, refused, lapsed>>
history == <<fresh, marks>>
vars == <<log, rev, status, run, pc, step, reply, host, fresh, exposed, dropped, refused, lapsed>>

Run == [job:    {"none", "sale", "void", "logon", "settle"},
        chip:   BOOLEAN,                          \* MODE_CHIP_INPUT
        txn:    Txn \cup {NoTxn},
        rsp:    {""} \cup RspCode,                \* stTranLog.szRspCode
        online: {"", "approved", "refused", "error"},  \* cEMVOnlineProc
        then:   {"request", "offline", "end"},    \* what follows TranReversal
        total:  SUBSET Txn,                       \* the sales of gstTransTotal
        todo:   SUBSET Txn]                       \* those TransUpLoad has before it

NoRun == [job |-> "none", chip |-> FALSE, txn |-> NoTxn, rsp |-> "", online |-> "",
          then |-> "end", total |-> {}, todo |-> {}]

\* The types; S_CLR_LOG is never seen, as AtomicLog erases a closed batch at once.
TypeOK ==
    /\ log \in [Txn -> {NoRec} \cup SUBSET Flag]
    /\ rev \in Req \cup {NoReq}
    /\ status \in {"S_USE", "S_PENDING"}
    /\ run \in Run
    /\ pc \in Call \cup {"idle", "card", "after", "drop", "referral", "auto", "finish"}
    /\ step \in {"send", "save", "recv"}
    /\ reply \in RspCode \cup {"none"}
    /\ host \in [sale: SUBSET Txn, void: SUBSET Txn, closed: BOOLEAN]
    /\ fresh \subseteq Txn /\ lapsed \in BOOLEAN
    /\ exposed \subseteq Txn /\ dropped \subseteq Txn /\ refused \subseteq Txn

NewBatch == [sale |-> {}, void |-> {}, closed |-> FALSE]

Init ==
    /\ log = [t \in Txn |-> NoRec] /\ rev = NoReq /\ status = "S_USE"
    /\ run = NoRun /\ pc = "idle" /\ step = "send" /\ reply = "none"
    /\ host = NewBatch
    /\ fresh = Txn /\ exposed = {} /\ dropped = {} /\ refused = {} /\ lapsed = FALSE

------------------------------------------------------------------------------
(* The store. *)

Logged == {t \in Txn : log[t] # NoRec}
Has(flag) == {t \in Logged : flag \in log[t]}
Sales == Logged \ Has("VOID")

\* Mutant: the reversal is left to the SaveRevInfo(FALSE) of AfterTranProc.
SaveTranLogKeepsRev(t, flags) ==
    IF Cardinality(Logged) < MaxTranLog
    THEN log' = [log EXCEPT ![t] = flags] /\ UNCHANGED rev
    ELSE UNCHANGED <<log, rev>>

\* SaveTranLog.  Its error, no free slot, is ignored by every caller.
SaveTranLog(t, flags) ==
    IF Cardinality(Logged) < MaxTranLog
    THEN /\ log' = [log EXCEPT ![t] = flags]
         /\ rev' = IF "NOSEND" \in flags THEN rev ELSE NoReq
    ELSE UNCHANGED <<log, rev>>

Update(t, flags) == log' = [log EXCEPT ![t] = flags]

------------------------------------------------------------------------------
(* The operator begins an operation. *)

\* Mutants: an off-by-one, and a gate that is never shut.
ChkIfTranAllowOneMore == Cardinality(Logged) <= MaxTranLog
ChkSettleNever == TRUE

ChkIfTranAllow == Cardinality(Logged) < MaxTranLog
ChkSettle == status # "S_PENDING"

\* TransSaleSub, and TransRefund: the card's transaction up to TranProcess.
TransSaleSub(t, chip) ==
    /\ pc = "idle" /\ t \in fresh
    /\ ChkIfTranAllow /\ ChkSettle
    /\ chip => "chip" \in Feature
    /\ fresh' = fresh \ {t}
    /\ run' = [NoRun EXCEPT !.job = "sale", !.chip = chip, !.txn = t, !.then = "request"]
    /\ pc' = "reverse"
    /\ UNCHANGED <<store, step, reply, host, marks>>

\* A chip the kernel approves without going online, and TransOffSale: both end
\* in FinishOffLine.  A chip sale then calls TranReversal.
FinishOffLine(t, chip) ==
    /\ pc = "idle" /\ t \in fresh
    /\ ChkIfTranAllow /\ ChkSettle
    /\ IF chip THEN "chip" \in Feature ELSE "offline" \in Feature
    /\ fresh' = fresh \ {t}
    /\ SaveTranLog(t, IF chip THEN {"NOSEND", "NEED_TC"} ELSE {"NOSEND"})
    /\ run' = [NoRun EXCEPT !.job = "sale", !.chip = chip, !.txn = t]
    /\ pc' = "finish"
    /\ UNCHANGED <<status, step, reply, host, marks>>

\* TransVoid; GetRecord offers the records that are not voided yet.
TransVoid(t) ==
    /\ "void" \in Feature
    /\ pc = "idle" /\ t \in Sales
    /\ ChkIfTranAllow /\ ChkSettle
    /\ run' = [NoRun EXCEPT !.job = "void", !.txn = t, !.then = "request"]
    /\ pc' = "reverse"
    /\ UNCHANGED <<store, step, reply, host, history>>

TransAdjust(t) ==
    /\ "adjust" \in Feature
    /\ pc = "idle" /\ t \in Sales /\ ChkSettle
    /\ Update(t, log[t] \cup {"NOSEND"})
    /\ UNCHANGED <<rev, status, run, pc, step, reply, host, history>>

\* Mutant: CalcTotal counts the voided sales in.
TransSettleAll ==
    /\ pc = "idle"
    /\ IF Logged = {}
       THEN UNCHANGED <<run, pc>>
       ELSE /\ run' = [NoRun EXCEPT !.job = "settle", !.then = "offline", !.total = Logged]
            /\ pc' = "reverse"
    /\ UNCHANGED <<store, step, reply, host, history>>

\* TransSettle: CalcTotal, then TransSettleSub unless it is an "EMPTY BATCH".
TransSettle ==
    /\ pc = "idle"
    /\ IF Logged = {}
       THEN UNCHANGED <<run, pc>>
       ELSE /\ run' = [NoRun EXCEPT !.job = "settle", !.then = "offline", !.total = Sales]
            /\ pc' = "reverse"
    /\ UNCHANGED <<store, step, reply, host, history>>

\* TranProcess skips TranReversal for LOGON: the request goes out at once, whatever
\* reversal is pending.
TransLogon ==
    /\ "logon" \in Feature
    /\ pc = "idle"
    /\ run' = [NoRun EXCEPT !.job = "logon"]
    /\ pc' = "request"
    /\ UNCHANGED <<store, step, reply, host, history>>

ClearReversalSub ==
    /\ "manager" \in Feature
    /\ pc = "idle"
    /\ rev' = NoReq /\ status' = "S_USE"
    /\ UNCHANGED <<log, run, pc, step, reply, host, history>>

------------------------------------------------------------------------------
(* The host, external: the answers it may give and what each does to its   *)
(* open batch.                                                             *)

HasSale(t) == t \in host.sale \ host.void

Undone == IF rev.type = "sale"
          THEN [host EXCEPT !.sale = @ \ {rev.txn}, !.void = @ \ {rev.txn}]
          ELSE [host EXCEPT !.void = @ \ {rev.txn}]

Refusal(code) == {[code |-> code, host |-> host]}
Approval(h) == {[code |-> "00", host |-> h]}
Closure(code) == {[code |-> code, host |-> [host EXCEPT !.closed = TRUE]]}

Answers(call, t) ==
    CASE call = "reverse" -> Approval(Undone) \cup Refusal("05")
      [] call = "request" /\ run.job = "sale" ->
            Approval([host EXCEPT !.sale = @ \cup {t}]) \cup Refusal("01") \cup Refusal("05")
      [] call = "request" /\ run.job = "void" ->
            Refusal("05") \cup
            IF HasSale(t) THEN Approval([host EXCEPT !.void = @ \cup {t}]) ELSE {}
      [] call = "request" /\ run.job = "logon" -> Approval(host) \cup Refusal("05")
      [] call = "offline" -> Approval([host EXCEPT !.sale = @ \cup {t}]) \cup Refusal("05")
      [] call \in {"tc", "upload"} -> Approval(host) \cup Refusal("05")
      [] call = "settle" ->
            Refusal("05") \cup
            IF run.total = host.sale \ host.void THEN Closure("00") ELSE Refusal("95")
      [] call = "resettle" -> Refusal("05") \cup Closure("00") \cup Closure("95")

------------------------------------------------------------------------------
(* SendRecvPacket: SendPacket, the save, RecvPacket. *)

\* What the call is about: OfflineSend, TransSendTC and TransUpLoad look for a record.
Subject(call) ==
    CASE call = "offline" -> Has("NOSEND")
      [] call = "tc"      -> Has("NEED_TC")
      [] call = "reverse" -> IF rev = NoReq THEN {} ELSE {run.txn}
      [] call = "upload"  -> run.todo
      [] OTHER            -> {run.txn}

Goto(place) == pc' = place /\ step' = "send" /\ reply' = "none"

SendPacket(t) ==
    /\ pc \in Call /\ step = "send" /\ t \in Subject(pc)
    /\ \/ reply' = "none" /\ UNCHANGED host
       \/ \E a \in Answers(pc, t) : reply' = a.code /\ host' = a.host
    /\ run' = [run EXCEPT !.txn = t]
    /\ step' = "save"
    /\ UNCHANGED <<store, pc, history>>

Request == [type |-> run.job, txn |-> run.txn]

\* ChkIfNeedReversal, of the requests told apart here: a LOGON has no reversal.
NeedReversal == run.job \in {"sale", "void"}

SaveSent ==
    /\ step = "save"
    /\ rev' = IF pc = "request" /\ NeedReversal THEN Request ELSE rev
    /\ status' = IF pc \in {"settle", "resettle"} THEN "S_PENDING" ELSE status
    /\ step' = "recv"
    /\ UNCHANGED <<log, run, pc, reply, host, history>>

\* The call returns an error: the request was not sent, or no good answer came.
\* What the caller does then; rsp is what szRspCode holds by now.  Only the card
\* transaction itself ends in TranReversal (a swipe) or in the kernel (a chip).
Failed(rsp) ==
    LET onChip == run.chip /\ (pc = "request" \/ (pc = "reverse" /\ run.then = "request"))
        onSwipe == pc = "request" /\ ~run.chip
    IN  /\ run' = [run EXCEPT !.rsp    = IF pc = "request" THEN rsp ELSE @,
                              !.online = IF onChip THEN "error" ELSE @,
                              !.then   = IF onSwipe THEN "end" ELSE @]
        /\ Goto(CASE onChip  -> "card"
                  [] onSwipe -> "reverse"
                  [] run.job # "settle" /\ pc = "offline" -> "tc"
                  [] run.job # "settle" /\ pc = "tc"      -> "auto"
                  [] OTHER -> "finish")

SendFails ==
    /\ pc \in Call /\ step = "send" /\ Subject(pc) # {}
    /\ Failed(run.rsp)
    /\ UNCHANGED <<store, host, history>>

\* No answer in time, or one that ProcRecvPacket refuses.  SaveRecvPackData has
\* taken over the response code of a refused answer by then.
RecvFails ==
    /\ step = "recv"
    /\ \/ Failed(run.rsp)
       \/ /\ (IF run.chip THEN "chip mismatch" ELSE "mismatch") \in Feature
          /\ \E rsp \in {"00", "05"} : Failed(rsp)
    /\ UNCHANGED <<store, host, history>>

------------------------------------------------------------------------------
(* The answer has come and is good: the caller goes on with it. *)

Answered(call) == pc = call /\ step = "recv" /\ reply # "none"

\* What follows TranReversal when it has nothing to send or has succeeded.
AfterReversal == Goto(IF run.then = "end" THEN "finish" ELSE run.then)

TranReversal ==
    /\ Answered("reverse") /\ reply = "00"
    /\ rev' = NoReq
    /\ AfterReversal
    /\ UNCHANGED <<log, status, run, host, history>>

\* Mutant: the caller ignores TranReversal's error.
ReversalRefusedIgnored ==
    /\ Answered("reverse") /\ reply # "00"
    /\ AfterReversal
    /\ UNCHANGED <<store, run, host, history>>

ReversalRefused ==
    /\ Answered("reverse") /\ reply # "00"
    /\ Failed(run.rsp)
    /\ UNCHANGED <<store, host, history>>

\* TranProcess goes on to AfterTranProc, cEMVOnlineProc back into the kernel.
RequestAnswered ==
    /\ Answered("request")
    /\ run' = [run EXCEPT !.rsp = reply,
                          !.online = IF ~run.chip THEN @
                                     ELSE IF reply = "00" THEN "approved" ELSE "refused"]
    /\ Goto(IF run.chip THEN "card" ELSE "after")
    /\ UNCHANGED <<store, host, history>>

\* Mutant: a settlement too sends one record only.
OfflineSendOne ==
    /\ Answered("offline")
    /\ Update(run.txn, log[run.txn] \ {"NOSEND"})
    /\ refused' = IF reply = "00" THEN refused \ {run.txn} ELSE refused \cup ({run.txn} \ host.sale)
    /\ Goto("tc")
    /\ UNCHANGED <<rev, status, run, host, fresh, exposed, dropped, lapsed>>

\* The uploads look at no response code: what the host refuses counts as sent.
OfflineSend ==
    /\ Answered("offline")
    /\ Update(run.txn, log[run.txn] \ {"NOSEND"})
    /\ refused' = IF reply = "00" THEN refused \ {run.txn} ELSE refused \cup ({run.txn} \ host.sale)
    /\ Goto(IF run.job = "settle" THEN "offline" ELSE "tc")
    /\ UNCHANGED <<rev, status, run, host, fresh, exposed, dropped, lapsed>>

\* Mutant: TS_NEED_TC is not cleared.
TransSendTCAgain ==
    /\ Answered("tc")
    /\ Goto("tc")
    /\ UNCHANGED <<store, run, host, history>>

TransSendTC ==
    /\ Answered("tc")
    /\ Update(run.txn, log[run.txn] \ {"NEED_TC"})
    /\ Goto("tc")
    /\ UNCHANGED <<rev, status, run, host, history>>

TransUpLoad ==
    /\ Answered("upload")
    /\ run' = [run EXCEPT !.todo = @ \ {run.txn}]
    /\ Goto("upload")
    /\ UNCHANGED <<store, host, history>>

\* A second "95" counts as "77", reconcile error.
Closes == reply = "00" \/ (pc = "resettle" /\ reply = "95")

\* TransSettleSub: the totals differ, or the host refuses to settle.
NotSettled ==
    /\ Answered("settle") \/ Answered("resettle")
    /\ ~Closes
    /\ IF pc = "settle" /\ reply = "95"
       THEN Goto("upload") /\ run' = [run EXCEPT !.todo = Sales]
       ELSE Goto("finish") /\ run' = run
    /\ UNCHANGED <<store, host, history>>

\* Mutant: ClearRecord does not reopen the acquirer.
SettledStaysShut ==
    /\ Answered("settle") \/ Answered("resettle")
    /\ Closes
    /\ log' = [t \in Txn |-> NoRec] /\ rev' = NoReq /\ status' = "S_CLR_LOG"
    /\ host' = NewBatch
    /\ exposed' = {} /\ dropped' = {} /\ refused' = {} /\ lapsed' = FALSE
    /\ Goto("finish")
    /\ UNCHANGED <<run, fresh>>

\* S_CLR_LOG and ClearRecord; the next batch gets a new number.
Settled ==
    /\ Answered("settle") \/ Answered("resettle")
    /\ Closes
    /\ log' = [t \in Txn |-> NoRec] /\ rev' = NoReq /\ status' = "S_USE"
    /\ host' = NewBatch
    /\ exposed' = {} /\ dropped' = {} /\ refused' = {} /\ lapsed' = FALSE
    /\ Goto("finish")
    /\ UNCHANGED <<run, fresh>>

\* A loop finds no record left, or the program does not enter it.
NothingToSend ==
    /\ pc \in Call /\ step = "send"
    /\ \/ Subject(pc) = {}
       \/ pc = "offline" /\ run.job # "settle"     \* ACQ_DISABLE_TRICK_FEED
    /\ CASE pc = "reverse" -> AfterReversal
         [] pc = "offline" -> Goto("tc")
         [] pc = "tc"      -> Goto(IF run.job = "settle" THEN "settle" ELSE "auto")
         [] pc = "upload"  -> Goto("resettle")
    /\ UNCHANGED <<store, run, host, history>>

------------------------------------------------------------------------------
(* FinishEmvTran: the kernel, external, ends the chip's transaction. *)

\* With the host's approval SaveRevInfo(TRUE) comes first.  If the terminal could
\* not go online the card may still approve: FinishOffLine.
CardApproves ==
    /\ pc = "card"
    /\ \/ /\ run.online = "approved"
          /\ rev' = Request
          /\ Goto("after")
          /\ UNCHANGED log
       \/ /\ run.online = "error"
          /\ SaveTranLog(run.txn, {"NOSEND", "NEED_TC"})
          /\ Goto("finish")
    /\ UNCHANGED <<status, run, host, history>>

\* "show reject code from host" if there is one, else ERR_TRAN_FAIL.
CardFails ==
    /\ pc = "card"
    /\ rev' = IF run.online = "approved" THEN Request ELSE rev
    /\ Goto(IF run.rsp \in {"", "00"} THEN "finish" ELSE "after")
    /\ UNCHANGED <<log, status, run, host, history>>

\* EMV_RET_CANCEL and EMV_ERRNO_ONLINE_TIMEOUT: TranProcess returns at once.
CardCancelled ==
    /\ pc = "card"
    /\ run' = NoRun /\ Goto("idle")
    /\ UNCHANGED <<store, host, history>>

------------------------------------------------------------------------------
(* AfterTranProc. *)

\* SaveRevInfo(FALSE); the reversal it drops may be another transaction's when this
\* one is a LOGON.
EndReversal ==
    /\ rev' = NoReq
    /\ dropped' = IF run.job = "logon" /\ rev # NoReq /\ Undone # host
                  THEN dropped \cup {rev.txn} ELSE dropped
    /\ UNCHANGED <<fresh, exposed, refused, lapsed>>

HostRejected ==
    /\ pc = "after" /\ run.rsp # "00"
    /\ EndReversal
    /\ \/ Goto("finish")
       \/ run.rsp = "01" /\ run.job = "sale" /\ "offline" \in Feature /\ Goto("referral")
    /\ UNCHANGED <<log, status, run, host>>

\* TranSaleComplete, or the operator gives up.
VoiceReferral ==
    /\ pc = "referral"
    /\ \/ SaveTranLog(run.txn, IF run.chip THEN {"NOSEND", "NEED_TC"} ELSE {"NOSEND"})
       \/ UNCHANGED <<log, rev>>
    /\ Goto("finish")
    /\ UNCHANGED <<status, run, host, history>>

HostAccepted ==
    /\ pc = "after" /\ run.rsp = "00"
    /\ \/ /\ run.job = "sale"
          /\ SaveTranLog(run.txn, IF run.chip THEN {"NEED_TC"} ELSE {})
       \/ /\ run.job = "void"
          /\ Update(run.txn, (log[run.txn] \ {"NOSEND"}) \cup {"VOID"})
          /\ UNCHANGED rev
       \/ run.job = "logon" /\ UNCHANGED <<log, rev>>
    /\ Goto("drop")
    /\ UNCHANGED <<status, run, host, history>>

\* Mutant: SaveRevInfo(FALSE) is forgotten.
DropReversalNot ==
    /\ pc = "drop"
    /\ Goto("offline")
    /\ UNCHANGED <<store, run, host, history>>

DropReversal ==
    /\ pc = "drop"
    /\ EndReversal
    /\ Goto("offline")
    /\ UNCHANGED <<log, status, run, host>>

\* EDC_AUTO_SETTLEMENT: TransAutoSettlement, after what writes a record.
AutoSettle ==
    /\ pc = "auto"
    /\ IF run.job = "sale" /\ "auto" \in Feature
       THEN /\ run' = [run EXCEPT !.job = "settle", !.then = "offline", !.total = Sales]
            /\ Goto("reverse")
       ELSE run' = run /\ Goto("finish")
    /\ UNCHANGED <<store, host, history>>

\* The operation returns; after a chip transaction TranProcess first sends a
\* reversal that is still pending.
Finish ==
    /\ pc = "finish"
    /\ IF run.chip
       THEN Goto("reverse") /\ run' = [run EXCEPT !.chip = FALSE, !.then = "end"]
       ELSE Goto("idle") /\ run' = NoRun
    /\ UNCHANGED <<store, host, history>>

------------------------------------------------------------------------------
\* Power failure: RAM is lost.  The history notes a request that was sent and not
\* yet saved.
PowerFail ==
    /\ "power" \in Feature /\ pc # "idle"
    /\ run' = NoRun /\ Goto("idle")
    /\ exposed' = IF pc = "request" /\ step = "save" /\ NeedReversal
                  THEN exposed \cup {run.txn} ELSE exposed
    /\ lapsed' = (lapsed \/ (pc \in {"settle", "resettle"} /\ step = "save"))
    /\ UNCHANGED <<store, host, fresh, dropped, refused>>

\* What the program does on its own once an operation has begun.
Continue ==
    \/ \E t \in Txn \cup {NoTxn} : SendPacket(t)
    \/ SaveSent \/ SendFails \/ RecvFails
    \/ TranReversal \/ ReversalRefused \/ RequestAnswered
    \/ OfflineSend \/ TransSendTC \/ TransUpLoad
    \/ NotSettled \/ Settled \/ NothingToSend
    \/ CardApproves \/ CardFails \/ CardCancelled
    \/ HostRejected \/ VoiceReferral \/ HostAccepted \/ DropReversal
    \/ AutoSettle \/ Finish

Begin ==
    \/ \E t \in Txn, chip \in BOOLEAN : TransSaleSub(t, chip) \/ FinishOffLine(t, chip)
    \/ \E t \in Txn : TransVoid(t) \/ TransAdjust(t)
    \/ TransSettle \/ TransLogon \/ ClearReversalSub

Next == Continue \/ Begin \/ PowerFail

Spec == Init /\ [][Next]_vars

\* The power stays on, and an operation that has begun goes on: the waits for a key,
\* a card and an answer have timeouts, and CommTxd, called without one, is assumed
\* to return.
SteadySpec == Init /\ [][Continue \/ Begin]_vars /\ WF_vars(Continue)

------------------------------------------------------------------------------
(* Safety.  The ledgers are compared when the terminal is idle, after a     *)
(* power failure too: there is no operation then to put things right.       *)

\* The sales whose reversal the terminal never had or has lost.
Unreversed == exposed \cup dropped

\* AfterTranProc, TranProcess, cEMVOnlineProc: a sale the host has booked and the
\* terminal has no record of is waiting to be reversed, unless power failed in
\* the gap between CommTxd and SaveRevInfo or a LOGON dropped the reversal.
NothingUnlogged ==
    pc = "idle" => \A t \in Txn \ Unreversed :
        HasSale(t) /\ log[t] = NoRec => rev = [type |-> "sale", txn |-> t]

\* A record that needs no upload stands for a sale the host has: no path reverses
\* a sale after logging it, and no upload is ticked off before its answer.  The
\* host has to take the advice: a refusal, too, ticks it off.
LoggedIsLive ==
    pc = "idle" => \A t \in Sales \ (Has("NOSEND") \cup refused \cup Unreversed) :
        HasSale(t) \/ rev = [type |-> "void", txn |-> t]

\* global.h, TS_VOID "txn voided": the host does not hold a sale whose record says
\* it is voided.
VoidedIsNotLive ==
    pc = "idle" => \A t \in Has("VOID") : ~HasSale(t)

\* SaveRevInfo has room for one packet per acquirer: nothing is sent to the host
\* while a reversal is pending but that reversal and a LOGON, which has none of its
\* own, so none is overwritten by the next request and no upload or settlement
\* overtakes it.
ReversalGoesFirst ==
    step = "save" /\ rev # NoReq => pc = "reverse" \/ (pc = "request" /\ run.job = "logon")

\* TransSettle computes the totals before it sends the pending reversal and the
\* offline records: when the settlement is on the line they are still the sales of
\* the log, and those the host has, but for advices it refused and reversals lost
\* (VoidedIsNotLive speaks of the voided ones).
TotalsAgree ==
    pc = "settle" /\ step # "send" =>
        /\ run.total = Sales
        /\ \A t \in Txn \ (refused \cup Unreversed \cup Has("VOID")) :
              t \in run.total <=> HasSale(t)

\* ClearRecord forgets the batch: nothing in it is still owed to the host, no
\* offline record, no TC and no reversal.
BatchClosesPaid ==
    [][Logged # {} /\ Logged' = {} => Has("NOSEND") = {} /\ Has("NEED_TC") = {} /\ rev = NoReq]_vars

\* ChkSettle, "SETTLE PENDING": once the host has closed the batch no sale gets
\* into it, even when the terminal never saw the answer, unless power failed in the
\* gap between CommTxd and S_PENDING.
ClosedBatchGrowsNot ==
    [][host.closed /\ host'.closed /\ ~lapsed => host'.sale \subseteq host.sale]_vars

------------------------------------------------------------------------------
(* Liveness. *)

\* The upload loops and the nested operations of one event terminate: the terminal
\* returns to the idle screen.
OperationsEnd == pc # "idle" ~> pc = "idle"

(* A bound on the steps of Continue an operation has before it: those of the  *)
(* calls that may still come, three to an exchange, and an exchange for every *)
(* flag an upload loop has to clear and every record TransUpLoad may come to. *)

\* Of the calls after the one the operation is at.  A chip transaction may have one
\* more after its end, the reversal Finish sends.
CallsLeft ==
    CASE pc = "idle"     -> 0
      [] pc = "finish"   -> IF run.chip THEN 5 ELSE 1
      [] pc = "resettle" -> 6
      [] pc = "upload"   -> 9
      [] pc = "settle"   -> 12
      [] pc = "referral" -> 12
      [] pc = "auto"     -> 24
      [] pc = "drop"     -> 31
      [] pc = "after"    -> 35
      [] pc = "card"     -> 36
      [] pc = "request"  -> 37
      [] pc = "tc"       -> IF run.job = "settle" THEN 15 ELSE 25
      [] pc = "offline"  -> IF run.job = "settle" THEN 18 ELSE 28
      [] pc = "reverse"  -> IF run.then = "request" THEN 40
                            ELSE IF run.then = "offline" THEN 21
                            ELSE IF run.chip THEN 6 ELSE 2

\* Of the three steps of an exchange, those after the next one.
CallSteps == IF pc \notin Call THEN 0
             ELSE IF step = "send" THEN 2 ELSE IF step = "save" THEN 1 ELSE 0

Owed == Cardinality(Has("NOSEND")) + Cardinality(Has("NEED_TC"))

\* The records a batch upload may still send: any, as long as none has begun.
ToUpload ==
    IF pc = "upload" THEN run.todo
    ELSE IF pc \in {"idle", "finish", "resettle"} \/ (pc = "reverse" /\ run.then = "end") THEN {}
    ELSE Txn

StepsOwed == CallsLeft + CallSteps + 3 * Owed
StepsLeft == StepsOwed + 3 * Cardinality(ToUpload)

\* OfflineSend, TransSendTC, TransUpLoad, TransSettleSub: no chain of nested calls goes in a
\* circle and no loop sends a record twice. Every step of the program brings the end
\* of the operation nearer, whatever the host answers and whichever answers are lost.
EveryStepCounts == [][Continue => StepsLeft' < StepsLeft]_vars
==============================================================================
