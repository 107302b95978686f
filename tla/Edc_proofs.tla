----------------------------- MODULE Edc_proofs -----------------------------
(***************************************************************************)
(* Proofs about Edc, for every set of transactions, every size of the log  *)
(* and every choice of features.                                           *)
(***************************************************************************)
EXTENDS Edc, FiniteSetTheorems, TLAPS

Settling == {"settle", "upload", "resettle"}
Uploading == {"offline", "tc", "auto"} \cup Settling

(* The operation is still at the card's own request: run says which. *)
AtRequest ==
    \/ pc = "reverse" /\ run.then = "request"
    \/ pc \in {"request", "card", "after", "referral"}

SubjectOK ==
    /\ AtRequest => /\ run.job \in {"sale", "void", "logon"}
                    /\ run.job = "logon" => pc \in {"request", "after"} /\ ~run.chip
                    /\ run.job # "logon" => run.txn \in Txn
                    /\ run.job = "void" => run.txn \in Logged
    /\ step # "send" => pc \in Call
    /\ step # "send" /\ pc = "offline" => run.txn \in Has("NOSEND")
    /\ step # "send" /\ pc = "tc" => run.txn \in Has("NEED_TC")
    /\ step # "send" /\ pc = "upload" => run.txn \in run.todo

(* Every exchange but the reversal itself and a LOGON begins without a reversal, and
   only the card's request, once sent, leaves one behind. *)
NoRevOK ==
    /\ pc \in Uploading => rev = NoReq
    /\ pc = "request" /\ step # "recv" /\ run.job # "logon" => rev = NoReq

(* What a settlement has done by the time it gets to each of its exchanges. *)
PaidOK ==
    /\ pc = "reverse" /\ run.then = "offline" => run.job = "settle"
    /\ pc \in Settling => run.job = "settle" /\ Has("NEED_TC") = {}
    /\ pc \in {"tc"} \cup Settling /\ run.job = "settle" => Has("NOSEND") = {}

IInv == TypeOK /\ SubjectOK /\ NoRevOK /\ PaidOK

------------------------------------------------------------------------------
(* The log. *)

(* Writing the flags of one record forgets no other record. *)
LEMMA UpdateKeeps ==
  ASSUME TypeOK, NEW t, NEW flags \in SUBSET Flag, Update(t, flags)
  PROVE  /\ log' \in [Txn -> {NoRec} \cup SUBSET Flag]
         /\ Logged \subseteq Logged'
         /\ t \in Txn => t \in Logged'
BY ConstantsAssumption DEF TypeOK, Update, Logged

(* SaveTranLog forgets no record either, whether there is room or not. *)
LEMMA SaveKeeps ==
  ASSUME TypeOK, NEW t, NEW flags \in SUBSET Flag, SaveTranLog(t, flags)
  PROVE  /\ log' \in [Txn -> {NoRec} \cup SUBSET Flag]
         /\ Logged \subseteq Logged'
         /\ rev' \in {rev, NoReq}
<1>1. CASE Cardinality(Logged) < MaxTranLog
  BY <1>1, UpdateKeeps DEF SaveTranLog, Update
<1>2. CASE ~(Cardinality(Logged) < MaxTranLog)
  BY <1>2 DEF SaveTranLog, TypeOK, Logged
<1> QED
  BY <1>1, <1>2

(* An operation that has not begun. *)
LEMMA NoRunType == NoRun \in Run /\ NoRun.job = "none" /\ NoRun.then = "end"
BY DEF NoRun, Run

(* A record with a flag is a record. *)
LEMMA FlagType ==
  ASSUME TypeOK, NEW t \in Logged
  PROVE  t \in Txn /\ log[t] \in SUBSET Flag
BY DEF TypeOK, Logged

------------------------------------------------------------------------------
(* The inductive invariant. *)

(* The terminal starts with an empty log and an empty batch at the host. *)
LEMMA InitInvariant == Init => IInv
<1> SUFFICES ASSUME Init PROVE IInv
  OBVIOUS
<1>1. TypeOK
  BY NoRunType DEF Init, TypeOK, NewBatch, Call
<1>2. SubjectOK /\ NoRevOK /\ PaidOK
  BY DEF Init, SubjectOK, AtRequest, NoRevOK, PaidOK, Uploading, Settling, Call
<1> QED
  BY <1>1, <1>2 DEF IInv

(* The operator begins an operation. *)
LEMMA BeginInvariant ==
  ASSUME IInv, Begin
  PROVE  IInv'
<1> USE DEF IInv, Goto, store, history, marks
<1>1. CASE \E t \in Txn, chip \in BOOLEAN : TransSaleSub(t, chip)
  <2>1. PICK t \in Txn, chip \in BOOLEAN : TransSaleSub(t, chip)
    BY <1>1
  <2>2. /\ run' \in Run
        /\ run'.job = "sale" /\ run'.then = "request" /\ run'.txn = t
    BY <2>1 DEF TransSaleSub, Run, NoRun
  <2>3. TypeOK'
    BY <2>1, <2>2 DEF TransSaleSub, TypeOK, Call
  <2>4. SubjectOK' /\ NoRevOK' /\ PaidOK'
    BY <2>1, <2>2
       DEF TransSaleSub, SubjectOK, AtRequest, NoRevOK, PaidOK, Uploading, Settling, Call
  <2> QED
    BY <2>3, <2>4
<1>2. CASE \E t \in Txn, chip \in BOOLEAN : FinishOffLine(t, chip)
  <2>1. PICK t \in Txn, chip \in BOOLEAN : FinishOffLine(t, chip)
    BY <1>2
  <2>2. PICK flags \in SUBSET Flag : SaveTranLog(t, flags)
    BY <2>1 DEF FinishOffLine, Flag
  <2> QED
    BY <2>1, <2>2, SaveKeeps
       DEF FinishOffLine, TypeOK, Run, NoRun, SubjectOK, AtRequest, NoRevOK, PaidOK,
           Uploading, Settling, Call
<1>3. CASE \E t \in Txn : TransVoid(t)
  <2>1. PICK t \in Txn : TransVoid(t)
    BY <1>3
  <2>2. /\ run' \in Run
        /\ run'.job = "void" /\ run'.then = "request" /\ run'.txn = t
    BY <2>1 DEF TransVoid, Run, NoRun
  <2>3. TypeOK'
    BY <2>1, <2>2 DEF TransVoid, TypeOK, Call
  <2>4. t \in Logged'
    BY <2>1 DEF TransVoid, Sales, Logged
  <2>5. SubjectOK' /\ NoRevOK' /\ PaidOK'
    BY <2>1, <2>2, <2>4
       DEF TransVoid, SubjectOK, AtRequest, NoRevOK, PaidOK, Uploading, Settling, Call
  <2> QED
    BY <2>3, <2>5
<1>4. CASE \E t \in Txn : TransAdjust(t)
  <2>1. PICK t \in Txn : TransAdjust(t)
    BY <1>4
  <2>2. log[t] \cup {"NOSEND"} \in SUBSET Flag
    BY <2>1, FlagType DEF TransAdjust, Sales, Flag
  <2> QED
    BY <2>1, <2>2, UpdateKeeps
       DEF TransAdjust, TypeOK, SubjectOK, AtRequest, NoRevOK, PaidOK, Uploading, Settling,
           Call
<1>5. CASE TransSettle
  <2>1. Sales \subseteq Txn
    BY DEF Sales, Logged
  <2>2. \/ run' = run /\ pc' = pc
        \/ run' \in Run /\ run'.job = "settle" /\ run'.then = "offline" /\ pc' = "reverse"
    BY <1>5, <2>1 DEF TransSettle, Run, NoRun
  <2>3. TypeOK'
    BY <1>5, <2>2 DEF TransSettle, TypeOK, Call
  <2>4. SubjectOK' /\ NoRevOK' /\ PaidOK'
    BY <1>5, <2>2
       DEF TransSettle, SubjectOK, AtRequest, NoRevOK, PaidOK, Uploading, Settling, Call
  <2> QED
    BY <2>3, <2>4
<1>6. CASE ClearReversalSub
  BY <1>6
     DEF ClearReversalSub, TypeOK, SubjectOK, AtRequest, NoRevOK, PaidOK, Uploading,
         Settling, Call, Logged, Has
<1>7. CASE TransLogon
  <2>1. /\ run' \in Run
        /\ run'.job = "logon" /\ ~run'.chip /\ pc' = "request" /\ step' = "send"
    BY <1>7 DEF TransLogon, Run, NoRun, SubjectOK, Call
  <2>2. TypeOK'
    BY <1>7, <2>1 DEF TransLogon, TypeOK, Call
  <2>3. SubjectOK' /\ NoRevOK' /\ PaidOK'
    BY <2>1 DEF SubjectOK, AtRequest, NoRevOK, PaidOK, Uploading, Settling
  <2> QED
    BY <2>2, <2>3
<1> QED
  BY <1>1, <1>2, <1>3, <1>4, <1>5, <1>6, <1>7 DEF Begin

(* The host answers with a response code and keeps a batch of transactions. *)
LEMMA AnswersType ==
  ASSUME IInv, NEW t \in Subject(pc), pc \in Call, NEW a \in Answers(pc, t)
  PROVE  /\ a.code \in RspCode
         /\ a.host \in [sale: SUBSET Txn, void: SUBSET Txn, closed: BOOLEAN]
<1> DEFINE Batch == [sale: SUBSET Txn, void: SUBSET Txn, closed: BOOLEAN]
<1>1. host \in Batch /\ Undone \in Batch
  BY DEF IInv, TypeOK, Undone
<1>2. CASE pc = "reverse"
  BY <1>1, <1>2 DEF Answers, Approval, Refusal, RspCode
<1>3. CASE pc = "request"
  <2>1. /\ run.job \in {"sale", "void", "logon"}
        /\ run.job # "logon" => t \in Txn
    BY <1>3 DEF IInv, SubjectOK, AtRequest, Subject
  <2>2. run.job # "logon" =>
        /\ [host EXCEPT !.sale = @ \cup {t}] \in Batch
        /\ [host EXCEPT !.void = @ \cup {t}] \in Batch
    BY <1>1, <2>1
  <2> QED
    BY <1>1, <1>3, <2>1, <2>2 DEF Answers, Approval, Refusal, RspCode
<1>4. CASE pc = "offline"
  <2>1. t \in Txn
    BY <1>4 DEF Subject, Has, Logged
  <2>2. [host EXCEPT !.sale = @ \cup {t}] \in Batch
    BY <1>1, <2>1
  <2> QED
    BY <1>1, <1>4, <2>2 DEF Answers, Approval, Refusal, RspCode
<1>5. CASE pc \in {"tc", "upload"}
  BY <1>1, <1>5 DEF Answers, Approval, Refusal, RspCode
<1>6. [host EXCEPT !.closed = TRUE] \in Batch
  BY <1>1
<1>7. \A code \in RspCode : \A x \in Refusal(code) \cup Closure(code) :
        x.code \in RspCode /\ x.host \in Batch
  <2> SUFFICES ASSUME NEW code \in RspCode, NEW x \in Refusal(code) \cup Closure(code)
               PROVE  x.code \in RspCode /\ x.host \in Batch
    OBVIOUS
  <2> DEFINE shut == [host EXCEPT !.closed = TRUE]
  <2>1. x = [code |-> code, host |-> host] \/ x = [code |-> code, host |-> shut]
    BY DEF Refusal, Closure
  <2>2. shut \in Batch
    BY <1>6
  <2> HIDE DEF Batch, shut
  <2> QED
    BY <1>1, <2>1, <2>2
<1>8. CASE pc = "settle"
  <2>1. a \in Refusal("05") \cup Refusal("95") \cup Closure("00")
    BY <1>8 DEF Answers
  <2> QED
    BY <1>7, <2>1 DEF RspCode
<1>9. CASE pc = "resettle"
  <2>1. a \in Refusal("05") \cup Closure("00") \cup Closure("95")
    BY <1>9 DEF Answers
  <2> QED
    BY <1>7, <2>1 DEF RspCode
<1> QED
  BY <1>2, <1>3, <1>4, <1>5, <1>8, <1>9 DEF Call

(* The caller of a failed exchange leaves the operation in good order. *)
LEMMA FailedInvariant ==
  ASSUME IInv, pc \in Call, NEW rsp \in {""} \cup RspCode, Failed(rsp),
         UNCHANGED <<store, host, history>>
  PROVE  IInv'
<1> DEFINE onChip == run.chip /\ (pc = "request" \/ (pc = "reverse" /\ run.then = "request"))
           onSwipe == pc = "request" /\ ~run.chip
<1>1. /\ run' = [run EXCEPT !.rsp    = IF pc = "request" THEN rsp ELSE @,
                            !.online = IF onChip THEN "error" ELSE @,
                            !.then   = IF onSwipe THEN "end" ELSE @]
      /\ step' = "send" /\ reply' = "none"
      /\ pc' = CASE onChip  -> "card"
                 [] onSwipe -> "reverse"
                 [] run.job # "settle" /\ pc = "offline" -> "tc"
                 [] run.job # "settle" /\ pc = "tc"      -> "auto"
                 [] OTHER -> "finish"
  BY DEF Failed, Goto
<1>2. /\ run' \in Run
      /\ run'.job = run.job /\ run'.txn = run.txn
      /\ run'.then = IF onSwipe THEN "end" ELSE run.then
  <2> HIDE DEF onChip, onSwipe
  <2> QED
    BY <1>1 DEF IInv, TypeOK, Run
<1>3. \/ onChip /\ pc' = "card"
      \/ ~onChip /\ onSwipe /\ pc' = "reverse"
      \/ ~onChip /\ ~onSwipe /\ run.job # "settle" /\ pc = "offline" /\ pc' = "tc"
      \/ ~onChip /\ ~onSwipe /\ run.job # "settle" /\ pc = "tc" /\ pc' = "auto"
      \/ pc' = "finish"
  BY <1>1
<1>4. /\ log' = log /\ rev' = rev
      /\ Logged' = Logged /\ Has("NOSEND")' = Has("NOSEND") /\ Has("NEED_TC")' = Has("NEED_TC")
  BY DEF store, Has, Logged
<1>5. TypeOK'
  BY <1>1, <1>2, <1>3 DEF store, history, marks, IInv, TypeOK, Call
<1>6. /\ onChip => AtRequest
      /\ onSwipe => pc = "request"
  BY DEF AtRequest
<1> HIDE DEF onChip, onSwipe
<1>7. SubjectOK' /\ NoRevOK' /\ PaidOK'
  <2>1. CASE onChip /\ pc' = "card"
    <3>1. step' = "send"
      BY <1>1
    <3>2. run.job \in {"sale", "void"} /\ run.txn \in Txn /\ (run.job = "void" => run.txn \in Logged)
      BY <1>6, <2>1 DEF IInv, SubjectOK, onChip
    <3>3. SubjectOK'
      BY <1>2, <1>4, <2>1, <3>1, <3>2 DEF SubjectOK
    <3> QED
      BY <2>1, <3>3 DEF NoRevOK, PaidOK, Uploading, Settling
  <2>2. CASE onSwipe /\ pc' = "reverse"
    <3>1. run'.then = "end" /\ step' = "send"
      BY <1>1, <1>2, <2>2
    <3> QED
      BY <2>2, <3>1 DEF SubjectOK, AtRequest, NoRevOK, PaidOK, Uploading, Settling
  <2>3. CASE run.job # "settle" /\ pc \in {"offline", "tc"} /\ pc' \in {"tc", "auto"}
    <3>1. rev' = NoReq /\ step' = "send" /\ run'.job # "settle"
      BY <1>1, <1>2, <1>4, <2>3 DEF IInv, NoRevOK, Uploading
    <3> QED
      BY <2>3, <3>1 DEF SubjectOK, AtRequest, NoRevOK, PaidOK, Settling
  <2>4. CASE pc' = "finish"
    BY <1>1, <2>4 DEF SubjectOK, AtRequest, NoRevOK, PaidOK, Uploading, Settling
  <2> QED
    BY <1>3, <2>1, <2>2, <2>3, <2>4
<1> QED
  BY <1>5, <1>7 DEF IInv

(* SendRecvPacket, as long as no good answer has come. *)
LEMMA ExchangeInvariant ==
  ASSUME IInv, (\E t \in Txn \cup {NoTxn} : SendPacket(t)) \/ SaveSent \/ SendFails \/ RecvFails
  PROVE  IInv'
<1>1. CASE \E t \in Txn \cup {NoTxn} : SendPacket(t)
  <2>1. PICK t \in Txn \cup {NoTxn} : SendPacket(t)
    BY <1>1
  <2>2. /\ run' \in Run
        /\ run'.job = run.job /\ run'.then = run.then /\ run'.txn = t
    BY <2>1 DEF SendPacket, IInv, TypeOK, Run
  <2>3. /\ reply' \in RspCode \cup {"none"}
        /\ host' \in [sale: SUBSET Txn, void: SUBSET Txn, closed: BOOLEAN]
    BY <2>1, AnswersType DEF SendPacket, IInv, TypeOK
  <2>4. TypeOK'
    BY <2>1, <2>2, <2>3 DEF SendPacket, store, history, marks, IInv, TypeOK
  <2>5. /\ pc' = pc /\ step' = "save" /\ pc \in Call /\ t \in Subject(pc)
        /\ log' = log /\ rev' = rev
    BY <2>1 DEF SendPacket, store
  <2>6. Logged' = Logged /\ Has("NOSEND")' = Has("NOSEND") /\ Has("NEED_TC")' = Has("NEED_TC")
    BY <2>5 DEF Has, Logged
  <2>7. AtRequest => t = run.txn
    BY <2>5 DEF AtRequest, Subject, Call
  <2>8. SubjectOK'
    <3>1. run'.chip = run.chip /\ run'.todo = run.todo
      BY <2>1 DEF SendPacket, IInv, TypeOK, Run
    <3> QED
      BY <2>2, <2>5, <2>6, <2>7, <3>1 DEF IInv, SubjectOK, AtRequest, Subject
  <2>9. NoRevOK' /\ PaidOK'
    BY <2>1, <2>2, <2>5, <2>6 DEF SendPacket, IInv, NoRevOK, PaidOK
  <2> QED
    BY <2>4, <2>8, <2>9 DEF IInv
<1>2. CASE SaveSent
  <2>1. pc = "request" /\ NeedReversal => Request \in Req
    BY DEF IInv, SubjectOK, AtRequest, Request, NeedReversal, Req
  <2>2. TypeOK'
    BY <1>2, <2>1 DEF SaveSent, history, marks, IInv, TypeOK
  <2>3. Logged' = Logged /\ Has("NOSEND")' = Has("NOSEND") /\ Has("NEED_TC")' = Has("NEED_TC")
    BY <1>2 DEF SaveSent, Has, Logged
  <2>4. SubjectOK' /\ NoRevOK' /\ PaidOK'
    BY <1>2, <2>3
       DEF SaveSent, IInv, SubjectOK, AtRequest, NoRevOK, PaidOK, Uploading, Settling
  <2> QED
    BY <2>2, <2>4 DEF IInv
<1>3. CASE SendFails \/ RecvFails
  <2>1. PICK rsp \in {""} \cup RspCode : Failed(rsp)
    BY <1>3 DEF SendFails, RecvFails, IInv, TypeOK, Run, RspCode
  <2>2. pc \in Call /\ UNCHANGED <<store, host, history>>
    BY <1>3 DEF SendFails, RecvFails, IInv, SubjectOK
  <2> QED
    BY <2>1, <2>2, FailedInvariant
<1> QED
  BY <1>1, <1>2, <1>3

(* TranReversal has cleared the reversal, or there was none: its caller goes on. *)
LEMMA AfterReversalInvariant ==
  ASSUME IInv, pc = "reverse", AfterReversal, rev' = NoReq,
         UNCHANGED <<log, status, run, host, history>>
  PROVE  IInv'
<1>1. /\ step' = "send" /\ reply' = "none"
      /\ pc' = IF run.then = "end" THEN "finish" ELSE run.then
      /\ run.then \in {"request", "offline", "end"}
  BY DEF AfterReversal, Goto, IInv, TypeOK, Run
<1>2. Logged' = Logged
  BY DEF Logged
<1>3. TypeOK'
  BY <1>1 DEF history, marks, IInv, TypeOK, Call
<1>4. SubjectOK'
  BY <1>1, <1>2 DEF IInv, SubjectOK, AtRequest
<1>5. NoRevOK' /\ PaidOK'
  BY <1>1 DEF IInv, NoRevOK, PaidOK, Settling
<1> QED
  BY <1>3, <1>4, <1>5 DEF IInv

(* One record has been uploaded and loses a flag; no record gains one. *)
LEMMA UploadedInvariant ==
  ASSUME IInv, NEW flag \in Flag, run.txn \in Logged,
         Update(run.txn, log[run.txn] \ {flag})
  PROVE  /\ log' \in [Txn -> {NoRec} \cup SUBSET Flag]
         /\ Logged \subseteq Logged'
         /\ \A f \in Flag : Has(f) = {} => Has(f)' = {}
<1>1. log[run.txn] \in SUBSET Flag /\ run.txn \in Txn
  BY FlagType DEF IInv
<1>2. log' \in [Txn -> {NoRec} \cup SUBSET Flag] /\ Logged \subseteq Logged'
  BY <1>1, UpdateKeeps DEF IInv
<1>3. \A t \in Txn : log'[t] = IF t = run.txn THEN log[run.txn] \ {flag} ELSE log[t]
  BY DEF IInv, TypeOK, Update
<1>4. \A f \in Flag : Has(f)' \subseteq Has(f)
  BY <1>1, <1>3 DEF Has, Logged
<1> QED
  BY <1>2, <1>4

(* A good answer has come, or there is nothing to send. *)
LEMMA AnsweredInvariant ==
  ASSUME IInv,
         \/ TranReversal \/ ReversalRefused \/ RequestAnswered
         \/ OfflineSend \/ TransSendTC \/ TransUpLoad
         \/ NotSettled \/ Settled \/ NothingToSend
  PROVE  IInv'
<1>1. CASE TranReversal
  BY <1>1, AfterReversalInvariant DEF TranReversal, Answered
<1>2. CASE ReversalRefused
  BY <1>2, FailedInvariant DEF ReversalRefused, Answered, Call, IInv, TypeOK, Run
<1>3. CASE RequestAnswered
  <2>1. /\ run' \in Run /\ run'.job = run.job /\ run'.txn = run.txn /\ run'.chip = run.chip
        /\ pc = "request" /\ pc' = (IF run.chip THEN "card" ELSE "after")
        /\ step' = "send" /\ reply' = "none"
        /\ log' = log /\ rev' = rev /\ status' = status
        /\ UNCHANGED <<host, history>>
    BY <1>3 DEF RequestAnswered, Answered, Goto, store, IInv, TypeOK, Run
  <2>2. Logged' = Logged
    BY <2>1 DEF Logged
  <2>3. TypeOK'
    BY <2>1 DEF history, marks, IInv, TypeOK
  <2>4. SubjectOK'
    BY <2>1, <2>2 DEF IInv, SubjectOK, AtRequest
  <2>5. NoRevOK' /\ PaidOK'
    BY <2>1 DEF NoRevOK, PaidOK, Uploading, Settling
  <2> QED
    BY <2>3, <2>4, <2>5 DEF IInv
<1>4. CASE OfflineSend
  <2>1. pc = "offline" /\ run.txn \in Logged
    BY <1>4 DEF OfflineSend, Answered, IInv, SubjectOK, Has
  <2>2. /\ log' \in [Txn -> {NoRec} \cup SUBSET Flag]
        /\ pc' = IF run.job = "settle" THEN "offline" ELSE "tc"
        /\ step' = "send" /\ reply' = "none"
        /\ run' = run /\ rev' = rev /\ rev = NoReq
        /\ UNCHANGED <<status, host, fresh, exposed, dropped, lapsed>>
        /\ refused' \subseteq refused \cup {run.txn}
    BY <1>4, <2>1, UploadedInvariant
       DEF OfflineSend, Goto, Flag, IInv, NoRevOK, Uploading
  <2>3. TypeOK'
    BY <2>1, <2>2 DEF Logged, IInv, TypeOK, Call
  <2>4. SubjectOK' /\ NoRevOK' /\ PaidOK'
    BY <2>2 DEF SubjectOK, AtRequest, NoRevOK, PaidOK, Settling
  <2> QED
    BY <2>3, <2>4 DEF IInv
<1>5. CASE TransSendTC
  <2>1. pc = "tc" /\ run.txn \in Logged
    BY <1>5 DEF TransSendTC, Answered, IInv, SubjectOK, Has
  <2>2. /\ log' \in [Txn -> {NoRec} \cup SUBSET Flag]
        /\ Has("NOSEND") = {} => Has("NOSEND")' = {}
        /\ pc' = "tc" /\ step' = "send" /\ reply' = "none"
        /\ run' = run /\ rev' = rev /\ rev = NoReq
        /\ UNCHANGED <<status, host, history>>
    BY <1>5, <2>1, UploadedInvariant
       DEF TransSendTC, Goto, Flag, IInv, NoRevOK, Uploading
  <2>3. TypeOK'
    BY <2>2 DEF history, marks, IInv, TypeOK, Call
  <2>4. SubjectOK' /\ NoRevOK' /\ PaidOK'
    BY <2>1, <2>2 DEF IInv, SubjectOK, AtRequest, NoRevOK, PaidOK, Settling
  <2> QED
    BY <2>3, <2>4 DEF IInv
<1>6. CASE TransUpLoad \/ NotSettled
  <2>1. /\ pc \in Settling /\ pc' \in {"resettle", "upload", "finish"}
        /\ step' = "send" /\ reply' = "none"
        /\ log' = log /\ rev' = rev /\ status' = status
        /\ run' \in Run /\ run'.job = run.job /\ UNCHANGED <<host, history>>
    <3>1. Sales \subseteq Txn /\ run.todo \ {run.txn} \subseteq Txn
      BY DEF Sales, Logged, IInv, TypeOK, Run
    <3>2. PICK left \in SUBSET Txn : run' = run \/ run' = [run EXCEPT !.todo = left]
      BY <1>6, <3>1 DEF TransUpLoad, NotSettled
    <3>3. run' \in Run /\ run'.job = run.job
      BY <3>2 DEF IInv, TypeOK, Run
    <3> QED
      BY <1>6, <3>3 DEF TransUpLoad, NotSettled, Answered, Goto, store, Settling
  <2>2. Has("NOSEND")' = Has("NOSEND") /\ Has("NEED_TC")' = Has("NEED_TC")
    BY <2>1 DEF Has, Logged
  <2>3. TypeOK'
    BY <2>1 DEF history, marks, IInv, TypeOK, Call
  <2>4. SubjectOK' /\ NoRevOK' /\ PaidOK'
    BY <2>1, <2>2 DEF IInv, SubjectOK, AtRequest, NoRevOK, PaidOK, Uploading, Settling
  <2> QED
    BY <2>3, <2>4 DEF IInv
<1>7. CASE Settled
  <2>1. TypeOK'
    BY <1>7 DEF Settled, Goto, NewBatch, IInv, TypeOK
  <2>2. SubjectOK' /\ NoRevOK' /\ PaidOK'
    BY <1>7
       DEF Settled, Goto, SubjectOK, AtRequest, NoRevOK, PaidOK, Uploading, Settling
  <2> QED
    BY <2>1, <2>2 DEF IInv
<1>8. CASE NothingToSend
  <2>1. /\ pc \in Call /\ UNCHANGED <<store, run, host, history>>
        /\ Subject(pc) = {} \/ (pc = "offline" /\ run.job # "settle")
    BY <1>8 DEF NothingToSend
  <2>2. pc \in {"reverse", "offline", "tc", "upload"}
    BY <2>1 DEF Subject, Call
  <2>3. Has("NOSEND")' = Has("NOSEND") /\ Has("NEED_TC")' = Has("NEED_TC")
    BY <2>1 DEF store, Has, Logged
  <2>4. CASE pc = "reverse"
    <3>1. rev = NoReq /\ AfterReversal
      BY <1>8, <2>1, <2>4 DEF NothingToSend, Subject
    <3> QED
      BY <2>1, <2>4, <3>1, AfterReversalInvariant DEF store
  <2>5. CASE pc \in {"offline", "tc", "upload"}
    <3>1. /\ step' = "send" /\ reply' = "none"
          /\ pc = "offline" => pc' = "tc"
          /\ pc = "tc" => pc' = IF run.job = "settle" THEN "settle" ELSE "auto"
          /\ pc = "upload" => pc' = "resettle"
      BY <1>8, <2>5 DEF NothingToSend, Goto
    <3>2. /\ pc = "offline" /\ run.job = "settle" => Has("NOSEND") = {}
          /\ pc = "tc" => Has("NEED_TC") = {}
      BY <2>1 DEF Subject
    <3>3. TypeOK'
      BY <2>1, <2>5, <3>1 DEF store, history, marks, IInv, TypeOK, Call
    <3>4. SubjectOK' /\ NoRevOK' /\ PaidOK'
      BY <2>1, <2>3, <2>5, <3>1, <3>2
         DEF store, IInv, SubjectOK, AtRequest, NoRevOK, PaidOK, Uploading, Settling
    <3> QED
      BY <3>3, <3>4 DEF IInv
  <2> QED
    BY <2>2, <2>4, <2>5
<1> QED
  BY <1>1, <1>2, <1>3, <1>4, <1>5, <1>6, <1>7, <1>8

(* A place between the calls where no operation is at its request owes IInv only
   the types. *)
LEMMA BetweenCalls ==
  ASSUME TypeOK', step' = "send", pc' \in {"idle", "drop", "finish"}
  PROVE  IInv'
BY DEF IInv, SubjectOK, AtRequest, NoRevOK, PaidOK, Uploading, Settling

(* The card's transaction goes on in the kernel or in AfterTranProc. *)
LEMMA AtCardInvariant ==
  ASSUME IInv, AtRequest, pc' \in {"after", "referral"}, step' = "send", reply' = "none",
         rev' \in Req \cup {NoReq}, UNCHANGED <<log, status, run, host>>, TypeOK',
         run.job = "logon" => pc' = "after"
  PROVE  IInv'
<1>1. TypeOK'
  OBVIOUS
<1>2. Logged' = Logged
  BY DEF Logged
<1>3. SubjectOK' /\ NoRevOK' /\ PaidOK'
  BY <1>2 DEF IInv, SubjectOK, AtRequest, NoRevOK, PaidOK, Uploading, Settling
<1> QED
  BY <1>1, <1>3 DEF IInv

(* A record is written and the operation goes on to a place between the calls. *)
LEMMA WrittenInvariant ==
  ASSUME IInv, pc' \in {"drop", "finish"}, step' = "send", reply' = "none",
         log' \in [Txn -> {NoRec} \cup SUBSET Flag], rev' \in {rev, NoReq},
         UNCHANGED <<status, run, host, history>>
  PROVE  IInv'
BY BetweenCalls DEF history, marks, IInv, TypeOK

(* FinishEmvTran. *)
LEMMA CardInvariant ==
  ASSUME IInv, CardApproves \/ CardFails \/ CardCancelled
  PROVE  IInv'
<1>1. pc = "card" => AtRequest /\ Request \in Req /\ run.job # "logon"
  BY DEF IInv, SubjectOK, AtRequest, Request, Req
<1>2. CASE CardApproves
  <2>1. CASE log' = log /\ rev' = Request /\ pc' = "after"
    <3>1. TypeOK'
      BY <1>1, <1>2, <2>1 DEF CardApproves, Goto, history, marks, IInv, TypeOK
    <3> QED
      BY <1>1, <1>2, <2>1, <3>1, AtCardInvariant DEF CardApproves, Goto
  <2>2. CASE SaveTranLog(run.txn, {"NOSEND", "NEED_TC"}) /\ pc' = "finish"
    BY <1>2, <2>2, SaveKeeps, WrittenInvariant DEF CardApproves, Goto, Flag, IInv
  <2> QED
    BY <1>2, <2>1, <2>2 DEF CardApproves, Goto
<1>3. CASE CardFails
  <2>1. /\ rev' \in Req \cup {NoReq} /\ pc' \in {"after", "finish"}
        /\ step' = "send" /\ reply' = "none"
        /\ UNCHANGED <<log, status, run, host, history>>
    BY <1>1, <1>3 DEF CardFails, Goto, IInv, TypeOK
  <2>2. CASE pc' = "after"
    <3>1. TypeOK'
      BY <2>1, <2>2 DEF history, marks, IInv, TypeOK
    <3> QED
      BY <1>1, <1>3, <2>1, <2>2, <3>1, AtCardInvariant DEF CardFails
  <2>3. CASE pc' = "finish"
    BY <2>1, <2>3, BetweenCalls DEF history, marks, IInv, TypeOK
  <2> QED
    BY <2>1, <2>2, <2>3
<1>4. CASE CardCancelled
  BY <1>4, NoRunType, BetweenCalls DEF CardCancelled, Goto, store, history, marks, IInv, TypeOK
<1> QED
  BY <1>2, <1>3, <1>4

(* SaveRevInfo(FALSE), whosever reversal it drops. *)
LEMMA EndReversalType ==
  ASSUME TypeOK, EndReversal
  PROVE  /\ rev' = NoReq /\ UNCHANGED <<fresh, exposed, refused, lapsed>>
         /\ dropped' \subseteq Txn
<1>1. rev # NoReq => rev.txn \in Txn
  BY DEF TypeOK, Req
<1> QED
  BY <1>1 DEF EndReversal, TypeOK

(* AfterTranProc, what follows it, and a power failure. *)
LEMMA AfterInvariant ==
  ASSUME IInv,
         \/ HostRejected \/ VoiceReferral \/ HostAccepted \/ DropReversal
         \/ AutoSettle \/ Finish \/ PowerFail
  PROVE  IInv'
<1>1. CASE HostRejected
  <2>1. /\ pc' = "finish" \/ (pc' = "referral" /\ run.job = "sale")
        /\ step' = "send" /\ reply' = "none"
        /\ rev' = NoReq /\ UNCHANGED <<log, status, run, host, fresh, exposed, refused, lapsed>>
        /\ dropped' \subseteq Txn
    BY <1>1, EndReversalType DEF HostRejected, Goto, IInv
  <2>2. CASE pc' = "referral"
    <3>1. TypeOK'
      BY <2>1, <2>2 DEF IInv, TypeOK
    <3> QED
      BY <1>1, <2>1, <2>2, <3>1, AtCardInvariant DEF HostRejected, AtRequest
  <2>3. CASE pc' = "finish"
    BY <2>1, <2>3, BetweenCalls DEF IInv, TypeOK
  <2> QED
    BY <2>1, <2>2, <2>3
<1>2. CASE VoiceReferral
  <2>1. /\ log' \in [Txn -> {NoRec} \cup SUBSET Flag]
        /\ rev' \in {rev, NoReq}
    BY <1>2, SaveKeeps DEF VoiceReferral, Flag, IInv, TypeOK
  <2> QED
    BY <1>2, <2>1, WrittenInvariant DEF VoiceReferral, Goto
<1>3. CASE HostAccepted
  <2>1. run.job = "void" => run.txn \in Logged
    BY <1>3 DEF HostAccepted, IInv, SubjectOK, AtRequest
  <2>2. CASE run.job = "void" /\ UNCHANGED rev
             /\ Update(run.txn, (log[run.txn] \ {"NOSEND"}) \cup {"VOID"})
    <3>1. (log[run.txn] \ {"NOSEND"}) \cup {"VOID"} \in SUBSET Flag
      BY <2>1, <2>2, FlagType DEF Flag, IInv
    <3>2. log' \in [Txn -> {NoRec} \cup SUBSET Flag]
      BY <2>2, <3>1, UpdateKeeps DEF IInv
    <3> QED
      BY <1>3, <2>2, <3>2, WrittenInvariant DEF HostAccepted, Goto
  <2>3. CASE SaveTranLog(run.txn, IF run.chip THEN {"NEED_TC"} ELSE {})
    <3>1. (IF run.chip THEN {"NEED_TC"} ELSE {}) \in SUBSET Flag
      BY DEF Flag
    <3> QED
      BY <1>3, <2>3, <3>1, SaveKeeps, WrittenInvariant DEF HostAccepted, Goto, IInv
  <2>4. CASE UNCHANGED <<log, rev>>
    BY <1>3, <2>4, WrittenInvariant DEF HostAccepted, Goto, IInv, TypeOK
  <2> QED
    BY <1>3, <2>2, <2>3, <2>4 DEF HostAccepted
<1>4. CASE DropReversal
  <2>1. TypeOK'
    BY <1>4, EndReversalType DEF DropReversal, Goto, IInv, TypeOK, Call
  <2>2. SubjectOK' /\ NoRevOK' /\ PaidOK'
    BY <1>4
       DEF DropReversal, EndReversal, Goto, SubjectOK, AtRequest, NoRevOK, PaidOK,
           Uploading, Settling
  <2> QED
    BY <2>1, <2>2 DEF IInv
<1>5. CASE AutoSettle
  <2>1. Sales \subseteq Txn
    BY DEF Sales, Logged
  <2>2. /\ \/ run' = run /\ pc' = "finish"
           \/ run'.job = "settle" /\ run'.then = "offline" /\ pc' = "reverse"
        /\ run' \in Run /\ step' = "send" /\ reply' = "none"
        /\ UNCHANGED <<store, host, history>>
    BY <1>5, <2>1 DEF AutoSettle, Goto, IInv, TypeOK, Run
  <2>3. TypeOK'
    BY <2>2 DEF store, history, marks, IInv, TypeOK, Call
  <2>4. SubjectOK' /\ NoRevOK' /\ PaidOK'
    BY <2>2 DEF SubjectOK, AtRequest, NoRevOK, PaidOK, Uploading, Settling
  <2> QED
    BY <2>3, <2>4 DEF IInv
<1>6. CASE Finish
  <2> DEFINE done == [run EXCEPT !.chip = FALSE, !.then = "end"]
  <2>0. done \in Run /\ done.then = "end"
    BY DEF IInv, TypeOK, Run
  <2> HIDE DEF done
  <2>1. /\ \/ run' = NoRun /\ pc' = "idle"
           \/ run'.then = "end" /\ pc' = "reverse"
        /\ run' \in Run /\ step' = "send" /\ reply' = "none"
        /\ UNCHANGED <<store, host, history>>
    BY <1>6, <2>0, NoRunType DEF done, Finish, Goto
  <2>2. TypeOK'
    BY <2>1 DEF store, history, marks, IInv, TypeOK, Call
  <2>3. SubjectOK' /\ NoRevOK' /\ PaidOK'
    BY <2>1 DEF SubjectOK, AtRequest, NoRevOK, PaidOK, Uploading, Settling
  <2> QED
    BY <2>2, <2>3 DEF IInv
<1>7. CASE PowerFail
  <2>1. pc = "request" /\ NeedReversal => run.txn \in Txn
    BY DEF IInv, SubjectOK, AtRequest, NeedReversal
  <2>2. exposed' \subseteq Txn /\ lapsed' \in BOOLEAN
    BY <1>7, <2>1 DEF PowerFail, IInv, TypeOK
  <2> QED
    BY <1>7, <2>2, NoRunType, BetweenCalls DEF PowerFail, Goto, store, IInv, TypeOK
<1> QED
  BY <1>1, <1>2, <1>3, <1>4, <1>5, <1>6, <1>7

(* Every step keeps the invariant. *)
LEMMA NextInvariant ==
  ASSUME IInv, [Next]_vars
  PROVE  IInv'
<1>1. CASE Begin
  BY <1>1, BeginInvariant
<1>2. CASE Continue
  BY <1>2, ExchangeInvariant, AnsweredInvariant, CardInvariant, AfterInvariant DEF Continue
<1>3. CASE PowerFail
  BY <1>3, AfterInvariant
<1>4. CASE UNCHANGED vars
  BY <1>4
     DEF vars, IInv, TypeOK, SubjectOK, AtRequest, NoRevOK, PaidOK, Uploading, Settling,
         Logged, Has
<1> QED
  BY <1>1, <1>2, <1>3, <1>4 DEF Next

(* The inductive invariant holds whatever the operator, the card, the host and
   the power do. *)
THEOREM Invariance == Spec => []IInv
BY InitInvariant, NextInvariant, PTL DEF Spec

------------------------------------------------------------------------------
(* What follows from it. *)

(* The variables keep their types. *)
THEOREM TypeCorrect == Spec => []TypeOK
BY Invariance, PTL DEF IInv

(* A packet that is on the line while a reversal is pending is that reversal:
   SendRecvPacket never gets to overwrite stRevInfo with another request. *)
THEOREM ReversalFirst == Spec => []ReversalGoesFirst
<1>1. IInv => ReversalGoesFirst
  BY DEF IInv, SubjectOK, NoRevOK, ReversalGoesFirst, Call, Uploading, Settling
<1> QED
  BY <1>1, Invariance, PTL

(* Only the end of a settlement forgets records. *)
LEMMA OnlySettledForgets ==
  ASSUME IInv, Next, ~Settled
  PROVE  Logged \subseteq Logged'
<1>1. CASE UNCHANGED log
  BY <1>1 DEF Logged
<1>2. CASE \E t \in Txn, chip \in BOOLEAN : FinishOffLine(t, chip)
  BY <1>2, SaveKeeps DEF FinishOffLine, Flag, IInv
<1>3. CASE \E t \in Txn : TransAdjust(t)
  <2>1. PICK t \in Txn : TransAdjust(t)
    BY <1>3
  <2>2. log[t] \cup {"NOSEND"} \in SUBSET Flag
    BY <2>1, FlagType DEF TransAdjust, Sales, Flag, IInv
  <2> QED
    BY <2>1, <2>2, UpdateKeeps DEF TransAdjust, IInv
<1>4. CASE OfflineSend \/ TransSendTC
  <2>1. run.txn \in Logged
    BY <1>4 DEF OfflineSend, TransSendTC, Answered, IInv, SubjectOK, Has
  <2> QED
    BY <1>4, <2>1, UploadedInvariant DEF OfflineSend, TransSendTC, Flag
<1>5. CASE CardApproves \/ VoiceReferral
  BY <1>5, <1>1, SaveKeeps DEF CardApproves, VoiceReferral, Flag, IInv
<1>6. CASE HostAccepted
  <2>1. run.job = "void" => run.txn \in Logged
    BY <1>6 DEF HostAccepted, IInv, SubjectOK, AtRequest
  <2>2. run.job = "void" => (log[run.txn] \ {"NOSEND"}) \cup {"VOID"} \in SUBSET Flag
    BY <2>1, FlagType DEF Flag, IInv
  <2>3. (IF run.chip THEN {"NEED_TC"} ELSE {}) \in SUBSET Flag
    BY DEF Flag
  <2> QED
    BY <1>1, <1>6, <2>2, <2>3, SaveKeeps, UpdateKeeps DEF HostAccepted, IInv
<1> QED
  <2>1. CASE Begin
    BY <2>1, <1>1, <1>2, <1>3
       DEF Begin, TransSaleSub, TransVoid, TransSettle, TransLogon, ClearReversalSub, store
  <2>2. CASE Continue
    BY <2>2, <1>1, <1>4, <1>5, <1>6
       DEF Continue, SendPacket, SaveSent, SendFails, RecvFails, TranReversal,
           ReversalRefused, RequestAnswered, TransUpLoad, NotSettled, NothingToSend,
           CardFails, CardCancelled, HostRejected, DropReversal, AutoSettle, Finish, store
  <2>3. CASE PowerFail
    BY <2>3, <1>1 DEF PowerFail, store
  <2> QED
    BY <2>1, <2>2, <2>3 DEF Next

(* ClearRecord forgets a batch only when every upload and the reversal are done. *)
THEOREM ClosedBatchIsPaid == Spec => BatchClosesPaid
<1> DEFINE Paid == Logged # {} /\ Logged' = {} =>
                     Has("NOSEND") = {} /\ Has("NEED_TC") = {} /\ rev = NoReq
<1>1. ASSUME IInv, [Next]_vars PROVE [Paid]_vars
  <2>1. CASE Settled
    BY <1>1, <2>1 DEF Settled, Answered, IInv, NoRevOK, PaidOK, Uploading, Settling
  <2>2. CASE Next /\ ~Settled
    BY <1>1, <2>2, OnlySettledForgets
  <2> QED
    BY <1>1, <2>1, <2>2
<1>2. []IInv /\ [][Next]_vars => [][Paid]_vars
  BY <1>1, PTL
<1> QED
  BY <1>2, Invariance, PTL DEF Spec, BatchClosesPaid

------------------------------------------------------------------------------
(* Every operation ends: a bound on the steps it has left. *)

(* The flags of finitely many transactions can be counted. *)
LEMMA OwedIsNat ==
  ASSUME IsFiniteSet(Txn)
  PROVE  /\ \A f : IsFiniteSet(Has(f)) /\ Cardinality(Has(f)) \in Nat
         /\ Owed \in Nat
<1>1. \A f : Has(f) \subseteq Txn
  BY DEF Has, Logged
<1>2. \A f : IsFiniteSet(Has(f)) /\ Cardinality(Has(f)) \in Nat
  BY <1>1, FS_Subset, FS_CardinalityType
<1> QED
  BY <1>2 DEF Owed

(* The records with a flag, after one record was written. *)
LEMMA FlagsWritten ==
  ASSUME TypeOK, NEW t \in Txn, NEW flags \in SUBSET Flag, Update(t, flags), NEW f \in Flag
  PROVE  Has(f)' = IF f \in flags THEN Has(f) \cup {t} ELSE Has(f) \ {t}
<1>1. \A c \in Txn : log'[c] = IF c = t THEN flags ELSE log[c]
  BY DEF TypeOK, Update
<1>2. NoRec # flags
  BY ConstantsAssumption
<1> QED
  BY <1>1, <1>2 DEF Has, Logged

(* A record that is written owes an exchange for each of its flags at most; what it
   owed before is no more than was counted. *)
LEMMA OwedWritten ==
  ASSUME IsFiniteSet(Txn), TypeOK, NEW t \in Txn, NEW flags \in SUBSET Flag, Update(t, flags)
  PROVE  Owed' <= Owed + (IF "NOSEND" \in flags THEN 1 ELSE 0)
                       + (IF "NEED_TC" \in flags THEN 1 ELSE 0)
<1>1. \A f \in Flag : Cardinality(Has(f)') <= Cardinality(Has(f)) + (IF f \in flags THEN 1 ELSE 0)
  <2> SUFFICES ASSUME NEW f \in Flag
               PROVE  Cardinality(Has(f)') <= Cardinality(Has(f)) + (IF f \in flags THEN 1 ELSE 0)
    OBVIOUS
  <2>1. IsFiniteSet(Has(f)) /\ Cardinality(Has(f)) \in Nat
    BY OwedIsNat
  <2>2. CASE f \in flags
    <3>1. Has(f)' = Has(f) \cup {t}
      BY <2>2, FlagsWritten
    <3>2. \/ Cardinality(Has(f) \cup {t}) = Cardinality(Has(f))
          \/ Cardinality(Has(f) \cup {t}) = Cardinality(Has(f)) + 1
      BY <2>1, FS_AddElement
    <3> QED
      BY <2>1, <2>2, <3>1, <3>2
  <2>3. CASE f \notin flags
    <3>1. Has(f)' = Has(f) \ {t}
      BY <2>3, FlagsWritten
    <3>2. \/ Cardinality(Has(f) \ {t}) = Cardinality(Has(f)) - 1
          \/ Cardinality(Has(f) \ {t}) = Cardinality(Has(f))
      BY <2>1, FS_RemoveElement
    <3> QED
      BY <2>1, <2>3, <3>1, <3>2
  <2> QED
    BY <2>2, <2>3
<1>2. /\ Cardinality(Has("NOSEND")') \in Nat /\ Cardinality(Has("NEED_TC")') \in Nat
      /\ Cardinality(Has("NOSEND")) \in Nat /\ Cardinality(Has("NEED_TC")) \in Nat
  <2>1. \A f \in Flag : Has(f)' \subseteq Txn
    BY DEF Has, Logged
  <2> QED
    BY <2>1, OwedIsNat, FS_Subset, FS_CardinalityType DEF Flag
<1>3. /\ Cardinality(Has("NOSEND")') <= Cardinality(Has("NOSEND"))
                                          + (IF "NOSEND" \in flags THEN 1 ELSE 0)
      /\ Cardinality(Has("NEED_TC")') <= Cardinality(Has("NEED_TC"))
                                          + (IF "NEED_TC" \in flags THEN 1 ELSE 0)
  BY <1>1 DEF Flag
<1> QED
  BY <1>2, <1>3 DEF Owed

(* A record that loses a flag it had owes one exchange less. *)
LEMMA OwedPaid ==
  ASSUME IsFiniteSet(Txn), TypeOK, NEW flag \in {"NOSEND", "NEED_TC"}, NEW t \in Has(flag),
         Update(t, log[t] \ {flag})
  PROVE  Owed' = Owed - 1
<1>1. t \in Txn /\ log[t] \in SUBSET Flag
  BY FlagType DEF Has
<1>2. \A f \in Flag : Has(f)' = IF f = flag THEN Has(f) \ {t} ELSE Has(f)
  <2> SUFFICES ASSUME NEW f \in Flag PROVE Has(f)' = IF f = flag THEN Has(f) \ {t} ELSE Has(f)
    OBVIOUS
  <2>1. Has(f)' = IF f \in log[t] \ {flag} THEN Has(f) \cup {t} ELSE Has(f) \ {t}
    BY <1>1, FlagsWritten
  <2>2. t \in Has(f) <=> f \in log[t]
    BY DEF Has
  <2>3. Has(f) \cup {t} = Has(f) \/ t \notin Has(f)
    OBVIOUS
  <2>4. Has(f) \ {t} = Has(f) \/ t \in Has(f)
    OBVIOUS
  <2>5. CASE f = flag
    BY <2>1, <2>5
  <2>6. CASE f # flag /\ f \in log[t]
    BY <2>1, <2>2, <2>3, <2>6
  <2>7. CASE f # flag /\ f \notin log[t]
    BY <2>1, <2>2, <2>4, <2>7
  <2> QED
    BY <2>5, <2>6, <2>7
<1>3. Cardinality(Has(flag)') = Cardinality(Has(flag)) - 1
  <2>1. Has(flag)' = Has(flag) \ {t}
    BY <1>2 DEF Flag
  <2> QED
    BY <2>1, OwedIsNat, FS_RemoveElement
<1>4. \A f \in {"NOSEND", "NEED_TC"} \ {flag} : Cardinality(Has(f)') = Cardinality(Has(f))
  BY <1>2 DEF Flag
<1>5. Cardinality(Has("NOSEND")) \in Nat /\ Cardinality(Has("NEED_TC")) \in Nat
  BY OwedIsNat
<1>6. CASE flag = "NOSEND"
  BY <1>3, <1>4, <1>5, <1>6 DEF Owed
<1>7. CASE flag = "NEED_TC"
  BY <1>3, <1>4, <1>5, <1>7 DEF Owed
<1> QED
  BY <1>6, <1>7
(* The counts of a place are natural numbers. *)
LEMMA StepsOwedIsNat ==
  ASSUME IsFiniteSet(Txn), IInv
  PROVE  CallsLeft \in Nat /\ CallSteps \in Nat /\ Owed \in Nat /\ StepsOwed \in Nat
<1>1. CallsLeft \in Nat
  BY DEF CallsLeft, IInv, TypeOK, Call
<1>2. CallSteps \in Nat
  BY DEF CallSteps
<1> QED
  BY <1>1, <1>2, OwedIsNat DEF StepsOwed

(* Where the caller of a failed exchange goes on. *)
LEMMA FailedGoes ==
  ASSUME IInv, pc \in Call, NEW rsp, Failed(rsp)
  PROVE  /\ step' = "send" /\ run'.job = run.job /\ run'.chip = run.chip
         /\ run'.then = IF pc = "request" /\ ~run.chip THEN "end" ELSE run.then
         /\ \/ pc = "request" /\ run.chip /\ pc' = "card"
            \/ pc = "reverse" /\ run.then = "request" /\ run.chip /\ pc' = "card"
            \/ pc = "request" /\ ~run.chip /\ pc' = "reverse"
            \/ run.job # "settle" /\ pc = "offline" /\ pc' = "tc"
            \/ run.job # "settle" /\ pc = "tc" /\ pc' = "auto"
            \/ pc' = "finish"
<1> DEFINE onChip == run.chip /\ (pc = "request" \/ (pc = "reverse" /\ run.then = "request"))
           onSwipe == pc = "request" /\ ~run.chip
<1>1. /\ run' = [run EXCEPT !.rsp    = IF pc = "request" THEN rsp ELSE @,
                            !.online = IF onChip THEN "error" ELSE @,
                            !.then   = IF onSwipe THEN "end" ELSE @]
      /\ step' = "send"
      /\ pc' = CASE onChip  -> "card"
                 [] onSwipe -> "reverse"
                 [] run.job # "settle" /\ pc = "offline" -> "tc"
                 [] run.job # "settle" /\ pc = "tc"      -> "auto"
                 [] OTHER -> "finish"
  BY DEF Failed, Goto
<1>2. /\ run'.job = run.job /\ run'.chip = run.chip
      /\ run'.then = IF onSwipe THEN "end" ELSE run.then
  <2> HIDE DEF onChip, onSwipe
  <2> QED
    BY <1>1 DEF IInv, TypeOK, Run
<1>3. \/ onChip /\ pc' = "card"
      \/ ~onChip /\ onSwipe /\ pc' = "reverse"
      \/ run.job # "settle" /\ pc = "offline" /\ pc' = "tc"
      \/ run.job # "settle" /\ pc = "tc" /\ pc' = "auto"
      \/ pc' = "finish"
  BY <1>1
<1> QED
  BY <1>1, <1>2, <1>3

(* ... which has less before it. *)
LEMMA FailedCounts ==
  ASSUME IInv, pc \in Call, NEW rsp, Failed(rsp)
  PROVE  CallsLeft' + CallSteps' < CallsLeft /\ CallsLeft' + CallSteps' \in Nat
<1>1. CASE pc' = "card"
  BY <1>1, FailedGoes DEF CallsLeft, CallSteps, Call
<1>2. CASE pc = "request" /\ pc' = "reverse"
  BY <1>2, FailedGoes DEF CallsLeft, CallSteps, Call
<1>3. CASE run.job # "settle" /\ pc = "offline" /\ pc' = "tc"
  BY <1>3, FailedGoes DEF CallsLeft, CallSteps, Call
<1>4. CASE run.job # "settle" /\ pc = "tc" /\ pc' = "auto"
  BY <1>4 DEF CallsLeft, CallSteps, Call
<1>5. CASE pc' = "finish"
  BY <1>5, FailedGoes DEF CallsLeft, CallSteps, Call
<1> QED
  BY <1>1, <1>2, <1>3, <1>4, <1>5, FailedGoes

(* An exchange takes its next step, or fails and returns to its caller. *)
LEMMA ExchangeCounts ==
  ASSUME IInv, IsFiniteSet(Txn),
         \/ \E t \in Txn \cup {NoTxn} : SendPacket(t)
         \/ SaveSent \/ SendFails \/ RecvFails \/ ReversalRefused
  PROVE  StepsOwed' < StepsOwed
<1>1. Owed' = Owed
  BY DEF SendPacket, SaveSent, SendFails, RecvFails, ReversalRefused, store, Owed, Has, Logged
<1>2. CASE (\E t \in Txn \cup {NoTxn} : SendPacket(t)) \/ SaveSent
  <2>1. /\ pc' = pc /\ pc \in Call
        /\ \/ step = "send" /\ step' = "save"
           \/ step = "save" /\ step' = "recv"
    BY <1>2 DEF SendPacket, SaveSent, IInv, SubjectOK
  <2>2. run'.job = run.job /\ run'.then = run.then /\ run'.chip = run.chip
    BY <1>2 DEF SendPacket, SaveSent, IInv, TypeOK, Run
  <2>3. CallsLeft' = CallsLeft
    BY <2>1, <2>2 DEF CallsLeft
  <2>4. CallSteps' = CallSteps - 1
    BY <2>1 DEF CallSteps
  <2> QED
    BY <1>1, <2>3, <2>4, StepsOwedIsNat DEF StepsOwed
<1>3. CASE SendFails \/ RecvFails \/ ReversalRefused
  <2>1. PICK rsp : Failed(rsp)
    BY <1>3 DEF SendFails, RecvFails, ReversalRefused
  <2>2. pc \in Call
    BY <1>3 DEF SendFails, RecvFails, ReversalRefused, Answered, Call, IInv, SubjectOK
  <2>3. CallsLeft' + CallSteps' < CallsLeft /\ CallsLeft' + CallSteps' \in Nat
    BY <2>1, <2>2, FailedCounts
  <2> QED
    BY <1>1, <2>3, StepsOwedIsNat DEF StepsOwed
<1> QED
  BY <1>2, <1>3

(* A good answer has come, or there is nothing to send: the caller goes on, and a loop
   that begins again has one flag less to clear. *)
LEMMA AnsweredCounts ==
  ASSUME IInv, IsFiniteSet(Txn),
         \/ TranReversal \/ RequestAnswered \/ OfflineSend \/ TransSendTC
         \/ NotSettled \/ Settled \/ NothingToSend
  PROVE  StepsOwed' < StepsOwed
<1> USE DEF Goto, Answered, CallSteps, Call
<1>1. CASE TranReversal \/ (NothingToSend /\ pc = "reverse")
  <2>1. /\ pc = "reverse" /\ step' = "send" /\ run' = run /\ log' = log
        /\ pc' = IF run.then = "end" THEN "finish" ELSE run.then
    BY <1>1 DEF TranReversal, NothingToSend, AfterReversal, store
  <2>2. run.then \in {"request", "offline", "end"}
    BY DEF IInv, TypeOK, Run
  <2>3. PaidOK
    BY DEF IInv
  <2>4. run.then = "offline" => run.job = "settle"
    BY <2>1, <2>3 DEF PaidOK
  <2>5. CallsLeft' + CallSteps' < CallsLeft /\ CallsLeft' + CallSteps' \in Nat
    BY <2>1, <2>2, <2>4 DEF CallsLeft
  <2>6. Owed' = Owed
    BY <2>1 DEF Owed, Has, Logged
  <2> QED
    BY <2>5, <2>6, StepsOwedIsNat DEF StepsOwed
<1>2. CASE OfflineSend \/ TransSendTC
  <2> DEFINE flag == IF pc = "offline" THEN "NOSEND" ELSE "NEED_TC"
  <2>1. /\ pc \in {"offline", "tc"} /\ step = "recv" /\ step' = "send" /\ run' = run
        /\ \/ pc' = pc
           \/ pc = "offline" /\ run.job # "settle" /\ pc' = "tc"
    BY <1>2 DEF OfflineSend, TransSendTC
  <2>2. run.txn \in Has(flag) /\ Update(run.txn, log[run.txn] \ {flag})
    BY <1>2 DEF OfflineSend, TransSendTC, IInv, SubjectOK
  <2>3. flag \in {"NOSEND", "NEED_TC"} /\ TypeOK
    BY DEF IInv
  <2>4. Owed' = Owed - 1
    <3> HIDE DEF flag
    <3> QED
      BY <2>2, <2>3, OwedPaid
  <2>5. CallsLeft' + CallSteps' <= CallsLeft + 2 /\ CallsLeft' + CallSteps' \in Nat
    BY <2>1 DEF CallsLeft
  <2>6. CallSteps = 0
    BY <2>1
  <2> QED
    BY <2>4, <2>5, <2>6, StepsOwedIsNat DEF StepsOwed
<1>3. CASE RequestAnswered \/ NotSettled \/ (NothingToSend /\ pc # "reverse")
  <2>1. log' = log /\ run'.job = run.job /\ run'.chip = run.chip
    BY <1>3 DEF RequestAnswered, NotSettled, NothingToSend, store, IInv, TypeOK, Run
  <2>2. /\ step' = "send"
        /\ \/ pc = "request" /\ pc' \in {"card", "after"}
           \/ pc = "offline" /\ pc' = "tc"
           \/ pc = "tc" /\ run.job = "settle" /\ pc' = "settle"
           \/ pc = "tc" /\ run.job # "settle" /\ pc' = "auto"
           \/ pc = "upload" /\ pc' = "resettle"
           \/ pc = "settle" /\ pc' \in {"upload", "finish"}
           \/ pc = "resettle" /\ pc' = "finish"
    <3>1. CASE RequestAnswered \/ NotSettled
      BY <1>3, <3>1 DEF RequestAnswered, NotSettled
    <3>2. CASE NothingToSend /\ pc # "reverse"
      <4>1. pc \in {"offline", "tc", "upload"}
        BY <3>2 DEF NothingToSend, Subject
      <4> QED
        BY <3>2, <4>1 DEF NothingToSend
    <3> QED
      BY <1>3, <3>1, <3>2
  <2>3. CallsLeft' + CallSteps' < CallsLeft /\ CallsLeft' + CallSteps' \in Nat
    BY <2>1, <2>2 DEF CallsLeft
  <2>4. Owed' = Owed
    BY <2>1 DEF Owed, Has, Logged
  <2> QED
    BY <2>3, <2>4, StepsOwedIsNat DEF StepsOwed
<1>4. CASE Settled
  <2>1. /\ pc \in {"settle", "resettle"} /\ pc' = "finish" /\ run' = run
        /\ \A t \in Txn : log'[t] = NoRec
    BY <1>4 DEF Settled
  <2>2. Logged' = {}
    BY <2>1 DEF Logged
  <2>3. Owed' = 0
    <3>1. Has("NOSEND")' = {} /\ Has("NEED_TC")' = {}
      BY <2>2 DEF Has
    <3> QED
      BY <3>1, FS_EmptySet DEF Owed
  <2>4. CallsLeft' + CallSteps' < CallsLeft /\ CallsLeft' + CallSteps' \in Nat
    BY <2>1 DEF CallsLeft
  <2> QED
    BY <2>3, <2>4, StepsOwedIsNat DEF StepsOwed
<1> QED
  BY <1>1, <1>2, <1>3, <1>4

(* SaveTranLog leaves at most one exchange to be made for each flag of its record. *)
LEMMA OwedSaved ==
  ASSUME IsFiniteSet(Txn), TypeOK, NEW t \in Txn, NEW flags \in SUBSET Flag,
         SaveTranLog(t, flags)
  PROVE  /\ Owed' \in Nat
         /\ Owed' <= Owed + (IF "NOSEND" \in flags THEN 1 ELSE 0)
                         + (IF "NEED_TC" \in flags THEN 1 ELSE 0)
<1>1. Owed' \in Nat /\ Owed \in Nat
  <2>1. \A f : Has(f)' \subseteq Txn
    BY DEF Has, Logged
  <2> QED
    BY <2>1, OwedIsNat, FS_Subset, FS_CardinalityType DEF Owed
<1>2. CASE log' = log
  <2>1. Owed' = Owed
    BY <1>2 DEF Owed, Has, Logged
  <2> QED
    BY <1>1, <2>1
<1>3. CASE Update(t, flags)
  BY <1>1, <1>3, OwedWritten
<1> QED
  BY <1>2, <1>3 DEF SaveTranLog, Update

(* The kernel and AfterTranProc, and the end of the operation. *)
LEMMA AfterCounts ==
  ASSUME IInv, IsFiniteSet(Txn),
         \/ CardApproves \/ CardFails \/ CardCancelled
         \/ HostRejected \/ VoiceReferral \/ HostAccepted \/ DropReversal
         \/ AutoSettle \/ Finish
  PROVE  StepsOwed' < StepsOwed
<1> USE DEF Goto, CallSteps, Call
<1>1. CASE log' = log
  <2>1. Owed' = Owed
    BY <1>1 DEF Owed, Has, Logged
  <2>2. CASE AutoSettle \/ Finish
    <3>1. /\ step' = "send"
          /\ \/ pc = "auto" /\ pc' = "reverse" /\ run'.then = "offline"
             \/ pc = "auto" /\ pc' = "finish" /\ run' = run
             \/ pc = "finish" /\ run.chip /\ pc' = "reverse" /\ run'.then = "end" /\ run'.chip = FALSE
             \/ pc = "finish" /\ pc' = "idle"
      BY <2>2 DEF AutoSettle, Finish, IInv, TypeOK, Run
    <3>2. CallsLeft' + CallSteps' < CallsLeft /\ CallsLeft' + CallSteps' \in Nat
      BY <3>1 DEF CallsLeft
    <3> QED
      BY <2>1, <3>2, StepsOwedIsNat DEF StepsOwed
  <2>3. CASE ~(AutoSettle \/ Finish)
    <3>1. /\ pc \in {"card", "after", "referral", "drop"} /\ step' = "send"
          /\ \/ run' = run
             \/ pc' = "idle"
          /\ \/ pc = "card" /\ pc' \in {"after", "finish", "idle"}
             \/ pc = "after" /\ pc' \in {"finish", "referral", "drop"}
             \/ pc = "referral" /\ pc' = "finish"
             \/ pc = "drop" /\ pc' = "offline"
      BY <2>3 DEF CardApproves, CardFails, CardCancelled, HostRejected, VoiceReferral,
         HostAccepted, DropReversal
    <3>2. CallsLeft' + CallSteps' < CallsLeft /\ CallsLeft' + CallSteps' \in Nat
      BY <3>1 DEF CallsLeft
    <3> QED
      BY <2>1, <3>2, StepsOwedIsNat DEF StepsOwed
  <2> QED
    BY <2>2, <2>3
<1>2. CASE log' # log /\ (CardApproves \/ VoiceReferral)
  <2>1. PICK flags \in SUBSET Flag : SaveTranLog(run.txn, flags)
    BY <1>2 DEF CardApproves, VoiceReferral, Flag
  <2>2. run.txn \in Txn /\ TypeOK
    BY <1>2 DEF CardApproves, VoiceReferral, IInv, SubjectOK, AtRequest
  <2>3. Owed' \in Nat /\ Owed' <= Owed + 2
    BY <2>1, <2>2, OwedSaved, StepsOwedIsNat
  <2>4. pc \in {"card", "referral"} /\ pc' = "finish" /\ run' = run
    BY <1>2 DEF CardApproves, VoiceReferral
  <2>5. CallsLeft' + CallSteps' + 6 < CallsLeft /\ CallsLeft' + CallSteps' \in Nat
    BY <2>4 DEF CallsLeft
  <2> QED
    BY <2>3, <2>5, StepsOwedIsNat DEF StepsOwed
<1>3. CASE log' # log /\ HostAccepted
  <2>1. Owed' \in Nat /\ Owed' <= Owed + 1
    <3>1. run.txn \in Txn /\ TypeOK
      BY <1>3 DEF HostAccepted, IInv, SubjectOK, AtRequest
    <3>2. CASE run.job = "sale"
      <4>1. SaveTranLog(run.txn, IF run.chip THEN {"NEED_TC"} ELSE {})
        BY <1>3, <3>2 DEF HostAccepted
      <4>2. PICK flags \in {{"NEED_TC"}, {}} : SaveTranLog(run.txn, flags)
        BY <4>1
      <4>3. flags \in SUBSET Flag /\ "NOSEND" \notin flags
        BY DEF Flag
      <4> QED
        BY <3>1, <4>2, <4>3, OwedSaved, StepsOwedIsNat
    <3>3. CASE run.job = "void"
      <4> DEFINE flags == (log[run.txn] \ {"NOSEND"}) \cup {"VOID"}
      <4>1. run.txn \in Logged
        BY <1>3, <3>3 DEF HostAccepted, IInv, SubjectOK, AtRequest
      <4>2. flags \in SUBSET Flag /\ "NOSEND" \notin flags
        BY <3>1, <4>1, FlagType DEF Flag
      <4>3. Update(run.txn, flags)
        BY <1>3, <3>3 DEF HostAccepted
      <4> HIDE DEF flags
      <4>4. Owed' <= Owed + (IF "NOSEND" \in flags THEN 1 ELSE 0)
                          + (IF "NEED_TC" \in flags THEN 1 ELSE 0)
        BY <3>1, <4>2, <4>3, OwedWritten
      <4>5. Owed' \in Nat
        <5>1. \A f : Has(f)' \subseteq Txn
          BY DEF Has, Logged
        <5> QED
          BY <5>1, FS_Subset, FS_CardinalityType DEF Owed
      <4> QED
        BY <4>2, <4>4, <4>5, StepsOwedIsNat
    <3> QED
      BY <1>3, <3>2, <3>3 DEF HostAccepted
  <2>2. pc = "after" /\ pc' = "drop"
    BY <1>3 DEF HostAccepted
  <2>3. CallsLeft' + CallSteps' + 3 < CallsLeft /\ CallsLeft' + CallSteps' \in Nat
    BY <2>2 DEF CallsLeft
  <2> QED
    BY <2>1, <2>3, StepsOwedIsNat DEF StepsOwed
<1> QED
  BY <1>1, <1>2, <1>3
     DEF CardFails, CardCancelled, HostRejected, DropReversal, AutoSettle, Finish, store

(* The records a batch upload may still send are transactions, and finitely many. *)
LEMMA ToUploadType ==
  ASSUME IsFiniteSet(Txn), TypeOK
  PROVE  ToUpload \subseteq Txn /\ IsFiniteSet(ToUpload) /\ Cardinality(ToUpload) \in Nat
<1>1. ToUpload \subseteq Txn
  BY DEF ToUpload, TypeOK, Run
<1> QED
  BY <1>1, FS_Subset, FS_CardinalityType

(* No step of the program adds to them: an operation has one settlement, which
   uploads its batch once. *)
LEMMA ToUploadShrinks ==
  ASSUME IInv, Continue, ~TransUpLoad, TypeOK'
  PROVE  ToUpload' \subseteq ToUpload
<1> USE DEF Goto
<1>1. ToUpload' \subseteq Txn
  BY DEF ToUpload, TypeOK, Run
<1>2. CASE (\E t \in Txn \cup {NoTxn} : SendPacket(t)) \/ SaveSent
  <2>1. pc' = pc /\ run'.todo = run.todo /\ run'.then = run.then
    BY <1>2 DEF SendPacket, SaveSent, IInv, TypeOK, Run
  <2> QED
    BY <2>1 DEF ToUpload
<1>3. CASE SendFails \/ RecvFails \/ ReversalRefused
  <2>1. PICK rsp : Failed(rsp)
    BY <1>3 DEF SendFails, RecvFails, ReversalRefused
  <2>2. pc \in Call
    BY <1>3 DEF SendFails, RecvFails, ReversalRefused, Answered, Call, IInv, SubjectOK
  <2>3. \/ pc \in {"request", "offline", "tc"} \/ (pc = "reverse" /\ run.then = "request")
        \/ pc' = "finish"
    BY <2>1, <2>2, FailedGoes
  <2> QED
    BY <1>1, <2>3 DEF ToUpload
<1>4. CASE TranReversal \/ NothingToSend
  <2>1. /\ run' = run
        /\ \/ pc = "reverse" /\ pc' = IF run.then = "end" THEN "finish" ELSE run.then
           \/ pc = "offline" /\ pc' = "tc"
           \/ pc = "tc" /\ pc' \in {"settle", "auto"}
           \/ pc = "upload" /\ pc' = "resettle"
    <3>1. NothingToSend => pc \in {"reverse", "offline", "tc", "upload"}
      BY DEF NothingToSend, Subject, Call
    <3> QED
      BY <1>4, <3>1 DEF TranReversal, NothingToSend, AfterReversal, Answered
  <2> QED
    BY <1>1, <2>1 DEF ToUpload
<1>5. CASE RequestAnswered \/ OfflineSend \/ TransSendTC
  BY <1>1, <1>5 DEF RequestAnswered, OfflineSend, TransSendTC, Answered, ToUpload
<1>6. CASE NotSettled \/ Settled
  <2>1. \/ pc' = "finish"
        \/ pc = "settle"
    BY <1>6 DEF NotSettled, Settled, Answered
  <2> QED
    BY <1>1, <2>1 DEF ToUpload
<1>7. CASE CardApproves \/ CardFails \/ CardCancelled \/ HostRejected \/ VoiceReferral
           \/ HostAccepted \/ DropReversal \/ AutoSettle
  <2>1. pc \in {"card", "after", "referral", "drop", "auto"}
    BY <1>7 DEF CardApproves, CardFails, CardCancelled, HostRejected, VoiceReferral,
       HostAccepted, DropReversal, AutoSettle
  <2> QED
    BY <1>1, <2>1 DEF ToUpload
<1>8. CASE Finish
  <2>1. pc' = "idle" \/ (pc' = "reverse" /\ run'.then = "end")
    BY <1>8 DEF Finish, IInv, TypeOK, Run
  <2> QED
    BY <2>1 DEF ToUpload
<1> QED
  BY <1>2, <1>3, <1>4, <1>5, <1>6, <1>7, <1>8 DEF Continue

(* A step of a loop that has one record less to send is followed by three at most
   that were not there before. *)
LEMMA UploadCounts ==
  ASSUME IInv, IsFiniteSet(Txn), TransUpLoad, TypeOK'
  PROVE  StepsLeft' < StepsLeft
<1>1. /\ pc = "upload" /\ step = "recv" /\ pc' = "upload" /\ step' = "send" /\ log' = log
      /\ run' = [run EXCEPT !.todo = @ \ {run.txn}] /\ run.txn \in run.todo
  BY DEF TransUpLoad, Answered, Goto, store, IInv, SubjectOK
<1>2. ToUpload' = ToUpload \ {run.txn} /\ run.txn \in ToUpload
  BY <1>1 DEF ToUpload, IInv, TypeOK, Run
<1>3. /\ Cardinality(ToUpload) \in Nat
      /\ Cardinality(ToUpload') = Cardinality(ToUpload) - 1
  BY <1>2, ToUploadType, FS_RemoveElement DEF IInv
<1>4. Owed' = Owed
  BY <1>1 DEF Owed, Has, Logged
<1>5. CallsLeft' = CallsLeft /\ CallSteps' = CallSteps + 2
  BY <1>1 DEF CallsLeft, CallSteps, Call
<1> QED
  BY <1>3, <1>4, <1>5, StepsOwedIsNat DEF StepsOwed, StepsLeft

(* Every step of the program counts. *)
LEMMA ContinueCounts ==
  ASSUME IInv, IsFiniteSet(Txn), Continue, IInv'
  PROVE  StepsLeft' < StepsLeft
<1>1. CASE TransUpLoad
  BY <1>1, UploadCounts DEF IInv
<1>2. CASE ~TransUpLoad
  <2>1. StepsOwed' < StepsOwed /\ StepsOwed \in Nat
    BY <1>2, ExchangeCounts, AnsweredCounts, AfterCounts, StepsOwedIsNat DEF Continue
  <2>2. ToUpload' \subseteq ToUpload
    BY <1>2, ToUploadShrinks DEF IInv
  <2>3. IsFiniteSet(ToUpload) /\ Cardinality(ToUpload) \in Nat
    BY ToUploadType DEF IInv
  <2>4. Cardinality(ToUpload') \in Nat /\ Cardinality(ToUpload') <= Cardinality(ToUpload)
    BY <2>2, <2>3, FS_Subset, FS_CardinalityType
  <2>5. \A a, b : a < b /\ b \in Nat => \A c, d \in Nat : c <= d /\ a \in Int => a + 3 * c < b + 3 * d
    OBVIOUS
  <2>6. StepsOwed' \in Int
    <3>1. CallsLeft' \in Nat /\ CallSteps' \in Nat
      BY DEF CallsLeft, CallSteps, IInv, TypeOK, Call
    <3>2. \A f : Has(f)' \subseteq Txn
      BY DEF Has, Logged
    <3>3. Owed' \in Nat
      BY <3>2, FS_Subset, FS_CardinalityType DEF Owed
    <3> QED
      BY <3>1, <3>3 DEF StepsOwed
  <2> QED
    BY <2>1, <2>3, <2>4, <2>5, <2>6 DEF StepsLeft
<1> QED
  BY <1>1, <1>2

(* EveryStepCounts: with finitely many transactions every step the program takes on
   its own brings the end of the operation nearer by one at least. *)
THEOREM OperationsAreBounded ==
  ASSUME IsFiniteSet(Txn)
  PROVE  Spec => EveryStepCounts
<1> DEFINE Counts == Continue => StepsLeft' < StepsLeft
<1>1. ASSUME IInv, [Next]_vars PROVE [Counts]_vars
  BY <1>1, ContinueCounts, NextInvariant
<1>2. []IInv /\ [][Next]_vars => [][Counts]_vars
  BY <1>1, PTL
<1> QED
  BY <1>2, Invariance, PTL DEF Spec, EveryStepCounts
==============================================================================
