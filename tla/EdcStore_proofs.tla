---------------------------- MODULE EdcStore_proofs ----------------------------
(***************************************************************************)
(* Proofs about EdcStore: the host protocol changes the store by           *)
(* operations of AtomicLog only, for every set of transactions, every size *)
(* of the log and every choice of features.                                *)
(***************************************************************************)
EXTENDS EdcStore, Edc_proofs

(* A transaction that has not been logged has a slot to be saved in. *)
SlotOK ==
    /\ \A t \in fresh : log[t] = NoRec
    /\ AtRequest /\ run.job = "sale" => run.txn \notin fresh /\ log[run.txn] = NoRec
    /\ AtRequest /\ run.job = "void" => ~run.chip /\ pc \notin {"card", "referral"}

LastOK == {last, adjusted} \subseteq Logged \cup {NoTxn}

SInv == IInv /\ SlotOK /\ LastOK

------------------------------------------------------------------------------
(* The four ways in which a step may change the log. *)

Kept == log' = log /\ rev' \in Req \cup {NoReq}

Saved(t, flags) ==
    /\ log[t] = NoRec /\ log' = [log EXCEPT ![t] = flags]
    /\ rev' = IF "NOSEND" \in flags THEN rev ELSE NoReq

Updated(t, flags) ==
    /\ t \in Logged /\ log' = [log EXCEPT ![t] = flags]
    /\ rev' = rev

Erased == log' = [t \in Txn |-> NoRec] /\ rev' = NoReq

OneWrite ==
    \/ Kept
    \/ \E t \in Txn \ fresh', flags \in SUBSET Flag : Saved(t, flags) \/ Updated(t, flags)
    \/ Erased

(* The operation goes on as it was, or begins. *)
StillAtRequest ==
    AtRequest' => /\ log' = log
                  /\ \/ /\ AtRequest
                        /\ run'.job = run.job /\ run'.txn = run.txn /\ run'.chip = run.chip
                        /\ pc' = "card" => pc = "card" \/ run.chip
                        /\ pc' = "referral" => run.job = "sale"
                     \/ run'.job = "sale" /\ run'.txn \in fresh \ fresh'
                     \/ run'.job = "void" /\ ~run'.chip /\ pc' = "reverse"
                     \/ run'.job = "logon"

(* SaveTranLog for a transaction without a record writes it once, or not at all. *)
LEMMA SaveIsOneWrite ==
  ASSUME TypeOK, NEW t \in Txn, NEW flags \in SUBSET Flag, log[t] = NoRec, t \notin fresh',
         SaveTranLog(t, flags)
  PROVE  OneWrite
<1>1. CASE Cardinality(Logged) < MaxTranLog
  BY <1>1 DEF SaveTranLog, OneWrite, Saved
<1>2. CASE ~(Cardinality(Logged) < MaxTranLog)
  BY <1>2 DEF SaveTranLog, OneWrite, Kept, TypeOK
<1> QED
  BY <1>1, <1>2

(* The operator begins an operation. *)
LEMMA BeginWrites ==
  ASSUME IInv, SlotOK, Begin
  PROVE  OneWrite /\ StillAtRequest /\ fresh' \subseteq fresh
<1>0. TypeOK /\ fresh \subseteq Txn
  BY DEF IInv, TypeOK
<1>1. CASE \E t \in Txn, chip \in BOOLEAN : TransSaleSub(t, chip)
  <2> PICK t \in Txn, chip \in BOOLEAN : TransSaleSub(t, chip)
    BY <1>1
  <2>1. run'.job = "sale" /\ run'.txn = t /\ t \in fresh \ fresh' /\ fresh' \subseteq fresh
    BY DEF TransSaleSub, NoRun
  <2>2. log' = log /\ rev' = rev
    BY DEF TransSaleSub, store
  <2> QED
    BY <1>0, <2>1, <2>2 DEF OneWrite, Kept, StillAtRequest, TypeOK
<1>2. CASE \E t \in Txn, chip \in BOOLEAN : FinishOffLine(t, chip)
  <2> PICK t \in Txn, chip \in BOOLEAN : FinishOffLine(t, chip)
    BY <1>2
  <2>1. PICK flags \in SUBSET Flag : SaveTranLog(t, flags)
    BY DEF FinishOffLine, Flag
  <2>2. log[t] = NoRec /\ fresh' \subseteq fresh /\ t \notin fresh' /\ ~AtRequest'
    BY DEF FinishOffLine, SlotOK, AtRequest
  <2> QED
    BY <1>0, <2>1, <2>2, SaveIsOneWrite DEF StillAtRequest
<1>3. CASE \E t \in Txn : TransVoid(t)
  <2> PICK t \in Txn : TransVoid(t)
    BY <1>3
  <2>1. /\ run'.job = "void" /\ ~run'.chip /\ pc' = "reverse"
        /\ log' = log /\ rev' = rev /\ fresh' = fresh
    BY DEF TransVoid, NoRun, store, history, marks
  <2> QED
    BY <1>0, <2>1 DEF OneWrite, Kept, StillAtRequest, TypeOK
<1>4. CASE \E t \in Txn : TransAdjust(t)
  <2> PICK t \in Txn : TransAdjust(t)
    BY <1>4
  <2>1. /\ t \in Logged /\ t \notin fresh'
        /\ fresh' = fresh /\ rev' = rev /\ pc' = "idle"
    BY DEF TransAdjust, history, marks, Sales, Logged, SlotOK
  <2>2. log[t] \cup {"NOSEND"} \in SUBSET Flag
    BY <1>0, <2>1, FlagType DEF Flag
  <2>3. Updated(t, log[t] \cup {"NOSEND"})
    BY <2>1 DEF TransAdjust, Updated, Update
  <2>4. ~AtRequest'
    BY <2>1 DEF AtRequest
  <2> QED
    BY <2>1, <2>2, <2>3, <2>4 DEF OneWrite, StillAtRequest
<1>5. CASE TransSettle
  <2>1. log' = log /\ rev' = rev /\ fresh' = fresh
    BY <1>5 DEF TransSettle, store, history, marks
  <2>2. ~AtRequest'
    BY <1>5 DEF TransSettle, AtRequest, NoRun
  <2> QED
    BY <1>0, <2>1, <2>2 DEF OneWrite, Kept, StillAtRequest, TypeOK
<1>6. CASE ClearReversalSub
  BY <1>0, <1>6 DEF ClearReversalSub, history, marks, OneWrite, Kept, StillAtRequest, AtRequest
<1>7. CASE TransLogon
  BY <1>0, <1>7
     DEF TransLogon, NoRun, store, history, marks, OneWrite, Kept, StillAtRequest, TypeOK
<1> QED
  BY <1>1, <1>2, <1>3, <1>4, <1>5, <1>6, <1>7 DEF Begin

(* A failed call ends the card's request, or leaves it to the kernel. *)
LEMMA FailedStill ==
  ASSUME IInv, NEW rsp, Failed(rsp), pc \in Call, log' = log
  PROVE  StillAtRequest
<1>1. run'.job = run.job /\ run'.txn = run.txn /\ run'.chip = run.chip
  BY DEF Failed, IInv, TypeOK, Run
<1>2. CASE run.chip /\ (pc = "request" \/ (pc = "reverse" /\ run.then = "request"))
  <2>1. AtRequest /\ pc' = "card"
    BY <1>2 DEF Failed, Goto, AtRequest
  <2> QED
    BY <1>1, <1>2, <2>1 DEF StillAtRequest
<1>3. CASE ~run.chip /\ pc = "request"
  <2>1. AtRequest /\ pc' = "reverse"
    BY <1>3 DEF Failed, Goto, AtRequest
  <2> QED
    BY <1>1, <2>1 DEF StillAtRequest
<1>4. CASE /\ ~(run.chip /\ (pc = "request" \/ (pc = "reverse" /\ run.then = "request")))
           /\ ~(pc = "request" /\ ~run.chip)
  <2>1. pc' \in {"tc", "auto", "finish"}
    BY <1>4 DEF Failed, Goto
  <2> QED
    BY <2>1 DEF StillAtRequest, AtRequest
<1> QED
  BY <1>2, <1>3, <1>4

(* The exchange with the host. *)
LEMMA ExchangeWrites ==
  ASSUME IInv, (\E t \in Txn \cup {NoTxn} : SendPacket(t)) \/ SaveSent \/ SendFails \/ RecvFails
  PROVE  OneWrite /\ StillAtRequest /\ fresh' \subseteq fresh
<1>0. TypeOK /\ SubjectOK
  BY DEF IInv
<1>1. CASE \E t \in Txn \cup {NoTxn} : SendPacket(t)
  <2> PICK t \in Txn \cup {NoTxn} : SendPacket(t)
    BY <1>1
  <2>1. log' = log /\ rev' = rev /\ fresh' = fresh /\ pc' = pc
    BY DEF SendPacket, store, history, marks
  <2>2. run'.job = run.job /\ run'.txn = t /\ run'.then = run.then /\ run'.chip = run.chip
    BY <1>0 DEF SendPacket, TypeOK, Run
  <2>3. pc \in {"request", "reverse"} => t = run.txn
    BY DEF SendPacket, Subject
  <2>4. StillAtRequest
    <3>1. CASE pc \in {"request", "reverse"}
      <4>1. AtRequest' <=> AtRequest
        BY <2>1, <2>2 DEF AtRequest
      <4> QED
        BY <2>1, <2>2, <2>3, <3>1, <4>1 DEF StillAtRequest
    <3>2. CASE pc \notin {"request", "reverse"}
      <4>1. pc \notin {"card", "after", "referral"}
        BY DEF SendPacket, Call
      <4> QED
        BY <2>1, <3>2, <4>1 DEF StillAtRequest, AtRequest
    <3> QED
      BY <3>1, <3>2
  <2> QED
    BY <1>0, <2>1, <2>4 DEF OneWrite, Kept, TypeOK
<1>2. CASE SaveSent
  <2>1. log' = log /\ fresh' = fresh /\ pc' = pc /\ run' = run
    BY <1>2 DEF SaveSent, history, marks
  <2>2. pc = "request" /\ NeedReversal => Request \in Req
    BY <1>0 DEF NeedReversal, SubjectOK, AtRequest, Request, Req
  <2>3. rev' \in Req \cup {NoReq}
    BY <1>0, <1>2, <2>2 DEF SaveSent, TypeOK
  <2>4. (AtRequest' <=> AtRequest) /\ pc \notin {"card", "referral"}
    BY <1>0, <1>2, <2>1 DEF SaveSent, SubjectOK, AtRequest, Call
  <2> QED
    BY <2>1, <2>3, <2>4 DEF OneWrite, Kept, StillAtRequest
<1>3. CASE SendFails \/ RecvFails
  <2>1. log' = log /\ rev' = rev /\ fresh' = fresh
    BY <1>3 DEF SendFails, RecvFails, store, history, marks
  <2>2. pc \in Call
    BY <1>0, <1>3 DEF SendFails, RecvFails, SubjectOK
  <2>3. \E rsp : Failed(rsp)
    BY <1>3 DEF SendFails, RecvFails
  <2> QED
    BY <1>0, <2>1, <2>2, <2>3, FailedStill DEF OneWrite, Kept, TypeOK
<1> QED
  BY <1>1, <1>2, <1>3

(* The upload loops write the flags of a record. *)
LEMMA FlagWrites ==
  ASSUME IInv, SlotOK, OfflineSend \/ TransSendTC
  PROVE  OneWrite /\ StillAtRequest /\ fresh' \subseteq fresh
<1>0. TypeOK /\ SubjectOK
  BY DEF IInv
<1>1. step = "recv" /\ pc \in {"offline", "tc"}
  BY DEF OfflineSend, TransSendTC, Answered
<1>2. run.txn \in Logged
  BY <1>0, <1>1 DEF SubjectOK, Has
<1>3. \E flag \in Flag : Update(run.txn, log[run.txn] \ {flag}) /\ rev' = rev
  BY DEF OfflineSend, TransSendTC, Flag
<1>4. PICK flag \in Flag : Update(run.txn, log[run.txn] \ {flag}) /\ rev' = rev
  BY <1>3
<1>5. log[run.txn] \ {flag} \in SUBSET Flag /\ run.txn \in Txn
  BY <1>0, <1>2, FlagType
<1>6. Updated(run.txn, log[run.txn] \ {flag})
  BY <1>2, <1>4 DEF Updated, Update
<1>7. fresh' = fresh /\ run.txn \notin fresh
  BY <1>2 DEF OfflineSend, TransSendTC, history, marks, SlotOK, Logged
<1>8. ~AtRequest'
  BY DEF OfflineSend, TransSendTC, Goto, AtRequest
<1> QED
  BY <1>5, <1>6, <1>7, <1>8 DEF OneWrite, StillAtRequest

(* The other good answers: at most the reversal is dropped, or the batch erased. *)
LEMMA AnsweredWrites ==
  ASSUME IInv,
         \/ TranReversal \/ ReversalRefused \/ RequestAnswered \/ TransUpLoad
         \/ NotSettled \/ Settled \/ NothingToSend
  PROVE  OneWrite /\ StillAtRequest /\ fresh' \subseteq fresh
<1>0. TypeOK
  BY DEF IInv
<1>1. fresh' = fresh
  BY DEF TranReversal, ReversalRefused, RequestAnswered, TransUpLoad, NotSettled, Settled,
         NothingToSend, history, marks
<1>2. CASE TranReversal
  <2>1. /\ log' = log /\ rev' = NoReq /\ run' = run /\ pc = "reverse"
        /\ pc' = IF run.then = "end" THEN "finish" ELSE run.then
    BY <1>2 DEF TranReversal, AfterReversal, Goto, Answered
  <2>2. run.then \in {"request", "offline", "end"}
    BY <1>0 DEF TypeOK, Run
  <2>3. AtRequest' => AtRequest /\ pc' = "request"
    BY <2>1, <2>2 DEF AtRequest
  <2> QED
    BY <1>1, <2>1, <2>3 DEF OneWrite, Kept, StillAtRequest
<1>3. CASE ReversalRefused
  <2>1. log' = log /\ rev' = rev /\ pc \in Call /\ \E rsp : Failed(rsp)
    BY <1>3 DEF ReversalRefused, Answered, store, Call
  <2> QED
    BY <1>0, <1>1, <2>1, FailedStill DEF OneWrite, Kept, TypeOK
<1>4. CASE RequestAnswered
  <2>1. log' = log /\ rev' = rev /\ AtRequest
    BY <1>4 DEF RequestAnswered, Answered, store, AtRequest
  <2>2. /\ run'.job = run.job /\ run'.txn = run.txn /\ run'.chip = run.chip
        /\ pc' = IF run.chip THEN "card" ELSE "after"
    BY <1>0, <1>4 DEF RequestAnswered, TypeOK, Run, Goto
  <2> QED
    BY <1>0, <1>1, <2>1, <2>2 DEF OneWrite, Kept, StillAtRequest, TypeOK
<1>5. CASE TransUpLoad \/ NotSettled
  <2>1. log' = log /\ rev' = rev /\ pc' \in {"resettle", "upload", "finish"}
    BY <1>5 DEF TransUpLoad, NotSettled, store, Goto
  <2> QED
    BY <1>0, <1>1, <2>1 DEF OneWrite, Kept, StillAtRequest, AtRequest, TypeOK
<1>6. CASE Settled
  <2>1. Erased /\ pc' = "finish"
    BY <1>6 DEF Settled, Goto, Erased
  <2> QED
    BY <1>1, <2>1 DEF OneWrite, StillAtRequest, AtRequest
<1>7. CASE NothingToSend
  <2>1. log' = log /\ rev' = rev /\ run' = run
    BY <1>7 DEF NothingToSend, store
  <2>2. pc \in {"reverse", "offline", "tc", "upload"}
    BY <1>7 DEF NothingToSend, Subject, Call
  <2>3. CASE pc = "reverse"
    <3>1. pc' = IF run.then = "end" THEN "finish" ELSE run.then
      BY <1>7, <2>3 DEF NothingToSend, AfterReversal, Goto
    <3>2. run.then \in {"request", "offline", "end"}
      BY <1>0 DEF TypeOK, Run
    <3>3. AtRequest' => AtRequest /\ pc' = "request"
      BY <2>1, <2>3, <3>1, <3>2 DEF AtRequest
    <3> QED
      BY <1>0, <1>1, <2>1, <3>3 DEF OneWrite, Kept, StillAtRequest, TypeOK
  <2>4. CASE pc # "reverse"
    <3>1. pc' \in {"tc", "settle", "auto", "resettle"}
      BY <1>7, <2>2, <2>4 DEF NothingToSend, Goto
    <3>2. ~AtRequest'
      BY <3>1 DEF AtRequest
    <3> QED
      BY <1>0, <1>1, <2>1, <3>2 DEF OneWrite, Kept, StillAtRequest, TypeOK
  <2> QED
    BY <2>3, <2>4
<1> QED
  BY <1>2, <1>3, <1>4, <1>5, <1>6, <1>7

(* The chip's kernel, AfterTranProc and the end of the operation. *)
LEMMA EndWrites ==
  ASSUME IInv, SlotOK,
         \/ CardApproves \/ CardFails \/ CardCancelled
         \/ HostRejected \/ VoiceReferral \/ HostAccepted \/ DropReversal
         \/ AutoSettle \/ Finish \/ PowerFail
  PROVE  OneWrite /\ StillAtRequest /\ fresh' \subseteq fresh
<1>0. TypeOK /\ SubjectOK
  BY DEF IInv
<1>1. fresh' = fresh
  BY DEF CardApproves, CardFails, CardCancelled, HostRejected, VoiceReferral, HostAccepted,
         DropReversal, EndReversal, AutoSettle, Finish, PowerFail, history, marks
<1>2. AtRequest => /\ run.job # "logon" => run.txn \in Txn /\ Request \in Req
                   /\ run.job = "logon" => pc \notin {"card", "referral"}
                   /\ run.job = "sale" => log[run.txn] = NoRec /\ run.txn \notin fresh'
                   /\ run.job = "void" => run.txn \in Logged /\ run.txn \notin fresh'
  BY <1>0, <1>1 DEF SubjectOK, SlotOK, Request, Req, Logged
<1>3. CASE CardApproves
  <2>1. AtRequest /\ run.job # "logon" /\ run' = run /\ pc' \in {"after", "finish"}
    BY <1>2, <1>3 DEF CardApproves, AtRequest, Goto
  <2>2. CASE log' = log /\ rev' = Request
    BY <1>1, <1>2, <2>1, <2>2 DEF OneWrite, Kept, StillAtRequest
  <2>3. CASE /\ run.online = "error" /\ pc' = "finish"
             /\ SaveTranLog(run.txn, {"NOSEND", "NEED_TC"})
    <3>1. {"NOSEND", "NEED_TC"} \in SUBSET Flag
      BY DEF Flag
    <3>2. run.job = "sale"
      BY <1>0, <1>3, <2>1 DEF CardApproves, SlotOK, SubjectOK
    <3> QED
      BY <1>0, <1>1, <1>2, <2>1, <2>3, <3>1, <3>2, SaveIsOneWrite DEF StillAtRequest, AtRequest
  <2> QED
    BY <1>3, <2>2, <2>3 DEF CardApproves, Goto
<1>4. CASE CardFails
  <2>1. /\ AtRequest /\ run.job # "logon" /\ run' = run /\ log' = log
        /\ pc' \in {"after", "finish"}
    BY <1>2, <1>4 DEF CardFails, AtRequest, Goto
  <2>2. rev' \in Req \cup {NoReq}
    BY <1>0, <1>2, <1>4, <2>1 DEF CardFails, TypeOK
  <2> QED
    BY <1>1, <2>1, <2>2 DEF OneWrite, Kept, StillAtRequest
<1>5. CASE CardCancelled \/ Finish \/ PowerFail \/ AutoSettle
  <2>1. log' = log /\ rev' = rev
    BY <1>5 DEF CardCancelled, Finish, PowerFail, AutoSettle, store
  <2>2. pc' \in {"idle", "finish", "reverse"} /\ (pc' = "reverse" => run'.then # "request")
    BY <1>0, <1>5 DEF CardCancelled, Finish, PowerFail, AutoSettle, Goto, TypeOK, Run
  <2> QED
    BY <1>0, <1>1, <2>1, <2>2 DEF OneWrite, Kept, StillAtRequest, AtRequest, TypeOK
<1>6. CASE HostRejected
  <2>1. /\ AtRequest /\ run' = run /\ log' = log /\ rev' = NoReq
        /\ pc' = "finish" \/ (pc' = "referral" /\ run.job = "sale")
    BY <1>6 DEF HostRejected, EndReversal, AtRequest, Goto
  <2> QED
    BY <1>1, <2>1 DEF OneWrite, Kept, StillAtRequest
<1>7. CASE VoiceReferral
  <2>1. AtRequest /\ pc' = "finish"
    BY <1>7 DEF VoiceReferral, AtRequest, Goto
  <2>2. CASE log' = log /\ rev' = rev
    BY <1>0, <1>1, <2>1, <2>2 DEF OneWrite, Kept, StillAtRequest, AtRequest, TypeOK
  <2>3. CASE \E flags \in SUBSET Flag : SaveTranLog(run.txn, flags)
    <3> PICK flags \in SUBSET Flag : SaveTranLog(run.txn, flags)
      BY <2>3
    <3>1. run.job = "sale"
      BY <1>0, <1>7, <2>1 DEF VoiceReferral, SlotOK, SubjectOK
    <3> QED
      BY <1>0, <1>1, <1>2, <2>1, <3>1, SaveIsOneWrite DEF StillAtRequest, AtRequest
  <2> QED
    BY <1>7, <2>2, <2>3 DEF VoiceReferral, Flag
<1>8. CASE HostAccepted
  <2>1. AtRequest /\ pc' = "drop"
    BY <1>8 DEF HostAccepted, AtRequest, Goto
  <2>2. CASE run.job = "sale" /\ \E flags \in SUBSET Flag : SaveTranLog(run.txn, flags)
    <3> PICK flags \in SUBSET Flag : SaveTranLog(run.txn, flags)
      BY <2>2
    <3> QED
      BY <1>0, <1>1, <1>2, <2>1, <2>2, SaveIsOneWrite DEF StillAtRequest, AtRequest
  <2>3. CASE /\ run.job = "void" /\ rev' = rev
             /\ Update(run.txn, (log[run.txn] \ {"NOSEND"}) \cup {"VOID"})
    <3>1. (log[run.txn] \ {"NOSEND"}) \cup {"VOID"} \in SUBSET Flag
      BY <1>0, <1>2, <2>1, <2>3, FlagType DEF Flag
    <3>2. Updated(run.txn, (log[run.txn] \ {"NOSEND"}) \cup {"VOID"})
      BY <1>2, <2>1, <2>3 DEF Updated, Update
    <3> QED
      BY <1>1, <1>2, <2>1, <2>3, <3>1, <3>2 DEF OneWrite, StillAtRequest, AtRequest
  <2>4. CASE run.job = "logon" /\ log' = log /\ rev' = rev
    BY <1>0, <1>1, <2>1, <2>4 DEF OneWrite, Kept, StillAtRequest, AtRequest, TypeOK
  <2> QED
    BY <1>8, <2>2, <2>3, <2>4 DEF HostAccepted, Flag
<1>9. CASE DropReversal
  <2>1. log' = log /\ rev' = NoReq /\ pc' = "offline"
    BY <1>9 DEF DropReversal, EndReversal, Goto
  <2> QED
    BY <1>1, <2>1 DEF OneWrite, Kept, StillAtRequest, AtRequest
<1> QED
  BY <1>3, <1>4, <1>5, <1>6, <1>7, <1>8, <1>9

(* Every step of the host protocol changes the log in one of the four ways. *)
LEMMA NextWrites ==
  ASSUME IInv, SlotOK, Next
  PROVE  OneWrite /\ StillAtRequest /\ fresh' \subseteq fresh
BY BeginWrites, ExchangeWrites, FlagWrites, AnsweredWrites, EndWrites DEF Next, Continue
------------------------------------------------------------------------------
(* The invariant of EdcStore. *)

(* The empty store, and no record adjusted. *)
LEMMA InitStore == StoreInit => SInv
<1> SUFFICES ASSUME StoreInit PROVE SInv
  OBVIOUS
<1>1. Init /\ last = NoTxn /\ adjusted = NoTxn
  BY DEF StoreInit
<1>2. SlotOK /\ LastOK
  BY <1>1 DEF Init, SlotOK, AtRequest, LastOK
<1> QED
  BY <1>1, <1>2, InitInvariant DEF SInv

(* Every step of EdcStore is one of Edc, or makes the adjusted record the last. *)
LEMMA StoreSteps ==
  ASSUME StoreNext
  PROVE  \/ Other /\ Next
         \/ Adjust /\ Next
         \/ AdjustLast /\ UNCHANGED vars
<1>1. CASE Other
  <2>1. BeginOther => Begin
    BY DEF BeginOther, Begin
  <2> QED
    BY <1>1, <2>1 DEF Other, Next
<1>2. CASE Adjust
  BY <1>2 DEF Adjust, Next, Begin
<1>3. CASE AdjustLast
  BY <1>3 DEF AdjustLast
<1> QED
  BY <1>1, <1>2, <1>3 DEF StoreNext

(* SlotOK is an invariant of Edc. *)
LEMMA SlotStep ==
  ASSUME IInv, SlotOK, [Next]_vars
  PROVE  SlotOK'
<1>1. CASE Next
  <2>1. OneWrite /\ StillAtRequest /\ fresh' \subseteq fresh
    BY <1>1, NextWrites
  <2>2. fresh \subseteq Txn /\ log \in [Txn -> {NoRec} \cup SUBSET Flag]
    BY DEF IInv, TypeOK
  <2>3. \A t \in fresh' : log'[t] = NoRec
    BY <2>1, <2>2 DEF OneWrite, Kept, Saved, Updated, Erased, SlotOK
  <2>4. AtRequest' /\ run'.job = "sale" => run'.txn \notin fresh' /\ log'[run'.txn] = NoRec
    BY <2>1 DEF StillAtRequest, SlotOK
  <2>5. AtRequest' /\ run'.job = "void" => ~run'.chip /\ pc' \notin {"card", "referral"}
    BY <2>1 DEF StillAtRequest, SlotOK
  <2> QED
    BY <2>3, <2>4, <2>5 DEF SlotOK
<1>2. CASE UNCHANGED vars
  BY <1>2 DEF vars, SlotOK, AtRequest
<1> QED
  BY <1>1, <1>2

(* SInv is inductive: the last record and the adjusted one are in the log. *)
LEMMA StepStore ==
  ASSUME SInv, [StoreNext]_storeVars
  PROVE  SInv'
<1>1. [Next]_vars
  BY StoreSteps DEF storeVars
<1>2. IInv' /\ SlotOK'
  BY <1>1, NextInvariant, SlotStep DEF SInv
<1>3. LastOK'
  <2>1. CASE Other
    BY <2>1 DEF Other, KeepLast, Written, Logged, LastOK, SInv
  <2>2. CASE Adjust
    <3>1. PICK t \in Txn : TransAdjust(t) /\ adjusted' = t
      BY <2>2 DEF Adjust
    <3>2. log[t] \cup {"NOSEND"} \in SUBSET Flag
      BY <3>1, FlagType DEF TransAdjust, Sales, SInv, IInv, Flag
    <3>3. Logged \subseteq Logged' /\ t \in Logged'
      BY <3>1, <3>2, UpdateKeeps DEF TransAdjust, SInv, IInv
    <3> QED
      BY <2>2, <3>1, <3>3 DEF Adjust, LastOK, SInv
  <2>3. CASE AdjustLast
    <3>1. Logged' = Logged
      BY <2>3 DEF AdjustLast, vars, Logged
    <3> QED
      BY <2>3, <3>1 DEF AdjustLast, LastOK, SInv
  <2>4. CASE UNCHANGED storeVars
    <3>1. Logged' = Logged
      BY <2>4 DEF storeVars, vars, Logged
    <3> QED
      BY <2>4, <3>1 DEF storeVars, LastOK, SInv
  <2> QED
    BY <2>1, <2>2, <2>3, <2>4 DEF StoreNext
<1> QED
  BY <1>2, <1>3 DEF SInv

(* SInv holds in every state of EdcStore. *)
THEOREM StoreInvariance == StoreSpec => []SInv
BY InitStore, StepStore, PTL DEF StoreSpec

(* What is true of the host protocol stays true when the last record is added. *)
THEOREM StoreKeepsSpec == StoreSpec => Spec
<1>1. StoreInit => Init
  BY DEF StoreInit
<1>2. [StoreNext]_storeVars => [Next]_vars
  BY StoreSteps DEF storeVars
<1> QED
  BY <1>1, <1>2, PTL DEF StoreSpec, Spec

------------------------------------------------------------------------------
(* The refinement. *)

RevOf == [a \in {TheAcq} |-> rev]

(* The records as AtomicLog sees them. *)
LEMMA RecordsOf ==
  ASSUME TypeOK
  PROVE  /\ records \in [Txn -> {NoRec} \cup [acq: {TheAcq}, body: SUBSET Flag]]
         /\ \A t \in Txn : /\ records[t] = NoRec <=> log[t] = NoRec
                           /\ log[t] # NoRec => records[t] = [acq |-> TheAcq, body |-> log[t]]
BY RecordsAssumption DEF records, TypeOK

(* The empty log is the empty store. *)
LEMMA RefinesInit == StoreInit => Store!Init
BY DEF StoreInit, Init, Store!Init, records

(* A step that leaves the records alone sets the reversal, or drops it. *)
LEMMA RefinesKept ==
  ASSUME records' = records, last' = last, rev' \in Req \cup {NoReq}
  PROVE  Store!Next
<1>1. RevOf' = [RevOf EXCEPT ![TheAcq] = rev']
  BY DEF RevOf
<1>2. CASE rev' \in Req
  <2>1. Store!NeedReversal(TheAcq, rev')
    BY <1>1 DEF Store!NeedReversal, RevOf
  <2> QED
    BY <1>2, <2>1 DEF Store!Next
<1>3. CASE rev' = NoReq
  <2>1. Store!DropReversal(TheAcq)
    BY <1>1, <1>3 DEF Store!DropReversal, RevOf
  <2> QED
    BY <2>1 DEF Store!Next
<1> QED
  BY <1>2, <1>3

(* A record written to a free slot, with the reversal it drops, is Save. *)
LEMMA RefinesSaved ==
  ASSUME TypeOK, TypeOK', NEW t \in Txn, NEW flags \in SUBSET Flag, Saved(t, flags), last' = t
  PROVE  Store!Next
<1>1. records[t] = NoRec
  BY RecordsOf DEF Saved
<1>2. records' = [records EXCEPT ![t] = [acq |-> TheAcq, body |-> flags]]
  BY ConstantsAssumption DEF Saved, records, TypeOK
<1>3. "NOSEND" \in flags <=> flags \in {fs \in SUBSET Flag : "NOSEND" \in fs}
  OBVIOUS
<1>4. RevOf' = IF "NOSEND" \in flags THEN RevOf ELSE [RevOf EXCEPT ![TheAcq] = NoReq]
  BY DEF Saved, RevOf
<1>5. Store!Save(t, TheAcq, flags)
  BY <1>1, <1>2, <1>3, <1>4 DEF Store!Save, RevOf
<1> QED
  BY <1>5 DEF Store!Next

(* Flags written to a record that is there are Update. *)
LEMMA RefinesUpdated ==
  ASSUME TypeOK, NEW t \in Txn, NEW flags \in SUBSET Flag, Updated(t, flags), last' = last
  PROVE  Store!Next
<1>1. log[t] # NoRec
  BY DEF Updated, Logged
<1>2. records[t] # NoRec /\ records[t].acq = TheAcq
  BY <1>1, RecordsOf
<1>3. records' = [records EXCEPT ![t] = [acq |-> TheAcq, body |-> flags]]
  BY ConstantsAssumption DEF Updated, records, TypeOK
<1>4. RevOf' = RevOf
  BY DEF Updated, RevOf
<1>5. Store!Update(t, flags)
  BY <1>2, <1>3, <1>4 DEF Store!Update, RevOf
<1> QED
  BY <1>5 DEF Store!Next

(* ClearRecord is Clear for the one acquirer. *)
LEMMA RefinesErased ==
  ASSUME TypeOK, Erased, last \in Logged \cup {NoTxn}, last' = NoTxn
  PROVE  Store!Next
<1>1. \A t \in Txn : Store!OfBatch(t, {TheAcq}) <=> log[t] # NoRec
  BY RecordsOf DEF Store!OfBatch
<1>2. records' = [t \in Txn |-> NoRec]
  BY DEF Erased, records
<1>3. records' = [t \in Txn |-> IF Store!OfBatch(t, {TheAcq}) THEN NoRec ELSE records[t]]
  BY <1>1, <1>2, RecordsOf
<1>4. last' = IF last \in Txn /\ Store!OfBatch(last, {TheAcq}) THEN NoTxn ELSE last
  BY <1>1 DEF Logged
<1>5. RevOf' = [a \in {TheAcq} |-> IF a \in {TheAcq} THEN NoReq ELSE RevOf[a]]
  BY DEF Erased, RevOf
<1>6. Store!Clear({TheAcq})
  BY <1>3, <1>4, <1>5 DEF Store!Clear, RevOf
<1> QED
  BY <1>6 DEF Store!Next

(* Every step of EdcStore is one of AtomicLog. *)
LEMMA RefinesStep ==
  ASSUME SInv, SInv', [StoreNext]_storeVars
  PROVE  [Store!Next]_<<records, last, RevOf>>
<1>0. /\ TypeOK /\ TypeOK'
      /\ last \in Logged \cup {NoTxn} /\ adjusted \in Logged \cup {NoTxn}
  BY DEF SInv, IInv, LastOK
<1>1. CASE UNCHANGED storeVars
  BY <1>1 DEF storeVars, vars, records, RevOf
<1>2. CASE AdjustLast /\ UNCHANGED vars
  <2>1. records' = records /\ RevOf' = RevOf
    BY <1>2 DEF vars, records, RevOf
  <2>2. CASE last' = adjusted
    <3>1. adjusted \in Txn /\ records[adjusted] # NoRec
      BY <1>0, <1>2, RecordsOf DEF AdjustLast, Logged
    <3>2. Store!SetLast(adjusted)
      BY <2>1, <2>2, <3>1 DEF Store!SetLast, RevOf
    <3> QED
      BY <3>1, <3>2 DEF Store!Next
  <2>3. CASE last' = last
    BY <2>1, <2>3
  <2> QED
    BY <1>2, <2>2, <2>3 DEF AdjustLast
<1>3. CASE Adjust
  <2>1. PICK t \in Txn : TransAdjust(t)
    BY <1>3 DEF Adjust
  <2>2. t \in Logged /\ log[t] \cup {"NOSEND"} \in SUBSET Flag
    BY <1>0, <2>1, FlagType DEF TransAdjust, Sales, Flag
  <2>3. Updated(t, log[t] \cup {"NOSEND"})
    BY <2>1, <2>2 DEF TransAdjust, Updated, Update
  <2>4. last' = last
    BY <1>3 DEF Adjust
  <2> QED
    BY <1>0, <2>2, <2>3, <2>4, RefinesUpdated
<1>4. CASE Other /\ Next
  <2>1. KeepLast
    BY <1>4 DEF Other
  <2>2. OneWrite
    BY <1>4, NextWrites DEF SInv
  <2>3. CASE Kept
    <3>1. Written = {} /\ Logged' = Logged /\ records' = records
      BY <2>3 DEF Kept, Written, Logged, records
    <3>2. last' = last
      BY <1>0, <2>1, <3>1 DEF KeepLast
    <3> QED
      BY <2>3, <3>1, <3>2, RefinesKept DEF Kept
  <2>4. ASSUME NEW t \in Txn, NEW flags \in SUBSET Flag, Saved(t, flags)
        PROVE  Store!Next
    <3>1. Written = {t}
      BY <1>0, <2>4, ConstantsAssumption DEF Saved, Written, TypeOK
    <3>2. last' = t
      BY <2>1, <3>1 DEF KeepLast
    <3> QED
      BY <1>0, <2>4, <3>2, RefinesSaved
  <2>5. ASSUME NEW t \in Txn, NEW flags \in SUBSET Flag, Updated(t, flags)
        PROVE  Store!Next
    <3>1. Written = {} /\ Logged' = Logged
      BY <1>0, <2>5, ConstantsAssumption DEF Updated, Written, Logged, TypeOK
    <3>2. last' = last
      BY <1>0, <2>1, <3>1 DEF KeepLast
    <3> QED
      BY <1>0, <2>5, <3>2, RefinesUpdated
  <2>6. CASE Erased
    <3>1. Written = {} /\ Logged' = {}
      BY <2>6 DEF Erased, Written, Logged
    <3>2. last' = NoTxn
      BY <2>1, <3>1 DEF KeepLast
    <3> QED
      BY <1>0, <2>6, <3>2, RefinesErased
  <2> QED
    BY <2>2, <2>3, <2>4, <2>5, <2>6 DEF OneWrite
<1> QED
  BY <1>1, <1>2, <1>3, <1>4, StoreSteps

(* OnAtomicLog: whatever is lost and whenever the power fails, the host protocol
   changes the store by one operation of AtomicLog at a time. *)
THEOREM ImplementsAtomicLog == StoreSpec => OnAtomicLog
<1>1. SInv /\ SInv' /\ [StoreNext]_storeVars => [Store!Next]_<<records, last, RevOf>>
  BY RefinesStep
<1>2. Store!vars = <<records, last, RevOf>>
  BY DEF Store!vars, RevOf
<1> QED
  BY <1>1, <1>2, RefinesInit, StoreInvariance, PTL
     DEF StoreSpec, OnAtomicLog, Store!Spec, Store!vars, RevOf
==============================================================================
