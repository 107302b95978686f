-------------------------- MODULE EdcLedger_proofs --------------------------
(***************************************************************************)
(* Proofs about Edc: the ledgers of terminal and host, for every set of    *)
(* transactions and every size of the log.                                 *)
(***************************************************************************)
EXTENDS Edc_proofs

(* ClearReversalSub and a refused answer to a chip, the two ways in which a
   reversal is dropped by mistake (edc_manager, edc_mismatch), do not happen. *)
Intact == "manager" \notin Feature /\ "chip mismatch" \notin Feature

Reversing(type, t) == rev = [type |-> type, txn |-> t]

(* The request has been sent and SaveRevInfo(TRUE) is still to come. *)
InFlight(job, t) == pc = "request" /\ step = "save" /\ run.job = job /\ run.txn = t

(* Terminal and host on one sale.  Unlogged: what the host holds is being
   reversed, unless its reversal was lost.  Logged: the host holds it or has refused
   its advice, and has not voided it behind our back. *)
SaleOK(t) ==
    /\ log[t] = NoRec =>
          /\ t \notin host.void
          /\ t \in host.sale /\ t \notin exposed \cup dropped =>
                Reversing("sale", t) \/ InFlight("sale", t)
    /\ t \in Sales =>
          /\ t \in host.sale \/ "NOSEND" \in log[t] \/ t \in refused
          /\ t \in host.void /\ t \notin exposed \cup dropped =>
                Reversing("void", t) \/ InFlight("void", t)
    /\ Reversing("sale", t) => log[t] = NoRec \/ ("NOSEND" \in log[t] /\ "VOID" \notin log[t])
    /\ Reversing("void", t) => t \in Logged
    /\ t \in fresh => log[t] = NoRec /\ t \notin host.sale /\ ~Reversing("sale", t)

(* What the host did with the card's request, once its answer is known. *)
Granted == IF run.job = "sale" THEN run.txn \in host.sale ELSE run.txn \in host.void
Denied == IF run.job = "sale" THEN run.txn \notin host.sale
          ELSE run.txn \notin host.void \/ run.txn \in exposed \cup dropped

(* A sale or a void at its request: a LOGON is about no record. *)
CardRequest == AtRequest /\ run.job # "logon"

(* The card's transaction, from its start to its record. *)
RequestOK ==
    /\ CardRequest =>
          /\ status = "S_USE" /\ run.txn \notin fresh
          /\ run.job = "sale" => log[run.txn] = NoRec /\ Cardinality(Logged) < MaxTranLog
          /\ run.job = "void" => run.txn \in Sales /\ ~run.chip
    /\ (pc = "reverse" /\ run.then = "request") \/ (pc = "request" /\ step = "send") =>
          (run.job = "sale" => run.txn \notin host.sale)
    /\ (pc = "reverse" /\ run.then = "request") \/ pc = "request" => run.rsp = ""
    /\ pc = "request" /\ run.job # "logon" /\ step # "send" =>
          /\ reply \in {"none", "00", "01", "05"}
          /\ reply = "00" => Granted
          /\ reply \in {"01", "05"} => Denied
          /\ step = "recv" => rev = Request

AnsweredOK ==
    /\ pc = "card" =>
          /\ run.job = "sale" /\ run.chip
          /\ run.online \in {"approved", "refused", "error"}
          /\ run.online = "approved" => run.rsp = "00" /\ Granted /\ rev = Request
          /\ run.online = "refused" => run.rsp \in {"01", "05"} /\ Denied /\ rev = Request
          /\ run.online = "error" => run.rsp = ""
    /\ pc = "after" /\ run.job # "logon" => /\ rev = Request
                                            /\ IF run.rsp = "00" THEN Granted ELSE Denied
    /\ pc = "referral" => run.job = "sale" /\ Denied
    /\ pc = "drop" /\ run.job # "logon" =>
          rev = NoReq \/ (Reversing("void", run.txn) /\ run.txn \in Has("VOID"))

(* The reversal and the uploads, once their answer is known. *)
UploadOK ==
    /\ pc = "reverse" /\ step # "send" => rev # NoReq
    /\ pc = "reverse" /\ step # "send" /\ reply = "00" =>
          IF rev.type = "sale" THEN rev.txn \notin host.sale ELSE rev.txn \notin host.void
    /\ pc = "offline" /\ step # "send" /\ reply = "00" => run.txn \in host.sale

(* The settlement: its total, and the batch the host may have closed. *)
SettleOK ==
    /\ run.job = "settle" /\ (pc = "reverse" => run.then = "offline") /\ pc # "finish" =>
          run.total = Sales
    /\ status = "S_PENDING" => Has("NOSEND") = {}
    /\ host.closed /\ ~lapsed =>
          status = "S_PENDING" \/ (pc \in {"settle", "resettle"} /\ step = "save")

Ledger == (\A t \in Txn : SaleOK(t)) /\ RequestOK /\ AnsweredOK /\ UploadOK /\ SettleOK

(* Without power failures a record marked void is void at the host. *)
VoidOK ==
    \A t \in Has("VOID") :
        /\ t \in host.void /\ "NOSEND" \notin log[t]
        /\ Reversing("void", t) => pc = "drop" /\ run.txn = t
------------------------------------------------------------------------------
(* Frames. *)

Writes == <<log, rev, host>>

(* A step that writes neither the store nor the host's batch, and does not leave
   a request between sending and saving, puts no sale out of order. *)
LEMMA SalesKept ==
  ASSUME \A t \in Txn : SaleOK(t), UNCHANGED Writes, fresh' \subseteq fresh,
         UNCHANGED <<exposed, dropped, refused>>, ~(pc = "request" /\ step = "save")
  PROVE  \A t \in Txn : SaleOK(t)'
<1> SUFFICES ASSUME NEW t \in Txn PROVE SaleOK(t)'
  OBVIOUS
<1>1. SaleOK(t) /\ ~InFlight("sale", t) /\ ~InFlight("void", t)
  BY DEF InFlight
<1>2. Sales' = Sales /\ Logged' = Logged
  BY DEF Writes, Sales, Logged, Has
<1>3. \A type \in {"sale", "void"} : Reversing(type, t)' <=> Reversing(type, t)
  BY DEF Writes, Reversing
<1> QED
  BY <1>1, <1>2, <1>3 DEF SaleOK, Writes

(* What one sale is about, when its record and the reversal stay as they are. *)
LEMMA SaleKept ==
  ASSUME NEW t, SaleOK(t), log'[t] = log[t], rev' = rev, fresh' \subseteq fresh,
         UNCHANGED <<exposed, dropped>>, t \in refused' <=> t \in refused, host'.sale = host.sale, host'.void = host.void,
         t \in Txn, ~(pc = "request" /\ step = "save")
  PROVE  SaleOK(t)'
<1>1. ~InFlight("sale", t) /\ ~InFlight("void", t)
  BY DEF InFlight
<1>2. (t \in Sales' <=> t \in Sales) /\ (t \in Logged' <=> t \in Logged)
  BY DEF Sales, Logged, Has
<1>3. \A type \in {"sale", "void"} : Reversing(type, t)' <=> Reversing(type, t)
  BY DEF Reversing
<1> QED
  BY <1>1, <1>2, <1>3 DEF SaleOK

(* The settlement loses nothing when neither the log, the status nor the host's
   batch changes, and no settlement begins. *)
LEMMA SettleKept ==
  ASSUME SettleOK, UNCHANGED <<log, status, host, lapsed>>,
         ~(pc \in {"settle", "resettle"} /\ step = "save"),
         run'.job = "settle" /\ (pc' = "reverse" => run'.then = "offline") /\ pc' # "finish" =>
            run'.total = run.total /\ run.job = "settle"
            /\ (pc = "reverse" => run.then = "offline") /\ pc # "finish"
  PROVE  SettleOK'
<1>1. Sales' = Sales /\ Has("NOSEND")' = Has("NOSEND")
  BY DEF Sales, Logged, Has
<1> QED
  BY <1>1 DEF SettleOK

LEMMA InitLedger == Init => Ledger /\ VoidOK
<1> SUFFICES ASSUME Init PROVE Ledger /\ VoidOK
  OBVIOUS
<1>1. Logged = {} /\ Sales = {} /\ \A f : Has(f) = {}
  BY DEF Init, Logged, Sales, Has
<1>2. \A t \in Txn : ~Reversing("sale", t) /\ ~Reversing("void", t)
  <2>1. ASSUME NEW type \in {"sale", "void"}, NEW t \in Txn, Reversing(type, t) PROVE FALSE
    BY <2>1, ConstantsAssumption DEF Init, Reversing, Req
  <2> QED
    BY <2>1
<1>3. \A t \in Txn : SaleOK(t)
  BY <1>1, <1>2 DEF Init, NewBatch, SaleOK
<1> QED
  BY <1>1, <1>3 DEF Init, NewBatch, NoRun, Ledger, RequestOK, AnsweredOK, UploadOK, SettleOK, VoidOK, CardRequest, AtRequest

------------------------------------------------------------------------------
(* The operator begins an operation. *)

LEMMA SaleLedger ==
  ASSUME IInv, Ledger, NEW t \in Txn, NEW chip \in BOOLEAN, TransSaleSub(t, chip)
  PROVE  Ledger'
<1>1. /\ pc = "idle" /\ pc' = "reverse"
      /\ UNCHANGED <<log, rev, status, step, reply, host, exposed, dropped, refused, lapsed>>
      /\ fresh' = fresh \ {t} /\ t \in fresh
      /\ Cardinality(Logged) < MaxTranLog /\ status # "S_PENDING"
  BY DEF TransSaleSub, ChkIfTranAllow, ChkSettle, store, marks
<1>2. /\ run'.job = "sale" /\ run'.txn = t /\ run'.then = "request" /\ run'.rsp = ""
  BY DEF TransSaleSub, NoRun
<1>3. step = "send" /\ status = "S_USE"
  BY <1>1 DEF IInv, SubjectOK, TypeOK, Call
<1>4. Logged' = Logged
  BY <1>1 DEF Logged
<1>5. \A u \in Txn : SaleOK(u)'
  BY <1>1, SalesKept DEF Ledger, Writes
<1>6. RequestOK'
  BY <1>1, <1>2, <1>3, <1>4 DEF Ledger, SaleOK, RequestOK, CardRequest, AtRequest
<1>7. AnsweredOK' /\ UploadOK'
  BY <1>1, <1>3 DEF AnsweredOK, UploadOK
<1>8. SettleOK'
  BY <1>1, <1>2, SettleKept DEF Ledger
<1> QED
  BY <1>5, <1>6, <1>7, <1>8 DEF Ledger

LEMMA VoidLedger ==
  ASSUME IInv, Ledger, NEW t \in Txn, TransVoid(t)
  PROVE  Ledger'
<1>1. /\ pc = "idle" /\ pc' = "reverse" /\ t \in Sales
      /\ UNCHANGED <<log, rev, status, step, reply, host, fresh, exposed, dropped, refused, lapsed>>
      /\ status # "S_PENDING"
  BY DEF TransVoid, ChkSettle, store, history, marks
<1>2. /\ run'.job = "void" /\ run'.txn = t /\ run'.then = "request" /\ run'.rsp = ""
      /\ run'.chip = FALSE
  BY DEF TransVoid, NoRun
<1>3. step = "send" /\ status = "S_USE"
  BY <1>1 DEF IInv, SubjectOK, TypeOK, Call
<1>4. Sales' = Sales /\ log[t] # NoRec
  BY <1>1 DEF Sales, Logged, Has
<1>5. \A u \in Txn : SaleOK(u)'
  BY <1>1, SalesKept DEF Ledger, Writes
<1>6. RequestOK'
  BY <1>1, <1>2, <1>3, <1>4 DEF Ledger, SaleOK, RequestOK, CardRequest, AtRequest
<1>7. AnsweredOK' /\ UploadOK'
  BY <1>1, <1>3 DEF AnsweredOK, UploadOK
<1>8. SettleOK'
  BY <1>1, <1>2, SettleKept DEF Ledger
<1> QED
  BY <1>5, <1>6, <1>7, <1>8 DEF Ledger

(* A record of a sale the host has not seen: FinishOffLine, the voice referral, and
   a chip's own approval when the host could not be reached. *)
LEMMA UnsentLogged ==
  ASSUME TypeOK, \A u \in Txn : SaleOK(u), NEW t \in Txn, log[t] = NoRec,
         NEW flags \in SUBSET Flag, "NOSEND" \in flags, "VOID" \notin flags,
         Cardinality(Logged) < MaxTranLog, SaveTranLog(t, flags), host' = host,
         UNCHANGED <<exposed, dropped, refused>>, fresh' \subseteq fresh, t \notin fresh',
         ~(pc = "request" /\ step = "save")
  PROVE  (\A u \in Txn : SaleOK(u)') /\ rev' = rev
<1>1. log' = [log EXCEPT ![t] = flags] /\ rev' = rev
  BY DEF SaveTranLog
<1>2. log'[t] = flags /\ flags # NoRec
  BY <1>1, ConstantsAssumption DEF TypeOK
<1>3. SaleOK(t)'
  <2>1. SaleOK(t) /\ t \notin host.void
    BY DEF SaleOK
  <2>2. ~Reversing("void", t)'
    BY <1>1, <2>1 DEF SaleOK, Reversing, Logged
  <2> QED
    BY <1>1, <1>2, <2>1, <2>2 DEF SaleOK, Sales, Logged, Has
<1>4. ASSUME NEW u \in Txn \ {t} PROVE SaleOK(u)'
  <2>1. log'[u] = log[u]
    BY <1>1 DEF TypeOK
  <2> QED
    BY <1>1, <2>1, SaleKept
<1> QED
  BY <1>1, <1>3, <1>4

(* ... and what it does to the settlement: nothing, as none is pending. *)
LEMMA UnsentSettle ==
  ASSUME SettleOK, status = "S_USE", UNCHANGED <<status, host, lapsed>>,
         pc \notin {"settle", "resettle"}, pc' = "finish"
  PROVE  SettleOK'
BY DEF SettleOK

LEMMA FinishOffLineLedger ==
  ASSUME IInv, Ledger, NEW t \in Txn, NEW chip \in BOOLEAN, FinishOffLine(t, chip)
  PROVE  Ledger'
<1>1. /\ pc = "idle" /\ pc' = "finish" /\ UNCHANGED <<status, step, reply, host, exposed, dropped, refused, lapsed>>
      /\ fresh' = fresh \ {t} /\ t \in fresh
      /\ Cardinality(Logged) < MaxTranLog /\ status = "S_USE"
  BY DEF FinishOffLine, ChkIfTranAllow, ChkSettle, IInv, TypeOK, marks
<1>2. PICK flags \in SUBSET Flag :
        SaveTranLog(t, flags) /\ "NOSEND" \in flags /\ "VOID" \notin flags
  BY DEF FinishOffLine, Flag
<1>3. log[t] = NoRec
  BY <1>1 DEF Ledger, SaleOK
<1>4. \A u \in Txn : SaleOK(u)'
  BY <1>1, <1>2, <1>3, UnsentLogged DEF Ledger, IInv
<1>5. RequestOK' /\ AnsweredOK' /\ UploadOK'
  BY <1>1 DEF RequestOK, AnsweredOK, UploadOK, CardRequest, AtRequest
<1>6. SettleOK'
  BY <1>1, UnsentSettle DEF Ledger
<1> QED
  BY <1>4, <1>5, <1>6 DEF Ledger

(* A flag that says no more of the sale than that it waits for its upload, or for
   its certificate: Update of a record that is not voided. *)
LEMMA FlagsChanged ==
  ASSUME TypeOK, \A u \in Txn : SaleOK(u), NEW t \in Logged, NEW flags \in SUBSET Flag,
         Update(t, flags), UNCHANGED <<rev, host, fresh, exposed, dropped>>,
         \A u \in Txn \ {t} : u \in refused' <=> u \in refused,
         "VOID" \in flags <=> "VOID" \in log[t],
         "VOID" \in flags \/ "NOSEND" \in flags \/ t \in host.sale \/ t \in refused',
         "NOSEND" \in flags \/ "NOSEND" \notin log[t] \/ rev = NoReq,
         ~(pc = "request" /\ step = "save")
  PROVE  (\A u \in Txn : SaleOK(u)') /\ Sales' = Sales
<1>1. log' = [log EXCEPT ![t] = flags] /\ t \in Txn /\ log[t] # NoRec /\ log[t] \in SUBSET Flag
  BY DEF Update, Logged, TypeOK
<1>2. log'[t] = flags /\ flags # NoRec
  BY <1>1, ConstantsAssumption DEF TypeOK
<1>3. SaleOK(t)'
  <2>1. SaleOK(t) /\ ~InFlight("sale", t) /\ ~InFlight("void", t)
    BY <1>1 DEF InFlight
  <2>2. \A type \in {"sale", "void"} : Reversing(type, t)' <=> Reversing(type, t)
    BY DEF Reversing
  <2>3. rev = NoReq => ~Reversing("sale", t)
    BY <1>1, ConstantsAssumption DEF Reversing, Req
  <2>4. (t \in Sales' <=> t \in Sales) /\ t \in Logged' /\ (t \in Sales => "VOID" \notin flags)
    BY <1>1, <1>2 DEF Sales, Logged, Has
  <2> QED
    BY <1>1, <1>2, <2>1, <2>2, <2>3, <2>4 DEF SaleOK
<1>4. ASSUME NEW u \in Txn \ {t} PROVE SaleOK(u)' /\ (u \in Sales' <=> u \in Sales)
  <2>1. log'[u] = log[u]
    BY <1>1 DEF TypeOK
  <2> QED
    BY <1>1, <2>1, SaleKept DEF Sales, Logged, Has
<1>5. Sales' = Sales
  BY <1>1, <1>2, <1>4 DEF Sales, Logged, Has
<1> QED
  BY <1>3, <1>4, <1>5

LEMMA AdjustLedger ==
  ASSUME IInv, Ledger, NEW t \in Txn, TransAdjust(t)
  PROVE  Ledger'
<1>1. /\ pc = "idle" /\ t \in Sales /\ status = "S_USE" /\ Update(t, log[t] \cup {"NOSEND"})
      /\ UNCHANGED <<rev, status, run, pc, step, reply, host, fresh, exposed, dropped, refused, lapsed>>
  BY DEF TransAdjust, ChkSettle, history, marks, IInv, TypeOK
<1>2. t \in Logged /\ log[t] \cup {"NOSEND"} \in SUBSET Flag
  BY <1>1, FlagType DEF Sales, IInv, Flag
<1>3. (\A u \in Txn : SaleOK(u)') /\ Sales' = Sales
  BY <1>1, <1>2, FlagsChanged DEF Ledger, IInv
<1>4. RequestOK' /\ AnsweredOK' /\ UploadOK'
  BY <1>1 DEF RequestOK, AnsweredOK, UploadOK, CardRequest, AtRequest
<1>5. SettleOK'
  BY <1>1, <1>3 DEF Ledger, SettleOK
<1> QED
  BY <1>3, <1>4, <1>5 DEF Ledger

LEMMA SettleLedger ==
  ASSUME IInv, Ledger, TransSettle
  PROVE  Ledger'
<1>1. /\ pc = "idle" /\ UNCHANGED <<log, rev, status, step, reply, host, fresh, exposed, dropped, refused, lapsed>>
      /\ \/ UNCHANGED <<run, pc>>
         \/ pc' = "reverse" /\ run'.then = "offline" /\ run'.total = Sales
  BY DEF TransSettle, NoRun, store, history, marks
<1>2. step = "send"
  BY <1>1 DEF IInv, SubjectOK, Call
<1>3. \A u \in Txn : SaleOK(u)'
  BY <1>1, SalesKept DEF Ledger, Writes
<1>4. RequestOK' /\ AnsweredOK' /\ UploadOK'
  BY <1>1, <1>2 DEF RequestOK, AnsweredOK, UploadOK, CardRequest, AtRequest
<1>5. Sales' = Sales /\ Has("NOSEND")' = Has("NOSEND")
  BY <1>1 DEF Sales, Logged, Has
<1>6. SettleOK'
  BY <1>1, <1>5 DEF Ledger, SettleOK
<1> QED
  BY <1>3, <1>4, <1>6 DEF Ledger

LEMMA LogonLedger ==
  ASSUME IInv, Ledger, TransLogon
  PROVE  Ledger'
<1>1. /\ pc = "idle" /\ pc' = "request" /\ run'.job = "logon" /\ run'.rsp = ""
      /\ UNCHANGED <<log, rev, status, step, reply, host, fresh, exposed, dropped, refused, lapsed>>
  BY DEF TransLogon, NoRun, store, history, marks
<1>2. step = "send"
  BY <1>1 DEF IInv, SubjectOK, Call
<1>3. \A u \in Txn : SaleOK(u)'
  BY <1>1, SalesKept DEF Ledger, Writes
<1>4. RequestOK' /\ AnsweredOK' /\ UploadOK'
  BY <1>1, <1>2 DEF RequestOK, AnsweredOK, UploadOK, CardRequest, AtRequest
<1>5. SettleOK'
  BY <1>1, SettleKept DEF Ledger
<1> QED
  BY <1>3, <1>4, <1>5 DEF Ledger

LEMMA BeginLedger ==
  ASSUME IInv, Ledger, Intact, Begin
  PROVE  Ledger'
<1>1. ~ClearReversalSub
  BY DEF Intact, ClearReversalSub
<1> QED
  BY <1>1, SaleLedger, VoidLedger, FinishOffLineLedger, AdjustLedger, SettleLedger,
     LogonLedger DEF Begin

------------------------------------------------------------------------------
(* SendRecvPacket. *)

(* A host that only gains the sale t, undoes it or loses the voiding of it leaves
   every other sale alone. *)
LEMMA OthersKept ==
  ASSUME NEW t, \A u \in Txn : SaleOK(u), UNCHANGED <<log, rev>>, fresh' = fresh,
         UNCHANGED <<exposed, dropped, refused>>, ~(pc = "request" /\ step = "save"),
         \A u \in Txn \ {t} : /\ u \in host'.sale <=> u \in host.sale
                              /\ u \in host'.void <=> u \in host.void
  PROVE  \A u \in Txn \ {t} : SaleOK(u)'
<1> SUFFICES ASSUME NEW u \in Txn \ {t} PROVE SaleOK(u)'
  OBVIOUS
<1>1. SaleOK(u) /\ ~InFlight("sale", u) /\ ~InFlight("void", u)
  BY DEF InFlight
<1>2. (u \in Sales' <=> u \in Sales) /\ (u \in Logged' <=> u \in Logged)
  BY DEF Sales, Logged, Has
<1>3. \A type \in {"sale", "void"} : Reversing(type, u)' <=> Reversing(type, u)
  BY DEF Reversing
<1> QED
  BY <1>1, <1>2, <1>3 DEF SaleOK

(* The reversal goes out: the host may have undone the sale, or the void. *)
LEMMA SendReversal ==
  ASSUME IInv, Ledger, NEW t, SendPacket(t), pc = "reverse"
  PROVE  Ledger'
<1>1. /\ rev # NoReq /\ t = run.txn /\ step = "send" /\ step' = "save"
      /\ UNCHANGED <<log, rev, status, pc, fresh, exposed, dropped, refused, lapsed>>
  BY DEF SendPacket, Subject, store, history, marks
<1>2. run' = run
  BY <1>1 DEF SendPacket, IInv, TypeOK, Run
<1>3. \/ host' = host /\ reply' # "00"
      \/ host' = Undone /\ reply' = "00"
  BY DEF SendPacket, Answers, Approval, Refusal
<1>4. PICK type \in {"sale", "void"}, u \in Txn : rev = [type |-> type, txn |-> u]
  BY <1>1 DEF IInv, TypeOK, Req
<1>5. /\ host'.sale = host.sale \/ (type = "sale" /\ host'.sale = host.sale \ {u})
      /\ host'.void = host.void \/ host'.void = host.void \ {u}
      /\ host'.closed = host.closed
      /\ reply' = "00" => IF type = "sale" THEN u \notin host'.sale ELSE u \notin host'.void
  <2>1. host \in [sale: SUBSET Txn, void: SUBSET Txn, closed: BOOLEAN]
    BY DEF IInv, TypeOK
  <2>2. Undone = IF type = "sale" THEN [host EXCEPT !.sale = @ \ {u}, !.void = @ \ {u}]
                 ELSE [host EXCEPT !.void = @ \ {u}]
    BY <1>4 DEF Undone
  <2> QED
    BY <1>3, <1>4, <2>1, <2>2
<1>6. SaleOK(u)'
  <2>1. SaleOK(u) /\ (u \in Sales' <=> u \in Sales) /\ (u \in Logged' <=> u \in Logged)
    BY <1>1 DEF Ledger, Sales, Logged, Has
  <2>2. /\ (Reversing("sale", u)' <=> type = "sale") /\ (Reversing("sale", u) <=> type = "sale")
        /\ (Reversing("void", u)' <=> type = "void") /\ (Reversing("void", u) <=> type = "void")
    BY <1>1, <1>4 DEF Reversing
  <2>3. ~InFlight("sale", u) /\ ~InFlight("void", u)
    BY DEF InFlight
  <2>4. (u \in Sales => log[u] # NoRec) /\ ~(pc' = "request" /\ step' = "save")
    BY <1>1 DEF Sales, Logged
  <2>5. CASE type = "sale"
    BY <1>1, <1>5, <2>1, <2>2, <2>3, <2>4, <2>5 DEF SaleOK
  <2>6. CASE type = "void"
    BY <1>1, <1>5, <2>1, <2>2, <2>3, <2>4, <2>6 DEF SaleOK
  <2> QED
    BY <2>5, <2>6
<1>7. \A v \in Txn : SaleOK(v)'
  <2>1. \A v \in Txn \ {u} : SaleOK(v)'
    BY <1>1, <1>5, OthersKept DEF Ledger
  <2> QED
    BY <1>6, <2>1
<1>8. RequestOK'
  <2>1. Sales' = Sales /\ Logged' = Logged
    BY <1>1 DEF Sales, Logged, Has
  <2> QED
    BY <1>1, <1>2, <1>5, <2>1 DEF Ledger, RequestOK, CardRequest, AtRequest
<1>9. AnsweredOK' /\ UploadOK'
  BY <1>1, <1>4, <1>5 DEF AnsweredOK, UploadOK
<1>10. SettleOK'
  <2>1. Sales' = Sales /\ Has("NOSEND")' = Has("NOSEND")
    BY <1>1 DEF Sales, Logged, Has
  <2> QED
    BY <1>1, <1>2, <1>5, <2>1 DEF Ledger, SettleOK
<1> QED
  BY <1>7, <1>8, <1>9, <1>10 DEF Ledger

(* A LOGON goes out: the host has nothing to book. *)
LEMMA SendLogon ==
  ASSUME IInv, Ledger, NEW t, SendPacket(t), pc = "request", run.job = "logon"
  PROVE  Ledger'
<1>1. /\ t = run.txn /\ step = "send" /\ step' = "save"
      /\ UNCHANGED <<log, rev, status, pc, fresh, exposed, dropped, refused, lapsed>>
  BY DEF SendPacket, Subject, store, history, marks
<1>2. run' = run
  BY <1>1 DEF SendPacket, IInv, TypeOK, Run
<1>3. host' = host
  BY DEF SendPacket, Answers, Approval, Refusal
<1>4. \A u \in Txn : SaleOK(u)'
  BY <1>1, <1>3, SalesKept DEF Ledger, Writes
<1>5. RequestOK' /\ AnsweredOK' /\ UploadOK'
  BY <1>1, <1>2 DEF Ledger, RequestOK, AnsweredOK, UploadOK, CardRequest, AtRequest
<1>6. SettleOK'
  BY <1>1, <1>2, <1>3, SettleKept DEF Ledger
<1> QED
  BY <1>4, <1>5, <1>6 DEF Ledger

(* The card's request goes out. *)
LEMMA SendRequest ==
  ASSUME IInv, Ledger, NEW t, SendPacket(t), pc = "request", run.job # "logon"
  PROVE  Ledger'
<1>1. /\ t = run.txn /\ t \in Txn /\ step = "send" /\ step' = "save"
      /\ UNCHANGED <<log, rev, status, pc, fresh, exposed, dropped, refused, lapsed>> /\ rev = NoReq
  BY DEF SendPacket, Subject, store, history, marks, IInv, SubjectOK, AtRequest, NoRevOK
<1>2. run' = run
  BY <1>1 DEF SendPacket, IInv, TypeOK, Run
<1>3. Sales' = Sales /\ Logged' = Logged /\ Has("NOSEND")' = Has("NOSEND")
  BY <1>1 DEF Sales, Logged, Has
<1>4. \A type \in {"sale", "void"}, u \in Txn : ~Reversing(type, u) /\ ~Reversing(type, u)'
  BY <1>1, ConstantsAssumption DEF Reversing, Req
<1>5. SaleOK(t) /\ RequestOK /\ SettleOK /\ CardRequest
  BY <1>1 DEF Ledger, CardRequest, AtRequest
<1>6. run.job \in {"sale", "void"}
  BY DEF IInv, SubjectOK, AtRequest
<1>7. CASE run.job = "sale"
  <2>1. \/ host' = host /\ reply' \in {"none", "01", "05"}
        \/ host' = [host EXCEPT !.sale = @ \cup {t}] /\ reply' = "00"
    BY <1>7 DEF SendPacket, Answers, Approval, Refusal
  <2>2. /\ \/ host'.sale = host.sale /\ reply' \in {"none", "01", "05"}
           \/ host'.sale = host.sale \cup {t} /\ reply' = "00"
        /\ host'.void = host.void /\ host'.closed = host.closed
    BY <2>1 DEF IInv, TypeOK
  <2>3. t \notin host.sale /\ log[t] = NoRec /\ t \notin fresh
    BY <1>1, <1>5, <1>7 DEF RequestOK, CardRequest, AtRequest
  <2>4. InFlight("sale", t)'
    BY <1>1, <1>2, <1>7 DEF InFlight
  <2>5. SaleOK(t)'
    BY <1>1, <1>3, <1>4, <1>5, <2>2, <2>3, <2>4 DEF SaleOK, Sales, Logged
  <2>6. \A u \in Txn \ {t} : SaleOK(u)'
    BY <1>1, <2>2, OthersKept DEF Ledger
  <2>7. RequestOK'
    BY <1>1, <1>2, <1>3, <1>5, <1>7, <2>2, <2>3 DEF RequestOK, CardRequest, AtRequest, Granted, Denied
  <2>8. AnsweredOK' /\ UploadOK'
    BY <1>1 DEF AnsweredOK, UploadOK
  <2>9. SettleOK'
    BY <1>1, <1>2, <1>3, <1>5, <2>2 DEF SettleOK
  <2> QED
    BY <2>5, <2>6, <2>7, <2>8, <2>9 DEF Ledger
<1>8. CASE run.job = "void"
  <2>1. \/ host' = host /\ reply' \in {"none", "05"}
        \/ host' = [host EXCEPT !.void = @ \cup {t}] /\ reply' = "00"
    BY <1>8 DEF SendPacket, Answers, Approval, Refusal
  <2>2. /\ \/ host'.void = host.void /\ reply' \in {"none", "05"}
           \/ host'.void = host.void \cup {t} /\ reply' = "00"
        /\ host'.sale = host.sale /\ host'.closed = host.closed
    BY <2>1 DEF IInv, TypeOK
  <2>3. t \in Sales /\ log[t] # NoRec /\ t \notin fresh
    BY <1>1, <1>5, <1>8 DEF RequestOK, CardRequest, AtRequest, Sales, Logged
  <2>4. InFlight("void", t)' /\ ~InFlight("void", t)
    BY <1>1, <1>2, <1>8 DEF InFlight
  <2>5. SaleOK(t)' /\ (t \notin host.void \/ t \in exposed \cup dropped)
    BY <1>1, <1>3, <1>4, <1>5, <2>2, <2>3, <2>4 DEF SaleOK, Sales, Logged
  <2>6. \A u \in Txn \ {t} : SaleOK(u)'
    BY <1>1, <2>2, OthersKept DEF Ledger
  <2>7. RequestOK'
    BY <1>1, <1>2, <1>3, <1>5, <1>8, <2>2, <2>3, <2>5 DEF RequestOK, CardRequest, AtRequest, Granted, Denied
  <2>8. AnsweredOK' /\ UploadOK'
    BY <1>1 DEF AnsweredOK, UploadOK
  <2>9. SettleOK'
    BY <1>1, <1>2, <1>3, <1>5, <2>2 DEF SettleOK
  <2> QED
    BY <2>5, <2>6, <2>7, <2>8, <2>9 DEF Ledger
<1> QED
  BY <1>6, <1>7, <1>8

(* An offline record goes out: the host may have booked it. *)
LEMMA SendOffline ==
  ASSUME IInv, Ledger, NEW t, SendPacket(t), pc = "offline"
  PROVE  Ledger'
<1>1. /\ t \in Has("NOSEND") /\ t \in Txn /\ step = "send" /\ step' = "save"
      /\ UNCHANGED <<log, rev, status, pc, fresh, exposed, dropped, refused, lapsed>>
  BY DEF SendPacket, Subject, store, history, marks, Has, Logged
<1>2. run'.txn = t /\ run'.job = run.job /\ run'.total = run.total
  BY DEF SendPacket, IInv, TypeOK, Run
<1>3. \/ host' = host /\ reply' # "00"
      \/ host' = [host EXCEPT !.sale = @ \cup {t}] /\ reply' = "00"
  BY DEF SendPacket, Answers, Approval, Refusal
<1>4. /\ \/ host'.sale = host.sale /\ reply' # "00"
         \/ host'.sale = host.sale \cup {t}
      /\ host'.void = host.void /\ host'.closed = host.closed
  BY <1>3 DEF IInv, TypeOK
<1>5. Sales' = Sales /\ Logged' = Logged /\ Has("NOSEND")' = Has("NOSEND")
  BY <1>1 DEF Sales, Logged, Has
<1>6. SaleOK(t)'
  <2>1. SaleOK(t) /\ log[t] # NoRec /\ ~InFlight("sale", t) /\ ~InFlight("void", t)
    BY <1>1 DEF Ledger, Has, Logged, InFlight
  <2>2. \A type \in {"sale", "void"} : Reversing(type, t)' <=> Reversing(type, t)
    BY <1>1 DEF Reversing
  <2> QED
    BY <1>1, <1>4, <1>5, <2>1, <2>2 DEF SaleOK
<1>7. \A u \in Txn \ {t} : SaleOK(u)'
  BY <1>1, <1>4, OthersKept DEF Ledger
<1>8. RequestOK' /\ AnsweredOK' /\ UploadOK'
  BY <1>1, <1>2, <1>4 DEF RequestOK, AnsweredOK, UploadOK, CardRequest, AtRequest
<1>9. SettleOK'
  BY <1>1, <1>2, <1>4, <1>5 DEF Ledger, SettleOK
<1> QED
  BY <1>6, <1>7, <1>8, <1>9 DEF Ledger

(* A certificate, the batch and the settlement itself book no sale. *)
LEMMA SendOther ==
  ASSUME IInv, Ledger, NEW t, SendPacket(t), pc \in {"tc", "settle", "upload", "resettle"}
  PROVE  Ledger'
<1>1. /\ step = "send" /\ step' = "save"
      /\ UNCHANGED <<log, rev, status, pc, fresh, exposed, dropped, refused, lapsed>>
  BY DEF SendPacket, store, history, marks
<1>2. run'.job = run.job /\ run'.total = run.total
  BY DEF SendPacket, IInv, TypeOK, Run
<1>3. \/ host' = host
      \/ host' = [host EXCEPT !.closed = TRUE] /\ pc \in {"settle", "resettle"}
  <2>1. \/ host' = host
        \/ \E a \in Answers(pc, t) : host' = a.host
    BY DEF SendPacket
  <2>2. CASE pc \in {"tc", "upload"}
    <3>1. Answers(pc, t) = Approval(host) \cup Refusal("05")
      BY <2>2 DEF Answers
    <3> QED
      BY <2>1, <3>1 DEF Approval, Refusal
  <2>3. CASE pc = "settle"
    <3>1. Answers(pc, t) \subseteq Refusal("05") \cup Refusal("95") \cup Closure("00")
      BY <2>3 DEF Answers
    <3> QED
      BY <2>1, <2>3, <3>1 DEF Refusal, Closure
  <2>4. CASE pc = "resettle"
    <3>1. Answers(pc, t) \subseteq Refusal("05") \cup Closure("00") \cup Closure("95")
      BY <2>4 DEF Answers
    <3> QED
      BY <2>1, <2>4, <3>1 DEF Refusal, Closure
  <2> QED
    BY <2>2, <2>3, <2>4
<1>4. host'.sale = host.sale /\ host'.void = host.void
      /\ (host'.closed => host.closed \/ pc \in {"settle", "resettle"})
  BY <1>3 DEF IInv, TypeOK
<1>5. Sales' = Sales /\ Has("NOSEND")' = Has("NOSEND")
  BY <1>1 DEF Sales, Logged, Has
<1>6. \A u \in Txn : SaleOK(u)'
  BY <1>1, <1>4, SaleKept DEF Ledger
<1>7. RequestOK' /\ AnsweredOK' /\ UploadOK'
  BY <1>1 DEF RequestOK, AnsweredOK, UploadOK, CardRequest, AtRequest
<1>8. SettleOK'
  BY <1>1, <1>2, <1>4, <1>5 DEF Ledger, SettleOK
<1> QED
  BY <1>6, <1>7, <1>8 DEF Ledger

LEMMA SendLedger ==
  ASSUME IInv, Ledger, NEW t, SendPacket(t)
  PROVE  Ledger'
<1>1. pc \in Call
  BY DEF SendPacket
<1> QED
  BY <1>1, SendReversal, SendLogon, SendRequest, SendOffline, SendOther DEF Call

LEMMA SaveSentLedger ==
  ASSUME IInv, Ledger, SaveSent
  PROVE  Ledger'
<1>1. /\ step = "save" /\ step' = "recv" /\ pc \in Call
      /\ UNCHANGED <<log, run, pc, reply, host, fresh, exposed, dropped, refused, lapsed>>
  BY DEF SaveSent, history, marks, IInv, SubjectOK
<1>2. Sales' = Sales /\ Logged' = Logged /\ Has("NOSEND")' = Has("NOSEND")
  BY <1>1 DEF Sales, Logged, Has
<1>3. CASE pc = "request" /\ run.job # "logon"
  <2>1. /\ rev' = [type |-> run.job, txn |-> run.txn] /\ rev = NoReq /\ status' = status
        /\ run.job \in {"sale", "void"} /\ run.txn \in Txn
    BY <1>1, <1>3 DEF SaveSent, NeedReversal, Request, IInv, NoRevOK, SubjectOK, AtRequest
  <2>2. \A type \in {"sale", "void"}, u \in Txn :
           /\ ~Reversing(type, u)
           /\ Reversing(type, u)' <=> (run.job = type /\ run.txn = u)
           /\ InFlight(type, u) <=> (run.job = type /\ run.txn = u)
    BY <1>1, <1>3, <2>1, ConstantsAssumption DEF Reversing, InFlight, Req
  <2>3. /\ run.txn \notin fresh /\ (run.job = "sale" => log[run.txn] = NoRec)
        /\ (run.job = "void" => run.txn \in Logged)
    BY <1>3 DEF Ledger, RequestOK, CardRequest, AtRequest, Sales
  <2>4. \A u \in Txn : SaleOK(u)'
    BY <1>1, <1>2, <2>2, <2>3 DEF Ledger, SaleOK
  <2>5. RequestOK'
    BY <1>1, <1>2, <1>3, <2>1 DEF Ledger, RequestOK, CardRequest, AtRequest, Granted, Denied, Request
  <2>6. AnsweredOK' /\ UploadOK'
    BY <1>1, <1>3 DEF AnsweredOK, UploadOK
  <2>7. SettleOK'
    BY <1>1, <1>2, <1>3, <2>1 DEF Ledger, SettleOK
  <2> QED
    BY <2>4, <2>5, <2>6, <2>7 DEF Ledger
<1>4. CASE pc # "request" \/ run.job = "logon"
  <2>1. /\ rev' = rev
        /\ status' = IF pc \in {"settle", "resettle"} THEN "S_PENDING" ELSE status
    BY <1>4 DEF SaveSent, NeedReversal
  <2>2. \A u \in Txn : SaleOK(u)'
    <3> SUFFICES ASSUME NEW u \in Txn PROVE SaleOK(u)'
      OBVIOUS
    <3>1. /\ SaleOK(u) /\ ~InFlight("sale", u) /\ ~InFlight("void", u)
          /\ (Reversing("sale", u)' <=> Reversing("sale", u))
          /\ (Reversing("void", u)' <=> Reversing("void", u))
      BY <1>4, <2>1 DEF Ledger, InFlight, Reversing
    <3> QED
      BY <1>1, <1>2, <2>1, <3>1 DEF SaleOK
  <2>3. RequestOK'
    BY <1>1, <1>2, <1>4, <2>1 DEF Ledger, RequestOK, CardRequest, AtRequest
  <2>4. AnsweredOK' /\ UploadOK'
    BY <1>1, <2>1 DEF Ledger, AnsweredOK, UploadOK, Call
  <2>5. pc \in {"settle", "resettle"} => Has("NOSEND") = {}
    BY DEF IInv, PaidOK, Settling
  <2>6. SettleOK'
    BY <1>1, <1>2, <2>1, <2>5 DEF Ledger, SettleOK
  <2> QED
    BY <2>2, <2>3, <2>4, <2>6 DEF Ledger
<1> QED
  BY <1>3, <1>4

------------------------------------------------------------------------------
(* The exchange fails. *)

LEMMA FailedLedger ==
  ASSUME IInv, Ledger, NEW rsp, Failed(rsp), pc \in Call, step # "save",
         UNCHANGED <<log, rev, status, host, fresh, exposed, dropped, refused, lapsed>>,
         run.chip => rsp = run.rsp
  PROVE  Ledger'
<1> DEFINE onChip == run.chip /\ (pc = "request" \/ (pc = "reverse" /\ run.then = "request"))
           onSwipe == pc = "request" /\ ~run.chip
<1>1. /\ run'.job = run.job /\ run'.txn = run.txn /\ run'.chip = run.chip
      /\ run'.rsp = IF pc = "request" THEN rsp ELSE run.rsp
      /\ onChip => run'.online = "error"
      /\ onSwipe => run'.then = "end"
  BY DEF Failed, IInv, TypeOK, Run
<1>2. /\ step' = "send"
      /\ \/ onChip /\ pc' = "card"
         \/ onSwipe /\ pc' = "reverse"
         \/ run.job # "settle" /\ pc' \in {"tc", "auto"}
         \/ pc' = "finish"
  BY DEF Failed, Goto
<1>3. \A u \in Txn : SaleOK(u)'
  BY SalesKept DEF Ledger, Writes
<1>4. Sales' = Sales /\ Logged' = Logged /\ Has("NOSEND")' = Has("NOSEND")
  BY DEF Sales, Logged, Has
<1>5. CASE onChip
  <2>1. AtRequest /\ run.job = "sale" /\ run'.rsp = "" /\ pc' = "card"
    <3>1. AtRequest /\ run.rsp = "" /\ run.chip /\ rsp = run.rsp
      BY <1>5 DEF Ledger, RequestOK, CardRequest, AtRequest
    <3>2. run.job \in {"sale", "void"} /\ run.job # "void"
      BY <3>1 DEF IInv, SubjectOK, Ledger, RequestOK, CardRequest
    <3> QED
      BY <1>1, <1>5, <3>1, <3>2 DEF Failed, Goto
  <2>2. RequestOK'
    BY <1>1, <1>4, <2>1 DEF Ledger, RequestOK, CardRequest, AtRequest
  <2>3. AnsweredOK' /\ UploadOK'
    BY <1>1, <1>5, <2>1 DEF AnsweredOK, UploadOK
  <2>4. SettleOK'
    BY <1>1, <1>4, <2>1 DEF Ledger, SettleOK
  <2> QED
    BY <1>3, <2>2, <2>3, <2>4 DEF Ledger
<1>6. CASE onSwipe /\ pc' = "reverse"
  <2>1. run.job \in {"sale", "void", "logon"}
    BY <1>6 DEF IInv, SubjectOK, AtRequest
  <2>2. RequestOK' /\ AnsweredOK' /\ UploadOK'
    BY <1>1, <1>2, <1>6 DEF RequestOK, CardRequest, AtRequest, AnsweredOK, UploadOK
  <2>3. SettleOK'
    BY <1>1, <1>4, <1>6, <2>1 DEF Ledger, SettleOK
  <2> QED
    BY <1>3, <2>2, <2>3 DEF Ledger
<1>7. CASE (run.job # "settle" /\ pc' \in {"tc", "auto"}) \/ pc' = "finish"
  <2>1. RequestOK' /\ AnsweredOK' /\ UploadOK'
    BY <1>2, <1>7 DEF RequestOK, CardRequest, AtRequest, AnsweredOK, UploadOK
  <2>2. SettleOK'
    BY <1>1, <1>4, <1>7 DEF Ledger, SettleOK
  <2> QED
    BY <1>3, <2>1, <2>2 DEF Ledger
<1> QED
  BY <1>2, <1>5, <1>6, <1>7

LEMMA FailsLedger ==
  ASSUME IInv, Ledger, Intact, SendFails \/ RecvFails \/ ReversalRefused
  PROVE  Ledger'
<1>1. pc \in Call
  BY DEF SendFails, RecvFails, ReversalRefused, Answered, IInv, SubjectOK, Call
<1>2. /\ UNCHANGED <<log, rev, status, host, fresh, exposed, dropped, refused, lapsed>>
      /\ step # "save"
  BY DEF SendFails, RecvFails, ReversalRefused, Answered, store, history, marks
<1>3. \E rsp : Failed(rsp) /\ (run.chip => rsp = run.rsp)
  BY DEF SendFails, RecvFails, ReversalRefused, Intact
<1> QED
  BY <1>1, <1>2, <1>3, FailedLedger

------------------------------------------------------------------------------
(* The reversal and the uploads are answered. *)

(* A reversal that the host has carried out, that was not needed, or that a LOGON
   loses, is dropped. *)
LEMMA ReversalDropped ==
  ASSUME \A u \in Txn : SaleOK(u), rev' = NoReq, UNCHANGED <<log, host, fresh, exposed, refused>>,
         dropped \subseteq dropped', ~(pc = "request" /\ step = "save"),
         \A u \in Txn : Reversing("sale", u) => u \notin host.sale \/ u \in dropped',
         \A u \in Txn : Reversing("void", u) =>
            u \notin host.void \/ u \in exposed \cup dropped' \/ u \notin Sales
  PROVE  \A u \in Txn : SaleOK(u)'
<1> SUFFICES ASSUME NEW u \in Txn PROVE SaleOK(u)'
  OBVIOUS
<1>1. SaleOK(u) /\ ~InFlight("sale", u) /\ ~InFlight("void", u)
  BY DEF InFlight
<1>2. (u \in Sales' <=> u \in Sales) /\ (u \in Logged' <=> u \in Logged)
  BY DEF Sales, Logged, Has
<1>3. \A type \in {"sale", "void"} : ~Reversing(type, u)'
  BY ConstantsAssumption DEF Reversing, Req
<1> QED
  BY <1>1, <1>2, <1>3 DEF SaleOK

(* What follows TranReversal finds everything as the reversal did. *)
LEMMA AfterReversalLedger ==
  ASSUME IInv, Ledger, pc = "reverse", AfterReversal,
         UNCHANGED <<log, status, run, host, fresh, exposed, dropped, refused, lapsed>>,
         \A u \in Txn : SaleOK(u)'
  PROVE  Ledger'
<1>1. /\ step' = "send" /\ run.then \in {"request", "offline", "end"}
      /\ pc' = IF run.then = "end" THEN "finish" ELSE run.then
  BY DEF AfterReversal, Goto, IInv, TypeOK, Run
<1>2. Sales' = Sales /\ Logged' = Logged /\ Has("NOSEND")' = Has("NOSEND")
  BY DEF Sales, Logged, Has
<1>3. RequestOK'
  BY <1>1, <1>2 DEF Ledger, RequestOK, CardRequest, AtRequest
<1>4. AnsweredOK' /\ UploadOK'
  BY <1>1 DEF AnsweredOK, UploadOK
<1>5. run.then = "request" => run.job # "settle"
  BY DEF IInv, SubjectOK, AtRequest
<1>6. SettleOK'
  BY <1>1, <1>2, <1>5 DEF Ledger, SettleOK
<1> QED
  BY <1>3, <1>4, <1>6 DEF Ledger

LEMMA TranReversalLedger ==
  ASSUME IInv, Ledger, TranReversal
  PROVE  Ledger'
<1>1. /\ pc = "reverse" /\ step = "recv" /\ reply = "00" /\ rev' = NoReq /\ AfterReversal
      /\ UNCHANGED <<log, status, run, host, fresh, exposed, dropped, refused, lapsed>>
  BY DEF TranReversal, Answered, history, marks
<1>2. \A u \in Txn : /\ Reversing("sale", u) => u \notin host.sale
                     /\ Reversing("void", u) => u \notin host.void
  BY <1>1 DEF Ledger, UploadOK, Reversing
<1>3. \A u \in Txn : SaleOK(u)'
  BY <1>1, <1>2, ReversalDropped DEF Ledger
<1> QED
  BY <1>1, <1>3, AfterReversalLedger

LEMMA NothingToSendLedger ==
  ASSUME IInv, Ledger, NothingToSend
  PROVE  Ledger'
<1>1. /\ pc \in Call /\ step = "send"
      /\ UNCHANGED <<log, rev, status, run, host, fresh, exposed, dropped, refused, lapsed>>
      /\ Subject(pc) = {} \/ pc = "offline"
  BY DEF NothingToSend, store, history, marks
<1>2. pc \in {"reverse", "offline", "tc", "upload"}
  BY <1>1 DEF Subject, Call
<1>3. \A u \in Txn : SaleOK(u)'
  BY <1>1, SalesKept DEF Ledger, Writes
<1>4. CASE pc = "reverse"
  BY <1>1, <1>3, <1>4, AfterReversalLedger DEF NothingToSend
<1>5. CASE pc \in {"offline", "tc", "upload"}
  <2>1. step' = "send" /\ pc' \in {"tc", "settle", "auto", "resettle"}
    BY <1>5 DEF NothingToSend, Goto
  <2>2. RequestOK' /\ AnsweredOK' /\ UploadOK'
    BY <2>1 DEF RequestOK, CardRequest, AtRequest, AnsweredOK, UploadOK
  <2>3. SettleOK'
    BY <1>1, <1>5, <2>1, SettleKept DEF Ledger
  <2> QED
    BY <1>3, <2>2, <2>3 DEF Ledger
<1> QED
  BY <1>2, <1>4, <1>5

LEMMA OfflineSendLedger ==
  ASSUME IInv, Ledger, OfflineSend
  PROVE  Ledger'
<1>1. /\ pc = "offline" /\ step = "recv" /\ reply # "none"
      /\ Update(run.txn, log[run.txn] \ {"NOSEND"})
      /\ step' = "send" /\ pc' \in {"offline", "tc"}
      /\ UNCHANGED <<rev, status, run, host, fresh, exposed, dropped, lapsed>>
      /\ \A u \in Txn \ {run.txn} : u \in refused' <=> u \in refused
  BY DEF OfflineSend, Answered, Goto
<1>2. /\ run.txn \in Has("NOSEND") /\ rev = NoReq
      /\ run.txn \in host.sale \/ run.txn \in refused'
  BY <1>1 DEF OfflineSend, IInv, SubjectOK, NoRevOK, Uploading, Ledger, UploadOK
<1>3. run.txn \in Logged /\ log[run.txn] \ {"NOSEND"} \in SUBSET Flag
  BY <1>2, FlagType DEF IInv, Has
<1>4. (\A u \in Txn : SaleOK(u)') /\ Sales' = Sales
  BY <1>1, <1>2, <1>3, FlagsChanged DEF Ledger, IInv
<1>5. RequestOK' /\ AnsweredOK' /\ UploadOK'
  BY <1>1 DEF RequestOK, CardRequest, AtRequest, AnsweredOK, UploadOK
<1>6. SettleOK'
  BY <1>1, <1>2, <1>4 DEF Ledger, SettleOK
<1> QED
  BY <1>4, <1>5, <1>6 DEF Ledger

LEMMA TransSendTCLedger ==
  ASSUME IInv, Ledger, TransSendTC
  PROVE  Ledger'
<1>1. /\ pc = "tc" /\ step = "recv"
      /\ Update(run.txn, log[run.txn] \ {"NEED_TC"})
      /\ step' = "send" /\ pc' = "tc"
      /\ UNCHANGED <<rev, status, run, host, fresh, exposed, dropped, refused, lapsed>>
  BY DEF TransSendTC, Answered, Goto, history, marks
<1>2. run.txn \in Has("NEED_TC") /\ rev = NoReq
  BY <1>1 DEF IInv, SubjectOK, NoRevOK, Uploading
<1>3. run.txn \in Logged /\ log[run.txn] \ {"NEED_TC"} \in SUBSET Flag /\ run.txn \in Txn
  BY <1>2, FlagType DEF IInv, Has
<1>4. \/ "VOID" \in log[run.txn] \/ "NOSEND" \in log[run.txn] \/ run.txn \in host.sale
      \/ run.txn \in refused
  BY <1>3 DEF Ledger, SaleOK, Sales, Has
<1>5. (\A u \in Txn : SaleOK(u)') /\ Sales' = Sales
  BY <1>1, <1>2, <1>3, <1>4, FlagsChanged DEF Ledger, IInv
<1>6. RequestOK' /\ AnsweredOK' /\ UploadOK'
  BY <1>1 DEF RequestOK, CardRequest, AtRequest, AnsweredOK, UploadOK
<1>7. Has("NOSEND") = {} => Has("NOSEND")' = {}
  <2> SUFFICES ASSUME NEW u \in Has("NOSEND")' PROVE u \in Has("NOSEND")
    OBVIOUS
  <2>1. log' = [log EXCEPT ![run.txn] = @ \ {"NEED_TC"}]
    BY <1>1 DEF Update
  <2> QED
    BY <1>3, <2>1 DEF Has, Logged, IInv, TypeOK
<1>8. SettleOK'
  BY <1>1, <1>5, <1>7 DEF Ledger, SettleOK
<1> QED
  BY <1>5, <1>6, <1>8 DEF Ledger

(* The settlement. *)
LEMMA SettlingLedger ==
  ASSUME IInv, Ledger, TransUpLoad \/ NotSettled
  PROVE  Ledger'
<1>1. /\ pc \in Settling /\ step = "recv" /\ step' = "send"
      /\ pc' \in {"upload", "resettle", "finish"}
      /\ UNCHANGED <<log, rev, status, host, fresh, exposed, dropped, refused, lapsed>>
      /\ run'.job = run.job /\ run'.total = run.total
  BY DEF TransUpLoad, NotSettled, Answered, Goto, Settling, store, history, marks, IInv, TypeOK, Run
<1>2. \A u \in Txn : SaleOK(u)'
  BY <1>1, SalesKept DEF Ledger, Writes, Settling
<1>3. RequestOK' /\ AnsweredOK' /\ UploadOK'
  BY <1>1 DEF RequestOK, CardRequest, AtRequest, AnsweredOK, UploadOK
<1>4. SettleOK'
  BY <1>1, SettleKept DEF Ledger, Settling
<1> QED
  BY <1>2, <1>3, <1>4 DEF Ledger

(* A new batch: neither side has anything. *)
LEMMA SettledLedger ==
  ASSUME IInv, Ledger, Settled
  PROVE  Ledger'
<1>1. /\ log' = [t \in Txn |-> NoRec] /\ rev' = NoReq /\ status' = "S_USE"
      /\ host'.sale = {} /\ host'.void = {} /\ host'.closed = FALSE
      /\ pc' = "finish" /\ step' = "send" /\ UNCHANGED fresh
  BY DEF Settled, NewBatch, Goto
<1>2. Logged' = {} /\ Sales' = {}
  BY <1>1 DEF Logged, Sales, Has
<1>3. ASSUME NEW u \in Txn PROVE ~Reversing("sale", u)' /\ ~Reversing("void", u)'
  BY <1>1, ConstantsAssumption DEF Reversing, Req
<1>4. \A u \in Txn : SaleOK(u)'
  BY <1>1, <1>2, <1>3 DEF Ledger, SaleOK
<1>5. RequestOK' /\ AnsweredOK' /\ UploadOK' /\ SettleOK'
  BY <1>1 DEF RequestOK, CardRequest, AtRequest, AnsweredOK, UploadOK, SettleOK
<1> QED
  BY <1>4, <1>5 DEF Ledger

------------------------------------------------------------------------------
(* The card's request is answered. *)

LEMMA RequestAnsweredLedger ==
  ASSUME IInv, Ledger, RequestAnswered
  PROVE  Ledger'
<1>1. /\ pc = "request" /\ step = "recv" /\ reply # "none" /\ step' = "send"
      /\ pc' = IF run.chip THEN "card" ELSE "after"
      /\ UNCHANGED <<log, rev, status, host, fresh, exposed, dropped, refused, lapsed>>
  BY DEF RequestAnswered, Answered, Goto, store, history, marks
<1>2. /\ run'.job = run.job /\ run'.txn = run.txn /\ run'.chip = run.chip /\ run'.rsp = reply
      /\ run.chip => run'.online = IF reply = "00" THEN "approved" ELSE "refused"
  BY DEF RequestAnswered, IInv, TypeOK, Run
<1>3. /\ AtRequest /\ RequestOK
      /\ run.job # "logon" => rev = Request /\ reply \in {"00", "01", "05"}
  BY <1>1 DEF AtRequest, Ledger, RequestOK
<1>4. run.job # "logon" => IF reply = "00" THEN Granted ELSE Denied
  BY <1>1, <1>3 DEF RequestOK
<1>5. (Granted' <=> Granted) /\ (Denied' <=> Denied) /\ Request' = Request
  BY <1>1, <1>2 DEF Granted, Denied, Request
<1>6. run.job \in {"sale", "void", "logon"} /\ (run.chip => run.job = "sale")
  BY <1>3 DEF IInv, SubjectOK, RequestOK, CardRequest
<1>7. \A u \in Txn : SaleOK(u)'
  BY <1>1, SalesKept DEF Ledger, Writes
<1>8. Sales' = Sales /\ Logged' = Logged /\ Has("NOSEND")' = Has("NOSEND")
  BY <1>1 DEF Sales, Logged, Has
<1>9. RequestOK'
  BY <1>1, <1>2, <1>3, <1>8 DEF RequestOK, CardRequest, AtRequest
<1>10. AnsweredOK' /\ UploadOK'
  BY <1>1, <1>2, <1>3, <1>4, <1>5, <1>6 DEF AnsweredOK, UploadOK
<1>11. SettleOK'
  BY <1>1, <1>2, <1>6, <1>8 DEF Ledger, SettleOK
<1> QED
  BY <1>7, <1>9, <1>10, <1>11 DEF Ledger

(* The card is asked only once the reversal in store is its own. *)
LEMMA CardRev ==
  ASSUME IInv, Ledger, CardApproves \/ CardFails
  PROVE  pc = "card" /\ (run.online = "approved" => rev = Request)
BY DEF CardApproves, CardFails, Ledger, AnsweredOK

LEMMA CardApprovesLedger ==
  ASSUME IInv, Ledger, CardApproves
  PROVE  Ledger'
<1>1. /\ pc = "card" /\ step' = "send" /\ run.job = "sale"
      /\ UNCHANGED <<status, run, host, fresh, exposed, dropped, refused, lapsed>>
      /\ AtRequest /\ log[run.txn] = NoRec /\ Cardinality(Logged) < MaxTranLog
      /\ status = "S_USE" /\ run.txn \in Txn /\ run.txn \notin fresh
  BY DEF CardApproves, Goto, history, marks, Ledger, AnsweredOK, RequestOK, CardRequest, AtRequest, IInv, SubjectOK
<1>2. CASE run.online = "approved"
  <2>1. rev' = rev /\ log' = log /\ pc' = "after"
    BY <1>2, CardRev DEF CardApproves, Goto
  <2>2. \A u \in Txn : SaleOK(u)'
    BY <1>1, <2>1, SalesKept DEF Ledger, Writes
  <2>3. Sales' = Sales /\ Logged' = Logged
    BY <2>1 DEF Sales, Logged, Has
  <2>4. RequestOK'
    BY <1>1, <2>1, <2>3 DEF Ledger, RequestOK, CardRequest, AtRequest
  <2>5. run.rsp = "00" /\ Granted /\ rev = Request
    BY <1>1, <1>2 DEF Ledger, AnsweredOK
  <2>6. Granted' /\ Request' = Request
    BY <1>1, <2>5 DEF Granted, Request
  <2>7. AnsweredOK' /\ UploadOK'
    BY <1>1, <2>1, <2>5, <2>6 DEF AnsweredOK, UploadOK
  <2>8. SettleOK'
    BY <1>1, <2>1, SettleKept DEF Ledger
  <2> QED
    BY <2>2, <2>4, <2>7, <2>8 DEF Ledger
<1>3. CASE run.online # "approved"
  <2>1. SaveTranLog(run.txn, {"NOSEND", "NEED_TC"}) /\ pc' = "finish"
    BY <1>3 DEF CardApproves, Goto
  <2>2. {"NOSEND", "NEED_TC"} \in SUBSET Flag
    BY DEF Flag
  <2>3. \A u \in Txn : SaleOK(u)'
    BY <1>1, <2>1, <2>2, UnsentLogged DEF Ledger, IInv
  <2>4. RequestOK' /\ AnsweredOK' /\ UploadOK'
    BY <2>1 DEF RequestOK, CardRequest, AtRequest, AnsweredOK, UploadOK
  <2>5. SettleOK'
    BY <1>1, <2>1, UnsentSettle DEF Ledger
  <2> QED
    BY <2>3, <2>4, <2>5 DEF Ledger
<1> QED
  BY <1>2, <1>3

LEMMA CardFailsLedger ==
  ASSUME IInv, Ledger, CardFails
  PROVE  Ledger'
<1>1. /\ pc = "card" /\ step' = "send" /\ rev' = rev
      /\ UNCHANGED <<log, status, run, host, fresh, exposed, dropped, refused, lapsed>>
      /\ pc' = IF run.rsp \in {"", "00"} THEN "finish" ELSE "after"
  BY CardRev DEF CardFails, Goto, history, marks
<1>2. \A u \in Txn : SaleOK(u)'
  BY <1>1, SalesKept DEF Ledger, Writes
<1>3. Sales' = Sales /\ Logged' = Logged
  BY <1>1 DEF Sales, Logged, Has
<1>4. RequestOK'
  BY <1>1, <1>3 DEF Ledger, RequestOK, CardRequest, AtRequest
<1>5. run.rsp \notin {"", "00"} => run.rsp \in {"01", "05"} /\ Denied /\ rev = Request
  BY <1>1 DEF Ledger, AnsweredOK
<1>6. (Denied' <=> Denied) /\ Request' = Request
  BY <1>1 DEF Denied, Request
<1>7. AnsweredOK' /\ UploadOK'
  BY <1>1, <1>5, <1>6 DEF AnsweredOK, UploadOK
<1>8. run.job = "sale"
  BY <1>1 DEF Ledger, AnsweredOK
<1>9. SettleOK'
  BY <1>1, <1>8, SettleKept DEF Ledger
<1> QED
  BY <1>2, <1>4, <1>7, <1>9 DEF Ledger

------------------------------------------------------------------------------
(* AfterTranProc. *)

(* A LOGON that drops a reversal the host would still have carried out leaves the
   mark of it. *)
LEMMA LogonDrops ==
  ASSUME IInv, EndReversal, run.job = "logon", NEW u \in Txn
  PROVE  /\ Reversing("sale", u) => u \notin host.sale \/ u \in dropped'
         /\ Reversing("void", u) => u \notin host.void \/ u \in dropped'
<1>1. ASSUME Reversing("sale", u), u \in host.sale PROVE u \in dropped'
  <2>1. rev = [type |-> "sale", txn |-> u] /\ rev # NoReq
    BY <1>1, ConstantsAssumption DEF Reversing, Req
  <2>2. u \notin Undone.sale
    BY <2>1 DEF Undone, IInv, TypeOK
  <2> QED
    BY <1>1, <2>1, <2>2 DEF EndReversal
<1>2. ASSUME Reversing("void", u), u \in host.void PROVE u \in dropped'
  <2>1. rev = [type |-> "void", txn |-> u] /\ rev # NoReq
    BY <1>2, ConstantsAssumption DEF Reversing, Req
  <2>2. u \notin Undone.void
    BY <2>1 DEF Undone, IInv, TypeOK
  <2> QED
    BY <1>2, <2>1, <2>2 DEF EndReversal
<1> QED
  BY <1>1, <1>2

LEMMA HostRejectedLedger ==
  ASSUME IInv, Ledger, HostRejected
  PROVE  Ledger'
<1>1. /\ pc = "after" /\ run.rsp # "00" /\ rev' = NoReq /\ step' = "send"
      /\ UNCHANGED <<log, status, run, host, fresh, exposed, refused, lapsed>>
      /\ pc' = "finish" \/ (pc' = "referral" /\ run.job = "sale")
      /\ dropped \subseteq dropped'
  BY DEF HostRejected, EndReversal, Goto
<1>2. run.job # "logon" => rev = Request /\ Denied /\ dropped' = dropped
  BY <1>1 DEF HostRejected, EndReversal, Ledger, AnsweredOK
<1>3. \A u \in Txn : SaleOK(u)'
  <2>1. ASSUME NEW u \in Txn
        PROVE  /\ Reversing("sale", u) => u \notin host.sale \/ u \in dropped'
               /\ Reversing("void", u) => u \notin host.void \/ u \in exposed \cup dropped'
    <3>1. CASE run.job = "logon"
      BY <1>1, <3>1, LogonDrops DEF HostRejected
    <3>2. CASE run.job # "logon"
      BY <1>2, <3>2 DEF Reversing, Request, Denied
    <3> QED
      BY <3>1, <3>2
  <2> QED
    BY <1>1, <2>1, ReversalDropped DEF Ledger
<1>4. Sales' = Sales /\ Logged' = Logged
  BY <1>1 DEF Sales, Logged, Has
<1>5. RequestOK'
  BY <1>1, <1>4 DEF Ledger, RequestOK, CardRequest, AtRequest
<1>6. AnsweredOK' /\ UploadOK'
  BY <1>1, <1>2 DEF AnsweredOK, UploadOK, Denied
<1>7. run.job # "settle"
  BY <1>1 DEF IInv, SubjectOK, AtRequest
<1>8. SettleOK'
  BY <1>1, <1>7, SettleKept DEF Ledger
<1> QED
  BY <1>3, <1>5, <1>6, <1>8 DEF Ledger

LEMMA VoiceReferralLedger ==
  ASSUME IInv, Ledger, VoiceReferral
  PROVE  Ledger'
<1>1. /\ pc = "referral" /\ pc' = "finish" /\ step' = "send" /\ run.job = "sale"
      /\ UNCHANGED <<status, run, host, fresh, exposed, dropped, refused, lapsed>>
      /\ AtRequest /\ log[run.txn] = NoRec /\ Cardinality(Logged) < MaxTranLog
      /\ status = "S_USE" /\ run.txn \in Txn /\ run.txn \notin fresh
  BY DEF VoiceReferral, Goto, history, marks, Ledger, AnsweredOK, RequestOK, CardRequest, AtRequest, IInv, SubjectOK
<1>2. \A u \in Txn : SaleOK(u)'
  <2>1. CASE UNCHANGED <<log, rev>>
    BY <1>1, <2>1, SalesKept DEF Ledger, Writes
  <2>2. CASE \E flags \in SUBSET Flag :
               SaveTranLog(run.txn, flags) /\ "NOSEND" \in flags /\ "VOID" \notin flags
    BY <1>1, <2>2, UnsentLogged DEF Ledger, IInv
  <2> QED
    BY <2>1, <2>2 DEF VoiceReferral, Flag
<1>3. RequestOK' /\ AnsweredOK' /\ UploadOK'
  BY <1>1 DEF RequestOK, CardRequest, AtRequest, AnsweredOK, UploadOK
<1>4. SettleOK'
  BY <1>1, UnsentSettle DEF Ledger
<1> QED
  BY <1>2, <1>3, <1>4 DEF Ledger

(* A LOGON the host has granted writes no record. *)
LEMMA LogonAcceptedLedger ==
  ASSUME IInv, Ledger, HostAccepted, run.job = "logon"
  PROVE  Ledger'
<1>1. /\ pc = "after" /\ pc' = "drop" /\ step' = "send"
      /\ UNCHANGED <<log, rev, status, run, host, fresh, exposed, dropped, refused, lapsed>>
  BY DEF HostAccepted, Goto, history, marks
<1>2. \A u \in Txn : SaleOK(u)'
  BY <1>1, SalesKept DEF Ledger, Writes
<1>3. RequestOK' /\ AnsweredOK' /\ UploadOK'
  BY <1>1 DEF RequestOK, CardRequest, AtRequest, AnsweredOK, UploadOK
<1>4. SettleOK'
  BY <1>1, SettleKept DEF Ledger
<1> QED
  BY <1>2, <1>3, <1>4 DEF Ledger

(* The record of a sale the host has granted, or the mark of a void. *)
LEMMA HostAcceptedLedger ==
  ASSUME IInv, Ledger, HostAccepted, run.job # "logon"
  PROVE  Ledger'
<1>1. /\ pc = "after" /\ run.rsp = "00" /\ pc' = "drop" /\ step' = "send"
      /\ UNCHANGED <<status, run, host, fresh, exposed, dropped, refused, lapsed>>
      /\ AtRequest /\ status = "S_USE" /\ run.txn \in Txn /\ run.txn \notin fresh
      /\ rev = [type |-> run.job, txn |-> run.txn] /\ Granted
  BY DEF HostAccepted, Goto, history, marks, Ledger, AnsweredOK, RequestOK, CardRequest, AtRequest,
         IInv, SubjectOK, Request
<1>2. /\ run.job \in {"sale", "void"}
      /\ run.job = "sale" => log[run.txn] = NoRec /\ Cardinality(Logged) < MaxTranLog
      /\ run.job = "void" => run.txn \in Sales
  BY <1>1 DEF Ledger, RequestOK, CardRequest, IInv, SubjectOK
<1>3. RequestOK' /\ UploadOK' /\ SettleOK'
  BY <1>1, <1>2 DEF RequestOK, CardRequest, AtRequest, UploadOK, Ledger, SettleOK
<1>4. ASSUME NEW u \in Txn, u # run.txn, log'[u] = log[u], rev' \in {rev, NoReq}
      PROVE  SaleOK(u)'
  <2>1. /\ SaleOK(u) /\ ~InFlight("sale", u) /\ ~InFlight("void", u)
        /\ ~Reversing("sale", u) /\ ~Reversing("void", u)
    BY <1>1, <1>4 DEF Ledger, InFlight, Reversing
  <2>2. ~Reversing("sale", u)' /\ ~Reversing("void", u)'
    BY <1>1, <1>4, ConstantsAssumption DEF Reversing, Req
  <2>3. (u \in Sales' <=> u \in Sales) /\ (u \in Logged' <=> u \in Logged)
    BY <1>4 DEF Sales, Logged, Has
  <2> QED
    BY <1>1, <1>4, <2>1, <2>2, <2>3 DEF SaleOK
<1>5. CASE run.job = "sale"
  <2>1. PICK flags \in SUBSET Flag :
           SaveTranLog(run.txn, flags) /\ "NOSEND" \notin flags /\ "VOID" \notin flags
    BY <1>5 DEF HostAccepted, Flag
  <2>2. log' = [log EXCEPT ![run.txn] = flags] /\ rev' = NoReq
    BY <1>2, <1>5, <2>1 DEF SaveTranLog
  <2>3. log'[run.txn] = flags /\ flags # NoRec /\ (\A u \in Txn : u # run.txn => log'[u] = log[u])
    BY <1>1, <2>2, ConstantsAssumption DEF IInv, TypeOK
  <2>4. SaleOK(run.txn) /\ run.txn \notin host.void /\ run.txn \in host.sale
    BY <1>1, <1>2, <1>5 DEF Ledger, SaleOK, Granted
  <2>5. ASSUME NEW u \in Txn PROVE ~Reversing("sale", u)' /\ ~Reversing("void", u)'
    BY <2>2, ConstantsAssumption DEF Reversing, Req
  <2>6. run.txn \in Logged'
    BY <1>1, <2>3 DEF Logged
  <2>7. ASSUME NEW t \in Txn, t = run.txn PROVE SaleOK(t)'
    BY <1>1, <2>3, <2>4, <2>5, <2>6, <2>7 DEF SaleOK
  <2>8. \A u \in Txn : SaleOK(u)'
    BY <1>4, <2>2, <2>3, <2>7
  <2>9. AnsweredOK'
    BY <1>1, <2>2 DEF AnsweredOK
  <2> QED
    BY <1>3, <2>8, <2>9 DEF Ledger
<1>6. CASE run.job = "void"
  <2>1. log' = [log EXCEPT ![run.txn] = (@ \ {"NOSEND"}) \cup {"VOID"}] /\ rev' = rev
    BY <1>6 DEF HostAccepted, Update
  <2>2. /\ log'[run.txn] = (log[run.txn] \ {"NOSEND"}) \cup {"VOID"}
        /\ log'[run.txn] # NoRec /\ (\A u \in Txn : u # run.txn => log'[u] = log[u])
    <3>1. (log[run.txn] \ {"NOSEND"}) \cup {"VOID"} \in SUBSET Flag
      BY <1>2, <1>6, FlagType DEF IInv, Sales, Flag
    <3> QED
      BY <1>1, <2>1, <3>1, ConstantsAssumption DEF IInv, TypeOK
  <2>3. run.txn \in Has("VOID")' /\ run.txn \notin Sales' /\ run.txn \in Logged'
    BY <1>1, <2>2 DEF Has, Sales, Logged
  <2>4. ASSUME NEW t \in Txn, t = run.txn PROVE SaleOK(t)'
    <3>1. ~Reversing("sale", t)'
      BY <1>1, <1>6, <2>1, <2>4 DEF Reversing
    <3> QED
      BY <1>1, <2>2, <2>3, <2>4, <3>1 DEF SaleOK
  <2>5. \A u \in Txn : SaleOK(u)'
    BY <1>4, <2>1, <2>2, <2>4
  <2>6. AnsweredOK'
    BY <1>1, <1>6, <2>1, <2>3 DEF AnsweredOK, Reversing
  <2> QED
    BY <1>3, <2>5, <2>6 DEF Ledger
<1> QED
  BY <1>2, <1>5, <1>6

LEMMA DropReversalLedger ==
  ASSUME IInv, Ledger, DropReversal
  PROVE  Ledger'
<1>1. /\ pc = "drop" /\ pc' = "offline" /\ step' = "send" /\ rev' = NoReq
      /\ UNCHANGED <<log, status, run, host, fresh, exposed, refused, lapsed>>
      /\ dropped \subseteq dropped'
  BY DEF DropReversal, EndReversal, Goto
<1>2. run.job # "logon" => rev = NoReq \/ (Reversing("void", run.txn) /\ run.txn \in Has("VOID"))
  BY <1>1 DEF Ledger, AnsweredOK
<1>3. ASSUME NEW u \in Txn
      PROVE  /\ Reversing("sale", u) => u \notin host.sale \/ u \in dropped'
             /\ Reversing("void", u) =>
                   u \notin host.void \/ u \in exposed \cup dropped' \/ u \notin Sales
  <2>1. CASE run.job = "logon"
    BY <2>1, LogonDrops DEF DropReversal
  <2>2. CASE run.job # "logon"
    BY <1>2, <2>2, ConstantsAssumption DEF Reversing, Req, Sales
  <2> QED
    BY <2>1, <2>2
<1>4. \A u \in Txn : SaleOK(u)'
  BY <1>1, <1>3, ReversalDropped DEF Ledger
<1>5. RequestOK' /\ AnsweredOK' /\ UploadOK'
  BY <1>1 DEF RequestOK, CardRequest, AtRequest, AnsweredOK, UploadOK
<1>6. SettleOK'
  BY <1>1, SettleKept DEF Ledger
<1> QED
  BY <1>4, <1>5, <1>6 DEF Ledger

------------------------------------------------------------------------------
(* The operation goes on to the next one, or ends. *)

LEMMA AutoSettleLedger ==
  ASSUME IInv, Ledger, AutoSettle
  PROVE  Ledger'
<1>1. /\ pc = "auto" /\ step' = "send"
      /\ UNCHANGED <<log, rev, status, host, fresh, exposed, dropped, refused, lapsed>>
      /\ \/ pc' = "reverse" /\ run'.then = "offline" /\ run'.total = Sales
         \/ pc' = "finish"
  BY DEF AutoSettle, Goto, store, history, marks, IInv, TypeOK, Run
<1>2. \A u \in Txn : SaleOK(u)'
  BY <1>1, SalesKept DEF Ledger, Writes
<1>3. Sales' = Sales /\ Has("NOSEND")' = Has("NOSEND")
  BY <1>1 DEF Sales, Logged, Has
<1>4. RequestOK' /\ AnsweredOK' /\ UploadOK'
  BY <1>1 DEF RequestOK, CardRequest, AtRequest, AnsweredOK, UploadOK
<1>5. SettleOK'
  BY <1>1, <1>3 DEF Ledger, SettleOK
<1> QED
  BY <1>2, <1>4, <1>5 DEF Ledger

LEMMA FinishLedger ==
  ASSUME IInv, Ledger, Finish
  PROVE  Ledger'
<1>1. /\ pc = "finish" /\ step' = "send"
      /\ UNCHANGED <<log, rev, status, host, fresh, exposed, dropped, refused, lapsed>>
      /\ \/ pc' = "reverse" /\ run'.then = "end"
         \/ pc' = "idle" /\ run'.job = "none"
  BY NoRunType DEF Finish, Goto, store, history, marks, IInv, TypeOK, Run
<1>2. \A u \in Txn : SaleOK(u)'
  BY <1>1, SalesKept DEF Ledger, Writes
<1>3. RequestOK' /\ AnsweredOK' /\ UploadOK'
  BY <1>1 DEF RequestOK, CardRequest, AtRequest, AnsweredOK, UploadOK
<1>4. SettleOK'
  BY <1>1, SettleKept DEF Ledger
<1> QED
  BY <1>2, <1>3, <1>4 DEF Ledger

LEMMA CardCancelledLedger ==
  ASSUME IInv, Ledger, CardCancelled
  PROVE  Ledger'
<1>1. /\ pc = "card" /\ pc' = "idle" /\ run'.job = "none"
      /\ UNCHANGED <<log, rev, status, host, fresh, exposed, dropped, refused, lapsed>>
  BY NoRunType DEF CardCancelled, Goto, store, history, marks
<1>2. \A u \in Txn : SaleOK(u)'
  BY <1>1, SalesKept DEF Ledger, Writes
<1>3. RequestOK' /\ AnsweredOK' /\ UploadOK'
  BY <1>1 DEF RequestOK, CardRequest, AtRequest, AnsweredOK, UploadOK
<1>4. SettleOK'
  BY <1>1, SettleKept DEF Ledger
<1> QED
  BY <1>2, <1>3, <1>4 DEF Ledger

(* A power failure between sending and saving exposes the sale, or the batch. *)
LEMMA PowerFailLedger ==
  ASSUME IInv, Ledger, PowerFail
  PROVE  Ledger'
<1>1. /\ pc' = "idle" /\ run'.job = "none" /\ UNCHANGED <<log, rev, status, host, fresh>>
      /\ exposed' = IF pc = "request" /\ step = "save" /\ NeedReversal
                    THEN exposed \cup {run.txn} ELSE exposed
      /\ lapsed' = (lapsed \/ (pc \in {"settle", "resettle"} /\ step = "save"))
      /\ UNCHANGED <<dropped, refused>>
  BY NoRunType DEF PowerFail, Goto, store
<1>2. Sales' = Sales /\ Logged' = Logged /\ Has("NOSEND")' = Has("NOSEND")
  BY <1>1 DEF Sales, Logged, Has
<1>3. \A u \in Txn : SaleOK(u)'
  <2> SUFFICES ASSUME NEW u \in Txn PROVE SaleOK(u)'
    OBVIOUS
  <2>1. /\ SaleOK(u) /\ (u \in exposed => u \in exposed')
        /\ (InFlight("sale", u) \/ InFlight("void", u) => u \in exposed')
    BY <1>1 DEF Ledger, InFlight, NeedReversal
  <2>2. \A type \in {"sale", "void"} : Reversing(type, u)' <=> Reversing(type, u)
    BY <1>1 DEF Reversing
  <2> QED
    BY <1>1, <1>2, <2>1, <2>2 DEF SaleOK
<1>4. RequestOK' /\ AnsweredOK' /\ UploadOK'
  BY <1>1 DEF RequestOK, CardRequest, AtRequest, AnsweredOK, UploadOK
<1>5. SettleOK'
  BY <1>1, <1>2 DEF Ledger, SettleOK
<1> QED
  BY <1>3, <1>4, <1>5 DEF Ledger

LEMMA StutterLedger ==
  ASSUME Ledger, UNCHANGED vars
  PROVE  Ledger'
<1>1. UNCHANGED <<log, rev, status, run, pc, step, reply, host, fresh, exposed, dropped, refused, lapsed>>
  BY DEF vars
<1>2. Sales' = Sales /\ Logged' = Logged /\ Has("NOSEND")' = Has("NOSEND") /\ Has("VOID")' = Has("VOID")
  BY <1>1 DEF Sales, Logged, Has
<1>3. \A u \in Txn : SaleOK(u)'
  <2> SUFFICES ASSUME NEW u \in Txn PROVE SaleOK(u)'
    OBVIOUS
  <2>1. /\ Reversing("sale", u)' <=> Reversing("sale", u)
        /\ Reversing("void", u)' <=> Reversing("void", u)
        /\ InFlight("sale", u)' <=> InFlight("sale", u)
        /\ InFlight("void", u)' <=> InFlight("void", u)
    BY <1>1 DEF Reversing, InFlight
  <2>2. SaleOK(u) /\ fresh' = fresh
    BY DEF Ledger, vars
  <2> QED
    BY <1>1, <1>2, <2>1, <2>2 DEF SaleOK
<1>4. /\ (CardRequest' <=> CardRequest) /\ (AtRequest' <=> AtRequest) /\ (Granted' <=> Granted) /\ (Denied' <=> Denied)
      /\ Request' = Request
  BY <1>1 DEF CardRequest, AtRequest, Granted, Denied, Request
<1>5. RequestOK'
  BY <1>1, <1>2, <1>4 DEF Ledger, RequestOK
<1>6. AnsweredOK'
  <2>1. Reversing("void", run.txn)' <=> Reversing("void", run.txn)
    BY <1>1 DEF Reversing
  <2>2. AnsweredOK
    BY DEF Ledger
  <2> QED
    BY <1>1, <1>2, <1>4, <2>1, <2>2 DEF AnsweredOK
<1>7. UploadOK'
  BY <1>1 DEF Ledger, UploadOK
<1>8. SettleOK'
  BY <1>1, <1>2 DEF Ledger, SettleOK
<1> QED
  BY <1>3, <1>5, <1>6, <1>7, <1>8 DEF Ledger

LEMMA NextLedger ==
  ASSUME Intact, IInv, Ledger, [Next]_vars
  PROVE  Ledger'
<1>1. CASE Continue
  BY <1>1, SendLedger, SaveSentLedger, FailsLedger, TranReversalLedger,
     RequestAnsweredLedger, OfflineSendLedger, TransSendTCLedger, SettlingLedger,
     SettledLedger, NothingToSendLedger, CardApprovesLedger, CardFailsLedger,
     CardCancelledLedger, HostRejectedLedger, VoiceReferralLedger, HostAcceptedLedger,
     LogonAcceptedLedger, DropReversalLedger, AutoSettleLedger, FinishLedger DEF Continue
<1> QED
  BY <1>1, BeginLedger, PowerFailLedger, StutterLedger DEF Next

(* Terminal and host agree on every sale, at every step, but for what is being
   reversed, still to be uploaded or was refused, and but for the reversals lost to
   a power failure or a LOGON. *)
THEOREM LedgerInvariance ==
  ASSUME Intact
  PROVE  Spec => [](IInv /\ Ledger)
<1>1. Init => IInv /\ Ledger
  BY InitInvariant, InitLedger
<1>2. IInv /\ Ledger /\ [Next]_vars => (IInv /\ Ledger)'
  BY NextInvariant, NextLedger
<1> QED
  BY <1>1, <1>2, PTL DEF Spec

------------------------------------------------------------------------------
(* What follows from it. *)

(* AfterTranProc, TranProcess, cEMVOnlineProc: a sale the host has booked and the
   terminal has not logged is waiting to be reversed, unless its reversal was lost to
   a power failure or a LOGON. *)
THEOREM UnloggedIsReversed ==
  ASSUME Intact
  PROVE  Spec => []NothingUnlogged
<1>1. IInv /\ Ledger => NothingUnlogged
  BY DEF IInv, Ledger, SaleOK, NothingUnlogged, HasSale, Reversing, InFlight, Unreversed
<1> QED
  BY <1>1, LedgerInvariance, PTL

(* A record that waits for no upload stands for a sale the host holds, unless the
   host refused its advice or the reversal of its void was lost. *)
THEOREM LoggedStaysLive ==
  ASSUME Intact
  PROVE  Spec => []LoggedIsLive
<1>1. IInv /\ Ledger => LoggedIsLive
  <2> SUFFICES ASSUME IInv, Ledger, pc = "idle", NEW t \in Sales \ (Has("NOSEND") \cup refused \cup Unreversed)
               PROVE  HasSale(t) \/ rev = [type |-> "void", txn |-> t]
    BY DEF LoggedIsLive
  <2>1. t \in Txn /\ t \in Logged /\ "NOSEND" \notin log[t] /\ SaleOK(t)
    BY DEF Sales, Logged, Has, Ledger
  <2> QED
    BY <2>1 DEF SaleOK, HasSale, Reversing, InFlight, Unreversed
<1> QED
  BY <1>1, LedgerInvariance, PTL

(* TransSettle: the totals on the line are those of the log, and of the host but for
   refused advices and lost reversals. *)
THEOREM TotalsMeet ==
  ASSUME Intact
  PROVE  Spec => []TotalsAgree
<1>1. IInv /\ Ledger => TotalsAgree
  <2> SUFFICES ASSUME IInv, Ledger, pc = "settle" PROVE TotalsAgree
    BY DEF TotalsAgree
  <2>1. rev = NoReq /\ Has("NOSEND") = {} /\ run.job = "settle" /\ run.total = Sales
    BY DEF IInv, NoRevOK, PaidOK, Uploading, Settling, Ledger, SettleOK
  <2>2. ASSUME NEW t \in Txn \ (refused \cup Unreversed \cup Has("VOID"))
        PROVE  t \in Sales <=> HasSale(t)
    <3>1. ~Reversing("sale", t) /\ ~Reversing("void", t)
      BY <2>1, ConstantsAssumption DEF Reversing, Req
    <3>2. ~InFlight("sale", t) /\ ~InFlight("void", t)
      BY DEF InFlight
    <3>3. CASE t \in Sales
      <4>1. "NOSEND" \notin log[t]
        BY <2>1, <3>3 DEF Sales, Has
      <4> QED
        BY <2>2, <3>1, <3>2, <3>3, <4>1 DEF Ledger, SaleOK, HasSale, Unreversed
    <3>4. CASE t \notin Sales
      <4>1. log[t] = NoRec
        BY <3>4 DEF Sales, Logged, Has
      <4> QED
        BY <2>2, <3>1, <3>2, <3>4, <4>1 DEF Ledger, SaleOK, HasSale, Unreversed
    <3> QED
      BY <3>3, <3>4
  <2> QED
    BY <2>1, <2>2 DEF TotalsAgree
<1> QED
  BY <1>1, LedgerInvariance, PTL

(* The host books a sale only on the card's request and on an upload. *)
LEMMA OnlyRequestsBook ==
  ASSUME IInv, Ledger, Next, ~(host'.sale \subseteq host.sale)
  PROVE  \/ pc = "request" /\ step = "send" /\ run.job # "logon"
         \/ pc = "offline" /\ Has("NOSEND") # {}
<1>1. PICK t \in Txn \cup {NoTxn} : SendPacket(t)
  <2>1. ~Settled
    BY DEF Settled, NewBatch
  <2>2. host' # host
    OBVIOUS
  <2>3. CASE Begin
    BY <2>2, <2>3 DEF Begin, TransSaleSub, FinishOffLine, TransVoid, TransAdjust, TransSettle,
       TransLogon, ClearReversalSub
  <2>4. CASE Continue
    BY <2>1, <2>2, <2>4 DEF Continue, SaveSent, SendFails, RecvFails, TranReversal,
       ReversalRefused, RequestAnswered, OfflineSend, TransSendTC, TransUpLoad, NotSettled,
       NothingToSend, CardApproves, CardFails, CardCancelled, HostRejected, VoiceReferral,
       HostAccepted, DropReversal, AutoSettle, Finish
  <2> QED
    BY <2>2, <2>3, <2>4 DEF Next, PowerFail
<1>2. step = "send" /\ pc \in Call
  BY <1>1 DEF SendPacket
<1>3. pc # "reverse"
  <2> SUFFICES ASSUME pc = "reverse" PROVE FALSE
    OBVIOUS
  <2>1. host' = host \/ host' = Undone
    BY <1>1 DEF SendPacket, Answers, Approval, Refusal
  <2>2. Undone.sale \subseteq host.sale
    BY DEF Undone, IInv, TypeOK
  <2> QED
    BY <2>1, <2>2
<1>4. pc \notin {"tc", "settle", "upload", "resettle"}
  <2> SUFFICES ASSUME pc \in {"tc", "settle", "upload", "resettle"} PROVE FALSE
    OBVIOUS
  <2>1. \A a \in Answers(pc, t) : a.host.sale = host.sale
    BY DEF Answers, Approval, Refusal, Closure, IInv, TypeOK
  <2> QED
    BY <1>1, <2>1 DEF SendPacket
<1>5. ~(pc = "request" /\ run.job = "logon")
  <2> SUFFICES ASSUME pc = "request", run.job = "logon" PROVE FALSE
    OBVIOUS
  <2>1. host' = host
    BY <1>1 DEF SendPacket, Answers, Approval, Refusal
  <2> QED
    BY <2>1
<1> QED
  BY <1>1, <1>2, <1>3, <1>4, <1>5 DEF Call, SendPacket, Subject

(* ChkSettle: no sale gets into a batch that the host has closed. *)
THEOREM ShutIsShut ==
  ASSUME Intact
  PROVE  Spec => ClosedBatchGrowsNot
<1> DEFINE Shut == host.closed /\ host'.closed /\ ~lapsed => host'.sale \subseteq host.sale
<1>1. ASSUME IInv, Ledger, [Next]_vars PROVE [Shut]_vars
  <2> SUFFICES ASSUME Next, host.closed, ~lapsed, ~(host'.sale \subseteq host.sale)
               PROVE  FALSE
    BY <1>1
  <2>1. \/ pc = "request" /\ step = "send" /\ run.job # "logon"
        \/ pc = "offline" /\ Has("NOSEND") # {}
    BY <1>1, OnlyRequestsBook
  <2>2. status = "S_PENDING" /\ Has("NOSEND") = {}
    BY <1>1, <2>1 DEF Ledger, SettleOK
  <2> QED
    BY <1>1, <2>1, <2>2 DEF Ledger, RequestOK, CardRequest, AtRequest
<1>2. [](IInv /\ Ledger) /\ [][Next]_vars => [][Shut]_vars
  BY <1>1, PTL
<1> QED
  BY <1>2, LedgerInvariance, PTL DEF Spec, ClosedBatchGrowsNot

------------------------------------------------------------------------------
(* Without power failures: the voided records. *)

(* A step that marks no record void, takes no voiding back and leaves no voided
   sale to be reversed. *)
LEMMA VoidKept ==
  ASSUME VoidOK,
         \A t \in Has("VOID")' : /\ t \in Has("VOID")
                                 /\ "NOSEND" \in log'[t] => "NOSEND" \in log[t]
                                 /\ t \in host.void => t \in host'.void
                                 /\ ~Reversing("void", t)'
  PROVE  VoidOK'
BY DEF VoidOK

LEMMA NextVoid ==
  ASSUME "power" \notin Feature, IInv, Ledger, VoidOK, [Next]_vars
  PROVE  VoidOK'
<1>1. ASSUME UNCHANGED <<log, host>>, pc # "drop", rev' \in {rev, NoReq}
      PROVE  VoidOK'
  <2>1. Has("VOID")' = Has("VOID")
    BY <1>1 DEF Has, Logged
  <2>2. ASSUME NEW t \in Has("VOID") PROVE ~Reversing("void", t)'
    BY <1>1, <2>2, ConstantsAssumption DEF VoidOK, Reversing, Req, Has, Logged
  <2> QED
    BY <1>1, <2>1, <2>2, VoidKept
<1>2. ASSUME NEW t \in Txn, NEW flags \in SUBSET Flag, log' = [log EXCEPT ![t] = flags],
             "VOID" \notin flags \/ ("VOID" \in log[t] /\ t \in Logged),
             "NOSEND" \in flags => "VOID" \notin flags \/ "NOSEND" \in log[t],
             host' = host, rev' \in {rev, NoReq}, pc # "drop"
      PROVE  VoidOK'
  <2>1. log'[t] = flags /\ (\A u \in Txn : u # t => log'[u] = log[u])
    BY <1>2 DEF IInv, TypeOK
  <2>2. ASSUME NEW u \in Has("VOID")'
        PROVE  u \in Has("VOID") /\ ("NOSEND" \in log'[u] => "NOSEND" \in log[u])
    BY <1>2, <2>1 DEF Has, Logged
  <2>3. ASSUME NEW u \in Has("VOID") PROVE ~Reversing("void", u)'
    BY <1>2, <2>3, ConstantsAssumption DEF VoidOK, Reversing, Req, Has, Logged
  <2> QED
    BY <1>2, <2>2, <2>3, VoidKept
<1>3. CASE UNCHANGED vars
  BY <1>3 DEF vars, VoidOK, Has, Logged, Reversing
<1>4. CASE Begin
  <2>1. CASE \E t \in Txn, chip \in BOOLEAN : FinishOffLine(t, chip)
    <3>1. PICK t \in Txn, chip \in BOOLEAN : FinishOffLine(t, chip)
      BY <2>1
    <3>2. PICK flags \in SUBSET Flag : SaveTranLog(t, flags) /\ "VOID" \notin flags
      BY <3>1 DEF FinishOffLine, Flag
    <3>3. host' = host /\ pc = "idle"
      BY <3>1 DEF FinishOffLine
    <3> QED
      BY <1>1, <1>2, <3>2, <3>3 DEF SaveTranLog
  <2>2. CASE \E t \in Txn : TransAdjust(t)
    <3>1. PICK t \in Txn : TransAdjust(t)
      BY <2>2
    <3>2. /\ log' = [log EXCEPT ![t] = log[t] \cup {"NOSEND"}] /\ "VOID" \notin log[t]
          /\ host' = host /\ pc = "idle" /\ rev' = rev /\ t \in Logged
      BY <3>1 DEF TransAdjust, Update, Sales, Has
    <3>3. log[t] \cup {"NOSEND"} \in SUBSET Flag
      BY <3>2, FlagType DEF Flag, IInv
    <3> QED
      BY <1>2, <3>2, <3>3
  <2> QED
    BY <1>1, <1>4, <2>1, <2>2
       DEF Begin, TransSaleSub, TransVoid, TransSettle, TransLogon, ClearReversalSub, store
<1>5. CASE \E t \in Txn \cup {NoTxn} : SendPacket(t)
  <2>1. PICK t \in Txn \cup {NoTxn} : SendPacket(t)
    BY <1>5
  <2>2. /\ UNCHANGED <<log, rev>> /\ step = "send" /\ pc \in Call /\ t \in Subject(pc)
        /\ host' = host \/ \E a \in Answers(pc, t) : host' = a.host
    BY <2>1 DEF SendPacket, store
  <2>3. Has("VOID")' = Has("VOID")
    BY <2>2 DEF Has, Logged
  <2>4. ASSUME NEW u \in Has("VOID") PROVE ~Reversing("void", u) /\ ~Reversing("void", u)'
    BY <2>2, <2>4 DEF VoidOK, Reversing, Call
  <2>5. ASSUME NEW u \in Has("VOID"), u \in host.void PROVE u \in host'.void
    <3>1. u \in Txn /\ "VOID" \in log[u] /\ log[u] # NoRec
      BY DEF Has, Logged
    <3>2. CASE pc = "reverse"
      <4>1. host' = host \/ host' = Undone
        BY <2>2, <3>2 DEF Answers, Approval, Refusal
      <4>2. PICK type \in {"sale", "void"}, v \in Txn : rev = [type |-> type, txn |-> v]
        BY <2>2, <3>2 DEF Subject, IInv, TypeOK, Req
      <4>3. v # u
        BY <2>4, <2>5, <3>1, <4>2 DEF Reversing, Ledger, SaleOK
      <4>4. u \in Undone.void
        BY <2>5, <4>2, <4>3 DEF Undone, IInv, TypeOK
      <4> QED
        BY <2>5, <4>1, <4>4
    <3>3. CASE pc # "reverse"
      <4>1. \A a \in Answers(pc, t) : host.void \subseteq a.host.void
        <5>1. CASE pc = "request"
          <6>1. run.job \in {"sale", "void", "logon"}
            BY <5>1 DEF IInv, SubjectOK, AtRequest
          <6> QED
            BY <5>1, <6>1 DEF Answers, Approval, Refusal, IInv, TypeOK
        <5>2. CASE pc \in {"offline", "tc", "upload"}
          BY <5>2 DEF Answers, Approval, Refusal, IInv, TypeOK
        <5>3. CASE pc \in {"settle", "resettle"}
          BY <5>3 DEF Answers, Refusal, Closure, IInv, TypeOK
        <5> QED
          BY <2>2, <3>3, <5>1, <5>2, <5>3 DEF Call
      <4> QED
        BY <2>2, <2>5, <4>1
    <3> QED
      BY <3>2, <3>3
  <2> QED
    BY <2>2, <2>3, <2>4, <2>5, VoidKept
<1>6. CASE SaveSent
  <2>1. UNCHANGED <<log, host, pc>> /\ pc \in Call
        /\ rev' = IF pc = "request" /\ run.job # "logon" THEN Request ELSE rev
    BY <1>6 DEF SaveSent, NeedReversal, IInv, SubjectOK, AtRequest
  <2>2. CASE pc = "request" /\ run.job # "logon"
    <3>1. Has("VOID")' = Has("VOID")
      BY <2>1 DEF Has, Logged
    <3>2. ASSUME NEW u \in Has("VOID") PROVE ~Reversing("void", u)'
      BY <2>1, <2>2, <3>2 DEF Reversing, Request, Ledger, RequestOK, CardRequest, AtRequest, Sales
    <3> QED
      BY <2>1, <3>1, <3>2, VoidKept
  <2> QED
    BY <1>1, <2>1, <2>2 DEF Call
<1>7. CASE OfflineSend \/ TransSendTC
  <2>1. PICK gone \in Flag : log' = [log EXCEPT ![run.txn] = log[run.txn] \ {gone}]
    BY <1>7 DEF OfflineSend, TransSendTC, Update, Flag
  <2>2. /\ run.txn \in Logged /\ host' = host /\ rev' = rev /\ pc # "drop"
        /\ ("VOID" \in log[run.txn] \ {gone} => "VOID" \in log[run.txn])
    BY <1>7 DEF OfflineSend, TransSendTC, Answered, IInv, SubjectOK, Has
  <2>3. log[run.txn] \ {gone} \in SUBSET Flag /\ run.txn \in Txn
    BY <2>2, FlagType DEF IInv
  <2> QED
    BY <1>2, <2>1, <2>2, <2>3
<1>8. CASE Settled
  BY <1>8 DEF Settled, Has, Logged, VoidOK
<1>9. CASE CardApproves \/ CardFails \/ VoiceReferral
  <2>1. host' = host /\ pc # "drop"
    BY <1>9 DEF CardApproves, CardFails, VoiceReferral
  <2>2. CASE UNCHANGED log
    <3>1. rev' \in {rev, NoReq}
      BY <1>9, CardRev, <2>2 DEF CardApproves, CardFails, VoiceReferral, SaveTranLog
    <3> QED
      BY <1>1, <2>1, <2>2, <3>1
  <2>3. CASE \E flags \in SUBSET Flag : SaveTranLog(run.txn, flags) /\ "VOID" \notin flags
    <3>1. run.txn \in Txn
      BY <1>9 DEF CardApproves, CardFails, VoiceReferral, IInv, SubjectOK, AtRequest
    <3> QED
      BY <1>1, <1>2, <2>1, <2>3, <3>1 DEF SaveTranLog
  <2> QED
    BY <1>9, <2>2, <2>3 DEF CardApproves, CardFails, VoiceReferral, Flag
<1>10. CASE HostAccepted
  <2>1. /\ pc = "after" /\ pc' = "drop" /\ host' = host /\ run' = run
        /\ AtRequest
        /\ run.job # "logon" => run.txn \in Txn /\ rev = Request /\ Granted
    BY <1>10 DEF HostAccepted, Goto, AtRequest, IInv, SubjectOK, Ledger, AnsweredOK
  <2>2. CASE run.job = "sale"
    <3>1. PICK flags \in SUBSET Flag : SaveTranLog(run.txn, flags) /\ "VOID" \notin flags
      BY <1>10, <2>2 DEF HostAccepted, Flag
    <3> QED
      BY <1>1, <1>2, <2>1, <2>2, <3>1 DEF SaveTranLog
  <2>3. CASE run.job = "logon"
    BY <1>1, <1>10, <2>1, <2>3 DEF HostAccepted
  <2>4. CASE run.job = "void"
    <3>1. /\ log' = [log EXCEPT ![run.txn] = (@ \ {"NOSEND"}) \cup {"VOID"}] /\ rev' = rev
          /\ run.txn \in host.void
      BY <1>10, <2>1, <2>4 DEF HostAccepted, Update, Granted
    <3>2. ASSUME NEW u \in Has("VOID")'
          PROVE  /\ u \in host'.void /\ "NOSEND" \notin log'[u]
                 /\ Reversing("void", u)' => pc' = "drop" /\ run'.txn = u
      <4>1. CASE u = run.txn
        BY <2>1, <3>1, <4>1 DEF IInv, TypeOK
      <4>2. CASE u # run.txn
        <5>1. u \in Has("VOID") /\ log'[u] = log[u]
          BY <3>1, <3>2, <4>2 DEF Has, Logged, IInv, TypeOK
        <5> QED
          BY <2>1, <3>1, <4>2, <5>1 DEF VoidOK, Reversing, Request
      <4> QED
        BY <4>1, <4>2
    <3> QED
      BY <3>2 DEF VoidOK
  <2> QED
    BY <1>10, <2>2, <2>3, <2>4 DEF HostAccepted
<1>11. CASE DropReversal
  <2>1. UNCHANGED <<log, host>> /\ rev' = NoReq
    BY <1>11 DEF DropReversal, EndReversal
  <2>2. Has("VOID")' = Has("VOID")
    BY <2>1 DEF Has, Logged
  <2>3. ASSUME NEW u \in Has("VOID") PROVE ~Reversing("void", u)'
    BY <2>1, ConstantsAssumption DEF Reversing, Req, Has, Logged
  <2> QED
    BY <2>1, <2>2, <2>3, VoidKept
<1>12. CASE SendFails \/ RecvFails \/ TranReversal \/ ReversalRefused \/ RequestAnswered
            \/ TransUpLoad \/ NotSettled \/ NothingToSend \/ CardCancelled \/ HostRejected
            \/ AutoSettle \/ Finish
  <2>1. UNCHANGED <<log, host>> /\ rev' \in {rev, NoReq}
    BY <1>12 DEF SendFails, RecvFails, TranReversal, ReversalRefused, RequestAnswered,
       TransUpLoad, NotSettled, NothingToSend, CardCancelled, HostRejected, EndReversal,
       AutoSettle, Finish, store
  <2>2. pc # "drop"
    BY <1>12 DEF SendFails, RecvFails, TranReversal, ReversalRefused, RequestAnswered,
       TransUpLoad, NotSettled, NothingToSend, CardCancelled, HostRejected, AutoSettle, Finish,
       Answered, IInv, SubjectOK, Call
  <2> QED
    BY <1>1, <2>1, <2>2
<1>13. ~PowerFail
  BY DEF PowerFail
<1>14. Continue => VoidOK'
  BY <1>5, <1>6, <1>7, <1>8, <1>9, <1>10, <1>11, <1>12 DEF Continue
<1> QED
  BY <1>3, <1>4, <1>13, <1>14 DEF Next

(* A terminal whose power never fails: the host does not hold a sale whose record
   says TS_VOID, and no reversal brings it back. *)
THEOREM VoidedStaysVoid ==
  ASSUME Intact, "power" \notin Feature
  PROVE  Spec => []VoidedIsNotLive
<1>1. Init => VoidOK
  BY InitLedger
<1>2. IInv /\ Ledger /\ VoidOK /\ [Next]_vars => VoidOK'
  BY NextVoid
<1>3. VoidOK => VoidedIsNotLive
  BY DEF VoidOK, VoidedIsNotLive, HasSale
<1> QED
  BY <1>1, <1>2, <1>3, LedgerInvariance, PTL DEF Spec
==============================================================================
