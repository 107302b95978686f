------------------------------- MODULE Totals -------------------------------
(***************************************************************************)
(* The amounts of the records and the totals of the settlement: CalcTotal  *)
(* of fileoper.c, TransAdjust, TransVoid, OfflineSend, TransSendTC,        *)
(* TransUpLoad, TransSettle and TransSettleSub of Transproc.c, and the     *)
(* limits of ChkIfTranAllow and ChkSettle, over several acquirers.         *)
(*                                                                         *)
(* An operation may be cut short by an answer that does not come.  A       *)
(* request that is to be reversed then leaves no trace here: that it is    *)
(* undone, and what a power failure does to it, is the matter of Edc.  An  *)
(* offline record whose answer is lost is sent again, and the host may     *)
(* hold it by then.                                                        *)
(*                                                                         *)
(* The hosts are external: a host holds the amount it last took for a      *)
(* sale, keeps pre-authorisations apart, may refuse whatever it is sent,   *)
(* and may find the totals out of balance for reasons of its own.          *)
(* OfflineSend and TransSendTC look at no response code: a record refused  *)
(* counts as sent.  TransRefund has no caller.                             *)
(***************************************************************************)
EXTENDS Naturals, FiniteSetsExt

CONSTANTS
    AcqNum,        \* uiAcqNum
    Txn,           \* the transactions of one run
    AcqOf,         \* the acquirer each belongs to
    Base,          \* szAmount of each
    MaxTip,        \* what ValidAdjustAmount allows on top of it
    MaxTranLog,    \* MAX_TRANLOG
    MaxSettleAmt,  \* ulMaxSettleAmt
    MaxLong,       \* LONG_MAX, where PubAsc2Long saturates
    NoRec,         \* the transaction has no record
    NoTxn          \* the request is about no record

Acq == 1 .. AcqNum
Tip == 0 .. MaxTip
Type == {"PREAUTH", "SALE", "OFF_SALE", "SALE_COMP"}
Flag == {"NOSEND", "ADJ", "VOID", "NEED_TC", "ALREADY_TC"}
Rec == [type: Type, tip: Tip, org: Nat, flags: SUBSET Flag]
Total == [saleCnt: Nat, saleAmt: Nat, voidCnt: Nat, tcCnt: Nat]

ASSUME ConstantsAssumption ==
    /\ Txn # {} /\ AcqNum \in Nat \ {0} /\ AcqOf \in [Txn -> Acq] /\ Base \in [Txn -> Nat \ {0}]
    /\ MaxTip \in Nat /\ MaxTranLog \in Nat \ {0}
    /\ MaxSettleAmt \in Nat /\ MaxLong \in Nat /\ MaxSettleAmt <= MaxLong
    /\ NoRec \notin Rec /\ NoTxn \notin Txn

VARIABLES
    log,     \* the records
    status,  \* sAcqStatus
    fresh,   \* the transactions not yet begun
    pc,      \* what the program does next
    job,     \* the operation the upload belongs to: "feed" or "settle"
    todo,    \* the acquirers still to be served, gstCurAcq the least of them
    total,   \* gstAcqTotal
    req,     \* gstSendPack: field 4 and the original amount of field 60
    left,    \* TransUpLoad: the records still to be uploaded
    held,    \* the amount each host holds for a sale, 0 for none
    certs,   \* the certificates (TC) the hosts have got, refused ones included
    batch,   \* the count and sum of the records uploaded to the host
    unsure,  \* history: the last upload of this record was not answered
    refused  \* history: the host refused an upload and has taken none since

flow == <<pc, job, todo, total, req, left>>
hosts == <<held, certs, batch>>
history == <<unsure, refused>>
vars == <<log, status, fresh, pc, job, todo, total, req, left, held, certs, batch,
          unsure, refused>>

TypeOK ==
    /\ log \in [Txn -> Rec \cup {NoRec}]
    /\ status \in [Acq -> {"S_USE", "S_PENDING"}]
    /\ fresh \subseteq Txn
    /\ pc \in {"idle", "void", "offline", "offline sent", "tc", "settle", "upload", "resettle"}
    /\ job \in {"feed", "settle"}
    /\ todo \subseteq Acq /\ (pc # "idle" => todo # {})
    /\ total \in [Acq -> Total]
    /\ req \in [txn: Txn \cup {NoTxn}, amount: Nat, org: Nat]
    /\ left \subseteq Txn
    /\ held \in [Txn -> Nat] /\ certs \subseteq Txn
    /\ batch \in [cnt: Nat, amt: Nat]
    /\ unsure \subseteq Txn /\ refused \subseteq Txn

NoRequest == [txn |-> NoTxn, amount |-> 0, org |-> 0]
NoTotal == [saleCnt |-> 0, saleAmt |-> 0, voidCnt |-> 0, tcCnt |-> 0]
NoTotals == [a \in Acq |-> NoTotal]
Nothing == [cnt |-> 0, amt |-> 0]

Init ==
    /\ log = [t \in Txn |-> NoRec] /\ status = [a \in Acq |-> "S_USE"] /\ fresh = Txn
    /\ pc = "idle" /\ job = "feed" /\ todo = {} /\ left = {}
    /\ total = NoTotals /\ req = NoRequest
    /\ held = [t \in Txn |-> 0] /\ certs = {} /\ batch = Nothing
    /\ unsure = {} /\ refused = {}

------------------------------------------------------------------------------
(* The log and its totals. *)

Logged == {t \in Txn : log[t] # NoRec}
Of(a) == {t \in Txn : AcqOf[t] = a}
Has(flag) == {t \in Logged : flag \in log[t].flags}

\* szAmount + szTipAmount.
Amount(t) == Base[t] + log[t].tip
amounts == [t \in Logged |-> Amount(t)]

\* IN_SALE_TOTAL of glTranConfig, of the original type for a voided record.
InSaleTotal(type) == type # "PREAUTH"
Counted == {t \in Logged : InSaleTotal(log[t].type)}
Sales == Counted \ Has("VOID")

CalcTotal(S) ==
    [saleCnt |-> Cardinality(S \cap Sales),
     saleAmt |-> SumFunctionOnSet(amounts, S \cap Sales),
     voidCnt |-> Cardinality((S \cap Counted) \ Sales),
     tcCnt   |-> Cardinality(S \cap Has("ALREADY_TC"))]

EmptyBatch(sum) == sum.saleCnt = 0 /\ sum.voidCnt = 0

PubAsc2Long(n) == IF n > MaxLong THEN MaxLong ELSE n

\* Mutant: the limit is that of one acquirer.
ChkSettleOfAcq(a, type) ==
    /\ status[a] # "S_PENDING"
    /\ type \in {"SALE", "OFF_SALE", "PREAUTH", "VOID"} =>
          PubAsc2Long(CalcTotal(Of(a)).saleAmt) < MaxSettleAmt

ChkIfTranAllow == Cardinality(Logged) < MaxTranLog
ChkSettle(a, type) ==
    /\ status[a] # "S_PENDING"
    /\ type \in {"SALE", "OFF_SALE", "PREAUTH", "VOID"} =>
          PubAsc2Long(CalcTotal(Txn).saleAmt) < MaxSettleAmt

------------------------------------------------------------------------------
(* Card transactions. *)

Save(t, type, tip, flags) ==
    log' = [log EXCEPT ![t] = [type |-> type, tip |-> tip, org |-> 0, flags |-> flags]]

\* The operation ends: the totals are computed anew before they are used again.
Idle ==
    /\ pc' = "idle" /\ job' = "feed" /\ todo' = {} /\ req' = NoRequest
    /\ total' = NoTotals /\ left' = {}

\* AfterTranProc, the trickle feed: one offline record, then the certificates.
\* OfflineSend sends none above 100 records or with ACQ_DISABLE_TRICK_FEED.
Feed(a) ==
    /\ pc' \in {"offline", "tc"} /\ job' = "feed" /\ todo' = {a} /\ req' = NoRequest
    /\ UNCHANGED <<total, left>>

Chip(flags, chip) == IF chip THEN flags \cup {"NEED_TC"} ELSE flags

\* TransSale and TransAuth(PREAUTH): approved, or neither logged nor held.
TransSale(t, type, tip, chip) ==
    /\ pc = "idle" /\ t \in fresh /\ ChkIfTranAllow /\ ChkSettle(AcqOf[t], type)
    /\ type = "PREAUTH" => tip = 0
    /\ fresh' = fresh \ {t}
    /\ \/ /\ Save(t, type, tip, Chip({}, chip))
          /\ held' = [held EXCEPT ![t] = IF InSaleTotal(type) THEN Base[t] + tip ELSE 0]
          /\ Feed(AcqOf[t])
       \/ UNCHANGED <<log, held, flow>>
    /\ UNCHANGED <<status, certs, batch, history>>

\* TransOffSale, and the voice referral of a sale or a pre-authorisation
\* (TranSaleComplete), and a chip the kernel approves offline: FinishOffLine.
FinishOffLine(t, type, tip, chip) ==
    /\ pc = "idle" /\ t \in fresh /\ ChkIfTranAllow
    /\ ChkSettle(AcqOf[t], IF type = "SALE_COMP" THEN "SALE" ELSE type)
    /\ type = "PREAUTH" => tip = 0
    /\ type = "OFF_SALE" => ~chip
    /\ type = "SALE" => chip
    /\ fresh' = fresh \ {t}
    /\ Save(t, type, tip, Chip({"NOSEND"}, chip))
    /\ UNCHANGED <<status, flow, hosts, history>>

\* GetRecord(TS_OK|TS_NOSEND|TS_ADJ): neither reversed nor voided.
GetRecord(t) == t \in Logged \ Has("VOID")

\* Mutant: the amount held is taken again by every adjustment.
AdjustedAgain(r, t, tip) ==
    [r EXCEPT !.org = Amount(t), !.flags = @ \cup {"ADJ", "NOSEND"}, !.tip = tip]

\* TransAdjust: a record waiting for its upload keeps its original amount.
Adjusted(r, t, tip) ==
    IF "NOSEND" \in r.flags THEN [r EXCEPT !.tip = tip]
    ELSE [r EXCEPT !.org = Amount(t), !.flags = @ \cup {"ADJ", "NOSEND"}, !.tip = tip]

TransAdjust(t, tip) ==
    /\ pc = "idle" /\ GetRecord(t) /\ ChkSettle(AcqOf[t], log[t].type)
    /\ log' = [log EXCEPT ![t] = Adjusted(log[t], t, tip)]
    /\ UNCHANGED <<status, fresh, flow, hosts, history>>

\* Mutants: the adjustment not yet sent is voided with the record; every record not
\* yet sent is taken for an adjustment.
TipToVoidAdjusted(t) == log[t].tip
TipToVoidUnsent(t) == IF "NOSEND" \in log[t].flags THEN log[t].org - Base[t] ELSE log[t].tip

\* TransVoid: of an adjustment not yet sent the host knows nothing.
TipToVoid(t) ==
    IF {"NOSEND", "ADJ"} \subseteq log[t].flags THEN log[t].org - Base[t] ELSE log[t].tip

TransVoid(t) ==
    /\ pc = "idle" /\ GetRecord(t) /\ log[t].type # "PREAUTH"     \* VOID_ALLOW
    /\ ChkIfTranAllow /\ ChkSettle(AcqOf[t], "VOID")
    /\ pc' = "void" /\ todo' = {AcqOf[t]}
    /\ req' = [txn |-> t, amount |-> Base[t] + TipToVoid(t), org |-> 0]
    /\ UNCHANGED <<log, status, fresh, job, total, left, hosts, history>>

\* The answer to a void, and AfterTranProc.  A host refuses to void what it has not.
VoidAnswered ==
    /\ pc = "void"
    /\ \/ LET t == req.txn IN
          /\ held[t] # 0
          /\ held' = [held EXCEPT ![t] = 0]
          /\ log' = [log EXCEPT ![t].tip = req.amount - Base[t],
                                ![t].flags = (@ \ {"ADJ", "NOSEND"}) \cup {"VOID"}]
          /\ unsure' = unsure \ {t} /\ refused' = refused \ {t}
          /\ Feed(AcqOf[t])
       \/ Idle /\ UNCHANGED <<log, held, history>>
    /\ UNCHANGED <<status, fresh, certs, batch>>

------------------------------------------------------------------------------
(* Uploads. *)

cur == Min(todo)

OfflineSend ==
    /\ pc = "offline"
    /\ \/ \E t \in Of(cur) \cap Has("NOSEND") :
             /\ req' = [txn |-> t, amount |-> Amount(t), org |-> log[t].org]
             /\ pc' = "offline sent"
       \/ Of(cur) \cap Has("NOSEND") = {} /\ pc' = "tc" /\ UNCHANGED req
    /\ UNCHANGED <<log, status, fresh, job, todo, total, left, hosts, history>>

\* The host takes the amount of the advice.
Taken == held' = [held EXCEPT ![req.txn] = IF InSaleTotal(log[req.txn].type)
                                             THEN req.amount ELSE 0]

\* No answer: a settlement is given up, the trickle feed goes on with the certificates.
OfflineFails ==
    /\ pc = "offline sent"
    /\ (UNCHANGED <<held, unsure>>) \/ (Taken /\ unsure' = unsure \cup ({req.txn} \ refused))
    /\ IF job = "settle" THEN Idle
       ELSE pc' = "tc" /\ req' = NoRequest /\ UNCHANGED <<job, todo, total, left>>
    /\ UNCHANGED <<log, status, fresh, certs, batch, refused>>

\* Taken or refused, which SendRecvPacket returns as the same.
TakenOrRefused ==
    \/ Taken /\ unsure' = unsure \ {req.txn} /\ refused' = refused \ {req.txn}
    \/ UNCHANGED held /\ unsure' = unsure \ {req.txn} /\ refused' = refused \cup {req.txn}

\* Mutant: the trickle feed of one record in a settlement too.
OfflineAnsweredOne ==
    /\ pc = "offline sent"
    /\ TakenOrRefused
    /\ log' = [log EXCEPT ![req.txn].flags = @ \ {"NOSEND"}]
    /\ pc' = "tc" /\ req' = NoRequest
    /\ UNCHANGED <<status, fresh, job, todo, total, left, certs, batch>>

OfflineAnswered ==
    /\ pc = "offline sent"
    /\ TakenOrRefused
    /\ log' = [log EXCEPT ![req.txn].flags = @ \ {"NOSEND"}]
    /\ pc' = (IF job = "settle" THEN "offline" ELSE "tc") /\ req' = NoRequest
    /\ UNCHANGED <<status, fresh, job, todo, total, left, certs, batch>>

Done(flags) == (flags \ {"NEED_TC"}) \cup {"ALREADY_TC"}

\* Mutant: the certificate is ticked off before it is answered.
TransSendTCUnanswered ==
    /\ pc = "tc"
    /\ \/ \E t \in Of(cur) \cap Has("NEED_TC") :
             /\ certs' \in {certs, certs \cup {t}}
             /\ log' = [log EXCEPT ![t].flags = Done(@)]
             /\ Idle
       \/ /\ Of(cur) \cap Has("NEED_TC") = {}
          /\ IF job = "settle"
             THEN pc' = "settle" /\ UNCHANGED <<job, todo, total, req, left>>
             ELSE Idle
          /\ UNCHANGED <<log, certs>>
    /\ UNCHANGED <<status, fresh, held, batch, history>>

\* TransSendTC(TRUE): every certificate, or an answer is missing.
TransSendTC ==
    /\ pc = "tc"
    /\ \/ \E t \in Of(cur) \cap Has("NEED_TC") :
             \/ /\ certs' = certs \cup {t}
                /\ log' = [log EXCEPT ![t].flags = Done(@)]
                /\ UNCHANGED flow
             \/ certs' \in {certs, certs \cup {t}} /\ Idle /\ UNCHANGED log
       \/ /\ Of(cur) \cap Has("NEED_TC") = {}
          /\ IF job = "settle"
             THEN pc' = "settle" /\ UNCHANGED <<job, todo, total, req, left>>
             ELSE Idle
          /\ UNCHANGED <<log, certs>>
    /\ UNCHANGED <<status, fresh, held, batch, history>>

------------------------------------------------------------------------------
(* Settlement. *)

\* TransSettle of one acquirer or of all, and TransAutoSettlement.
TransSettle(chosen) ==
    LET some == {t \in Txn : AcqOf[t] \in chosen}
        sums == [a \in Acq |-> CalcTotal(Of(a))]
    IN  /\ pc = "idle" /\ ~EmptyBatch(CalcTotal(some))
        /\ total' = sums
        /\ todo' = {a \in chosen : ~EmptyBatch(sums[a])}
        /\ pc' = "offline" /\ job' = "settle" /\ req' = NoRequest
        /\ UNCHANGED <<log, status, fresh, left, hosts, history>>

\* The loop goes on to the next acquirer that has anything to settle.
NextAcq ==
    IF todo = {cur} THEN Idle
    ELSE /\ todo' = todo \ {cur} /\ pc' = "offline"
         /\ req' = NoRequest /\ UNCHANGED <<job, total, left>>

Pending == status' = [status EXCEPT ![cur] = "S_PENDING"]
NotSent == UNCHANGED status

\* The host has closed its batch, ClearRecord erases the terminal's.
ClearRecord ==
    /\ log' = [t \in Txn |-> IF AcqOf[t] = cur THEN NoRec ELSE log[t]]
    /\ held' = [t \in Txn |-> IF AcqOf[t] = cur THEN 0 ELSE held[t]]
    /\ certs' = certs \ Of(cur)
    /\ unsure' = unsure \ Of(cur) /\ refused' = refused \ Of(cur)
    /\ status' = [status EXCEPT ![cur] = "S_USE"]

\* Mutant: voided records are uploaded too.
ToUploadVoided == (Of(cur) \cap Logged) \cap Counted

\* TransUpLoad skips pre-authorisations and voided records.
ToUpload == (Of(cur) \cap Counted) \ Has("VOID")

\* TransSettleSub, the first request: no answer, refused, in balance, or "95".
TransSettleSub ==
    /\ pc = "settle"
    /\ \/ (Pending \/ NotSent) /\ Idle /\ UNCHANGED <<log, hosts, history>>
       \/ Pending /\ NextAcq /\ UNCHANGED <<log, hosts, history>>
       \/ ClearRecord /\ NextAcq /\ batch' = Nothing
       \/ /\ Pending
          /\ pc' = "upload" /\ left' = ToUpload /\ batch' = Nothing
          /\ UNCHANGED <<log, job, todo, total, req, held, certs, history>>
    /\ UNCHANGED fresh

TransUpLoad ==
    /\ pc = "upload"
    /\ \/ \E t \in left :
             \/ /\ batch' = [cnt |-> batch.cnt + 1, amt |-> batch.amt + Amount(t)]
                /\ left' = left \ {t}
                /\ UNCHANGED <<pc, job, todo, total, req>>
             \/ Idle /\ batch' = Nothing
       \/ left = {} /\ pc' = "resettle" /\ UNCHANGED <<job, todo, total, req, left, batch>>
    /\ UNCHANGED <<log, status, fresh, held, certs, history>>

\* The second request: no answer, refused, or the host closes, in balance or not.
ReSettle ==
    /\ pc = "resettle"
    /\ \/ (Pending \/ NotSent) /\ Idle /\ UNCHANGED <<log, held, certs, history>>
       \/ Pending /\ NextAcq /\ UNCHANGED <<log, held, certs, history>>
       \/ ClearRecord /\ NextAcq
    /\ batch' = Nothing
    /\ UNCHANGED fresh

Next ==
    \/ \E t \in Txn, tip \in Tip, chip \in BOOLEAN :
          \/ \E type \in {"SALE", "PREAUTH"} : TransSale(t, type, tip, chip)
          \/ \E type \in Type : FinishOffLine(t, type, tip, chip)
    \/ \E t \in Txn : TransVoid(t) \/ \E tip \in Tip : TransAdjust(t, tip)
    \/ VoidAnswered
    \/ OfflineSend \/ OfflineFails \/ OfflineAnswered \/ TransSendTC
    \/ \E a \in Acq : TransSettle({a})
    \/ TransSettle(Acq)
    \/ TransSettleSub \/ TransUpLoad \/ ReSettle

Spec == Init /\ [][Next]_vars

------------------------------------------------------------------------------
(* Safety. *)

\* TransVoid, "void the amount before an adjustment not yet sent": a void names the
\* amount the host holds, unless an upload of the record was not answered or refused.
VoidNamesHeldAmount ==
    pc = "void" /\ req.txn \notin unsure \cup refused /\ held[req.txn] # 0 => req.amount = held[req.txn]

\* OfflineSend, "bit 60": the advice of an adjustment names the amount the host
\* holds as the original one, however often the record was adjusted before, unless an
\* upload of it was not answered or refused.
AdviceNamesHeldAmount ==
    pc = "offline sent" /\ "ADJ" \in log[req.txn].flags =>
        req.txn \in unsure \cup refused \/ held[req.txn] \in {0, req.org}

\* TransSettleSub: the sale count and amount of field 63, computed before the
\* uploads of the settlement, are those of the sales the host holds, unless it refused
\* an advice, which OfflineSend takes for sent.
TotalsAreHeld ==
    LET sales == {t \in Of(cur) : held[t] # 0} IN
    pc = "settle" /\ Of(cur) \cap refused = {} =>
        /\ total[cur].saleCnt = Cardinality(sales)
        /\ total[cur].saleAmt = SumFunctionOnSet(held, sales)

\* TransUpLoad: the batch uploaded to a host that found the totals out of balance
\* adds up to the totals of the second request.
UploadAddsUp ==
    pc = "resettle" => batch = [cnt |-> total[cur].saleCnt, amt |-> total[cur].saleAmt]

\* The certificates counted in field 63 are certificates the host has got.
CertificatesAreThere ==
    pc = "settle" => total[cur].tcCnt <= Cardinality(certs \cap Of(cur))

\* ChkSettle, "OUT OF MAX AMT": the sales of all acquirers exceed the limit by no
\* more than the one transaction that was let in below it, and the tips of voice
\* referrals, which ChkSettle lets be adjusted at any time.
LimitHolds ==
    LET ungated == {t \in Sales : log[t].type = "SALE_COMP"}
        tips == [t \in Logged |-> log[t].tip] IN
    \E t \in Txn : SumFunctionOnSet(amounts, Sales)
                     < MaxSettleAmt + Base[t] + MaxTip + SumFunctionOnSet(tips, ungated)
==============================================================================
