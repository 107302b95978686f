---------------------------- MODULE Totals_proofs ----------------------------
(***************************************************************************)
(* Proofs about Totals, for every set of transactions, amounts and limits: *)
(* the amounts the requests name, and above them the counts and sums of    *)
(* the settlement, the batch that is uploaded, and the limit on it.        *)
(*                                                                         *)
(* IInv speaks of one record at a time.  Rest speaks of the sets the       *)
(* totals are taken over: what an operation does to the records is one of  *)
(* five things (nothing, a flag that does not count, a record more, one    *)
(* adjusted or voided, those of an acquirer erased), and what each does to *)
(* the sums is a lemma of its own.                                         *)
(***************************************************************************)
EXTENDS Totals, FiniteSums

Amounts ==
    /\ log \in [Txn -> Rec \cup {NoRec}]
    /\ held \in [Txn -> Nat]
    /\ unsure \subseteq Txn /\ refused \subseteq Txn /\ fresh \subseteq Txn

(* A record and what its host holds. *)
RecordOK(t) ==
    /\ t \in fresh => log[t] = NoRec
    /\ log[t] = NoRec => held[t] = 0
    /\ log[t] # NoRec =>
        /\ log[t].type = "PREAUTH" => held[t] = 0
        /\ "VOID" \in log[t].flags =>
              held[t] = 0 /\ "NOSEND" \notin log[t].flags /\ "ADJ" \notin log[t].flags
        /\ log[t].type # "PREAUTH" /\ log[t].flags \cap {"NOSEND", "VOID"} = {}
                                  /\ t \notin refused =>
              held[t] = Base[t] + log[t].tip
        /\ {"NOSEND", "ADJ"} \subseteq log[t].flags => log[t].org - Base[t] \in Tip
        /\ t \notin unsure \cup refused /\ held[t] # 0 =>
              /\ held[t] = Base[t] + TipToVoid(t)
              /\ "NOSEND" \in log[t].flags => "ADJ" \in log[t].flags

(* The request on the line, and the record it is about. *)
RequestOK ==
    /\ pc = "void" =>
          /\ req.txn \in Logged \ Has("VOID") /\ log[req.txn].type # "PREAUTH"
          /\ req.amount = Base[req.txn] + TipToVoid(req.txn)
    /\ pc = "offline sent" =>
          /\ req.txn \in Has("NOSEND")
          /\ req.amount = Amount(req.txn) /\ req.org = log[req.txn].org

IInv == Amounts /\ (\A t \in Txn : RecordOK(t)) /\ RequestOK

LEMMA TipsAreAmounts ==
  ASSUME NEW m \in Nat, NEW n \in Tip
  PROVE  m + n \in Nat
<1>1. MaxTip \in Nat
  BY ConstantsAssumption
<1> QED
  BY <1>1 DEF Tip

(* The tip a void restores is one that ValidAdjustAmount allowed. *)
LEMMA TipIsTip ==
  ASSUME IInv, NEW t \in Logged
  PROVE  TipToVoid(t) \in Tip
BY DEF IInv, Amounts, RecordOK, TipToVoid, Logged, Rec

(* Nothing in the other operators moves a record or an amount. *)
LEMMA Unmoved ==
  ASSUME IInv, UNCHANGED <<log, held, unsure, refused, fresh>>, pc' \notin {"void", "offline sent"}
  PROVE  IInv'
BY DEF IInv, Amounts, RecordOK, RequestOK, TipToVoid

LEMMA SaleStep ==
  ASSUME IInv, NEW t \in Txn, NEW type \in {"SALE", "PREAUTH"}, NEW tip \in Tip,
         NEW chip \in BOOLEAN, TransSale(t, type, tip, chip)
  PROVE  IInv'
<1>1. CASE UNCHANGED <<log, held, flow>>
  BY <1>1 DEF TransSale, IInv, Amounts, RecordOK, RequestOK, TipToVoid, flow, history,
     Amount, Has, Logged
<1>2. CASE /\ Save(t, type, tip, Chip({}, chip))
           /\ held' = [held EXCEPT ![t] = IF InSaleTotal(type) THEN Base[t] + tip ELSE 0]
           /\ Feed(AcqOf[t])
  <2> DEFINE r == [type |-> type, tip |-> tip, org |-> 0, flags |-> Chip({}, chip)]
  <2>1. r \in Rec /\ "VOID" \notin r.flags /\ "NOSEND" \notin r.flags
    BY DEF Rec, Type, Chip, Flag
  <2>2. /\ log' = [log EXCEPT ![t] = r] /\ fresh' = fresh \ {t}
        /\ UNCHANGED <<unsure, refused>>
    BY <1>2 DEF TransSale, Save, history
  <2> DEFINE n == IF InSaleTotal(type) THEN Base[t] + tip ELSE 0
  <2>a. n \in Nat
    <3>1. Base[t] \in Nat /\ tip \in Nat
      BY ConstantsAssumption DEF Tip
    <3> QED
      BY <3>1 DEF InSaleTotal
  <2>b. held' = [held EXCEPT ![t] = n]
    BY <1>2
  <2>3. Amounts'
    <3> HIDE DEF n, r
    <3> QED
      BY <2>1, <2>2, <2>a, <2>b DEF IInv, Amounts
  <2>4. RecordOK(t)'
    BY <1>2, <2>1, <2>2, ConstantsAssumption DEF IInv, Amounts, RecordOK, TipToVoid, InSaleTotal
  <2>5. \A u \in Txn \ {t} : RecordOK(u)'
    BY <1>2, <2>2 DEF IInv, Amounts, RecordOK, TipToVoid
  <2>6. RequestOK'
    BY <1>2 DEF Feed, RequestOK
  <2> QED
    BY <2>3, <2>4, <2>5, <2>6 DEF IInv
<1> QED
  BY <1>1, <1>2 DEF TransSale

LEMMA FinishOffLineStep ==
  ASSUME IInv, NEW t \in Txn, NEW type \in Type, NEW tip \in Tip,
         NEW chip \in BOOLEAN, FinishOffLine(t, type, tip, chip)
  PROVE  IInv'
<1> DEFINE r == [type |-> type, tip |-> tip, org |-> 0, flags |-> Chip({"NOSEND"}, chip)]
<1>1. r \in Rec /\ "VOID" \notin r.flags /\ "ADJ" \notin r.flags /\ "NOSEND" \in r.flags
  BY DEF Rec, Type, Chip, Flag
<1>2. log' = [log EXCEPT ![t] = r] /\ fresh' = fresh \ {t} /\ UNCHANGED <<unsure, refused, held, flow>>
  BY DEF FinishOffLine, Save, hosts, history
<1>3. pc = "idle" /\ t \in fresh
  BY DEF FinishOffLine
<1>4. Amounts'
  BY <1>1, <1>2 DEF IInv, Amounts
<1>5. RecordOK(t)'
  BY <1>1, <1>2, <1>3 DEF IInv, Amounts, RecordOK, TipToVoid
<1>6. \A u \in Txn \ {t} : RecordOK(u)'
  BY <1>2 DEF IInv, Amounts, RecordOK, TipToVoid
<1>7. RequestOK'
  BY <1>2, <1>3 DEF flow, RequestOK
<1> QED
  BY <1>4, <1>5, <1>6, <1>7 DEF IInv

LEMMA AdjustStep ==
  ASSUME IInv, NEW t \in Txn, NEW tip \in Tip, TransAdjust(t, tip)
  PROVE  IInv'
<1> DEFINE r == Adjusted(log[t], t, tip)
<1>1. log' = [log EXCEPT ![t] = r] /\ UNCHANGED <<unsure, refused, held, fresh, flow>> /\ pc = "idle"
  BY DEF TransAdjust, hosts, history
<1>2. log[t] \in Rec /\ log[t] # NoRec /\ "VOID" \notin log[t].flags
  BY DEF TransAdjust, GetRecord, IInv, Amounts, Logged, Has
<1>3. Base[t] \in Nat
  BY ConstantsAssumption
<1>4. ASSUME "NOSEND" \in log[t].flags
      PROVE  RecordOK(t)' /\ Amounts'
  <2>1. r = [log[t] EXCEPT !.tip = tip]
    BY <1>4 DEF Adjusted
  <2>2. r \in Rec /\ r.flags = log[t].flags /\ r.org = log[t].org /\ r.type = log[t].type
    BY <1>2, <2>1 DEF Rec
  <2>3. RecordOK(t)'
    BY <1>1, <1>2, <1>4, <2>2, ConstantsAssumption DEF IInv, Amounts, RecordOK, TipToVoid
  <2>4. Amounts'
    BY <1>1, <2>2 DEF IInv, Amounts
  <2> QED
    BY <2>3, <2>4
<1>5. ASSUME "NOSEND" \notin log[t].flags
      PROVE  RecordOK(t)' /\ Amounts'
  <2>1. r = [log[t] EXCEPT !.org = Amount(t), !.flags = log[t].flags \cup {"ADJ", "NOSEND"},
                           !.tip = tip]
    BY <1>5 DEF Adjusted
  <2>a. Amount(t) \in Nat /\ log[t].tip \in Tip /\ Amount(t) = Base[t] + log[t].tip
    BY <1>2, <1>3 DEF Rec, Amount, Tip
  <2>b. log[t].flags \cup {"ADJ", "NOSEND"} \in SUBSET Flag
    BY <1>2 DEF Rec, Flag
  <2>2. /\ r \in Rec /\ r.flags = log[t].flags \cup {"ADJ", "NOSEND"}
        /\ r.org = Base[t] + log[t].tip /\ r.type = log[t].type /\ log[t].tip \in Tip
    BY <1>2, <2>1, <2>a, <2>b DEF Rec
  <2>3. r.org - Base[t] = log[t].tip
    BY <1>3, <2>2 DEF Tip
  <2>4. RecordOK(t)'
    <3>1. RecordOK(t) /\ log'[t] = r /\ r # NoRec
      BY <1>1, <1>2, <2>2, ConstantsAssumption DEF IInv, Amounts
    <3>2. /\ t \notin fresh' /\ held'[t] = held[t]
          /\ (t \in unsure' <=> t \in unsure) /\ (t \in refused' <=> t \in refused)
      BY <1>1, <1>2, <3>1 DEF RecordOK
    <3>3. TipToVoid(t) = log[t].tip /\ TipToVoid(t)' = log[t].tip
      BY <1>5, <2>2, <2>3, <3>1 DEF TipToVoid
    <3> HIDE DEF r
    <3> QED
      BY <1>2, <2>2, <2>3, <3>1, <3>2, <3>3 DEF RecordOK
  <2>5. Amounts'
    BY <1>1, <2>2 DEF IInv, Amounts
  <2> QED
    BY <2>4, <2>5
<1>6. \A u \in Txn \ {t} : RecordOK(u)'
  BY <1>1 DEF IInv, Amounts, RecordOK, TipToVoid
<1>7. RequestOK'
  BY <1>1 DEF flow, RequestOK
<1> QED
  BY <1>4, <1>5, <1>6, <1>7 DEF IInv

LEMMA VoidStep ==
  ASSUME IInv, NEW t \in Txn, TransVoid(t)
  PROVE  IInv'
BY DEF TransVoid, GetRecord, IInv, Amounts, RecordOK, RequestOK, TipToVoid, hosts, history, Logged, Has

LEMMA VoidAnsweredStep ==
  ASSUME IInv, VoidAnswered
  PROVE  IInv'
<1>1. CASE Idle /\ UNCHANGED <<log, held, history>>
  BY <1>1, Unmoved DEF VoidAnswered, Idle, history
<1>2. CASE ~(Idle /\ UNCHANGED <<log, held, history>>)
  <2>0. PICK t \in Txn : t = req.txn
    BY DEF VoidAnswered, IInv, RequestOK, Logged
  <2>1. /\ t \in Txn /\ log[t] # NoRec /\ log[t] \in Rec
        /\ req.amount = Base[t] + TipToVoid(t) /\ TipToVoid(t) \in Tip
    BY <2>0, TipIsTip DEF VoidAnswered, IInv, RequestOK, Logged, Amounts
  <2>2. req.amount - Base[t] \in Tip
    BY <2>1, ConstantsAssumption DEF Tip
  <2> DEFINE r == [log[t] EXCEPT !.tip = req.amount - Base[t],
                                 !.flags = (log[t].flags \ {"ADJ", "NOSEND"}) \cup {"VOID"}]
  <2>3. /\ log' = [log EXCEPT ![t] = r] /\ held' = [held EXCEPT ![t] = 0]
        /\ unsure' = unsure \ {t} /\ refused' = refused \ {t}
        /\ fresh' = fresh /\ pc' \in {"offline", "tc"}
    BY <1>2, <2>0, <2>1 DEF VoidAnswered, Feed, IInv, Amounts
  <2>4. r \in Rec /\ "ADJ" \notin r.flags /\ "NOSEND" \notin r.flags /\ "VOID" \in r.flags
    BY <2>1, <2>2 DEF Rec, Flag
  <2>5. Amounts'
    BY <2>1, <2>3, <2>4 DEF IInv, Amounts
  <2>a. log'[t] = r /\ held'[t] = 0 /\ t \notin fresh' /\ r # NoRec
    BY <2>1, <2>3, <2>4, ConstantsAssumption DEF IInv, Amounts, RecordOK
  <2>6. RecordOK(t)'
    <3> HIDE DEF r
    <3> QED
      BY <2>a, <2>4 DEF RecordOK, TipToVoid
  <2>7. \A u \in Txn \ {t} : RecordOK(u)'
    BY <2>3 DEF IInv, Amounts, RecordOK, TipToVoid
  <2>8. RequestOK'
    BY <2>3 DEF RequestOK
  <2>9. \A u \in Txn : RecordOK(u)'
    BY <2>6, <2>7
  <2> QED
    BY <2>5, <2>8, <2>9 DEF IInv
<1> QED
  BY <1>1, <1>2

LEMMA OfflineSendStep ==
  ASSUME IInv, OfflineSend
  PROVE  IInv'
<1>1. ASSUME NEW t \in Of(cur) \cap Has("NOSEND"), pc' = "offline sent",
             req' = [txn |-> t, amount |-> Amount(t), org |-> log[t].org]
      PROVE  IInv'
  BY <1>1 DEF OfflineSend, IInv, Amounts, RecordOK, RequestOK, TipToVoid, hosts, history, Amount,
              Has, Logged
<1>2. CASE pc' = "tc"
  BY <1>2, Unmoved DEF OfflineSend, hosts, history
<1> QED
  BY <1>1, <1>2 DEF OfflineSend

(* The host takes the amount of the request, or does not: what an upload does. *)
LEMMA Uploaded ==
  ASSUME IInv, pc = "offline sent"
  PROVE  /\ req.txn \in Txn /\ log[req.txn] \in Rec /\ log[req.txn] # NoRec
         /\ "NOSEND" \in log[req.txn].flags /\ "VOID" \notin log[req.txn].flags
         /\ req.txn \notin fresh
         /\ req.amount = Base[req.txn] + log[req.txn].tip /\ req.amount \in Nat
<1>1. /\ req.txn \in Txn /\ log[req.txn] \in Rec /\ log[req.txn] # NoRec
      /\ "NOSEND" \in log[req.txn].flags
      /\ req.amount = Base[req.txn] + log[req.txn].tip
  BY DEF IInv, RequestOK, Has, Logged, Amount, Amounts
<1>4. req.amount \in Nat
  <2>1. PICK t \in Txn : t = req.txn
    BY <1>1
  <2>2. Base[t] \in Nat /\ log[t] \in Rec
    BY <1>1, <2>1, ConstantsAssumption
  <2>3. log[t].tip \in Tip
    BY <2>2 DEF Rec
  <2> QED
    BY <1>1, <2>1, <2>2, <2>3, TipsAreAmounts
<1>5. RecordOK(req.txn)
  BY <1>1 DEF IInv
<1> QED
  BY <1>1, <1>4, <1>5 DEF RecordOK

LEMMA OfflineFailsStep ==
  ASSUME IInv, OfflineFails
  PROVE  IInv'
<1>1. pc = "offline sent" /\ UNCHANGED <<log, fresh>> /\ pc' \in {"idle", "tc"}
  BY DEF OfflineFails, Idle
<1>2. CASE UNCHANGED <<held, unsure, refused>>
  BY <1>1, <1>2, Unmoved
<1>3. CASE /\ held' = [held EXCEPT ![req.txn] = IF InSaleTotal(log[req.txn].type)
                                                THEN req.amount ELSE 0]
           /\ unsure' = unsure \cup ({req.txn} \ refused) /\ refused' = refused
  <2>0. PICK t \in Txn : t = req.txn
    BY <1>1, Uploaded
  <2> DEFINE n == IF InSaleTotal(log[t].type) THEN req.amount ELSE 0
  <2>1. n \in Nat /\ (log[t].type = "PREAUTH" => n = 0)
    BY <1>1, <2>0, Uploaded DEF InSaleTotal
  <2>2. held' = [held EXCEPT ![t] = n] /\ unsure' = unsure \cup ({t} \ refused)
        /\ refused' = refused
    BY <1>3, <2>0
  <2>a. RecordOK(t) /\ log[t] # NoRec /\ "VOID" \notin log[t].flags
    BY <1>1, <2>0, Uploaded DEF IInv
  <2>c. "NOSEND" \in log[t].flags
    BY <1>1, <2>0, Uploaded
  <2>b. held'[t] = n
    BY <2>2 DEF IInv, Amounts
  <2> HIDE DEF n
  <2>3. Amounts'
    BY <1>1, <2>1, <2>2 DEF IInv, Amounts
  <2>4. RecordOK(t)'
    BY <1>1, <2>1, <2>2, <2>a, <2>b, <2>c DEF RecordOK, TipToVoid
  <2>5. \A u \in Txn \ {t} : RecordOK(u)'
    BY <1>1, <2>2 DEF IInv, Amounts, RecordOK, TipToVoid
  <2>6. \A u \in Txn : RecordOK(u)'
    BY <2>4, <2>5
  <2>7. RequestOK'
    BY <1>1 DEF RequestOK
  <2> QED
    BY <2>3, <2>6, <2>7 DEF IInv
<1> QED
  BY <1>2, <1>3 DEF OfflineFails, Taken

LEMMA OfflineAnsweredStep ==
  ASSUME IInv, OfflineAnswered
  PROVE  IInv'
<1>0. PICK t \in Txn : t = req.txn
  BY Uploaded DEF OfflineAnswered
<1> DEFINE n == IF InSaleTotal(log[t].type) THEN req.amount ELSE 0
           r == [log[t] EXCEPT !.flags = log[t].flags \ {"NOSEND"}]
<1>1. /\ t \in Txn /\ log[t] \in Rec /\ log[t] # NoRec /\ "NOSEND" \in log[t].flags
      /\ "VOID" \notin log[t].flags /\ t \notin fresh
      /\ req.amount = Base[t] + log[t].tip /\ req.amount \in Nat
  BY <1>0, Uploaded DEF OfflineAnswered
<1>2. /\ log' = [log EXCEPT ![t] = r] /\ unsure' = unsure \ {t}
      /\ \/ held' = [held EXCEPT ![t] = n] /\ refused' = refused \ {t}
         \/ held' = held /\ refused' = refused \cup {t}
      /\ fresh' = fresh /\ pc' \in {"offline", "tc"}
  BY <1>0, <1>1 DEF OfflineAnswered, TakenOrRefused, Taken, IInv, Amounts
<1>3. /\ n \in Nat /\ (log[t].type = "PREAUTH" => n = 0)
      /\ (n # 0 => n = Base[t] + log[t].tip)
      /\ (log[t].type # "PREAUTH" => n = Base[t] + log[t].tip)
  BY <1>1 DEF InSaleTotal
<1>4. /\ r \in Rec /\ r.flags = log[t].flags \ {"NOSEND"} /\ r.tip = log[t].tip
      /\ r.type = log[t].type
  BY <1>1 DEF Rec
<1>a. RecordOK(t)
  BY DEF IInv
<1> HIDE DEF n, r
<1>5. Amounts'
  BY <1>1, <1>2, <1>3, <1>4 DEF IInv, Amounts
<1>6. /\ log'[t] = r /\ r # NoRec
      /\ (held'[t] = n /\ t \notin refused') \/ (held'[t] = held[t] /\ t \in refused')
  BY <1>1, <1>2, <1>4, ConstantsAssumption DEF IInv, Amounts
<1>7. RecordOK(t)'
  <2>1. CASE held'[t] = n /\ t \notin refused'
    BY <1>1, <1>2, <1>3, <1>4, <1>6, <1>a, <2>1 DEF RecordOK, TipToVoid
  <2>2. CASE held'[t] = held[t] /\ t \in refused'
    BY <1>1, <1>2, <1>4, <1>6, <1>a, <2>2 DEF RecordOK, TipToVoid
  <2> QED
    BY <1>6, <2>1, <2>2
<1>8. \A u \in Txn \ {t} : RecordOK(u)'
  BY <1>1, <1>2 DEF IInv, Amounts, RecordOK, TipToVoid
<1>9. \A u \in Txn : RecordOK(u)'
  BY <1>7, <1>8
<1>10. RequestOK'
  BY <1>2 DEF RequestOK
<1> QED
  BY <1>5, <1>9, <1>10 DEF IInv

LEMMA TransSendTCStep ==
  ASSUME IInv, TransSendTC
  PROVE  IInv'
<1>1. /\ UNCHANGED <<fresh, held, unsure, refused>> /\ pc = "tc" /\ pc' \in {"tc", "settle", "idle"}
  BY DEF TransSendTC, Idle, flow, history
<1>2. ASSUME NEW t \in Of(cur) \cap Has("NEED_TC"),
             log' = [log EXCEPT ![t].flags = Done(@)]
      PROVE  IInv'
  <2> DEFINE r == [log[t] EXCEPT !.flags = Done(log[t].flags)]
  <2>1. t \in Txn /\ log[t] \in Rec /\ log[t] # NoRec
    BY DEF Has, Logged, IInv, Amounts
  <2>2. log' = [log EXCEPT ![t] = r]
    BY <1>2, <2>1 DEF IInv, Amounts
  <2>3. /\ r \in Rec /\ r.type = log[t].type /\ r.tip = log[t].tip /\ r.org = log[t].org
        /\ \A f \in {"NOSEND", "ADJ", "VOID"} : f \in r.flags <=> f \in log[t].flags
    BY <2>1 DEF Rec, Done, Flag
  <2> HIDE DEF r
  <2>4. Amounts'
    BY <1>1, <2>2, <2>3 DEF IInv, Amounts
  <2>5. RecordOK(t)
    BY <2>1 DEF IInv
  <2>6. log'[t] = r /\ r # NoRec
    BY <2>1, <2>2, <2>3, ConstantsAssumption DEF IInv, Amounts
  <2>7. RecordOK(t)'
    BY <1>1, <2>1, <2>3, <2>5, <2>6 DEF RecordOK, TipToVoid
  <2>8. \A u \in Txn \ {t} : RecordOK(u)'
    BY <1>1, <2>2 DEF IInv, Amounts, RecordOK, TipToVoid
  <2>9. RequestOK'
    BY <1>1 DEF RequestOK
  <2> QED
    BY <2>4, <2>7, <2>8, <2>9 DEF IInv
<1>3. CASE log' = log
  BY <1>1, <1>3, Unmoved
<1> QED
  BY <1>2, <1>3 DEF TransSendTC

(* The records of one acquirer are erased, and what its host holds with them. *)
LEMMA ClearRecordStep ==
  ASSUME IInv, ClearRecord, fresh' = fresh, pc' \notin {"void", "offline sent"}
  PROVE  IInv'
<1>1. /\ log' = [u \in Txn |-> IF AcqOf[u] = cur THEN NoRec ELSE log[u]]
      /\ held' = [u \in Txn |-> IF AcqOf[u] = cur THEN 0 ELSE held[u]]
      /\ unsure' = unsure \ Of(cur) /\ refused' = refused \ Of(cur)
  BY DEF ClearRecord
<1>2. Amounts'
  BY <1>1 DEF IInv, Amounts
<1>3. ASSUME NEW u \in Txn
      PROVE  RecordOK(u)'
  <2>1. CASE AcqOf[u] = cur
    BY <1>1, <2>1 DEF RecordOK
  <2>2. CASE AcqOf[u] # cur
    <3>1. /\ log'[u] = log[u] /\ held'[u] = held[u]
          /\ (u \in unsure' <=> u \in unsure) /\ (u \in refused' <=> u \in refused)
      BY <1>1, <2>2 DEF Of
    <3> QED
      BY <3>1 DEF IInv, RecordOK, TipToVoid
  <2> QED
    BY <2>1, <2>2
<1> QED
  BY <1>2, <1>3 DEF IInv, RequestOK

LEMMA SettlementStep ==
  ASSUME IInv,
         \/ \E chosen \in SUBSET Acq : TransSettle(chosen)
         \/ TransSettleSub \/ TransUpLoad \/ ReSettle
  PROVE  IInv'
<1>1. ASSUME NEW chosen \in SUBSET Acq, TransSettle(chosen)
      PROVE  IInv'
  BY <1>1, Unmoved DEF TransSettle, hosts, history
<1>2. NextAcq => pc' \in {"idle", "offline"}
  BY DEF NextAcq, Idle
<1>3. CASE TransSettleSub
  <2>1. fresh' = fresh /\ pc' \in {"idle", "offline", "upload"}
    BY <1>2, <1>3 DEF TransSettleSub, Idle
  <2>2. CASE ClearRecord
    BY <2>1, <2>2, ClearRecordStep
  <2>3. CASE UNCHANGED <<log, held, history>>
    BY <2>1, <2>3, Unmoved DEF history
  <2> QED
    BY <1>3, <2>2, <2>3 DEF TransSettleSub, hosts, history
<1>4. CASE TransUpLoad
  <2>1. UNCHANGED <<log, held, unsure, refused, fresh>> /\ pc' \in {"idle", "upload", "resettle"}
    BY <1>4 DEF TransUpLoad, Idle, history
  <2> QED
    BY <2>1, Unmoved
<1>5. CASE ReSettle
  <2>1. fresh' = fresh /\ pc' \in {"idle", "offline"}
    BY <1>2, <1>5 DEF ReSettle, Idle
  <2>2. CASE ClearRecord
    BY <2>1, <2>2, ClearRecordStep
  <2>3. CASE UNCHANGED <<log, held, history>>
    BY <2>1, <2>3, Unmoved DEF history
  <2> QED
    BY <1>5, <2>2, <2>3 DEF ReSettle
<1> QED
  BY <1>1, <1>3, <1>4, <1>5

LEMMA InitIInv ==
  ASSUME Init
  PROVE  IInv
BY DEF Init, IInv, Amounts, RecordOK, RequestOK

LEMMA NextIInv ==
  ASSUME IInv, [Next]_vars
  PROVE  IInv'
<1>1. ASSUME NEW chosen \in SUBSET Acq, TransSettle(chosen)
      PROVE  IInv'
  BY <1>1, SettlementStep
<1>2. TransSettle(Acq) \/ (\E a \in Acq : TransSettle({a})) =>
        \E chosen \in SUBSET Acq : TransSettle(chosen)
  <2>1. Acq \in SUBSET Acq /\ \A a \in Acq : {a} \in SUBSET Acq
    OBVIOUS
  <2> QED
    BY <2>1
<1>3. CASE UNCHANGED vars
  BY <1>3 DEF vars, IInv, Amounts, RecordOK, RequestOK, TipToVoid, Has, Logged, Amount
<1> QED
  BY <1>1, <1>2, <1>3, SaleStep, FinishOffLineStep, AdjustStep, VoidStep, VoidAnsweredStep,
     OfflineSendStep, OfflineFailsStep, OfflineAnsweredStep, TransSendTCStep, SettlementStep
  DEF Next

(* The inductive invariant of TransAdjust, TransVoid and OfflineSend: a record  *)
(* the host holds is held at the amount a void of it would name, as long as     *)
(* every upload of it was answered, and none refused.                           *)
THEOREM Invariance == Spec => []IInv
BY InitIInv, NextIInv, PTL DEF Spec

(* TransVoid, Transproc.c:1457-1464, and the request TranProcess sends: a void *)
(* names the amount the host holds, whatever adjustment is still unsent, as     *)
(* long as every upload of the record was answered, and none refused.           *)
THEOREM VoidsNameHeldAmount == Spec => []VoidNamesHeldAmount
<1>1. IInv => VoidNamesHeldAmount
  BY DEF IInv, RequestOK, RecordOK, VoidNamesHeldAmount, Logged
<1> QED
  BY <1>1, Invariance, PTL

(* OfflineSend, Transproc.c:1148-1160: the advice of an adjustment names in     *)
(* field 60 the amount the host holds, however often the record was adjusted    *)
(* in between, under the same condition.                                        *)
THEOREM AdvicesNameHeldAmount == Spec => []AdviceNamesHeldAmount
<1>1. ASSUME IInv, pc = "offline sent", "ADJ" \in log[req.txn].flags,
             req.txn \notin unsure \cup refused, held[req.txn] # 0
      PROVE  held[req.txn] = req.org
  <2> DEFINE t == req.txn
  <2>1. /\ t \in Txn /\ log[t] \in Rec /\ log[t] # NoRec /\ "NOSEND" \in log[t].flags
        /\ req.org = log[t].org
    BY <1>1, Uploaded DEF IInv, RequestOK
  <2>2. /\ held[t] = Base[t] + TipToVoid(t) /\ log[t].org - Base[t] \in Tip
        /\ TipToVoid(t) = log[t].org - Base[t]
    BY <1>1, <2>1 DEF IInv, RecordOK, TipToVoid
  <2>3. Base[t] \in Nat /\ log[t].org \in Nat
    BY <2>1, ConstantsAssumption DEF Rec
  <2> QED
    BY <2>1, <2>2, <2>3 DEF Tip
<1>2. IInv => AdviceNamesHeldAmount
  BY <1>1 DEF AdviceNamesHeldAmount
<1> QED
  BY <1>2, Invariance, PTL
------------------------------------------------------------------------------
(* The records and the certificates. *)
Books == IsFiniteSet(Logged) /\ certs \subseteq Logged /\ Has("ALREADY_TC") \subseteq certs

(* Where the program is. *)
Flow ==
    /\ pc \in {"idle", "void", "offline", "offline sent", "tc", "settle", "upload", "resettle"}
    /\ job \in {"feed", "settle"}
    /\ pc \in {"settle", "upload", "resettle"} => job = "settle"
    /\ pc \in {"idle", "void"} => job = "feed"
    /\ todo \subseteq Acq /\ (pc # "idle" => todo # {})

(* The totals of a settlement, for the acquirers still to be served. *)
AddsUp(a) ==
    /\ total[a].saleCnt = Cardinality(Of(a) \cap Sales)
    /\ total[a].saleAmt = SumFunctionOnSet(amounts, Of(a) \cap Sales)
    /\ total[a].tcCnt <= Cardinality(certs \cap Of(a))

Settling ==
    job = "settle" =>
        /\ \A a \in todo : AddsUp(a)
        /\ pc \in {"tc", "settle"} => Of(cur) \cap Has("NOSEND") = {}

(* The batch a host has, and the records still to be uploaded to it. *)
Uploading ==
    pc \in {"upload", "resettle"} =>
        /\ left \subseteq Of(cur) \cap Sales /\ (pc = "resettle" => left = {})
        /\ batch.cnt + Cardinality(left) = Cardinality(Of(cur) \cap Sales)
        /\ batch.amt + SumFunctionOnSet(amounts, left)
             = SumFunctionOnSet(amounts, Of(cur) \cap Sales)

(* What ChkSettle limits: a voice referral counts without its tip. *)
gated == [t \in Logged |-> IF log[t].type = "SALE_COMP" THEN Base[t] ELSE Amount(t)]
BelowLimit ==
    \E t \in Txn : SumFunctionOnSet(gated, Sales) < MaxSettleAmt + Base[t] + MaxTip

Registers ==
    /\ status \in [Acq -> {"S_USE", "S_PENDING"}]
    /\ total \in [Acq -> Total]
    /\ req \in [txn: Txn \cup {NoTxn}, amount: Nat, org: Nat]
    /\ left \subseteq Txn
    /\ batch \in [cnt: Nat, amt: Nat]

LEMMA Finite ==
  ASSUME Books
  PROVE  /\ IsFiniteSet(Logged) /\ IsFiniteSet(Sales) /\ Sales \subseteq Logged
         /\ Counted \subseteq Logged /\ IsFiniteSet(Counted)
         /\ \A flag : Has(flag) \subseteq Logged
<1>1. Counted \subseteq Logged /\ Sales \subseteq Logged /\ \A flag : Has(flag) \subseteq Logged
  BY DEF Counted, Sales, Has
<1>2. IsFiniteSet(Logged)
  BY DEF Books
<1> QED
  BY <1>1, <1>2, FS_Subset

LEMMA AmountsAreNat ==
  ASSUME Amounts, NEW t \in Logged
  PROVE  /\ t \in Txn /\ Base[t] \in Nat \ {0} /\ log[t] \in Rec /\ log[t].tip \in Tip
         /\ Amount(t) = Base[t] + log[t].tip
         /\ Amount(t) \in Nat \ {0} /\ amounts[t] = Amount(t)
         /\ gated[t] \in Nat /\ gated[t] <= amounts[t]
<1>1. t \in Txn /\ log[t] \in Rec /\ log[t].tip \in Tip
  BY DEF Amounts, Logged, Rec
<1>2. Base[t] \in Nat \ {0} /\ log[t].tip \in Nat
  BY <1>1, ConstantsAssumption DEF Tip
<1>3. Amount(t) = Base[t] + log[t].tip /\ amounts[t] = Amount(t)
  BY DEF Amount, amounts
<1>4. Amount(t) \in Nat \ {0} /\ Base[t] <= Amount(t) /\ Amount(t) <= Amount(t)
  BY <1>2, <1>3
<1>5. gated[t] = Base[t] \/ gated[t] = Amount(t)
  BY DEF gated
<1> QED
  BY <1>1, <1>2, <1>3, <1>4, <1>5

LEMMA SumsAreNat ==
  ASSUME Amounts, Books, NEW S, S \subseteq Logged
  PROVE  /\ IsFiniteSet(S) /\ Cardinality(S) \in Nat
         /\ SumFunctionOnSet(amounts, S) \in Nat /\ SumFunctionOnSet(gated, S) \in Nat
         /\ SumFunctionOnSet(gated, S) <= SumFunctionOnSet(amounts, S)
<1>1. IsFiniteSet(S) /\ Cardinality(S) \in Nat
  BY FS_Subset, FS_CardinalityType DEF Books
<1>2. \A s \in S : gated[s] \in Nat /\ amounts[s] \in Nat /\ gated[s] <= amounts[s]
  BY AmountsAreNat
<1> QED
  BY <1>1, <1>2, SumIsNat, SumMonotone

(* The totals of any set of transactions. *)
LEMMA TotalsAreTyped ==
  ASSUME Amounts, Books, NEW S
  PROVE  CalcTotal(S) \in Total
<1>1. /\ S \cap Sales \subseteq Logged /\ (S \cap Counted) \ Sales \subseteq Logged
      /\ S \cap Has("ALREADY_TC") \subseteq Logged
  BY Finite
<1>2. /\ Cardinality(S \cap Sales) \in Nat /\ Cardinality((S \cap Counted) \ Sales) \in Nat
      /\ Cardinality(S \cap Has("ALREADY_TC")) \in Nat
      /\ SumFunctionOnSet(amounts, S \cap Sales) \in Nat
  BY <1>1, SumsAreNat
<1> QED
  BY <1>2 DEF CalcTotal, Total

------------------------------------------------------------------------------
(* What an operation does to the records: nothing, or flags that do not count. *)
Unchanged == Logged' = Logged /\ Sales' = Sales /\ amounts' = amounts /\ gated' = gated

LEMMA LogUntouched ==
  ASSUME log' = log
  PROVE  /\ Unchanged /\ \A flag : Has(flag)' = Has(flag)
BY DEF Unchanged, Logged, Sales, Counted, Has, amounts, Amount, gated

LEMMA FlagsChanged ==
  ASSUME Amounts, NEW t \in Logged, NEW r \in Rec, log' = [log EXCEPT ![t] = r],
         r.type = log[t].type, r.tip = log[t].tip,
         "VOID" \in r.flags <=> "VOID" \in log[t].flags
  PROVE  /\ Unchanged
         /\ \A flag : Has(flag)' = IF flag \in r.flags THEN Has(flag) \cup {t}
                                                       ELSE Has(flag) \ {t}
<1>1. /\ \A u \in Txn : log'[u] = IF u = t THEN r ELSE log[u]
      /\ t \in Txn /\ log[t] # NoRec /\ r # NoRec
  BY ConstantsAssumption DEF Amounts, Logged
<1>2. Logged' = Logged
  BY <1>1 DEF Logged
<1>3. Sales' = Sales
  BY <1>1, <1>2 DEF Sales, Counted, Has, Logged
<1>4. amounts' = amounts
  <2>1. \A u \in Logged : Amount(u)' = Amount(u)
    BY <1>1 DEF Amount, Logged
  <2> QED
    BY <1>2, <2>1 DEF amounts
<1>5. gated' = gated
  <2>1. \A u \in Logged : Amount(u)' = Amount(u) /\ log'[u].type = log[u].type
    BY <1>1 DEF Amount, Logged
  <2> QED
    BY <1>2, <2>1 DEF gated
<1>6. \A flag : Has(flag)' = IF flag \in r.flags THEN Has(flag) \cup {t} ELSE Has(flag) \ {t}
  BY <1>1, <1>2 DEF Has, Logged
<1> QED
  BY <1>2, <1>3, <1>4, <1>5, <1>6 DEF Unchanged

LEMMA LimitKept ==
  ASSUME BelowLimit, Unchanged
  PROVE  BelowLimit'
BY DEF BelowLimit, Unchanged

(* The certificates the hosts have and those ticked off. *)
LEMMA BooksKept ==
  ASSUME Books, Unchanged, certs \subseteq certs', certs' \subseteq Logged,
         Has("ALREADY_TC")' \subseteq certs'
  PROVE  Books'
BY DEF Books, Unchanged

(* The totals computed for an acquirer stay those of its records. *)
LEMMA AddsUpKept ==
  ASSUME Books, Unchanged, certs \subseteq certs', certs' \subseteq Logged, total' = total,
         NEW a, AddsUp(a),
         total[a].tcCnt \in Nat
  PROVE  AddsUp(a)'
<1>1. Cardinality(certs \cap Of(a)) <= Cardinality(certs' \cap Of(a))
      /\ Cardinality(certs \cap Of(a)) \in Nat /\ Cardinality(certs' \cap Of(a)) \in Nat
  <2>1. IsFiniteSet(certs' \cap Of(a)) /\ certs \cap Of(a) \subseteq certs' \cap Of(a)
    BY FS_Subset DEF Books
  <2> QED
    BY <2>1, FS_Subset, FS_CardinalityType
<1>2. total[a].tcCnt <= Cardinality(certs' \cap Of(a))
  BY <1>1 DEF AddsUp
<1> QED
  BY <1>2 DEF AddsUp, Unchanged, Of

------------------------------------------------------------------------------
(* What an operation does to the records: one is added, adjusted, voided, or *)
(* those of an acquirer are erased.                                          *)
LEMMA BatchBelowLimit ==
  ASSUME Amounts, Books, NEW a, NEW type \in {"SALE", "OFF_SALE", "VOID"}, ChkSettle(a, type)
  PROVE  SumFunctionOnSet(gated, Sales) < MaxSettleAmt
<1>1. Txn \cap Sales = Sales
  BY DEF Sales, Counted, Logged
<1>2. PubAsc2Long(SumFunctionOnSet(amounts, Sales)) < MaxSettleAmt
  BY <1>1 DEF ChkSettle, CalcTotal
<1>3. /\ SumFunctionOnSet(amounts, Sales) \in Nat /\ SumFunctionOnSet(gated, Sales) \in Nat
      /\ SumFunctionOnSet(gated, Sales) <= SumFunctionOnSet(amounts, Sales)
  BY Finite, SumsAreNat
<1>4. SumFunctionOnSet(amounts, Sales) < MaxSettleAmt
  BY <1>2, <1>3, ConstantsAssumption DEF PubAsc2Long
<1> QED
  BY <1>3, <1>4, ConstantsAssumption

LEMMA RecordAdded ==
  ASSUME Amounts, Books, BelowLimit, certs' = certs,
         NEW t \in Txn, log[t] = NoRec, NEW r \in Rec, log' = [log EXCEPT ![t] = r],
         "ALREADY_TC" \notin r.flags, "VOID" \notin r.flags,
         r.type # "PREAUTH" => SumFunctionOnSet(gated, Sales) < MaxSettleAmt
  PROVE  Books' /\ BelowLimit'
<1>1. /\ \A u \in Txn : log'[u] = IF u = t THEN r ELSE log[u]
      /\ r # NoRec /\ log' \in [Txn -> Rec \cup {NoRec}]
  BY ConstantsAssumption DEF Amounts
<1>2. t \notin Logged /\ Logged' = Logged \cup {t}
  BY <1>1 DEF Logged
<1>3. Has("ALREADY_TC")' = Has("ALREADY_TC")
  BY <1>1, <1>2 DEF Has, Logged
<1>4. IsFiniteSet(Logged')
  BY <1>2, FS_AddElement DEF Books
<1>5. Books'
  BY <1>2, <1>3, <1>4 DEF Books
<1>6. ASSUME NEW u \in Logged
      PROVE  gated'[u] = gated[u] /\ u \in Logged' /\ gated[u] \in Nat
  <2>1. u \in Txn /\ u \in Logged' /\ log'[u] = log[u]
    BY <1>1, <1>2 DEF Logged
  <2> QED
    BY <1>6, <2>1, AmountsAreNat DEF gated, Amount
<1>7. /\ IsFiniteSet(Sales) /\ Sales \subseteq Logged /\ t \notin Sales
      /\ SumFunctionOnSet(gated, Sales) \in Nat
  BY <1>2, Finite, SumsAreNat
<1>8. SumFunctionOnSet(gated', Sales) = SumFunctionOnSet(gated, Sales)
  BY <1>6, <1>7, SumEqual
<1>9. CASE r.type = "PREAUTH"
  <2>1. Sales' = Sales
    BY <1>1, <1>2, <1>9 DEF Sales, Counted, Has, Logged, InSaleTotal
  <2> QED
    BY <1>5, <1>8, <2>1 DEF BelowLimit
<1>10. CASE r.type # "PREAUTH"
  <2>1. Sales' = Sales \cup {t}
    BY <1>1, <1>2, <1>10 DEF Sales, Counted, Has, Logged, InSaleTotal
  <2>2. /\ gated'[t] \in Nat /\ gated'[t] <= Base[t] + MaxTip /\ Base[t] \in Nat
        /\ MaxTip \in Nat
    <3>1. r.tip \in Nat /\ r.tip <= MaxTip /\ Base[t] \in Nat /\ MaxTip \in Nat
      BY ConstantsAssumption DEF Rec, Tip
    <3>2. gated'[t] = Base[t] \/ gated'[t] = Base[t] + r.tip
      BY <1>1, <1>2 DEF gated, Amount
    <3> QED
      BY <3>1, <3>2
  <2>3. SumFunctionOnSet(gated', Sales') = gated'[t] + SumFunctionOnSet(gated', Sales)
    <3>1. \A u \in Sales : gated'[u] \in Nat
      BY <1>6, <1>7
    <3> QED
      BY <1>7, <2>1, <2>2, <3>1, SumAdd
  <2>4. SumFunctionOnSet(gated', Sales') < MaxSettleAmt + Base[t] + MaxTip
    BY <1>7, <1>8, <1>10, <2>2, <2>3, ConstantsAssumption
  <2> QED
    BY <1>5, <2>4 DEF BelowLimit
<1> QED
  BY <1>5, <1>9, <1>10

LEMMA RecordAdjusted ==
  ASSUME Amounts, Books, BelowLimit, certs' = certs,
         NEW t \in Logged, NEW r \in Rec, log' = [log EXCEPT ![t] = r],
         r.type = log[t].type, "VOID" \notin r.flags, "VOID" \notin log[t].flags,
         "ALREADY_TC" \in r.flags <=> "ALREADY_TC" \in log[t].flags,
         r.type \in {"SALE", "OFF_SALE"} => SumFunctionOnSet(gated, Sales) < MaxSettleAmt
  PROVE  Books' /\ BelowLimit'
<1>1. /\ \A u \in Txn : log'[u] = IF u = t THEN r ELSE log[u]
      /\ r # NoRec /\ log' \in [Txn -> Rec \cup {NoRec}]
      /\ t \in Txn /\ log[t] # NoRec
  BY ConstantsAssumption DEF Amounts, Logged
<1>2. Logged' = Logged
  BY <1>1 DEF Logged
<1>3. Sales' = Sales /\ Has("ALREADY_TC")' = Has("ALREADY_TC")
  BY <1>1, <1>2 DEF Sales, Counted, Has, Logged
<1>4. Books'
  BY <1>2, <1>3 DEF Books
<1>6. ASSUME NEW u \in Logged, u # t
      PROVE  gated'[u] = gated[u]
  <2>1. u \in Txn /\ u \in Logged' /\ log'[u] = log[u]
    BY <1>1, <1>2, <1>6 DEF Logged
  <2> QED
    BY <1>6, <2>1 DEF gated, Amount
<1>7. IsFiniteSet(Sales) /\ Sales \subseteq Logged /\ SumFunctionOnSet(gated, Sales) \in Nat
  BY Finite, SumsAreNat
<1>8. /\ Base[t] \in Nat /\ r.tip \in Nat /\ r.tip <= MaxTip /\ log[t].tip \in Nat
      /\ MaxTip \in Nat
  BY <1>1, ConstantsAssumption DEF Amounts, Rec, Tip
<1>9. /\ gated[t] = IF r.type = "SALE_COMP" THEN Base[t] ELSE Base[t] + log[t].tip
      /\ gated'[t] = IF r.type = "SALE_COMP" THEN Base[t] ELSE Base[t] + r.tip
  BY <1>1, <1>2 DEF gated, Amount
<1>10. \A u \in Sales : gated[u] \in Nat /\ gated'[u] \in Nat
  <2>1. \A u \in Logged : gated[u] \in Nat
    BY AmountsAreNat
  <2> QED
    BY <1>6, <1>7, <1>8, <1>9, <2>1
<1>11. CASE t \in Sales /\ r.type \in {"SALE", "OFF_SALE"}
  <2>1. SumFunctionOnSet(gated', Sales) + gated[t] = SumFunctionOnSet(gated, Sales) + gated'[t]
    BY <1>6, <1>7, <1>10, <1>11, SumChange
  <2>2. SumFunctionOnSet(gated', Sales) \in Nat
    BY <1>7, <1>10, SumIsNat
  <2>3. SumFunctionOnSet(gated', Sales) < MaxSettleAmt + Base[t] + MaxTip
    BY <1>7, <1>8, <1>9, <1>11, <2>1, <2>2, ConstantsAssumption
  <2> QED
    BY <1>1, <1>3, <1>4, <2>3 DEF BelowLimit
<1>12. CASE ~(t \in Sales /\ r.type \in {"SALE", "OFF_SALE"})
  <2>1. r.type = "PREAUTH" => t \notin Sales
    BY <1>1 DEF Sales, Counted, InSaleTotal
  <2>2. r.type = "SALE_COMP" => gated'[t] = gated[t]
    BY <1>9
  <2>3. r.type \in Type
    BY DEF Rec
  <2>4. \A u \in Sales : gated[u] = gated'[u]
    BY <1>6, <1>7, <1>12, <2>1, <2>2, <2>3 DEF Type
  <2>5. SumFunctionOnSet(gated', Sales) = SumFunctionOnSet(gated, Sales)
    BY <1>7, <2>4, SumEqual
  <2> QED
    BY <1>3, <1>4, <2>5 DEF BelowLimit
<1> QED
  BY <1>4, <1>11, <1>12

(* Records leave the sales, and count for the others as before. *)
LEMMA SalesLeave ==
  ASSUME Amounts, Books, BelowLimit, Logged' \subseteq Logged, Sales' \subseteq Sales,
         \A u \in Sales' : log'[u] = log[u]
  PROVE  BelowLimit'
<1>1. \A u \in Sales' : gated'[u] = gated[u]
  <2>1. \A u \in Sales' : u \in Logged /\ u \in Logged'
    BY DEF Sales, Counted
  <2> QED
    BY <2>1 DEF gated, Amount
<1>2. IsFiniteSet(Sales) /\ Sales \subseteq Logged
  BY Finite
<1>3. IsFiniteSet(Sales') /\ \A u \in Sales : gated[u] \in Nat
  BY <1>2, FS_Subset, AmountsAreNat
<1>4. SumFunctionOnSet(gated', Sales') = SumFunctionOnSet(gated, Sales')
  BY <1>1, <1>3, SumEqual
<1>5. SumFunctionOnSet(gated, Sales') <= SumFunctionOnSet(gated, Sales)
  BY <1>2, <1>3, SumOfSubset
<1>6. SumFunctionOnSet(gated, Sales') \in Nat /\ SumFunctionOnSet(gated, Sales) \in Nat
  BY <1>2, <1>3, SumIsNat
<1>7. PICK t \in Txn : SumFunctionOnSet(gated, Sales) < MaxSettleAmt + Base[t] + MaxTip
  BY DEF BelowLimit
<1>8. SumFunctionOnSet(gated', Sales') < MaxSettleAmt + Base[t] + MaxTip
  BY <1>4, <1>5, <1>6, <1>7, ConstantsAssumption
<1> QED
  BY <1>8 DEF BelowLimit

LEMMA RecordVoided ==
  ASSUME Amounts, Books, BelowLimit, certs' = certs,
         NEW t \in Logged, NEW r \in Rec, log' = [log EXCEPT ![t] = r],
         "VOID" \in r.flags, "ALREADY_TC" \in r.flags <=> "ALREADY_TC" \in log[t].flags
  PROVE  Books' /\ BelowLimit'
<1>1. /\ \A u \in Txn : log'[u] = IF u = t THEN r ELSE log[u]
      /\ r # NoRec /\ t \in Txn /\ log[t] # NoRec
  BY ConstantsAssumption DEF Amounts, Logged
<1>2. Logged' = Logged
  BY <1>1 DEF Logged
<1>3. Has("ALREADY_TC")' = Has("ALREADY_TC")
  BY <1>1, <1>2 DEF Has, Logged
<1>4. t \notin Sales' /\ Sales' \subseteq Sales
  BY <1>1, <1>2 DEF Sales, Counted, Has, Logged
<1>5. \A u \in Sales' : log'[u] = log[u]
  BY <1>1, <1>2, <1>4 DEF Sales, Counted, Logged
<1>6. Books'
  BY <1>2, <1>3 DEF Books
<1> QED
  BY <1>2, <1>4, <1>5, <1>6, SalesLeave

LEMMA RecordsErased ==
  ASSUME Amounts, Books, BelowLimit, ClearRecord
  PROVE  /\ Books' /\ BelowLimit'
         /\ \A a \in Acq \ {cur} : AddsUp(a) /\ total' = total => AddsUp(a)'
<1>1. /\ \A u \in Txn : log'[u] = IF AcqOf[u] = cur THEN NoRec ELSE log[u]
      /\ certs' = certs \ Of(cur)
  BY DEF ClearRecord
<1>2. Logged' = Logged \ Of(cur)
  BY <1>1 DEF Logged, Of
<1>3. Has("ALREADY_TC")' = Has("ALREADY_TC") \ Of(cur)
  BY <1>1, <1>2 DEF Has, Logged, Of
<1>4. Sales' = Sales \ Of(cur)
  BY <1>1, <1>2 DEF Sales, Counted, Has, Logged, Of
<1>5. IsFiniteSet(Logged')
  BY <1>2, FS_Subset DEF Books
<1>6. Books'
  BY <1>1, <1>2, <1>3, <1>5 DEF Books
<1>7. \A u \in Logged' : log'[u] = log[u] /\ u \in Logged
  BY <1>1, <1>2 DEF Logged, Of
<1>8. Sales' \subseteq Logged' /\ Sales' \subseteq Sales
  BY <1>4 DEF Sales, Counted
<1>9. BelowLimit'
  BY <1>2, <1>7, <1>8, SalesLeave
<1>10. ASSUME NEW a \in Acq \ {cur}, AddsUp(a), total' = total
       PROVE  AddsUp(a)'
  <2> DEFINE S == Of(a) \cap Sales
  <2>1. Of(a)' = Of(a) /\ Of(a) \cap Of(cur) = {}
    BY DEF Of
  <2>2. Of(a) \cap Sales' = S /\ certs' \cap Of(a) = certs \cap Of(a)
    BY <1>1, <1>4, <2>1
  <2>3. IsFiniteSet(S) /\ S \subseteq Logged'
    BY <1>8, <2>2, Finite, FS_Subset
  <2>4. \A u \in S : amounts'[u] = amounts[u]
    BY <1>7, <2>3 DEF amounts, Amount
  <2> HIDE DEF S
  <2>5. SumFunctionOnSet(amounts', S) = SumFunctionOnSet(amounts, S)
    BY <2>3, <2>4, SumEqual
  <2> QED
    BY <1>10, <2>1, <2>2, <2>5 DEF AddsUp, S
<1> QED
  BY <1>6, <1>9, <1>10

------------------------------------------------------------------------------
(* Where the program goes. *)
Course == Flow /\ Settling /\ Uploading /\ Registers

LEMMA CurIsServed ==
  ASSUME Flow, pc # "idle"
  PROVE  cur \in todo /\ cur \in Acq
<1>1. todo \subseteq Nat /\ todo # {}
  <2>1. Acq \subseteq Nat
    BY ConstantsAssumption DEF Acq
  <2> QED
    BY <2>1 DEF Flow
<1>2. cur \in todo
  BY <1>1, MinIsLeast DEF cur
<1> QED
  BY <1>2 DEF Flow

LEMMA GoesIdle ==
  ASSUME Registers, Idle, status' \in [Acq -> {"S_USE", "S_PENDING"}],
         batch' \in [cnt: Nat, amt: Nat]
  PROVE  Course'
<1>1. NoTotal \in Total
  BY DEF NoTotal, Total
<1>2. Registers'
  BY <1>1 DEF Registers, Idle, NoTotals, NoRequest
<1> QED
  BY <1>2 DEF Idle, Course, Flow, Settling, Uploading

LEMMA GoesFeeding ==
  ASSUME Registers, NEW a \in Acq, Feed(a), UNCHANGED <<status, batch>>
  PROVE  Course'
BY DEF Registers, Feed, NoRequest, Course, Flow, Settling, Uploading

LEMMA StaysFeeding ==
  ASSUME Flow, Registers, pc = "idle", UNCHANGED <<flow, status, batch>>
  PROVE  Course'
BY DEF Registers, flow, Course, Flow, Settling, Uploading

LEMMA GoesOn ==
  ASSUME Flow, Registers, NextAcq, job = "settle", pc # "idle",
         status' \in [Acq -> {"S_USE", "S_PENDING"}], batch' \in [cnt: Nat, amt: Nat],
         \A a \in todo \ {cur} : total' = total => AddsUp(a)'
  PROVE  Course'
<1>1. CASE todo = {cur}
  BY <1>1, GoesIdle DEF NextAcq
<1>2. CASE todo # {cur}
  <2>1. /\ todo' = todo \ {cur} /\ pc' = "offline" /\ req' = NoRequest
        /\ UNCHANGED <<job, total, left>>
    BY <1>2 DEF NextAcq
  <2>2. todo' # {} /\ todo' \subseteq Acq
    BY <1>2, <2>1, CurIsServed DEF Flow
  <2>3. Flow' /\ Uploading' /\ Registers'
    BY <2>1, <2>2 DEF Flow, Uploading, Registers, NoRequest
  <2>4. Settling'
    BY <2>1 DEF Settling
  <2> QED
    BY <2>3, <2>4 DEF Course
<1> QED
  BY <1>1, <1>2

------------------------------------------------------------------------------
(* One operation at a time. *)
Rest == Books /\ BelowLimit /\ Course

LEMMA RestUnchanged ==
  ASSUME IInv, Rest, UNCHANGED <<log, flow, status, certs, batch>>
  PROVE  Rest'
<1>1. Books' /\ BelowLimit'
  BY LogUntouched, BooksKept, LimitKept DEF Rest, Books
<1>2. Unchanged /\ Has("NOSEND")' = Has("NOSEND") /\ cur' = cur
  BY LogUntouched DEF flow, cur
<1>3. \A a : AddsUp(a)' <=> AddsUp(a)
  BY <1>2 DEF AddsUp, Unchanged, Of, flow
<1>4. Settling'
  BY <1>2, <1>3 DEF Rest, Course, Settling, flow, Of
<1>5. Uploading'
  BY <1>2 DEF Rest, Course, Uploading, Unchanged, flow, Of
<1>6. Flow' /\ Registers'
  BY DEF Rest, Course, Flow, Registers, flow
<1> QED
  BY <1>1, <1>4, <1>5, <1>6 DEF Rest, Course

LEMMA SaleRest ==
  ASSUME IInv, Rest, NEW t \in Txn, NEW type \in {"SALE", "PREAUTH"}, NEW tip \in Tip,
         NEW chip \in BOOLEAN, TransSale(t, type, tip, chip)
  PROVE  Rest'
<1>1. CASE UNCHANGED <<log, held, flow>>
  BY <1>1, RestUnchanged DEF TransSale
<1>2. CASE Save(t, type, tip, Chip({}, chip)) /\ Feed(AcqOf[t])
  <2> DEFINE r == [type |-> type, tip |-> tip, org |-> 0, flags |-> Chip({}, chip)]
  <2>1. /\ r \in Rec /\ "ALREADY_TC" \notin r.flags /\ "VOID" \notin r.flags
        /\ r.type = type
    BY DEF Rec, Type, Chip, Flag
  <2>2. /\ log' = [log EXCEPT ![t] = r] /\ log[t] = NoRec
        /\ UNCHANGED <<status, certs, batch>> /\ ChkSettle(AcqOf[t], type)
    BY <1>2 DEF TransSale, Save, IInv, RecordOK
  <2> HIDE DEF r
  <2>3. type # "PREAUTH" => SumFunctionOnSet(gated, Sales) < MaxSettleAmt
    BY <2>2, BatchBelowLimit DEF IInv, Rest
  <2>4. Books' /\ BelowLimit'
    BY <2>1, <2>2, <2>3, RecordAdded DEF IInv, Rest
  <2>5. Course'
    BY <1>2, <2>2, GoesFeeding, ConstantsAssumption DEF Rest, Course
  <2> QED
    BY <2>4, <2>5 DEF Rest
<1> QED
  BY <1>1, <1>2 DEF TransSale

LEMMA FinishOffLineRest ==
  ASSUME IInv, Rest, NEW t \in Txn, NEW type \in Type, NEW tip \in Tip,
         NEW chip \in BOOLEAN, FinishOffLine(t, type, tip, chip)
  PROVE  Rest'
<1> DEFINE r == [type |-> type, tip |-> tip, org |-> 0, flags |-> Chip({"NOSEND"}, chip)]
<1>1. /\ r \in Rec /\ "ALREADY_TC" \notin r.flags /\ "VOID" \notin r.flags /\ r.type = type
  BY DEF Rec, Type, Chip, Flag
<1>2. /\ log' = [log EXCEPT ![t] = r] /\ log[t] = NoRec /\ pc = "idle"
      /\ UNCHANGED <<flow, status, certs, batch>>
      /\ ChkSettle(AcqOf[t], IF type = "SALE_COMP" THEN "SALE" ELSE type)
  BY DEF FinishOffLine, Save, IInv, RecordOK, hosts
<1> HIDE DEF r
<1>3. type # "PREAUTH" => SumFunctionOnSet(gated, Sales) < MaxSettleAmt
  <2>1. type # "PREAUTH" => (IF type = "SALE_COMP" THEN "SALE" ELSE type) \in {"SALE", "OFF_SALE"}
    BY DEF Type
  <2> QED
    BY <1>2, <2>1, BatchBelowLimit DEF IInv, Rest
<1>4. Books' /\ BelowLimit'
  BY <1>1, <1>2, <1>3, RecordAdded DEF IInv, Rest
<1>5. Course'
  BY <1>2, StaysFeeding DEF Rest, Course
<1> QED
  BY <1>4, <1>5 DEF Rest

LEMMA AdjustRest ==
  ASSUME IInv, Rest, NEW t \in Txn, NEW tip \in Tip, TransAdjust(t, tip)
  PROVE  Rest'
<1> DEFINE r == Adjusted(log[t], t, tip)
<1>1. /\ log' = [log EXCEPT ![t] = r] /\ pc = "idle" /\ ChkSettle(AcqOf[t], log[t].type)
      /\ UNCHANGED <<flow, status, certs, batch>>
  BY DEF TransAdjust, hosts
<1>2. t \in Logged /\ log[t] \in Rec /\ "VOID" \notin log[t].flags
  BY DEF TransAdjust, GetRecord, IInv, Amounts, Logged, Has
<1>3. Amount(t) \in Nat
  BY <1>2, AmountsAreNat DEF IInv
<1>4. /\ r \in Rec /\ r.type = log[t].type
      /\ \A f \in {"VOID", "ALREADY_TC"} : f \in r.flags <=> f \in log[t].flags
  <2>1. CASE "NOSEND" \in log[t].flags
    BY <1>2, <2>1 DEF Adjusted, Rec
  <2>2. CASE "NOSEND" \notin log[t].flags
    <3>1. log[t].flags \cup {"ADJ", "NOSEND"} \in SUBSET Flag
      BY <1>2 DEF Rec, Flag
    <3> QED
      BY <1>2, <1>3, <2>2, <3>1 DEF Adjusted, Rec
  <2> QED
    BY <2>1, <2>2
<1> HIDE DEF r
<1>5. r.type \in {"SALE", "OFF_SALE"} => SumFunctionOnSet(gated, Sales) < MaxSettleAmt
  BY <1>1, <1>4, BatchBelowLimit DEF IInv, Rest
<1>6. Books' /\ BelowLimit'
  <2>1. PICK s : s = r
    OBVIOUS
  <2> QED
    BY <1>1, <1>2, <1>4, <1>5, <2>1, RecordAdjusted DEF IInv, Rest
<1>7. Course'
  BY <1>1, StaysFeeding DEF Rest, Course
<1> QED
  BY <1>6, <1>7 DEF Rest

LEMMA VoidRest ==
  ASSUME IInv, Rest, NEW t \in Txn, TransVoid(t)
  PROVE  Rest'
<1>1. /\ UNCHANGED <<log, status, job, total, left, certs, batch>> /\ pc = "idle"
      /\ pc' = "void" /\ todo' = {AcqOf[t]}
      /\ req' = [txn |-> t, amount |-> Base[t] + TipToVoid(t), org |-> 0]
  BY DEF TransVoid, hosts
<1>2. t \in Logged
  BY DEF TransVoid, GetRecord
<1>3. Base[t] + TipToVoid(t) \in Nat
  <2>1. TipToVoid(t) \in Tip
    BY <1>2, TipIsTip
  <2> QED
    BY <2>1, TipsAreAmounts, ConstantsAssumption
<1>4. Books' /\ BelowLimit'
  BY <1>1, LogUntouched, BooksKept, LimitKept DEF Rest, Books
<1>5. Registers' /\ Flow'
  BY <1>1, <1>3, ConstantsAssumption DEF Rest, Course, Registers, Flow
<1>6. Settling' /\ Uploading'
  BY <1>1 DEF Rest, Course, Flow, Settling, Uploading
<1> QED
  BY <1>4, <1>5, <1>6 DEF Rest, Course

LEMMA VoidAnsweredRest ==
  ASSUME IInv, Rest, VoidAnswered
  PROVE  Rest'
<1>1. UNCHANGED <<status, certs, batch>> /\ Registers
  BY DEF VoidAnswered, Rest, Course
<1>2. CASE Idle /\ UNCHANGED <<log, held, history>>
  <2>1. Books' /\ BelowLimit'
    BY <1>1, <1>2, LogUntouched, BooksKept, LimitKept DEF Rest, Books
  <2>2. Course'
    BY <1>1, <1>2, GoesIdle DEF Registers
  <2> QED
    BY <2>1, <2>2 DEF Rest
<1>3. CASE ~(Idle /\ UNCHANGED <<log, held, history>>)
  <2>0. PICK t \in Txn : t = req.txn
    BY DEF VoidAnswered, IInv, RequestOK, Logged
  <2>1. /\ t \in Logged /\ log[t] \in Rec
        /\ req.amount = Base[t] + TipToVoid(t) /\ TipToVoid(t) \in Tip
    BY <2>0, TipIsTip DEF VoidAnswered, IInv, RequestOK, Logged, Amounts
  <2>2. req.amount - Base[t] \in Tip
    BY <2>1, ConstantsAssumption DEF Tip
  <2> DEFINE r == [log[t] EXCEPT !.tip = req.amount - Base[t],
                                 !.flags = (log[t].flags \ {"ADJ", "NOSEND"}) \cup {"VOID"}]
  <2>3. log' = [log EXCEPT ![t] = r] /\ Feed(AcqOf[t])
    BY <1>3, <2>0, <2>1 DEF VoidAnswered, IInv, Amounts
  <2>4. /\ r \in Rec /\ "VOID" \in r.flags
        /\ "ALREADY_TC" \in r.flags <=> "ALREADY_TC" \in log[t].flags
    BY <2>1, <2>2 DEF Rec, Flag
  <2> HIDE DEF r
  <2>5. Books' /\ BelowLimit'
    BY <1>1, <2>1, <2>3, <2>4, RecordVoided DEF IInv, Rest
  <2>6. Course'
    BY <1>1, <2>3, GoesFeeding, ConstantsAssumption
  <2> QED
    BY <2>5, <2>6 DEF Rest
<1> QED
  BY <1>2, <1>3

LEMMA OfflineSendRest ==
  ASSUME IInv, Rest, OfflineSend
  PROVE  Rest'
<1>1. /\ UNCHANGED <<log, status, job, todo, total, left, certs, batch>> /\ pc = "offline"
      /\ pc' \in {"offline sent", "tc"}
  BY DEF OfflineSend, hosts
<1>2. Unchanged /\ Has("NOSEND")' = Has("NOSEND") /\ cur' = cur
  BY <1>1, LogUntouched DEF cur
<1>3. Books' /\ BelowLimit'
  BY <1>1, LogUntouched, BooksKept, LimitKept DEF Rest, Books
<1>4. req' \in [txn: Txn \cup {NoTxn}, amount: Nat, org: Nat]
  <2>1. ASSUME NEW t \in Of(cur) \cap Has("NOSEND"),
               req' = [txn |-> t, amount |-> Amount(t), org |-> log[t].org]
        PROVE  req' \in [txn: Txn \cup {NoTxn}, amount: Nat, org: Nat]
    <3>1. t \in Logged /\ Amount(t) \in Nat /\ log[t] \in Rec
      BY AmountsAreNat DEF Has, IInv
    <3> QED
      BY <2>1, <3>1 DEF Rec, Logged
  <2> QED
    BY <2>1 DEF OfflineSend, Rest, Course, Registers
<1>5. Settling'
  <2>1. \A a : AddsUp(a)' <=> AddsUp(a)
    BY <1>1, <1>2 DEF AddsUp, Unchanged, Of
  <2>2. pc' = "tc" => Of(cur) \cap Has("NOSEND") = {}
    BY DEF OfflineSend
  <2>3. (Of(cur) \cap Has("NOSEND"))' = Of(cur) \cap Has("NOSEND")
    BY <1>2 DEF Of
  <2> QED
    BY <1>1, <2>1, <2>2, <2>3 DEF Rest, Course, Settling
<1>6. Flow' /\ Uploading' /\ Registers'
  BY <1>1, <1>4 DEF Rest, Course, Flow, Uploading, Registers
<1> QED
  BY <1>3, <1>5, <1>6 DEF Rest, Course

LEMMA OfflineFailsRest ==
  ASSUME IInv, Rest, OfflineFails
  PROVE  Rest'
<1>1. UNCHANGED <<log, status, certs, batch>> /\ pc = "offline sent"
  BY DEF OfflineFails
<1>2. Books' /\ BelowLimit'
  BY <1>1, LogUntouched, BooksKept, LimitKept DEF Rest, Books
<1>3. CASE Idle
  BY <1>1, <1>2, <1>3, GoesIdle DEF Rest, Course, Registers
<1>4. CASE job # "settle" /\ pc' = "tc" /\ req' = NoRequest /\ UNCHANGED <<job, todo, total, left>>
  <2>1. Course'
    BY <1>1, <1>4 DEF Rest, Course, Flow, Settling, Uploading, Registers, NoRequest
  <2> QED
    BY <1>2, <2>1 DEF Rest
<1> QED
  BY <1>3, <1>4 DEF OfflineFails

LEMMA OfflineAnsweredRest ==
  ASSUME IInv, Rest, OfflineAnswered
  PROVE  Rest'
<1>0. PICK t \in Txn : t = req.txn
  BY Uploaded DEF OfflineAnswered
<1> DEFINE r == [log[t] EXCEPT !.flags = log[t].flags \ {"NOSEND"}]
<1>1. t \in Logged /\ log[t] \in Rec
  BY <1>0, Uploaded DEF OfflineAnswered, Logged
<1>2. log' = [log EXCEPT ![t] = r]
  BY <1>0, <1>1 DEF OfflineAnswered, IInv, Amounts, Logged
<1>3. /\ r \in Rec /\ r.type = log[t].type /\ r.tip = log[t].tip
      /\ \A f \in {"VOID", "ALREADY_TC"} : f \in r.flags <=> f \in log[t].flags
  BY <1>1 DEF Rec
<1>4. /\ UNCHANGED <<status, job, todo, total, left, certs, batch>> /\ pc = "offline sent"
      /\ pc' = (IF job = "settle" THEN "offline" ELSE "tc") /\ req' = NoRequest
  BY DEF OfflineAnswered
<1> HIDE DEF r
<1>5. Unchanged /\ Has("ALREADY_TC")' = Has("ALREADY_TC")
  <2>1. Unchanged /\ Has("ALREADY_TC")' = IF "ALREADY_TC" \in r.flags
                                            THEN Has("ALREADY_TC") \cup {t}
                                            ELSE Has("ALREADY_TC") \ {t}
    BY <1>1, <1>2, <1>3, FlagsChanged DEF IInv
  <2>2. t \in Has("ALREADY_TC") <=> "ALREADY_TC" \in log[t].flags
    BY <1>1 DEF Has
  <2> QED
    BY <1>3, <2>1, <2>2
<1>6. Books' /\ BelowLimit'
  BY <1>4, <1>5, BooksKept, LimitKept DEF Rest, Books
<1>7. Settling'
  <2>1. \A a : AddsUp(a)' <=> AddsUp(a)
    BY <1>4, <1>5 DEF AddsUp, Unchanged, Of
  <2> QED
    BY <1>4, <2>1 DEF Rest, Course, Settling
<1>8. Flow' /\ Uploading' /\ Registers'
  BY <1>4 DEF Rest, Course, Flow, Uploading, Registers, NoRequest
<1> QED
  BY <1>6, <1>7, <1>8 DEF Rest, Course

LEMMA TransSendTCRest ==
  ASSUME IInv, Rest, TransSendTC
  PROVE  Rest'
<1>1. UNCHANGED <<status, batch>> /\ pc = "tc" /\ Registers /\ Flow /\ Books
  BY DEF TransSendTC, Rest, Course
<1>2. \A t \in Has("NEED_TC") : t \in Logged
  BY DEF Has
<1>3. ASSUME NEW t \in Of(cur) \cap Has("NEED_TC"), certs' = certs \cup {t},
             log' = [log EXCEPT ![t].flags = Done(@)], UNCHANGED flow
      PROVE  Rest'
  <2> DEFINE r == [log[t] EXCEPT !.flags = Done(log[t].flags)]
  <2>1. t \in Logged /\ log[t] \in Rec
    BY <1>2 DEF Logged, IInv, Amounts
  <2>2. log' = [log EXCEPT ![t] = r]
    BY <1>3, <2>1 DEF IInv, Amounts, Logged
  <2>3. /\ r \in Rec /\ r.type = log[t].type /\ r.tip = log[t].tip
        /\ \A f \in {"VOID", "NOSEND"} : f \in r.flags <=> f \in log[t].flags
        /\ "ALREADY_TC" \in r.flags
    BY <2>1 DEF Rec, Done, Flag
  <2> HIDE DEF r
  <2>4. /\ Unchanged /\ Has("ALREADY_TC")' = Has("ALREADY_TC") \cup {t}
        /\ Has("NOSEND")' = Has("NOSEND")
    <3>1. /\ Unchanged
          /\ \A flag : Has(flag)' = IF flag \in r.flags THEN Has(flag) \cup {t}
                                                        ELSE Has(flag) \ {t}
      BY <2>1, <2>2, <2>3, FlagsChanged DEF IInv
    <3>2. t \in Has("NOSEND") <=> "NOSEND" \in log[t].flags
      BY <2>1 DEF Has
    <3> QED
      BY <2>3, <3>1, <3>2
  <2>5. certs \subseteq certs' /\ certs' \subseteq Logged
    BY <1>1, <1>3, <2>1 DEF Books
  <2>6. Has("ALREADY_TC")' \subseteq certs'
    BY <1>1, <1>3, <2>4 DEF Books
  <2>7. Books' /\ BelowLimit'
    BY <1>1, <2>4, <2>5, <2>6, BooksKept, LimitKept DEF Rest
  <2>8. total' = total /\ todo' = todo /\ pc' = pc /\ job' = job /\ cur' = cur
    BY <1>3 DEF flow, cur
  <2>9. \A a \in todo : AddsUp(a) => AddsUp(a)'
    <3>1. \A a \in todo : total[a].tcCnt \in Nat
      BY <1>1 DEF Flow, Registers, Total
    <3> QED
      BY <1>1, <2>4, <2>5, <2>8, <3>1, AddsUpKept
  <2>10. (Of(cur) \cap Has("NOSEND"))' = Of(cur) \cap Has("NOSEND")
    BY <2>4, <2>8 DEF Of
  <2>11. Settling'
    BY <2>8, <2>9, <2>10 DEF Rest, Course, Settling
  <2>12. Flow' /\ Uploading' /\ Registers'
    BY <1>1, <1>3 DEF Flow, Uploading, Registers, flow
  <2> QED
    BY <2>7, <2>11, <2>12 DEF Rest, Course
<1>4. ASSUME NEW t \in Of(cur) \cap Has("NEED_TC"), certs' \in {certs, certs \cup {t}}, Idle,
             UNCHANGED log
      PROVE  Rest'
  <2>1. certs \subseteq certs' /\ certs' \subseteq Logged
    BY <1>1, <1>2, <1>4 DEF Books
  <2>2. Unchanged /\ Has("ALREADY_TC")' = Has("ALREADY_TC")
    BY <1>4, LogUntouched
  <2>3. Books' /\ BelowLimit'
    BY <1>1, <2>1, <2>2, BooksKept, LimitKept DEF Rest, Books
  <2> QED
    BY <1>1, <1>4, <2>3, GoesIdle DEF Rest, Registers
<1>5. CASE UNCHANGED <<log, certs>> /\ Idle
  <2>1. Books' /\ BelowLimit'
    BY <1>1, <1>5, LogUntouched, BooksKept, LimitKept DEF Rest, Books
  <2> QED
    BY <1>1, <1>5, <2>1, GoesIdle DEF Rest, Registers
<1>6. CASE /\ UNCHANGED <<log, certs>> /\ job = "settle" /\ pc' = "settle"
           /\ UNCHANGED <<job, todo, total, req, left>>
  <2>1. Books' /\ BelowLimit'
    BY <1>1, <1>6, LogUntouched, BooksKept, LimitKept DEF Rest, Books
  <2>2. Unchanged /\ Has("NOSEND")' = Has("NOSEND") /\ cur' = cur
    BY <1>6, LogUntouched DEF cur
  <2>3. \A a : AddsUp(a)' <=> AddsUp(a)
    BY <1>6, <2>2 DEF AddsUp, Unchanged, Of
  <2>4. (Of(cur) \cap Has("NOSEND"))' = Of(cur) \cap Has("NOSEND")
    BY <2>2 DEF Of
  <2>5. Settling'
    BY <1>1, <1>6, <2>3, <2>4 DEF Rest, Course, Settling
  <2>6. Flow' /\ Uploading' /\ Registers'
    BY <1>1, <1>6 DEF Flow, Uploading, Registers
  <2> QED
    BY <2>1, <2>5, <2>6 DEF Rest, Course
<1> QED
  BY <1>3, <1>4, <1>5, <1>6 DEF TransSendTC

(* A settlement is begun for acquirers that have something to settle. *)
LEMMA TransSettleRest ==
  ASSUME IInv, Rest, NEW chosen \in SUBSET Acq, TransSettle(chosen)
  PROVE  Rest'
<1> DEFINE some == {t \in Txn : AcqOf[t] \in chosen}
<1>1. /\ UNCHANGED <<log, status, left, certs, batch>>
      /\ pc' = "offline" /\ job' = "settle" /\ req' = NoRequest
      /\ total' = [a \in Acq |-> CalcTotal(Of(a))]
      /\ ~EmptyBatch(CalcTotal(some))
  BY DEF TransSettle, hosts
<1>2. \A a \in Acq : total'[a] = CalcTotal(Of(a)) /\ CalcTotal(Of(a)) \in Total
  BY <1>1, TotalsAreTyped DEF IInv, Rest
<1>3. todo' = {a \in chosen : ~EmptyBatch(CalcTotal(Of(a)))}
  BY DEF TransSettle
<1>4. \E a \in chosen : ~EmptyBatch(CalcTotal(Of(a)))
  <2>1. /\ IsFiniteSet(some \cap Sales) /\ IsFiniteSet((some \cap Counted) \ Sales)
    BY Finite, FS_Subset DEF Rest
  <2>2. some \cap Sales # {} \/ (some \cap Counted) \ Sales # {}
    BY <1>1, FS_EmptySet DEF EmptyBatch, CalcTotal
  <2>3. PICK t \in some : t \in Sales \/ t \in Counted \ Sales
    BY <2>2
  <2>4. AcqOf[t] \in chosen /\ t \in Of(AcqOf[t])
    BY <2>3 DEF Of
  <2>5. PICK a \in chosen : t \in Of(a)
    BY <2>4
  <2>6. /\ IsFiniteSet(Of(a) \cap Sales) /\ IsFiniteSet((Of(a) \cap Counted) \ Sales)
    BY Finite, FS_Subset DEF Rest
  <2>7. Of(a) \cap Sales # {} \/ (Of(a) \cap Counted) \ Sales # {}
    BY <2>3, <2>5
  <2>8. Cardinality(Of(a) \cap Sales) # 0 \/ Cardinality((Of(a) \cap Counted) \ Sales) # 0
    BY <2>6, <2>7, FS_EmptySet
  <2> QED
    BY <2>8 DEF EmptyBatch, CalcTotal
<1>5. todo' \subseteq Acq /\ todo' # {}
  BY <1>3, <1>4
<1>6. Books' /\ BelowLimit' /\ Unchanged
  BY <1>1, LogUntouched, BooksKept, LimitKept DEF Rest, Books
<1>7. ASSUME NEW a \in Acq
      PROVE  AddsUp(a)'
  <2>1. /\ total'[a].saleCnt = Cardinality(Of(a) \cap Sales)
        /\ total'[a].saleAmt = SumFunctionOnSet(amounts, Of(a) \cap Sales)
        /\ total'[a].tcCnt = Cardinality(Of(a) \cap Has("ALREADY_TC"))
    <3> DEFINE sum == CalcTotal(Of(a))
    <3>1. total'[a] = sum
      BY <1>2
    <3>2. /\ sum.saleCnt = Cardinality(Of(a) \cap Sales)
          /\ sum.saleAmt = SumFunctionOnSet(amounts, Of(a) \cap Sales)
          /\ sum.tcCnt = Cardinality(Of(a) \cap Has("ALREADY_TC"))
      BY DEF CalcTotal
    <3> HIDE DEF sum
    <3> QED
      BY <3>1, <3>2
  <2>2. IsFiniteSet(certs \cap Of(a))
    BY FS_Subset DEF Rest, Books
  <2>3. Of(a) \cap Has("ALREADY_TC") \subseteq certs \cap Of(a)
    BY DEF Rest, Books
  <2>4. total'[a].tcCnt <= Cardinality(certs \cap Of(a))
    BY <2>1, <2>2, <2>3, FS_Subset
  <2> QED
    BY <1>1, <1>6, <2>1, <2>4 DEF AddsUp, Unchanged, Of
<1>8. Settling'
  BY <1>1, <1>5, <1>7 DEF Settling
<1>9. total' \in [Acq -> Total]
  BY <1>1, <1>2
<1>10. Flow' /\ Uploading' /\ Registers'
  BY <1>1, <1>5, <1>9 DEF Flow, Uploading, Rest, Course, Registers, NoRequest
<1> QED
  BY <1>6, <1>8, <1>10 DEF Rest, Course

(* The host closes its batch, and the settlement goes on. *)
LEMMA ClosedRest ==
  ASSUME IInv, Rest, ClearRecord, NextAcq, job = "settle", pc # "idle",
         batch' \in [cnt: Nat, amt: Nat]
  PROVE  Rest'
<1>1. Flow /\ Registers /\ Settling /\ Books /\ BelowLimit /\ Amounts
  BY DEF Rest, Course, IInv
<1>2. /\ Books' /\ BelowLimit'
      /\ \A a \in Acq \ {cur} : AddsUp(a) /\ total' = total => AddsUp(a)'
  BY <1>1, RecordsErased
<1>3. \A a \in todo \ {cur} : total' = total => AddsUp(a)'
  BY <1>1, <1>2 DEF Flow, Settling
<1>4. status' \in [Acq -> {"S_USE", "S_PENDING"}]
  BY <1>1 DEF ClearRecord, Registers
<1>5. Course'
  BY <1>1, <1>3, <1>4, GoesOn
<1> QED
  BY <1>2, <1>5 DEF Rest

(* It goes on, or ends, with the batch of this acquirer still open. *)
LEMMA LeftOpenRest ==
  ASSUME IInv, Rest, NextAcq \/ Idle, Pending \/ NotSent, UNCHANGED <<log, certs>>,
         job = "settle", pc # "idle", batch' \in [cnt: Nat, amt: Nat]
  PROVE  Rest'
<1>1. Flow /\ Registers /\ Settling /\ Books
  BY DEF Rest, Course
<1>2. Books' /\ BelowLimit' /\ Unchanged
  BY LogUntouched, BooksKept, LimitKept DEF Rest, Books
<1>3. \A a \in todo : total' = total => AddsUp(a)'
  BY <1>1, <1>2 DEF Settling, AddsUp, Unchanged, Of
<1>4. status' \in [Acq -> {"S_USE", "S_PENDING"}]
  BY <1>1 DEF Pending, NotSent, Registers
<1>5. Course'
  BY <1>1, <1>3, <1>4, GoesOn, GoesIdle
<1> QED
  BY <1>2, <1>5 DEF Rest

LEMMA TransSettleSubRest ==
  ASSUME IInv, Rest, TransSettleSub
  PROVE  Rest'
<1>1. pc = "settle" /\ Flow /\ Registers /\ job = "settle"
  BY DEF TransSettleSub, Rest, Course, Flow
<1>2. CASE (Pending \/ NotSent) /\ (Idle \/ NextAcq) /\ UNCHANGED <<log, hosts, history>>
  BY <1>1, <1>2, LeftOpenRest DEF hosts, Registers
<1>3. CASE ClearRecord /\ NextAcq /\ batch' = Nothing
  BY <1>1, <1>3, ClosedRest DEF Nothing
<1>4. CASE /\ Pending
           /\ pc' = "upload" /\ left' = ToUpload /\ batch' = Nothing
           /\ UNCHANGED <<log, job, todo, total, req, held, certs, history>>
  <2>1. Books' /\ BelowLimit' /\ Unchanged /\ cur' = cur
    BY <1>4, LogUntouched, BooksKept, LimitKept DEF Rest, Books, cur
  <2>2. left' = Of(cur) \cap Sales
    BY <1>4 DEF ToUpload, Sales
  <2>3. left' \subseteq Logged /\ left' \subseteq Txn
    BY <2>2, Finite DEF Rest, Of
  <2>4. Cardinality(left') \in Nat /\ SumFunctionOnSet(amounts, left') \in Nat
    BY <2>3, SumsAreNat DEF IInv, Rest
  <2>5. Uploading'
    <3>1. Of(cur)' = Of(cur)
      BY <2>1 DEF Of
    <3>2. left' = (Of(cur) \cap Sales)' /\ amounts' = amounts
      BY <2>1, <2>2, <3>1 DEF Unchanged
    <3>3. batch' = [cnt |-> 0, amt |-> 0]
      BY <1>4 DEF Nothing
    <3>4. /\ batch'.cnt + Cardinality(left') = Cardinality(left')
          /\ batch'.amt + SumFunctionOnSet(amounts', left') = SumFunctionOnSet(amounts', left')
      BY <2>4, <3>2, <3>3
    <3> QED
      BY <1>4, <3>2, <3>4 DEF Uploading
  <2>6. Settling'
    <3>1. \A a : AddsUp(a)' <=> AddsUp(a)
      BY <1>4, <2>1 DEF AddsUp, Unchanged, Of
    <3> QED
      BY <1>4, <3>1 DEF Rest, Course, Settling
  <2>7. Flow' /\ Registers'
    BY <1>1, <1>4, <2>3 DEF Flow, Registers, Pending, Nothing
  <2> QED
    BY <2>1, <2>5, <2>6, <2>7 DEF Rest, Course
<1> QED
  BY <1>2, <1>3, <1>4 DEF TransSettleSub

LEMMA TransUpLoadRest ==
  ASSUME IInv, Rest, TransUpLoad
  PROVE  Rest'
<1>1. /\ pc = "upload" /\ Flow /\ Registers /\ job = "settle" /\ Uploading
      /\ UNCHANGED <<log, status, certs>>
  BY DEF TransUpLoad, Rest, Course, Flow
<1>2. Books' /\ BelowLimit' /\ Unchanged
  BY <1>1, LogUntouched, BooksKept, LimitKept DEF Rest, Books
<1>3. CASE Idle /\ batch' = Nothing
  <2>1. Course'
    BY <1>1, <1>3, GoesIdle DEF Registers, Nothing
  <2> QED
    BY <1>2, <2>1 DEF Rest
<1>4. ASSUME UNCHANGED <<job, todo, total, req>>, pc' \in {"upload", "resettle"},
             Uploading', left' \subseteq Txn, batch' \in [cnt: Nat, amt: Nat]
      PROVE  Rest'
  <2>1. \A a : AddsUp(a)' <=> AddsUp(a)
    BY <1>1, <1>2, <1>4 DEF AddsUp, Unchanged, Of
  <2>2. Settling'
    BY <1>4, <2>1 DEF Rest, Course, Settling
  <2>3. Flow' /\ Registers'
    BY <1>1, <1>4 DEF Flow, Registers
  <2> QED
    BY <1>2, <1>4, <2>2, <2>3 DEF Rest, Course
<1>5. ASSUME NEW t \in left, left' = left \ {t}, UNCHANGED <<pc, job, todo, total, req>>,
             batch' = [cnt |-> batch.cnt + 1, amt |-> batch.amt + Amount(t)]
      PROVE  Rest'
  <2>1. left \subseteq Of(cur) \cap Sales /\ Of(cur) \cap Sales \subseteq Logged /\ t \in Logged
    BY <1>1, Finite DEF Uploading, Rest
  <2>2. /\ Amount(t) \in Nat /\ amounts[t] = Amount(t)
        /\ \A u \in left : amounts[u] \in Nat
    BY <2>1, AmountsAreNat DEF IInv
  <2>3. IsFiniteSet(left) /\ left \ {t} \subseteq Logged
    BY <2>1, SumsAreNat DEF IInv, Rest
  <2>4. SumFunctionOnSet(amounts, left) = Amount(t) + SumFunctionOnSet(amounts, left \ {t})
    BY <2>2, <2>3, SumRemove
  <2>5. Cardinality(left \ {t}) = Cardinality(left) - 1 /\ Cardinality(left) \in Nat
    BY <2>3, FS_RemoveElement, FS_CardinalityType
  <2>6. /\ SumFunctionOnSet(amounts, left \ {t}) \in Nat
        /\ Cardinality(Of(cur) \cap Sales) \in Nat
        /\ SumFunctionOnSet(amounts, Of(cur) \cap Sales) \in Nat
    BY <2>1, <2>3, SumsAreNat DEF IInv, Rest
  <2>7. batch.cnt \in Nat /\ batch.amt \in Nat
    BY <1>1 DEF Registers
  <2>8. /\ batch.cnt + Cardinality(left) = Cardinality(Of(cur) \cap Sales)
        /\ batch.amt + SumFunctionOnSet(amounts, left)
             = SumFunctionOnSet(amounts, Of(cur) \cap Sales)
    BY <1>1 DEF Uploading
  <2>9. /\ batch'.cnt + Cardinality(left') = Cardinality(Of(cur) \cap Sales)
        /\ batch'.amt + SumFunctionOnSet(amounts, left')
             = SumFunctionOnSet(amounts, Of(cur) \cap Sales)
    BY <1>5, <2>2, <2>4, <2>5, <2>6, <2>7, <2>8
  <2>10. Of(cur)' = Of(cur)
    BY <1>5 DEF Of, cur
  <2>11. Uploading'
    BY <1>1, <1>2, <1>5, <2>1, <2>9, <2>10 DEF Uploading, Unchanged
  <2> QED
    BY <1>1, <1>4, <1>5, <2>2, <2>7, <2>11 DEF Registers
<1>6. ASSUME left = {}, pc' = "resettle", UNCHANGED <<job, todo, total, req, left, batch>>
      PROVE  Rest'
  <2>1. Of(cur)' = Of(cur)
    BY <1>6 DEF Of, cur
  <2>2. Uploading'
    BY <1>1, <1>2, <1>6, <2>1 DEF Uploading, Unchanged
  <2> QED
    BY <1>1, <1>4, <1>6, <2>2 DEF Registers
<1> QED
  BY <1>3, <1>5, <1>6 DEF TransUpLoad

LEMMA ReSettleRest ==
  ASSUME IInv, Rest, ReSettle
  PROVE  Rest'
<1>1. pc = "resettle" /\ job = "settle" /\ batch' = Nothing
  BY DEF ReSettle, Rest, Course, Flow
<1>2. CASE (Pending \/ NotSent) /\ (Idle \/ NextAcq) /\ UNCHANGED <<log, held, certs, history>>
  BY <1>1, <1>2, LeftOpenRest DEF Nothing
<1>3. CASE ClearRecord /\ NextAcq
  BY <1>1, <1>3, ClosedRest DEF Nothing
<1> QED
  BY <1>2, <1>3 DEF ReSettle

LEMMA InitRest ==
  ASSUME Init
  PROVE  Rest
<1>1. Logged = {} /\ Sales = {} /\ Has("ALREADY_TC") = {}
  BY DEF Init, Logged, Sales, Counted, Has
<1>2. Books
  BY <1>1, FS_EmptySet DEF Init, Books
<1>3. PICK t \in Txn : TRUE
  BY ConstantsAssumption
<1>4. SumFunctionOnSet(gated, Sales) = 0
  BY <1>1, SumEmpty
<1>5. 0 < MaxSettleAmt + Base[t] + MaxTip
  BY <1>3, ConstantsAssumption
<1>6. BelowLimit
  BY <1>3, <1>4, <1>5 DEF BelowLimit
<1>7. NoTotal \in Total
  BY DEF NoTotal, Total
<1>8. Course
  BY <1>7 DEF Init, Course, Flow, Settling, Uploading, Registers, NoTotals, NoRequest, Nothing
<1> QED
  BY <1>2, <1>6, <1>8 DEF Rest

LEMMA NextRest ==
  ASSUME IInv, Rest, [Next]_vars
  PROVE  Rest'
<1>1. ASSUME NEW chosen \in SUBSET Acq, TransSettle(chosen)
      PROVE  Rest'
  BY <1>1, TransSettleRest
<1>2. TransSettle(Acq) \/ (\E a \in Acq : TransSettle({a})) =>
        \E chosen \in SUBSET Acq : TransSettle(chosen)
  <2>1. Acq \in SUBSET Acq /\ \A a \in Acq : {a} \in SUBSET Acq
    OBVIOUS
  <2> QED
    BY <2>1
<1>3. CASE UNCHANGED vars
  BY <1>3, RestUnchanged DEF vars, flow
<1> QED
  BY <1>1, <1>2, <1>3, SaleRest, FinishOffLineRest, AdjustRest, VoidRest, VoidAnsweredRest,
     OfflineSendRest, OfflineFailsRest, OfflineAnsweredRest, TransSendTCRest,
     TransSettleSubRest, TransUpLoadRest, ReSettleRest
  DEF Next

(* The inductive invariant of the settlement, above that of the amounts. *)
THEOREM SettlementInvariance == Spec => [](IInv /\ Rest)
BY InitIInv, NextIInv, InitRest, NextRest, PTL DEF Spec

(* CalcTotal, fileoper.c:572-723, and the registers of Transproc.c keep their     *)
(* types: counts and sums are numbers, because the log holds finitely many records. *)
THEOREM TypesHold == Spec => []TypeOK
<1>1. IInv /\ Rest => TypeOK
  <2> SUFFICES ASSUME IInv, Rest PROVE TypeOK
    OBVIOUS
  <2>1. certs \subseteq Txn
    BY DEF Rest, Books, Logged
  <2> QED
    BY <2>1 DEF TypeOK, IInv, Amounts, Rest, Course, Flow, Registers
<1> QED
  BY <1>1, SettlementInvariance, PTL

(* TransSettleSub, Transproc.c:1840-1905: when the totals of field 63 go out,    *)
(* they are the number and the sum of the sales the host holds of this terminal, *)
(* although they were computed before the uploads, and whichever answers of      *)
(* earlier uploads were lost, unless that host refused an upload and has taken   *)
(* none of the record since.                                                     *)
THEOREM TotalsOnTheLineAreHeld == Spec => []TotalsAreHeld
<1>1. ASSUME IInv, Rest, pc = "settle", Of(cur) \cap refused = {}
      PROVE  LET sales == {t \in Of(cur) : held[t] # 0} IN
             /\ total[cur].saleCnt = Cardinality(sales)
             /\ total[cur].saleAmt = SumFunctionOnSet(held, sales)
  <2>1. cur \in todo /\ AddsUp(cur) /\ Of(cur) \cap Has("NOSEND") = {}
    BY <1>1, CurIsServed DEF Rest, Course, Flow, Settling
  <2>2. ASSUME NEW t \in Of(cur)
        PROVE  /\ t \in Sales => held[t] = amounts[t] /\ held[t] # 0
               /\ held[t] # 0 => t \in Sales
    <3>1. t \in Txn /\ RecordOK(t) /\ t \notin refused
      BY <1>1 DEF Of, IInv
    <3>2. CASE t \in Logged
      <4>1. /\ amounts[t] = Base[t] + log[t].tip /\ amounts[t] # 0
            /\ log[t] # NoRec /\ "NOSEND" \notin log[t].flags
        BY <1>1, <2>1, <3>2, AmountsAreNat DEF IInv, Has, Logged
      <4>2. t \in Sales <=> log[t].type # "PREAUTH" /\ "VOID" \notin log[t].flags
        BY <3>2 DEF Sales, Counted, Has, InSaleTotal
      <4> QED
        BY <3>1, <4>1, <4>2 DEF RecordOK
    <3>3. CASE t \notin Logged
      BY <3>1, <3>3 DEF RecordOK, Logged, Sales, Counted
    <3> QED
      BY <3>2, <3>3
  <2> DEFINE sales == {t \in Of(cur) : held[t] # 0}
  <2>3. sales = Of(cur) \cap Sales
    BY <2>2
  <2>4. IsFiniteSet(sales) /\ \A t \in sales : held[t] = amounts[t]
    BY <1>1, <2>2, <2>3, Finite, FS_Subset DEF Rest
  <2> HIDE DEF sales
  <2>5. SumFunctionOnSet(held, sales) = SumFunctionOnSet(amounts, sales)
    BY <2>4, SumEqual
  <2> QED
    BY <2>1, <2>3, <2>5 DEF AddsUp, sales
<1>2. IInv /\ Rest => TotalsAreHeld
  BY <1>1 DEF TotalsAreHeld
<1> QED
  BY <1>2, SettlementInvariance, PTL

(* TransUpLoad, Transproc.c:2031-2100: the batch the host has been sent when the *)
(* second settlement request goes out adds up to the totals in it.               *)
THEOREM BatchesAddUp == Spec => []UploadAddsUp
<1>1. ASSUME IInv, Rest, pc = "resettle"
      PROVE  batch = [cnt |-> total[cur].saleCnt, amt |-> total[cur].saleAmt]
  <2>1. cur \in todo /\ AddsUp(cur)
    BY <1>1, CurIsServed DEF Rest, Course, Flow, Settling
  <2>2. left = {} /\ batch.cnt + Cardinality(left) = Cardinality(Of(cur) \cap Sales)
        /\ batch.amt + SumFunctionOnSet(amounts, left)
             = SumFunctionOnSet(amounts, Of(cur) \cap Sales)
    BY <1>1 DEF Rest, Course, Uploading
  <2>3. Cardinality(left) = 0 /\ SumFunctionOnSet(amounts, left) = 0
    BY <2>2, FS_EmptySet, SumEmpty
  <2>4. batch \in [cnt: Nat, amt: Nat]
    BY <1>1 DEF Rest, Course, Registers
  <2>5. batch.cnt = total[cur].saleCnt /\ batch.amt = total[cur].saleAmt
    BY <2>1, <2>2, <2>3, <2>4 DEF AddsUp
  <2> QED
    BY <2>4, <2>5
<1>2. IInv /\ Rest => UploadAddsUp
  BY <1>1 DEF UploadAddsUp
<1> QED
  BY <1>2, SettlementInvariance, PTL

(* TransSendTC, Transproc.c:2236-2315, and the certificate count of field 63: no *)
(* certificate is counted that the host does not have.                           *)
THEOREM CountedCertificatesAreThere == Spec => []CertificatesAreThere
<1>1. IInv /\ Rest => CertificatesAreThere
  BY CurIsServed DEF Rest, Course, Flow, Settling, AddsUp, CertificatesAreThere
<1> QED
  BY <1>1, SettlementInvariance, PTL

(* ChkSettle: the sales of all acquirers pass the limit by no more than the one *)
(* transaction let in below it and the tips of voice referrals.                 *)
THEOREM LimitIsKept == Spec => []LimitHolds
<1>1. ASSUME IInv, Rest
      PROVE  LimitHolds
  <2> DEFINE ungated == {t \in Sales : log[t].type = "SALE_COMP"}
             tips == [t \in Logged |-> log[t].tip]
             extra == [t \in Logged |-> IF t \in ungated THEN log[t].tip ELSE 0]
             others == Sales \ ungated
  <2>1. /\ IsFiniteSet(Sales) /\ Sales \subseteq Logged /\ ungated \subseteq Sales
        /\ IsFiniteSet(ungated) /\ IsFiniteSet(others)
    BY <1>1, Finite, FS_Subset DEF Rest
  <2>2. ASSUME NEW t \in Sales
        PROVE  gated[t] \in Nat /\ extra[t] \in Nat /\ amounts[t] = gated[t] + extra[t]
    <3>1. /\ t \in Logged /\ gated[t] \in Nat /\ Base[t] \in Nat /\ log[t].tip \in Nat
          /\ amounts[t] = Base[t] + log[t].tip
      BY <1>1, <2>1, AmountsAreNat, ConstantsAssumption DEF IInv, Tip
    <3>2. gated[t] = IF log[t].type = "SALE_COMP" THEN Base[t] ELSE Base[t] + log[t].tip
      BY <3>1 DEF gated, Amount
    <3> QED
      BY <3>1, <3>2
  <2>3. /\ \A t \in ungated : extra[t] = tips[t]
        /\ \A t \in others : extra[t] = 0
    BY <2>1
  <2> HIDE DEF ungated, tips, extra, others
  <2>4. SumFunctionOnSet(amounts, Sales)
          = SumFunctionOnSet(gated, Sales) + SumFunctionOnSet(extra, Sales)
    BY <2>1, <2>2, SumOfSum
  <2>5. SumFunctionOnSet(extra, Sales)
          = SumFunctionOnSet(extra, ungated) + SumFunctionOnSet(extra, others)
    BY <2>1, <2>2, SumSplit DEF others
  <2>6. SumFunctionOnSet(extra, ungated) = SumFunctionOnSet(tips, ungated)
    BY <2>1, <2>3, SumEqual
  <2>7. SumFunctionOnSet(extra, others) = 0
    BY <2>1, <2>3, SumOfZeros
  <2>8. SumFunctionOnSet(gated, Sales) \in Nat /\ SumFunctionOnSet(extra, Sales) \in Nat
    BY <2>1, <2>2, SumIsNat
  <2>9. PICK t \in Txn : SumFunctionOnSet(gated, Sales) < MaxSettleAmt + Base[t] + MaxTip
    BY <1>1 DEF Rest, BelowLimit
  <2>10. Base[t] \in Nat /\ MaxSettleAmt \in Nat /\ MaxTip \in Nat
    BY ConstantsAssumption
  <2>11. SumFunctionOnSet(tips, ungated) = SumFunctionOnSet(extra, Sales)
    <3>1. \A u \in ungated : extra[u] \in Nat
      BY <2>1, <2>2
    <3>2. SumFunctionOnSet(extra, ungated) \in Nat
      BY <2>1, <3>1, SumIsNat
    <3> QED
      BY <2>5, <2>6, <2>7, <3>2
  <2>12. SumFunctionOnSet(amounts, Sales)
           < MaxSettleAmt + Base[t] + MaxTip + SumFunctionOnSet(tips, ungated)
    BY <2>4, <2>8, <2>9, <2>10, <2>11
  <2> QED
    BY <2>12 DEF LimitHolds, ungated, tips
<1>2. IInv /\ Rest => LimitHolds
  BY <1>1
<1> QED
  BY <1>2, SettlementInvariance, PTL
==============================================================================
