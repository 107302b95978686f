# OmaOfflineApp: a verification of the terminal's transaction store and host protocol

OmaOfflineApp is the EDC payment application of a NEW8210 POS terminal, in C
(`src/src/*.c`). A cardholder's transaction goes to an acquirer's host, is kept
as a record in a log, and leaves the terminal with the batch when the operator
settles. The program has no database, and its transactions run in one thread; a
second one initialises the wireless module in the background. Its correctness
rests on the order in which it writes a few files and exchanges a few messages,
on a device that may lose power or an answer at any moment, and on what the two
threads do to the variables they share. That order is what these modules model,
check and prove.

## 1. Inventory

| Component (files in `src/src`) | State | Operations | What makes it correct |
|---|---|---|---|
| Transaction store (`fileoper.c`, `Manage.c`, `AppInit.c`, `main.c`) | files TRANLOG (records), SYSCTRL (index, acquirer status, journal, reversals), SYSPARAM (batch numbers), and their RAM copies | SaveTranLog, RecoverTranLog, UpdateTranLog, SaveRevInfo, SaveSysCtrlBase/Normal/All, ClearRecord, ClearReversalSub | after any power failure the files stand for a state between two operations; index and log agree; nothing closed comes back |
| Host protocol (`Commproc.c`, `Transproc.c`, `Emvproc.c`, `ChkOption.c`) | the operation in progress (`gstTransInfo`, `gstSendPack`, `gstRecvPack`), the reversal, the acquirer status | sale, chip sale, offline sale, void, adjust, voice referral, logon, reversal, offline upload, TC upload, settlement, batch upload, auto settlement | terminal and host agree on every sale but for a pending reversal or upload; a closed batch does not grow; operations end |
| Start-up and event loop (`main.c`, `AppInit.c`, `New8210.c`) | the event being handled | CheckTermSatus before every event, ProcAppInitEvent at power-on | recovery comes before any handler |
| Numbering (`Tool.c`) | STAN, invoice and batch number | GetNewTraceNo, GetNewInvoiceNo, GetNewBatchNo | a new batch has a new number; no two requests have the same STAN |
| Enquiries and totals (`fileoper.c`, `ChkOption.c`, `Transproc.c`) | the amounts and status bits of the records, `gstAcqTotal` | CalcTotal, GetRecord, GetTranLogNum, ChkSettle, ChkIfTranAllow, the amounts in TransAdjust, TransVoid, OfflineSend, TransUpLoad | a request names the amount the host holds; totals count what the host has and what the batch upload adds up to |
| Communication (`Commlib.c`, `New8210.c`) | the two lines (`sg_Tcpsocket`, `sg_iModemfd`), the kind used last (`sg_stCurCfg`), the state of the wireless module (`sg_InitModulRet`, `InitCommTid`, `sg_ucWirePPPFlag`) | CommDial, CommTxd, CommRxd, CommOnHook, CommInitModule, WirelessDial, WirelessReset, WirelessClose, ThreadInitModule, ThreadJoinInitModule | no answer is taken for another's, no batch is closed by another's host; one initialisation at a time; a dial ends |
| EMV glue (`Emvproc.c`, `Emvtest.c`) | kernel data | cEMVOnlineProc, FinishEmvTran | what the card decides after the host's answer is undone or recorded |
| Card capture (`Card.c`) | the card's data, the line dialled ahead | ValidCard, ConfirmPanInfo, GetSecurityCode | a card entry that is given up leaves no line behind |
| ISO 8583 codec (`ISO8583.c`) | buffers | pack and unpack | - |
| Parameters and menus (`Param.c`, `Setup.c`, `Password.c`, `Function.c`), receipts and signature (`Print.c`, `Display.c`, `PedSignature.c`), helpers (`PosLib.c`, `MathLib.c`) | SYSPARAM, printer, screen | set-up, download, print | - |
| Vendor SDK, toolchain, build products (`src/LIB`, `src/toolchain`, `src/Project`, `src/Release`) | - | - | not this program's code |

How they interact. `main` waits for an event; `ProcAppEvent` calls
`CheckTermSatus`, which reads SYSCTRL and SYSPARAM back into RAM and replays the
journal, and then the event's handler. A handler runs to its end, calls the host
protocol as nested subroutines (a sale may send a reversal before itself, and an
offline upload, certificates and even a settlement after itself), and the
protocol calls the store. There is one event at a time. At the end of an event
the line is hung up, but for a card entry that is cancelled at the security code;
inside one, a dial that finds the line open uses it, be it from an exchange before
or from the dialling ahead while the card was read. The
thread that initialises the wireless module is created at start-up and by the
set-up menu; it and the event loop share `sg_InitModulRet`, `sg_Tcpsocket` and
`InitCommTid` without a lock, and a dial joins it first.

What is hard here: a power failure between any two file writes; a request that
was delivered and whose answer was lost or refused; a saved flag that a nested
operation overtakes; the one reversal slot per acquirer; state that is counted
before, and used after, a nested exchange; a full log; an answer that comes after
its request was given up; a line that is connected to another acquirer's host; a
record adjusted twice, or adjusted and voided, around an upload of which the
answer was lost or a refusal; a LOGON sent past a pending reversal; two threads on
one module. `PROJECT.json` lists each
of these hazards at its line, with the property that would catch it or the
reason why none does yet.

## 2. The modules

| Module | What it is |
|---|---|
| `AtomicLog` | What the store promises: records, reversals and the last record, changed by atomic operations. No files, no crashes. |
| `TranLog` | The store as it is coded: three files, RAM copies, one action per file write, power failures, start-up recovery. |
| `TranLogPower` | `TranLog` on terminals whose power never fails beside those whose power may. |
| `MCTranLog` | Instances of `TranLogPower` for TLC. |
| `TranLog_proofs` | The invariants of `TranLog`, that it implements `AtomicLog`, that batch numbers are fresh and recovery is bounded, proved. |
| `Edc` | One acquirer and its host on top of the atomic store: the exchanges, what each saves, and in which order. |
| `MCEdc` | Instances of `Edc` for TLC. |
| `Edc_proofs` | Types, the order of reversals, the closing of a batch and a bound on the steps of an operation in `Edc`, proved. |
| `EdcLedger_proofs` | That the books of terminal and host agree, proved. |
| `EdcStore` | `Edc` with the last record, composed with `AtomicLog`: the store as the host protocol uses it is the one `TranLog` implements. |
| `MCEdcStore` | Instances of `EdcStore` for TLC. |
| `EdcStore_proofs` | That `EdcStore` changes the store by operations of `AtomicLog` only, proved. |
| `Comm` | Several acquirers and their hosts behind shared lines: dialling ahead, trace numbers, late answers, the settlement of all acquirers in one event. |
| `MCComm` | Instances of `Comm` for TLC. |
| `Comm_proofs` | That no answer is taken for another's, every packet goes to its host and an event is bounded, proved. |
| `Modem` | The wireless module between the initialising threads, the event loop that dials and the set-up menu. |
| `MCModem` | Instances of `Modem` for TLC. |
| `Modem_proofs` | One initialisation at a time, no socket lost and no retry of a dial whose time is over, proved. |
| `Totals` | The amounts of records and requests, the totals of a settlement, the batch upload and the limits. |
| `MCTotals` | Instances of `Totals` for TLC. |
| `FiniteSums` | Induction over finite sets, and what a sum over one is, proved. |
| `Totals_proofs` | The amounts that requests name, the totals of a settlement and the limit, proved. |

The layers meet at `AtomicLog`. `TranLog` shows that the store's operations are
atomic under power failures; `Edc` takes them as atomic and lets the power fail
between any two; `EdcStore` shows that the operations it takes are those that
`AtomicLog` has. `Comm` and `Totals` look at the same operations from two other
sides: `Comm` keeps which host a packet reaches and which request an answer
belongs to, and leaves out the offline uploads; `Totals` keeps the amounts, and
leaves out reversals and power failures, which are the matter of `Edc`. `Modem`
lies below `Comm`, whose dial succeeds or fails at will.

### TranLog and the code

`ctl`, `rev` and `par` are the RAM copies (`gstSysCtrlParam` up to and without
`stRevInfo`; `stRevInfo`; the batch numbers in `gstSysParam`), `ctlFile`,
`revFile` and `parFile` what the files hold of them, and `log` is TRANLOG.
SYSCTRL is two variables because `SaveSysCtrlBase` writes only the prefix before
`stRevInfo`, `SaveSysCtrlNormal` both, and `SaveRevInfo` one entry of the second.
`pc` is the place between two writes: `recLog`, `recRev`, `recBase` inside
`RecoverTranLog`, `clear` and `param` inside the erasing of a batch, `init` in
`ProcAppInitEvent`, `idle` in a handler between two store operations, `off`
without power. `PowerFail` loses RAM at any place; since the dead RAM copies are
not read before `CheckTermSatus` replaces them, they get the files' values at
once. `settled` is a history variable: the number of the batch the host last
closed. `steady`, in `TranLogPower`, says that the power never fails on this
terminal.

Abstracted: a record is its acquirer and one of a few bodies (only TS_NOSEND is
looked at by the store), a packet is a model value, the issuer list and the
per-acquirer last record follow the acquirer list, the date of the last
settlement and the counters are left out. A single `PubFileWrite` is taken to be
atomic: the code makes the same assumption for the journal itself. A void packet
or sale packet are both `Pack`. Parameter files are written as a whole; only the
batch numbers matter here. `SaveSysCtrlAll` is `SaveSysCtrlNormal`: the rest of
the file is the reprint information.

### Edc and the code

`log`, `rev` and `status` are the store of one acquirer; `log[t]` is the set of
status flags of the record of transaction `t`. `run` is what RAM knows of the
operation in progress; `pc` is the exchange it is at (`reverse`, `request`,
`offline`, `tc`, `settle`, `upload`, `resettle`) or a place between exchanges,
and `step` is the place inside `SendRecvPacket`: before `SendPacket`, before the
save, before `RecvPacket`. A nested call has the name of what follows it in
`run.then`, `run.job` and `run.chip`, as in the code: a call is nested in one of
a handful of ways only. `Failed` is the one place that says what each caller does
when `SendRecvPacket` returns an error.

The host is external: `Answers` lists, for each request, the answers it may give
and what each does to its open batch. It books what it approves, closes the batch
on a settlement whose total equals its own, asks for the batch upload otherwise,
and may refuse at will, advices and certificates included: `OfflineSend`,
`TransSendTC` and `TransUpLoad` look at no response code, and what was refused
counts as sent. A request arrives at once or never; an answer arrives,
is lost, or is refused by `ProcRecvPacket` after it has been stored. `exposed`
and `lapsed` are history variables for the two gaps in which the code has no
protection: power failing between `CommTxd` and the save that follows it. Two more,
`dropped` and `refused`, name the transactions whose reversal a LOGON has dropped
and those of which the host has refused the advice.

A LOGON (`TransLogon`) is the one request that `TranProcess` sends without looking
for a pending reversal. It has none of its own, so that `SaveRevInfo(TRUE)` does not
overwrite the one slot; but `AfterTranProc` ends it as any other request
(`EndReversal`), and drops what is in the slot. When it fails, `TranReversal`
follows as after any request. `run.todo` is what the loop of TransUpLoad has before
it, one record in each exchange.

`Feature` says what may happen in an instance. It serves to check a property
where it is meant to hold, and to show the shortest way in which it fails
elsewhere.

Abstracted: amounts, packets and numbers (a transaction is its own STAN); refunds
are sales; pre-authorisation, authorisation and instalment take the path of a
sale and are left out, and so is the maximum batch amount of `ChkSettle`.
`OFFLINE_TEST_VERSION`, defined in `global.h`, stubs the line; the model is of the
program built without it.

`EdcStore` adds `last`, the record a reprint takes: RecoverTranLog sets it to the
record it writes, ClearRecord forgets it with its batch, and TransAdjust sets it in
a write of its own after UpdateTranLog (`adjusted` is the record between the two).
The instance of `AtomicLog` has one acquirer; a transaction is its own slot, the
flags of a record are its body, and those with NOSEND are the unsent ones.

### Comm and the code

`conn` says whose host each of the two lines is connected to, `wire` the answers
on their way over it, and `cfg` is the kind of line in `sg_stCurCfg`. `link` and
`auto` are the set-up: a kind of line per acquirer and automatic settlement. `stan`
is ulSTAN; a sale is its STAN. `cur` is `gstCurAcq`, `req` is `gstSendPack`, `pc`
the exchange and `step` the place inside `SendRecvPacket`: before the packet goes
out, before GetNewTraceNo, before the save, before the answer. `all` is the loop of
TransSettle over the acquirers, `then` what follows TranReversal.

`Kept`, `Dialled` and `NotDialled` are CommDial: a line that is open is used as it
is, without a look at whose it is; over GPRS a cancelled connect leaves a dead
socket, and a cancelled wait for the modem's state leaves the modem as it is.
`PreDial` is the dialling ahead of ConfirmPanInfo and TransLogon, and `card` the
place until the transaction begins or the entry is given up: `CardRefused` where
CommOnHook follows, `CardCancelled` where it does not. `AfterRxd` is what CommRxd
does to the line: TCP/IP is hung up, GPRS and modem are kept. `Matches` is what
ProcRecvPacket compares of an answer: type, STAN and terminal number, and the
acquirer's NII is not among them. `Finish` hangs up the kind of line that was used
last, and only that. A LOGON is of the first acquirer, skips TranReversal and drops
its acquirer's reversal when answered.

The hosts are external. A packet reaches the host the line is connected to or
nobody; that host takes it, refuses it or ignores one that is for another. An
answer may come in time, late or never. A host may close its batch whatever the
totals are: that it does so only in balance is in `Edc`. `torn` and `exposed` are
history variables for the gap between CommTxd and the writes after it, `last` for
the last STAN used, `left` for a line that a cancelled card entry has left open.

### Modem and the code

One action is what runs between two accesses to the shared variables: `ret`
(`sg_InitModulRet`), `tid` (`InitCommTid`), `sock` (`sg_Tcpsocket`), `owed`
(`sg_ucWirePPPFlag`). `init` says where each thread, and the event loop when it
initialises the module itself, is inside InitWirelessModule; `pc` says where the
event loop is in WirelessDial, in dialling ahead (`pre...`) or in the dial proper.
`up` and `ppp` are the module and its link, external: every call may fail, the
link may drop at any moment, nothing succeeds on a module without power.
`reinit`, `timeouts`, `dials` and `tries` are the counters of the retry loops, with
their bounds as in the code, and `late` says that the 60 seconds are over. There are
four resets of the module in a dial: one goes on to the link check (`reinit`), the
one before a login goes on to the login (`rereset`), and those after three timeouts
or three logins in vain end the dial (`reset`).

`raced` is a history variable. A dial joins the initialising thread before it
touches the module, but the dialling ahead while a card is read
(Commlib.c:1829) and the set-up menu (Setup.c:767) do not: either may close the
module, and the set-up start a second initialisation, while the first one runs.
`raced` is set when that happens, and the properties of order are stated for runs
in which it has not.

### Totals and the code

A record has a type, a tip, the original amount of an adjustment (`org`) and its
status bits; its base amount and its acquirer belong to the transaction. `req` is
what a request says of amounts (field 4, and the original amount of field 60),
`total` is `gstAcqTotal`, `left` the records a batch upload has still to send,
`todo` the acquirers the loop has still to serve, the least of them `gstCurAcq`.
`CalcTotal` is the count and the sum (`SumFunctionOnSet`) of the `amounts` of the
records of an acquirer. `InSaleTotal` is
the flag of `glTranConfig`, looked up for the type a record had before it was
voided, as `CalcTotal` does. `PubAsc2Long` saturates at `MaxLong`.

The hosts are external: `held` is the amount a host last took for a sale,
`certs` the certificates it has got, `batch` the count and sum of the records
uploaded. A host may refuse any upload, and the terminal takes the refusal as it
takes an approval (`TakenOrRefused`). Two variables are history: `unsure`, the answer
to the last upload of this record was lost, so that the terminal does not know which
of two amounts the host holds; and `refused`, the host has refused an upload of it
and taken none since.
Pre-authorisations are in the log and in no total.

## 3. What is checked

| Run | Instance | States | Question |
|---|---|---|---|
| `store_power` | 2 acquirers, 2 slots, 2 bodies, 1 packet, batch numbers 1..2; runs with power failures and runs without; fairness | 900,000 | Do the files always stand for a state of `AtomicLog` (`AtomicSpec`), do failures and recovery change nothing of it (`RecoveryIsInvisible`), do index and log agree (`IndexMatchesLog`), is the last record live (`LastIsLive`), is every change saved before the next event reloads (`ReloadLosesNothing`), does recovery come first (`HandlersSeeNoJournal`) and end (`RecoveryEnds`), is a closed batch gone (`ClosedIsErased`), and has every new batch a new number while the power stays on (`SteadyBatchIsFresh`)? |
| `edc_power` | `EdcStore`; 3 transactions, a log of 2, every feature but CLR REVERSAL and refused answers to a chip; a constraint | 674,000 | Do the books agree (`NothingUnlogged`, `LoggedIsLive`, `TotalsAgree`), is a pending reversal always sent first (`ReversalGoesFirst`), is no batch forgotten with anything unsent (`BatchClosesPaid`), does a closed batch stay closed (`ClosedBatchGrowsNot`), and is every change of the store one that `AtomicLog` has (`OnAtomicLog`)? |
| `edc_steady` | `Edc`; 2 transactions, a log of 2, without power failures, CLR REVERSAL and all refused answers included; fairness | 264,000 | Is a voided sale void at the host (`VoidedIsNotLive`), and does every operation end (`OperationsEnd`)? |
| `comm_all` | 2 acquirers under one terminal number, every choice of TCP/IP, GPRS and modem for each; dialling ahead; power failures; fairness | 762,000 | Is a batch only forgotten when its own host has closed it (`ClosesWithItsHost`), and a reversal only dropped when it is not needed or by a LOGON (`ReversalIsDone`), late answers included? Is a STAN never used twice (`StanIsFresh`)? Does a packet go to its acquirer's host (`SaleReachesItsHost`, `TcpReachesItsHost`)? Does an event end (`EventEnds`)? |
| `modem_threads` | 2 threads besides the event loop; fairness | 789,000 | Is there one initialisation at a time (`OneInitialiser`), does its result tell the truth (`ReadyIsUp`), is no socket lost (`NoSocketLost`), and does a dial end (`DialEnds`), without a retry once its time is over (`LateDialEnds`)? |
| `totals_all` | 3 transactions of 2 acquirers, a log of 2, tips of 0 and 1; two constraints | 1,979,000 | Do voids and advices name the amount the host holds (`VoidNamesHeldAmount`, `AdviceNamesHeldAmount`)? Are the totals those of the host (`TotalsAreHeld`, `CertificatesAreThere`) and of the batch upload (`UploadAddsUp`)? Does the limit of ChkSettle hold (`LimitHolds`)? |

Bounds. In `TranLog` two slots let a record be saved beside another one, a slot be
freed and taken again, and the log be full; two acquirers let one batch be erased
while the other stays; batch numbers up to 2 make the wrap happen. One packet is
enough: what tells a kept reversal from a dropped one is whether there is one. In
`Edc` three transactions in a log of two make the log full while a third wants in,
leave a batch of two with one record voided or unsent, and let a reversal of an
earlier transaction meet a later one. The chains of nested exchanges do not get
longer with more records. `edc_power` has a constraint, `AtMostOneLost`: in one
batch no more than one transaction is exposed to a power failure, loses its reversal
to a LOGON or is refused as an advice. The properties leave out just these, so that
one beside two sound transactions shows what it does to the others; `EdcLedger_proofs`
has no such bound. Two transactions are enough for `edc_steady`, where one is voided
while another is uploaded or settled. Model values are symmetric in `edc_power` only, which
has no liveness property.

In `Comm` no operation begins above a STAN of `LastBegin` = 2, and `MaxStan` = 9 is
never reached by what such an operation sends: two events with the reversals,
settlements and late answers they give rise to. That is enough for an answer to a
sale given up to meet the reversal, the next sale or a settlement with either host.
The wrap of the STAN, after 999,999 requests, is not reached. Two
acquirers under the same terminal number are the harder case: the terminal number
does not tell their answers apart. WIFI takes the path of TCP/IP, CDMA that of
GPRS.

In `Modem` the counters have the bounds of the code. Two threads let the set-up
create one while that of start-up still runs. In `Totals` the base amounts 2, 3
and 7 with tips of 0 or 1 let a sum show which records are in it; the limit of 4
lies between one sale and two, and `MaxLong` = 9 below the largest sum, so that
the saturation of `PubAsc2Long` happens. Two constraints keep it small:
`AtMostOneDoubtful`, the first transaction alone has uploads that are unanswered
or refused, and `InOrder`, the two transactions of one acquirer come in the order
of their amounts. `Totals_proofs` is without these bounds. `totals_all` has no
deadlock check: after three transactions and a settlement the operator has nothing
left to do.

Fairness. `TranLog`: what the program does on its own (`Continue`) goes on, and a
terminal without power is switched on again; `RecoveryEnds` speaks of runs in
which the power stays on from some point. `Edc` (`SteadySpec`, where the power
stays on) and `Comm`: an operation that has begun goes on, since the program's
waits for keys, cards and answers have timeouts; only `CommTxd` is called with
none, and the assumption is that the driver returns. `Modem`: the event loop and each thread go on, as the scheduler of the
operating system runs both, and the timer of the 60 seconds expires. Nothing is
assumed of a line, a host, the wireless module or its network: an upload loop ends
because a failed exchange ends it and a successful one clears a flag, and a dial
because its counters and its timer end it.

### Where the code falls short

Six runs expect a violation; `PROJECT.json` has the finding of each.

* `store_batchno`: `ClearRecord` writes the erased index before the raised batch
  number. A power failure between leaves the next batch under the old number.
* `store_battery`: a start on a low battery skips the erasing of a closed batch,
  and no later event does it.
* `edc_void`: a void marks its record and drops its reversal in two writes. A
  power failure between them lets the next transaction reverse the void: the
  sale stands at the host and is void in the terminal.
* `edc_mismatch`: `SaveRecvPackData` stores the response code of an answer before
  `ProcRecvPacket` has checked it. With a chip, `FinishEmvTran` takes such a code
  for the host's rejection and drops the reversal of a sale the host has booked.
* `edc_manager`: CLR REVERSAL also clears "settlement pending"; after a lost
  settlement answer new sales go into a batch the host has closed.
* `comm_host`: the comment at Commlib.c:484 says that the TCP connection must be
  closed after an answer, and connected again for the next exchange. CommRxd does
  so for TCP/IP and not for GPRS: in the loop over all acquirers the second one's
  packets go to the first one's host. `ClosesWithItsHost` shows what this does not
  break: the second batch is not forgotten.

The passing runs state the same properties where these ways are closed, so that
they show there is no other.

More shortcomings were met while modelling. Of the first three the actions are in the
models, and the properties are stated with what they harm cut out by a history
variable; TLC refutes each of them once its variable is left out of it.

* TranProcess sends a LOGON past a pending reversal (Commproc.c:41), and AfterTranProc
  ends it with SaveRevInfo(FALSE) (Commproc.c:615, 658): the reversal of a sale whose
  answer was lost is gone, the sale stands at the host, and the terminal has no record
  of it (`dropped`; `NothingUnlogged`).
* What the host answers to an advice, a certificate or a record of the batch upload is
  not looked at (Transproc.c:1162, 2113, 2292): a refused advice counts as sent, and
  terminal and host differ by it (`refused`; `LoggedIsLive`, `TotalsAgree`,
  `TotalsAreHeld`).
* ConfirmPanInfo dials the modem ahead for the acquirer of the card. When the security
  code is cancelled (Card.c:481) the event ends without CommOnHook (main.c:506-510,
  539-543), and the next dial takes the connected modem for its own (Commlib.c:1373):
  the next card's sale goes to the host of the card that was given up (`left`;
  `SaleReachesItsHost`).

Four others no property is about. An amount of ten digits saturates in the atol
before the chip kernel (Emvproc.c:762). A log full of pre-authorisations has no
totals, so TransSettle answers EMPTY BATCH (Transproc.c:1781) and only CLR BATCH
makes room. The loop over all acquirers
erases the directory of the signature images after each of them
(Transproc.c:1825), those of the acquirers still to come too. ChkSettle lets the
records of voice referrals be adjusted above the limit, as their type is not in its
list; `LimitHolds` counts their tips apart.

## 4. What is proved

`TranLog_proofs` holds for every set of acquirers, every number of slots, every
number of batch numbers, every set of bodies and packets, with or without power
failures. The assumptions are `ConstantsAssumption` of `TranLog`: the null values
differ from the real ones, and there is at least one slot and one batch number.

* `Invariance`: `Spec => []IInv`. The properties of section 3 are not inductive.
  `LastIsLive`, say, is about the file, but a handler computes what it writes from
  RAM, and a journal found at power-on will set the last record to a slot that
  the file need not show as last yet. `IInv` is the type invariant with
  `RamOK` (a RAM copy equals its file, but for the batch number between the two
  writes of `ClearRecord`), `JournalOK` (the journal is in use exactly while
  recovery has work or the power is off, and the index already names its record),
  `LogOK` (a used slot holds its acquirer's record, or is the journal's),
  `StepOK` (what recovery has written so far), `LastOK` and `ClosedOK` (who may
  see a closed batch). The proof that a step keeps `IInv` has one step per action.
* `TypeCorrect`, `IndexAgrees`, `LastAlwaysLive`, `ReloadSafe`, `NoJournalInUse`,
  `ClosedGone`: the safety properties of `store_power`, from `Invariance`.
  `ClosedGone` assumes that start-up is not refused for a low battery, as
  `store_battery` shows it must.
* `ImplementsAtomicLog`: under the same assumption `Spec => AtomicSpec`. The
  refinement mapping reads the atomic store off the files: a journal counts as
  applied and a batch in S_CLR_LOG as erased. So the atomic Save is the write of
  the journal and the atomic Clear the write of S_CLR_LOG; the writes that follow,
  a power failure and the recovery are stutters. One lemma per action says which.
* `NumbersAreFresh`: `PowerSpec => []SteadyBatchIsFresh`, for two or more batch
  numbers; with one alone GetNewBatchNo has no other to give. `BatchIsFresh` speaks
  of batches that are open. `NumbersOK` says besides that a closed one, which has the
  settled number still, is being erased at this moment: only a power failure can
  leave it for later, and leave the raised number unsaved.
* `RecoveryIsBounded`: `EveryWriteCounts`, for any finite set of acquirers. See below.
* `RecoveryUnseen`: under the same assumption, `RecoveryIsInvisible`. It is needed
  beside the refinement because `AtomicLog` lets a reversal be raised or dropped
  at any time: a recovery that lost or revived one would look like such a step.

`Edc_proofs` holds for every set of transactions, every log size and every choice
of `Feature`, refused answers, power failures and CLR REVERSAL included. It
assumes the `ConstantsAssumption` of `Edc`.

* `Invariance`: `Spec => []IInv`. Neither `ReversalGoesFirst` nor
  `BatchClosesPaid` is inductive: that no reversal is pending when a packet leaves
  follows from the exchange before it, and that nothing is owed when a settlement
  is answered from the upload loops three calls earlier. `IInv` adds what each
  place in the chain of calls may rely on: `SubjectOK` (which transaction a call is
  about, and that it has the flag the call is to clear), `NoRevOK` (from which
  calls on no reversal is pending) and `PaidOK` (which loops a settlement has
  been through). The proof has one step per action, grouped by the part of an
  operation they belong to; `FailedInvariant` covers every caller whose exchange
  fails, `UploadedInvariant` every record that loses a flag.
* `TypeCorrect` and `ReversalFirst` from `Invariance`. A LOGON may pass a pending
  reversal; that it has none of its own to save is why the slot is not overwritten.
* `ClosedBatchIsPaid`: `Spec => BatchClosesPaid`. `OnlySettledForgets` shows that no
  other action takes a record out of the log, and `IInv` what holds at `Settled`.
* `OperationsAreBounded`: `EveryStepCounts`, for any finite set of transactions. See
  below.

`EdcLedger_proofs` proves the comparison of terminal and host, under `Intact`: CLR
REVERSAL and refused answers to a chip are left out, since `edc_manager` and
`edc_mismatch` show that each of them breaks it. Power failures, lost and refused
answers to a swiped card, a full log, automatic settlement, LOGONs and refused
uploads are in: the transactions they harm are named by `exposed`, `dropped` and
`refused`, and the proof says that the harm is confined to them.

* `LedgerInvariance`: `Spec => []Ledger`, beside `IInv`. None of the properties is
  inductive, as each speaks of a moment at which nothing is under way. `Ledger`
  says at every step why the books may differ: `SaleOK` for each sale (what the
  host holds and the log lacks is being reversed, is on its way between sending and
  saving, or has lost its reversal to a power failure or a LOGON; and the other way
  round, but for advices the host refused), `RequestOK`
  and `AnsweredOK` for the card's transaction from its start to its record (a known
  answer tells what the host did), `UploadOK` for reversals and uploads, and
  `SettleOK` for the totals and for the batch the host may have closed.
* `UnloggedIsReversed`, `LoggedStaysLive`, `TotalsMeet` and `ShutIsShut` are
  `NothingUnlogged`, `LoggedIsLive`, `TotalsAgree` and `ClosedBatchGrowsNot`.
* `VoidedStaysVoid` is `VoidedIsNotLive`, without power failures: `edc_void` shows
  that one between the two writes of a void breaks it. It needs `VoidOK` besides:
  until its reversal is dropped, a record marked void is that of the operation in
  progress.

`EdcStore_proofs` holds for every choice of `Feature`. It assumes that a record is
not the null value (`RecordsAssumption`).

* `StoreKeepsSpec`: `StoreSpec => Spec`, so that all that is proved of `Edc` holds of
  `EdcStore`.
* `ImplementsAtomicLog`: `StoreSpec => OnAtomicLog`. Every step of the host protocol
  writes the log in one of four ways (`OneWrite`), and each is an operation of
  `AtomicLog`. That a record is saved in a free slot takes an invariant of its own
  (`SlotOK`): the transaction of a request has no record until its answer is dealt
  with. With `ImplementsAtomicLog` of `TranLog_proofs` it closes the gap between the
  two layers.

`Comm_proofs` holds for every number of acquirers, every choice of lines and of
terminal numbers, for any number of operations and power failures. It assumes the
`ConstantsAssumption` of `Comm`.

* `TypeCorrect`, `TcpReaches` and `SaleReaches` (the properties
  `TcpReachesItsHost`, `SaleReachesItsHost`) hold whatever the trace number. They
  rest on `OwnLine`: with TCP/IP alone a packet always finds the line closed, and
  where all acquirers share a line it is closed or the acquirer's own, dialled ahead
  or not, but in the loop over all of them and after a card entry that left it open
  (`left`).
* `Invariance`: `Spec /\ []NoWrap => []IInv`, where `NoWrap` says that the trace
  number has not reached its largest value; after a wrap an old answer may bear a
  number in use again. What `ProcRecvPacket` compares shows only that an answer
  bears the right number. `IInv` says why that is enough: all answers on their way,
  all reversals and all sales of the hosts have a number below that of the next
  request (`Bound`), which for a sale was taken before its reversal raised it
  (`SaleBuilt`); while an answer is awaited, one with its number is a reply to this
  very request and tells what its host did (`Awaited`); and no two acquirers have a
  reversal under one number, nor a host a sale it has answered the reversal of
  (`Reversals`). TLC checked `IInv` on the instance of `comm_all` before.
* `FreshStan`, `ClosesTogether` and `ReversalsDone` are `StanIsFresh`,
  `ClosesWithItsHost` and `ReversalIsDone`, under the same assumption. The last
  leaves out what the answer to a LOGON drops.
* `EventsAreBounded`: `EveryStepCounts`, whatever the trace number. See below.

`Modem_proofs` holds for every set of threads.

* `Invariance`: `Spec => []IInv`, the types and, unless `raced`, `Order`: the one
  thread that runs is the one `InitCommTid` names, which is why a join before the
  dial is enough; from the join to the end of the exchange no thread runs; and
  "ready" without power is only said while a thread waits to begin.
* `TypeCorrect`, `InitialiserAlone`, `ReadyHasPower` and `SocketKept` from it. That
  the counters stay in their bounds is half of `TypeCorrect`, and half of the
  reason why a dial ends.
* `LateDialsEnd`: `LateDialEnds`, the other half. See below.

`Totals_proofs` holds for every finite set of transactions and all amounts, limits
and acquirers.

* `Invariance`: `Spec => []IInv`. `RecordOK` relates each record to what its host
  holds: unless unsure or refused, that is its amount without the adjustment not yet sent
  (`TipToVoid`); `RequestOK` says that a request still fits its record.
* `VoidsNameHeldAmount` and `AdvicesNameHeldAmount` from it.
* `SettlementInvariance`: `Spec => [](IInv /\ Rest)`. The four properties of the
  settlement speak of one acquirer at one moment; `Rest` says what holds on the way
  there. `AddsUp`: the totals of every acquirer still to be served are the count and
  the sum of its log, although `TransSettle` computed them before the uploads of
  those before it; an upload changes flags and never an amount. At the settlement
  nothing is unsent, so that by `RecordOK` the log holds what the host holds, if the
  host has refused no advice of the batch.
  `Uploading`: what a batch upload has sent and what it has left adds up to the
  totals. `BelowLimit` carries `LimitHolds` through a settlement, which clears one
  acquirer's records at a time. `Books`: certificates sent are of logged records.
* `TotalsOnTheLineAreHeld`, `BatchesAddUp`, `CountedCertificatesAreThere`,
  `LimitIsKept` and `TypesHold` from it. That the counts are numbers is part of the
  types here: a record may be added only while the log is finite.

The sums need induction over finite sets. The library's induction theorems take an
operator, which the provers cannot instantiate; `FiniteSums` states them for a set
`P` of subsets instead, from the well-foundedness of strict inclusion. From it
follow that the recursive function behind `SumFunctionOnSet` exists and is unique,
and what a sum is when an element is added, removed or changed.

Bounds on steps. That something ends is a liveness property, and those are out of
reach. What can be proved is that no step is in vain: `StepsLeft` (`DialLeft` in
`Modem`) is a natural number that every step of the program makes smaller, so that
an operation, an event, a recovery or a dial that is late has a bounded number of
steps to its end, with nothing assumed of a line, a host or the network. With the
fairness of section 3 this is what `OperationsEnd`, `EventEnds`, `RecoveryEnds` and
`DialEnds` rest on. The number is the place in the chain of calls, with three steps
for each flag an upload loop has to clear and each record of a batch upload (`Edc`), eight for each acquirer the loop
has still to come to (`Comm`: at most 10 + 8 * AcqNum in all), or two for each closed
batch that is not erased yet (`TranLog`). In `Modem` it counts only once the 60
seconds are over: before, a link that comes and goes may take a dial round its
loops; after, at most nineteen steps are left. `modem_threads` checks `LateDialEnds`; TLC found the other three to hold on
the instances of `store_power`, `edc_steady` and `comm_all` before they were proved.

Only checked, not proved: the four liveness properties `RecoveryEnds`,
`OperationsEnd`, `EventEnds` and `DialEnds`, since fairness and ENABLED are out of
the proof system's reach. Of the properties of the passing runs all others are
theorems.

## 5. Not modelled

The EMV kernel, the modem and the PED are vendor code; the models have their
outcomes. The codec, printing, display and most of the set-up menus are formatting and
operator dialogue; so is card capture, but for the dialling ahead, and TransLogon, but
for its exchange: the working keys it stores are in the PED. Of the components that are modelled the
following is left out: invoice numbers, the sums per issuer, the search by invoice
number and AllowDuplicateTran, which only asks the operator; the EMV error ring log
and the reprint information; the creation of the files at the first run; a change
of parameters under a batch; RS232 and the association of WIFI.

Some code never runs in this build: the contactless branch of `main`
(`_POS_TYPE_6210`, global.h:20), ThreadPreDial and TransRefund (no caller),
CheckAutoSettlement (commented out, main.c:344); TransAdjust is reached only
by the function key. Most of the repository's lines are headers of the vendor's SDK
and the toolchain, of which the program uses a few dozen functions.

## 6. Plan

Done, in this order: `AtomicLog`, `TranLog` and its proofs, `Edc` and its first
proofs, `Comm`, `Modem`, `Totals`, the ledger of `Edc` proved, `EdcStore` and its
refinement proved, `Comm` proved, the sums of `Totals` and the batch numbers proved,
the bounds on steps proved.

Left: a change of parameters between two events, on top of `TranLog`; the first
run and the initialisation of the parameters; the bitmap and the lengths of the ISO 8583 codec as operators.
