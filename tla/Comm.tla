-------------------------------- MODULE Comm --------------------------------
(***************************************************************************)
(* Several acquirers, each with a host of its own, behind the terminal's   *)
(* one line of each kind: ConnectHost, SendPacket and RecvPacket of        *)
(* Commproc.c over CommDial, CommTxd, CommRxd and CommOnHook of Commlib.c, *)
(* driven by TranProcess, TranReversal, TransLogon, TransSettle and        *)
(* TransAutoSettlement, with the PreDial of the card entry before them.    *)
(*                                                                         *)
(* A dial that finds the line open succeeds without asking whose host is   *)
(* at the other end, and a connection that is kept may bring an answer     *)
(* after its request was given up.  What protects the terminal are the     *)
(* checks of ProcRecvPacket, the system trace number (STAN) above all.     *)
(*                                                                         *)
(* The hosts and the network are external: a packet reaches the host the   *)
(* line is connected to or nobody, an answer may be lost or late, and a    *)
(* host refuses a packet for another acquirer or ignores it.  Offline      *)
(* records, certificates and batch upload are left to Edc: here a host may *)
(* close its batch whatever the totals are.                                *)
(***************************************************************************)
EXTENDS Naturals, Sequences, FiniteSetsExt

CONSTANTS
    AcqNum,     \* uiAcqNum
    Links,      \* the set-ups tried: a kind of line per acquirer
    TermID,     \* szTermID of each acquirer
    MaxStan,    \* 999999 in the code
    LastBegin,  \* bound: no operation begins above this STAN
    Power,      \* the power may fail
    NoHost,     \* the line is not connected
    Dead,       \* an open socket whose connect was cancelled
    NoStan      \* bNeedReversal = FALSE

Acq == 1 .. AcqNum
Stan == 1 .. MaxStan
Link == {"TCPIP", "GPRS", "MODEM"}        \* WIFI is as TCPIP, CDMA as GPRS
Line == {"net", "modem"}                  \* sg_Tcpsocket, sg_iModemfd
Type == {"sale", "logon", "reversal", "settle"}
Packet == [type: Type, acq: Acq, stan: Stan]
Answer == [type: Type, acq: Acq, stan: Stan, code: {"00", "05"}]

ASSUME ConstantsAssumption ==
    /\ AcqNum \in Nat \ {0} /\ MaxStan \in Nat \ {0} /\ LastBegin \in Nat
    /\ Links \subseteq [Acq -> Link] /\ DOMAIN TermID = Acq
    /\ Power \in BOOLEAN
    /\ NoHost \notin Acq /\ Dead \notin Acq /\ Dead # NoHost /\ NoStan \notin Stan

VARIABLES
    link,     \* stTxnCommCfg.ucCommType of each acquirer
    auto,     \* EDC_AUTO_SETTLEMENT
    cfg,      \* the kind of line in sg_stCurCfg, which CommOnHook closes
    conn,     \* whose host each line is connected to
    wire,     \* the answers on their way over each line
    stan,     \* ulSTAN
    log,      \* the sales of each acquirer's batch
    rev,      \* stRevInfo of each acquirer: the sale to be reversed
    status,   \* sAcqStatus
    host,     \* the open batch of each host
    cur,      \* gstCurAcq
    req,      \* gstSendPack
    pc,       \* what the program does next
    step,     \* where SendRecvPacket is in a call
    then,     \* what follows TranReversal
    all,      \* the loop over all acquirers is on
    last,     \* history: the STAN of the last new request
    torn,     \* history: power failed before that STAN was raised
    exposed,  \* history: sales sent when power failed before SaveRevInfo
    left      \* history: a card entry was given up and left a line open

setup == <<link, auto>>
lines == <<cfg, conn, wire>>
store == <<log, rev, status>>
flow == <<cur, req, pc, step, then, all>>
history == <<last, torn, exposed, left>>
vars == <<link, auto, cfg, conn, wire, stan, log, rev, status, host, cur, req, pc, step,
          then, all, last, torn, exposed, left>>

TypeOK ==
    /\ link \in Links /\ auto \in BOOLEAN /\ cfg \in Link
    /\ conn \in [Line -> Acq \cup {NoHost, Dead}]
    /\ wire \in [Line -> Seq(Answer)]
    /\ stan \in Stan
    /\ log \in [Acq -> SUBSET Stan]
    /\ rev \in [Acq -> Stan \cup {NoStan}]
    /\ status \in [Acq -> {"S_USE", "S_PENDING"}]
    /\ host \in [Acq -> [sale: SUBSET Stan, shut: BOOLEAN]]
    /\ cur \in Acq /\ req \in Packet
    /\ pc \in {"idle", "card", "reverse", "request", "settle", "finish"}
    /\ step \in {"send", "trace", "save", "recv"}
    /\ then \in {"request", "settle", "end"} /\ all \in BOOLEAN
    /\ last \in Nat /\ torn \in BOOLEAN /\ exposed \subseteq Stan /\ left \in BOOLEAN

Idle == [type |-> "sale", acq |-> 1, stan |-> 1]     \* gstSendPack of no account
NewBatch == [sale |-> {}, shut |-> FALSE]
AllClosed == [l \in Line |-> NoHost]
NothingOnTheWay == [l \in Line |-> <<>>]

Init ==
    /\ link \in Links /\ auto \in BOOLEAN /\ cfg = link[1]
    /\ conn = AllClosed /\ wire = NothingOnTheWay
    /\ stan = 1
    /\ log = [a \in Acq |-> {}] /\ rev = [a \in Acq |-> NoStan]
    /\ status = [a \in Acq |-> "S_USE"]
    /\ host = [a \in Acq |-> NewBatch]
    /\ cur = 1 /\ req = Idle /\ pc = "idle" /\ step = "send" /\ then = "end" /\ all = FALSE
    /\ last = 0 /\ torn = FALSE /\ exposed = {} /\ left = FALSE

------------------------------------------------------------------------------
(* The lines. *)

LineOf(kind) == IF kind = "MODEM" THEN "modem" ELSE "net"
MyLine == LineOf(link[cur])

Renewed(l, h) == conn' = [conn EXCEPT ![l] = h] /\ wire' = [wire EXCEPT ![l] = <<>>]
Hang(l) == Renewed(l, NoHost)

\* CommDial(ACTDIAL_MODE) succeeds: the line is open already, or it is dialled; GPRS
\* and modem also dial again when they find the open line dropped.
Kept == conn[MyLine] # NoHost /\ UNCHANGED conn
Dialled ==
    /\ conn[MyLine] = NoHost \/ link[cur] # "TCPIP"
    /\ conn' = [conn EXCEPT ![MyLine] = cur]

\* It fails: the line is closed, or the user cancels the wait, which leaves a GPRS
\* socket and a modem as they are, the modem perhaps just connected.
NotDialled ==
    \/ Hang(MyLine)
    \/ link[cur] # "TCPIP" /\ UNCHANGED <<conn, wire>>
    \/ link[cur] = "GPRS" /\ Renewed("net", Dead)
    \/ link[cur] = "MODEM" /\ Renewed("modem", cur)

\* CommDial(PREDIAL_MODE) for acquirer a, whatever it returns: GPRS may lose its open
\* socket to a module initialised anew, the modem is dialled unless it is connected.
PreDialled(a) ==
    \/ UNCHANGED <<conn, wire>>
    \/ link[a] # "TCPIP" /\ Hang(LineOf(link[a]))
    \/ link[a] = "MODEM" /\ Renewed("modem", a)

\* Mutant: TCPIP keeps its connection after CommRxd, as GPRS does.
AfterRxdKeeps(rest) == wire' = [wire EXCEPT ![MyLine] = rest] /\ UNCHANGED conn

\* CommRxd hangs up TCPIP whatever came; the others keep the line and what is on it.
AfterRxd(rest) ==
    IF link[cur] = "TCPIP" THEN Hang(MyLine)
    ELSE wire' = [wire EXCEPT ![MyLine] = rest] /\ UNCHANGED conn

------------------------------------------------------------------------------
(* The host at the other end of the line, external. *)

Reply(m, code) == [type |-> m.type, acq |-> m.acq, stan |-> m.stan, code |-> code]

Booked(h, m) ==
    CASE m.type = "sale"     -> [host EXCEPT ![h].sale = @ \cup {m.stan}]
      [] m.type = "reversal" -> [host EXCEPT ![h].sale = @ \ {m.stan}]
      [] m.type = "settle"   -> [host EXCEPT ![h].shut = TRUE]
      [] m.type = "logon"    -> host

\* Host h gets packet m: silence, a refusal, or what it asks for with or without an
\* answer that reaches the line.
HostTakes(h, m) ==
    LET on == IF conn' = conn THEN wire[MyLine] ELSE <<>>
    IN  \/ UNCHANGED host /\ wire' = [wire EXCEPT ![MyLine] = on]
        \/ UNCHANGED host /\ wire' = [wire EXCEPT ![MyLine] = Append(on, Reply(m, "05"))]
        \/ /\ h = m.acq
           /\ host' = Booked(h, m)
           /\ \/ wire' = [wire EXCEPT ![MyLine] = on]
              \/ wire' = [wire EXCEPT ![MyLine] = Append(on, Reply(m, "00"))]

------------------------------------------------------------------------------
(* Where the program goes. *)

Goto(place) == pc' = place /\ step' = "send"

\* Mutants: the loop runs past the last acquirer; it stays with one it could not
\* settle.
NextSettlementPastEnd(batch) ==
    LET todo == {a \in 1 .. AcqNum + 1 : a > cur /\ (a \in Acq => batch[a] # {})}
    IN  IF all /\ todo # {}
        THEN cur' = Min(todo) /\ then' = "settle" /\ Goto("reverse") /\ UNCHANGED <<req, all>>
        ELSE Goto("finish") /\ UNCHANGED <<cur, req, then, all>>
NextSettlementSame(batch) ==
    LET todo == {a \in Acq : a >= cur /\ batch[a] # {}}
    IN  IF all /\ todo # {}
        THEN cur' = Min(todo) /\ then' = "settle" /\ Goto("reverse") /\ UNCHANGED <<req, all>>
        ELSE Goto("finish") /\ UNCHANGED <<cur, req, then, all>>

\* TransSettle, TransAutoSettlement: the loop goes on with the next acquirer that has
\* anything to settle; TransSettleSub returns at once for the others.
NextSettlement(batch) ==
    LET todo == {a \in Acq : a > cur /\ batch[a] # {}}
    IN  IF all /\ todo # {}
        THEN cur' = Min(todo) /\ then' = "settle" /\ Goto("reverse") /\ UNCHANGED <<req, all>>
        ELSE Goto("finish") /\ UNCHANGED <<cur, req, then, all>>

\* TranReversal has nothing to send, or has succeeded.  TransSettleSub builds its
\* packet now; TranProcess has built its own before.
AfterReversal ==
    /\ CASE then = "request" -> Goto("request") /\ UNCHANGED req
         [] then = "settle"  -> Goto("settle") /\
                                req' = [type |-> "settle", acq |-> cur, stan |-> stan]
         [] then = "end"     -> Goto("finish") /\ UNCHANGED req
    /\ UNCHANGED <<cur, then, all>>

\* SendRecvPacket returns ERR_NO_DISP.
Failed ==
    CASE pc = "request" -> Goto("reverse") /\ then' = "end" /\ UNCHANGED <<cur, req, all>>
      [] pc = "settle" \/ (pc = "reverse" /\ then = "settle") -> NextSettlement(log)
      [] OTHER -> Goto("finish") /\ UNCHANGED <<cur, req, then, all>>

------------------------------------------------------------------------------
(* The operator begins an operation. *)

\* ConfirmPanInfo, TransLogon: the line is dialled ahead of the request.
PreDial(a) ==
    /\ pc = "idle" /\ stan <= LastBegin
    /\ PreDialled(a)
    /\ cfg' = link[a] /\ cur' = a /\ Goto("card")
    /\ UNCHANGED <<setup, stan, store, host, req, then, all, history>>

\* With or without PreDial.
Free(a) == (pc = "idle" /\ stan <= LastBegin) \/ (pc = "card" /\ cur = a)

TransSaleSub(a) ==
    /\ Free(a) /\ status[a] # "S_PENDING"
    /\ cur' = a /\ req' = [type |-> "sale", acq |-> a, stan |-> stan]
    /\ then' = "request" /\ all' = FALSE /\ Goto("reverse")
    /\ UNCHANGED <<setup, lines, stan, store, host, history>>

\* SetCurAcq(0).  TranProcess skips TranReversal.
TransLogon ==
    /\ Free(1)
    /\ cur' = 1 /\ req' = [type |-> "logon", acq |-> 1, stan |-> stan]
    /\ then' = "end" /\ all' = FALSE /\ Goto("request")
    /\ UNCHANGED <<setup, lines, stan, store, host, history>>

\* The entry fails in ConfirmPanInfo or later: CommOnHook follows.
CardRefused ==
    /\ pc = "card" /\ Goto("finish")
    /\ UNCHANGED <<setup, lines, stan, store, host, cur, req, then, all, history>>

\* GetSecurityCode fails: ProcMagEvent and ProcICCEvent return before CommOnHook.
CardCancelled ==
    /\ pc = "card" /\ Goto("idle")
    /\ cur' = 1 /\ left' = (conn # AllClosed)
    /\ UNCHANGED <<setup, lines, stan, store, host, req, then, all, last, torn, exposed>>

TransSettle(a, loop) ==
    /\ pc = "idle" /\ stan <= LastBegin /\ log[a] # {}
    /\ loop => \A b \in Acq : b < a => log[b] = {}
    /\ cur' = a /\ all' = loop
    /\ then' = "settle" /\ Goto("reverse")
    /\ UNCHANGED <<setup, req, lines, stan, store, host, history>>

------------------------------------------------------------------------------
(* SendRecvPacket. *)

Sent == IF pc = "reverse" THEN [type |-> "reversal", acq |-> cur, stan |-> rev[cur]] ELSE req

Sending ==
    /\ pc \in {"reverse", "request", "settle"} /\ step = "send"
    /\ pc = "reverse" => rev[cur] # NoStan

\* SendPacket up to GetNewTraceNo.
SendPacket ==
    /\ Sending
    /\ cfg' = link[cur]
    /\ Kept \/ Dialled
    /\ conn'[MyLine] # Dead
    /\ HostTakes(conn'[MyLine], Sent)
    /\ step' = "trace"
    /\ last' = IF pc = "reverse" THEN last ELSE req.stan
    /\ UNCHANGED <<setup, stan, store, cur, req, pc, then, all, torn, exposed, left>>

\* ConnectHost or CommTxd fails; CommTxd then closes the line.
SendFails ==
    /\ Sending
    /\ cfg' = link[cur]
    /\ NotDialled
    /\ Failed
    /\ UNCHANGED <<setup, stan, store, host, history>>

\* Mutant: the trace number of a request that got no answer is used again.
GetNewTraceNoAnswered ==
    /\ step = "trace"
    /\ stan' = IF wire[MyLine] = <<>> THEN stan ELSE IF stan < MaxStan THEN stan + 1 ELSE 1
    /\ step' = "save" /\ torn' = (torn /\ pc = "reverse")
    /\ UNCHANGED <<setup, lines, store, host, cur, req, pc, then, all, last, exposed, left>>

GetNewTraceNo ==
    /\ step = "trace"
    /\ stan' = IF stan < MaxStan THEN stan + 1 ELSE 1
    /\ step' = "save" /\ torn' = (torn /\ pc = "reverse")
    /\ UNCHANGED <<setup, lines, store, host, cur, req, pc, then, all, last, exposed, left>>

\* ChkIfNeedReversal, of the card's transactions told apart here.
NeedReversal == req.type = "sale"

\* S_PENDING of a settlement, SaveRevInfo(TRUE) of a sale.
SaveSent ==
    /\ step = "save"
    /\ rev' = IF pc = "request" /\ NeedReversal THEN [rev EXCEPT ![cur] = req.stan] ELSE rev
    /\ status' = IF pc = "settle" THEN [status EXCEPT ![cur] = "S_PENDING"] ELSE status
    /\ step' = "recv"
    /\ UNCHANGED <<setup, lines, stan, log, host, cur, req, pc, then, all, history>>

\* Mutants: ProcRecvPacket without its check of the message code, of the STAN.
MatchesType(m, ans) == m.stan = ans.stan /\ TermID[m.acq] = TermID[ans.acq]
MatchesStan(m, ans) == m.type = ans.type /\ TermID[m.acq] = TermID[ans.acq]

\* ProcRecvPacket: message and processing code, STAN, terminal.
Matches(m, ans) ==
    /\ m.type = ans.type
    /\ m.stan = ans.stan
    /\ TermID[m.acq] = TermID[ans.acq]

\* CommRxd reads what has come, one answer or several at once.  Several make the
\* length wrong, "RECV DATA ERR"; on a modem, whose data has no length, the first
\* is unpacked.
Read(n) ==
    /\ step = "recv" /\ n <= Len(wire[MyLine])
    /\ AfterRxd(SubSeq(wire[MyLine], n + 1, Len(wire[MyLine])))

Good(n) == n = 1 \/ link[cur] = "MODEM"

Answered(code) ==
    \E n \in 1 .. Len(wire[MyLine]) :
        /\ Read(n) /\ Good(n)
        /\ Matches(Sent, Head(wire[MyLine])) /\ Head(wire[MyLine]).code = code

\* No answer in time, or one that is refused.
RecvFails ==
    /\ step = "recv"
    /\ \/ AfterRxd(wire[MyLine])
       \/ \E n \in 1 .. Len(wire[MyLine]) :
              Read(n) /\ ~(Good(n) /\ Matches(Sent, Head(wire[MyLine])))
    /\ Failed
    /\ UNCHANGED <<setup, cfg, stan, store, host, history>>

------------------------------------------------------------------------------
(* The answer is good. *)

NoReversal ==
    /\ pc = "reverse" /\ step = "send" /\ rev[cur] = NoStan
    /\ AfterReversal
    /\ UNCHANGED <<setup, lines, stan, store, host, history>>

TranReversal ==
    /\ pc = "reverse" /\ Answered("00")
    /\ rev' = [rev EXCEPT ![cur] = NoStan]
    /\ AfterReversal
    /\ UNCHANGED <<setup, cfg, stan, log, status, host, history>>

\* ERR_TRAN_FAIL also ends the loop over the acquirers.
ReversalRefused ==
    /\ pc = "reverse" /\ Answered("05")
    /\ Goto("finish")
    /\ UNCHANGED <<setup, cfg, stan, store, host, cur, req, then, all, history>>

\* AfterTranProc: a sale is logged; TransAutoSettlement may follow it.  The reversal
\* of the acquirer is dropped, after a LOGON too.
HostAccepted ==
    /\ pc = "request" /\ Answered("00")
    /\ log' = IF req.type = "sale" THEN [log EXCEPT ![cur] = @ \cup {req.stan}] ELSE log
    /\ rev' = [rev EXCEPT ![cur] = NoStan]
    /\ IF auto /\ req.type = "sale"
       THEN /\ cur' = Min({a \in Acq : log'[a] # {}})
            /\ then' = "settle" /\ all' = TRUE /\ Goto("reverse")
       ELSE Goto("finish") /\ UNCHANGED <<cur, then, all>>
    /\ UNCHANGED <<setup, cfg, stan, status, host, req, history>>

HostRejected ==
    /\ pc = "request" /\ Answered("05")
    /\ rev' = [rev EXCEPT ![cur] = NoStan]
    /\ Goto("finish")
    /\ UNCHANGED <<setup, cfg, stan, log, status, host, cur, req, then, all, history>>

\* S_CLR_LOG, CommOnHook, ClearRecord; the host has a new batch too.
Settled ==
    /\ pc = "settle"
    /\ \E n \in 1 .. Len(wire[MyLine]) :
          /\ step = "recv" /\ Good(n)
          /\ Matches(Sent, Head(wire[MyLine])) /\ Head(wire[MyLine]).code = "00"
    /\ Hang(MyLine)
    /\ log' = [log EXCEPT ![cur] = {}]
    /\ rev' = [rev EXCEPT ![cur] = NoStan]
    /\ status' = [status EXCEPT ![cur] = "S_USE"]
    /\ host' = IF host[cur].shut THEN [host EXCEPT ![cur] = NewBatch] ELSE host
    /\ NextSettlement(log')
    /\ UNCHANGED <<setup, cfg, stan, history>>

\* TransSettleSub returns 0 and does not hang up.
NotSettled ==
    /\ pc = "settle" /\ Answered("05")
    /\ NextSettlement(log)
    /\ UNCHANGED <<setup, cfg, stan, store, host, history>>

\* Mutant: the event ends without CommOnHook.
FinishConnected ==
    /\ pc = "finish"
    /\ cur' = 1 /\ req' = Idle /\ then' = "end" /\ all' = FALSE /\ Goto("idle")
    /\ left' = FALSE
    /\ UNCHANGED <<setup, lines, stan, store, host, last, torn, exposed>>

\* ProcMagEvent, ProcICCEvent, ProcKeyEvent, TransOther: CommOnHook, of the kind of
\* line used last.
Finish ==
    /\ pc = "finish"
    /\ Hang(LineOf(cfg))
    /\ cur' = 1 /\ req' = Idle /\ then' = "end" /\ all' = FALSE /\ Goto("idle")
    /\ left' = FALSE
    /\ UNCHANGED <<setup, cfg, stan, store, host, last, torn, exposed>>

\* RAM and lines are lost; the files stay.
PowerFail ==
    /\ Power /\ pc # "idle"
    /\ cfg' = link[1] /\ conn' = AllClosed /\ wire' = NothingOnTheWay
    /\ cur' = 1 /\ req' = Idle /\ then' = "end" /\ all' = FALSE /\ Goto("idle")
    /\ torn' = (torn \/ (step = "trace" /\ pc # "reverse"))
    /\ exposed' = IF pc = "request" /\ step \in {"trace", "save"} /\ NeedReversal
                  THEN exposed \cup {req.stan} ELSE exposed
    /\ left' = FALSE
    /\ UNCHANGED <<setup, stan, store, host, last>>

\* CheckAppEvent: the idle terminal waits.
Wait == pc = "idle" /\ UNCHANGED vars

Continue ==
    \/ pc = "card" /\ (TransLogon \/ \E a \in Acq : TransSaleSub(a))
    \/ CardRefused \/ CardCancelled
    \/ SendPacket \/ SendFails \/ GetNewTraceNo \/ SaveSent \/ RecvFails
    \/ NoReversal \/ TranReversal \/ ReversalRefused
    \/ HostAccepted \/ HostRejected \/ Settled \/ NotSettled \/ Finish

Next ==
    \/ Continue
    \/ Wait
    \/ \E a \in Acq : PreDial(a) \/ TransSaleSub(a)
    \/ TransLogon
    \/ \E a \in Acq, loop \in BOOLEAN : TransSettle(a, loop)
    \/ PowerFail

Spec == Init /\ [][Next]_vars

\* Dialling, sending, receiving and the waits for a key have timeouts but for CommTxd,
\* which is assumed to return.
FairSpec == Spec /\ WF_vars(Continue)

------------------------------------------------------------------------------
(* Properties.  A packet goes out in the step from "send" to "trace". *)

Out == step = "send" /\ step' = "trace"

\* TransSettleSub, ClearRecord: the terminal forgets a batch only when the host of
\* that very acquirer has closed it, whatever line its packets went over and whatever
\* late answers came back.
ClosesWithItsHost ==
    [][\A a \in Acq : log[a] # {} /\ log'[a] = {} => host[a].shut]_vars

\* SaveRevInfo(FALSE): a reversal is dropped only when its sale is in the log or the
\* host does not hold it, late answers included, or by the answer to a LOGON.
ReversalIsDone ==
    [][~(pc = "request" /\ req.type = "logon") =>
       \A a \in Acq : rev[a] \notin exposed \cup {NoStan} /\ rev'[a] = NoStan =>
           rev[a] \in log'[a] \/ rev[a] \notin host'[a].sale]_vars

\* GetNewTraceNo, SetCommReqField: no two requests share a STAN, by which alone a late
\* answer of one is told from the other's, unless power failed before it was raised.
StanIsFresh ==
    [][Out /\ pc # "reverse" /\ ~torn => req.stan > last]_vars

OneLine == \A a, b \in Acq : LineOf(link[a]) = LineOf(link[b])

\* CommOnHook at the end of an event: a transaction of one acquirer never goes to
\* another's host over a line an earlier event left open, unless modem and other
\* lines are mixed or a card entry given up has left the line dialled.
SaleReachesItsHost ==
    [][Out /\ ~all /\ ~left /\ OneLine => conn'[MyLine] = cur]_vars

\* CommRxd, TcpOnHook(FALSE): over TCP/IP every packet goes to its own host, in the
\* loop over all acquirers too.
TcpReachesItsHost ==
    [][Out /\ (\A a \in Acq : link[a] = "TCPIP") => conn'[MyLine] = cur]_vars

\* Commlib.c:484, "after receiving the TCP connection must be closed, and connected
\* again for the next exchange": every packet goes to the host of its acquirer.
ReachesItsHost == [][Out => conn'[MyLine] = cur]_vars

\* The loop over the acquirers ends, whichever of them fails.
EventEnds == pc # "idle" ~> pc = "idle"

(* A bound on the steps of Continue that are left to an event: four for each  *)
(* exchange, a reversal and a settlement for each acquirer the loop has still *)
(* to come to.                                                                *)

AcqLeft == IF all THEN AcqNum - cur ELSE 0
Exchanges == CASE pc = "card"                        -> 10 + 8 * AcqNum
               [] pc = "reverse" /\ then = "request" -> 6 + 8 * AcqNum
               [] pc = "request"                     -> 2 + 8 * AcqNum
               [] pc = "reverse" /\ then = "settle"  -> 6 + 8 * AcqLeft
               [] pc = "settle"                      -> 2 + 8 * AcqLeft
               [] pc = "reverse" /\ then = "end"     -> 2
               [] pc = "finish"                      -> 1
               [] pc = "idle"                        -> 0
StepsHere == IF pc \in {"idle", "card", "finish"} THEN 0
             ELSE CASE step = "send" -> 3 [] step = "trace" -> 2
                    [] step = "save" -> 1 [] step = "recv" -> 0
StepsLeft == Exchanges + StepsHere

\* TransSettle, TransAutoSettlement: the loop comes to no acquirer twice and every
\* exchange is made once.  Each step brings the end of the event nearer, whichever
\* acquirers fail and whatever late answers come.
EveryStepCounts == [][Continue => StepsLeft' < StepsLeft]_vars
==============================================================================
