------------------------------ MODULE Comm_proofs ------------------------------
(***************************************************************************)
(* Proofs about Comm, for every number of acquirers, every choice of lines *)
(* and terminal numbers, and any number of operations and power failures.  *)
(*                                                                         *)
(* Types and lines hold whatever the trace number.  What rests on the      *)
(* trace number (no number used twice, a late answer never taken for       *)
(* another's) is proved as long as it has not wrapped at MaxStan.          *)
(***************************************************************************)
EXTENDS Comm, FiniteSums, SequenceTheorems, TLAPS

------------------------------------------------------------------------------
(* The answers on their way. *)

OnWire == UNION {{wire[l][i] : i \in 1 .. Len(wire[l])} : l \in Line}

LinesOK == conn \in [Line -> Acq \cup {NoHost, Dead}] /\ wire \in [Line -> Seq(Answer)]

LEMMA LineType == MyLine \in Line /\ \A kind \in Link : LineOf(kind) \in Line
BY DEF MyLine, LineOf, Line

LEMMA OnWireType ==
  ASSUME TypeOK
  PROVE  OnWire \subseteq Answer
<1> SUFFICES ASSUME NEW l \in Line, NEW i \in 1 .. Len(wire[l]) PROVE wire[l][i] \in Answer
  BY DEF OnWire
<1>1. wire[l] \in Seq(Answer)
  BY DEF TypeOK
<1> QED
  BY <1>1

(* What is left of the answers read from a line was on its way before. *)
LEMMA RestOfLine ==
  ASSUME LinesOK, NEW l \in Line, NEW n \in 1 .. Len(wire[l])
  PROVE  /\ SubSeq(wire[l], n + 1, Len(wire[l])) \in Seq(Answer)
         /\ \A i \in 1 .. Len(SubSeq(wire[l], n + 1, Len(wire[l]))) :
               SubSeq(wire[l], n + 1, Len(wire[l]))[i] \in OnWire
         /\ Head(wire[l]) \in OnWire
<1> DEFINE s == wire[l]
<1>1. s \in Seq(Answer) /\ Len(s) \in Nat
  BY DEF LinesOK
<1>2. \A i \in 1 .. Len(s) : s[i] \in OnWire
  BY DEF OnWire
<1> HIDE DEF s
<1>3. Head(s) = s[1] /\ 1 \in 1 .. Len(s)
  BY <1>1 DEF s
<1>4. /\ SubSeq(s, n + 1, Len(s)) \in Seq(Answer)
      /\ Len(SubSeq(s, n + 1, Len(s))) = Len(s) - n
      /\ \A i \in 1 .. Len(s) - n : SubSeq(s, n + 1, Len(s))[i] = s[n + i]
  BY <1>1 DEF s
<1>5. \A i \in 1 .. Len(s) - n : n + i \in 1 .. Len(s)
  BY <1>1 DEF s
<1> QED
  BY <1>2, <1>3, <1>4, <1>5 DEF s

(* Answers on one line are replaced by answers that were on their way before. *)
LEMMA LineReplaced ==
  ASSUME LinesOK, NEW l \in Line, NEW rest \in Seq(Answer),
         \A i \in 1 .. Len(rest) : rest[i] \in OnWire,
         wire' = [wire EXCEPT ![l] = rest]
  PROVE  wire' \in [Line -> Seq(Answer)] /\ OnWire' \subseteq OnWire
<1>1. wire' \in [Line -> Seq(Answer)]
  BY DEF LinesOK
<1>2. \A k \in Line : wire'[k] = IF k = l THEN rest ELSE wire[k]
  BY DEF LinesOK
<1>3. \A k \in Line : \A i \in 1 .. Len(wire'[k]) : wire'[k][i] \in OnWire
  BY <1>2 DEF OnWire
<1> QED
  BY <1>1, <1>3 DEF OnWire

LEMMA RenewedLines ==
  ASSUME LinesOK, NEW l \in Line, NEW h \in Acq \cup {NoHost, Dead}, Renewed(l, h)
  PROVE  LinesOK' /\ OnWire' \subseteq OnWire /\ conn'[l] = h
<1>1. <<>> \in Seq(Answer) /\ \A i \in 1 .. Len(<<>>) : <<>>[i] \in OnWire
  OBVIOUS
<1>2. wire' \in [Line -> Seq(Answer)] /\ OnWire' \subseteq OnWire
  BY <1>1, LineReplaced DEF Renewed
<1> QED
  BY <1>2 DEF Renewed, LinesOK

LEMMA HangLines ==
  ASSUME LinesOK, NEW l \in Line, Hang(l)
  PROVE  LinesOK' /\ OnWire' \subseteq OnWire /\ conn'[l] = NoHost
BY RenewedLines DEF Hang

(* A line that is not kept is closed, or dialled to the acquirer's own host;  *)
(* TCP/IP is closed.                                                          *)
Hangs ==
    /\ conn'[MyLine] \in {conn[MyLine], NoHost, Dead, cur}
    /\ link[cur] = "TCPIP" => conn'["net"] = NoHost

LEMMA HangIsClosed ==
  ASSUME LinesOK, Hang(MyLine)
  PROVE  Hangs
<1>1. link[cur] = "TCPIP" => MyLine = "net"
  BY DEF MyLine, LineOf
<1> QED
  BY <1>1, LineType, HangLines DEF Hangs

LEMMA AfterRxdLines ==
  ASSUME LinesOK, NEW rest \in Seq(Answer), \A i \in 1 .. Len(rest) : rest[i] \in OnWire,
         AfterRxd(rest)
  PROVE  LinesOK' /\ OnWire' \subseteq OnWire /\ Hangs
<1>1. CASE Hang(MyLine)
  BY <1>1, HangLines, HangIsClosed, LineType
<1>2. CASE link[cur] # "TCPIP" /\ wire' = [wire EXCEPT ![MyLine] = rest] /\ UNCHANGED conn
  BY <1>2, LineReplaced, LineType DEF LinesOK, Hangs
<1> QED
  BY <1>1, <1>2 DEF AfterRxd

(* A good answer was on its way, and is read off the line. *)
LEMMA AnsweredLines ==
  ASSUME LinesOK, NEW code, Answered(code)
  PROVE  /\ LinesOK' /\ OnWire' \subseteq OnWire /\ Hangs
         /\ step = "recv"
         /\ \E ans \in OnWire : Matches(Sent, ans) /\ ans.code = code
<1>1. PICK n \in 1 .. Len(wire[MyLine]) :
         /\ Read(n)
         /\ Matches(Sent, Head(wire[MyLine])) /\ Head(wire[MyLine]).code = code
  BY DEF Answered
<1> QED
  BY <1>1, LineType, RestOfLine, AfterRxdLines DEF Read

LEMMA RecvFailsLines ==
  ASSUME LinesOK, RecvFails
  PROVE  LinesOK' /\ OnWire' \subseteq OnWire /\ Hangs
<1>1. CASE AfterRxd(wire[MyLine])
  <2>1. wire[MyLine] \in Seq(Answer) /\ \A i \in 1 .. Len(wire[MyLine]) : wire[MyLine][i] \in OnWire
    BY LineType DEF LinesOK, OnWire
  <2> QED
    BY <1>1, <2>1, AfterRxdLines
<1>2. CASE \E n \in 1 .. Len(wire[MyLine]) : Read(n)
  BY <1>2, LineType, RestOfLine, AfterRxdLines DEF Read
<1> QED
  BY <1>1, <1>2 DEF RecvFails

LEMMA NotDialledLines ==
  ASSUME LinesOK, cur \in Acq, NotDialled
  PROVE  LinesOK' /\ OnWire' \subseteq OnWire /\ Hangs
<1>1. CASE Hang(MyLine)
  BY <1>1, HangLines, HangIsClosed, LineType
<1>2. CASE link[cur] # "TCPIP" /\ UNCHANGED <<conn, wire>>
  BY <1>2 DEF LinesOK, OnWire, Hangs
<1>3. CASE link[cur] = "GPRS" /\ Renewed("net", Dead)
  BY <1>3, RenewedLines DEF Hangs, MyLine, LineOf, Line
<1>4. CASE link[cur] = "MODEM" /\ Renewed("modem", cur)
  BY <1>4, RenewedLines DEF Hangs, MyLine, LineOf, Line
<1> QED
  BY <1>1, <1>2, <1>3, <1>4 DEF NotDialled

(* A line dialled ahead is as it was, closed, or of the acquirer's own host. *)
LEMMA PreDialLines ==
  ASSUME LinesOK, NEW a \in Acq, link[a] \in Link, PreDialled(a)
  PROVE  /\ LinesOK' /\ OnWire' \subseteq OnWire
         /\ conn'[LineOf(link[a])] \in {conn[LineOf(link[a])], NoHost, a}
         /\ link[a] = "TCPIP" => conn' = conn
<1>1. CASE UNCHANGED <<conn, wire>>
  BY <1>1 DEF LinesOK, OnWire
<1>2. CASE link[a] # "TCPIP" /\ Hang(LineOf(link[a]))
  BY <1>2, HangLines, LineType
<1>3. CASE link[a] = "MODEM" /\ Renewed("modem", a)
  BY <1>3, RenewedLines DEF LineOf, Line
<1> QED
  BY <1>1, <1>2, <1>3 DEF PreDialled

(* An answer is put on a line behind what is left of it. *)
LEMMA LineGets ==
  ASSUME LinesOK, NEW l \in Line, NEW on \in {wire[l], <<>>}, NEW new \in Answer,
         wire' = [wire EXCEPT ![l] = Append(on, new)]
  PROVE  wire' \in [Line -> Seq(Answer)] /\ OnWire' \subseteq OnWire \cup {new}
<1>1. on \in Seq(Answer) /\ \A i \in 1 .. Len(on) : on[i] \in OnWire
  <2>1. CASE on = wire[l]
    BY <2>1 DEF LinesOK, OnWire
  <2>2. CASE on = <<>>
    BY <2>2
  <2> QED
    BY <2>1, <2>2
<1> DEFINE rest == Append(on, new)
<1>2. rest \in Seq(Answer) /\ \A i \in 1 .. Len(rest) : rest[i] \in OnWire \cup {new}
  <2>1. /\ rest \in Seq(Answer) /\ Len(rest) = Len(on) + 1 /\ Len(on) \in Nat
        /\ rest[Len(on) + 1] = new /\ \A i \in 1 .. Len(on) : rest[i] = on[i]
    BY <1>1
  <2> HIDE DEF rest
  <2>2. \A i \in 1 .. Len(rest) : i \in 1 .. Len(on) \/ i = Len(on) + 1
    BY <2>1
  <2> QED
    BY <1>1, <2>1, <2>2
<1>3. wire' = [wire EXCEPT ![l] = rest]
  OBVIOUS
<1> HIDE DEF rest
<1>4. wire' \in [Line -> Seq(Answer)]
  BY <1>2, <1>3 DEF LinesOK
<1>5. \A k \in Line : wire'[k] = IF k = l THEN rest ELSE wire[k]
  BY <1>3 DEF LinesOK
<1>6. \A k \in Line : \A i \in 1 .. Len(wire'[k]) : wire'[k][i] \in OnWire \cup {new}
  BY <1>2, <1>5 DEF OnWire
<1> QED
  BY <1>4, <1>6 DEF OnWire

LEMMA LineCleared ==
  ASSUME wire' = NothingOnTheWay
  PROVE  wire' \in [Line -> Seq(Answer)] /\ OnWire' = {}
<1>1. \A l \in Line : wire'[l] = <<>> /\ 1 .. Len(wire'[l]) = {}
  BY DEF NothingOnTheWay
<1>2. <<>> \in Seq(Answer)
  OBVIOUS
<1> QED
  BY <1>1, <1>2 DEF NothingOnTheWay, OnWire

(* What a host and the line to it do with a packet. *)
LEMMA HostLines ==
  ASSUME LinesOK, conn' \in [Line -> Acq \cup {NoHost, Dead}],
         NEW h, NEW m \in Packet, HostTakes(h, m)
  PROVE  /\ LinesOK'
         /\ \/ UNCHANGED host
            \/ h = m.acq /\ host' = Booked(h, m)
         /\ \A ans \in OnWire' :
               \/ ans \in OnWire
               \/ ans = Reply(m, "05") /\ UNCHANGED host
               \/ ans = Reply(m, "00") /\ h = m.acq /\ host' = Booked(h, m)
<1> DEFINE on == IF conn' = conn THEN wire[MyLine] ELSE <<>>
<1>1. Reply(m, "00") \in Answer /\ Reply(m, "05") \in Answer
  BY DEF Reply, Packet, Answer
<1>2. on \in {wire[MyLine], <<>>} /\ MyLine \in Line
  BY LineType
<1>3. on \in Seq(Answer) /\ \A i \in 1 .. Len(on) : on[i] \in OnWire
  <2>1. CASE on = wire[MyLine]
    BY <2>1, LineType DEF LinesOK, OnWire
  <2>2. CASE on = <<>>
    <3>1. <<>> \in Seq(Answer) /\ \A i \in 1 .. Len(<<>>) : <<>>[i] \in OnWire
      OBVIOUS
    <3> QED
      BY <2>2, <3>1
  <2> QED
    BY <2>1, <2>2
<1>4. \/ UNCHANGED host /\ wire' = [wire EXCEPT ![MyLine] = on]
      \/ UNCHANGED host /\ wire' = [wire EXCEPT ![MyLine] = Append(on, Reply(m, "05"))]
      \/ h = m.acq /\ host' = Booked(h, m) /\ wire' = [wire EXCEPT ![MyLine] = on]
      \/ /\ h = m.acq /\ host' = Booked(h, m)
         /\ wire' = [wire EXCEPT ![MyLine] = Append(on, Reply(m, "00"))]
  BY DEF HostTakes
<1> HIDE DEF on
<1>5. CASE wire' = [wire EXCEPT ![MyLine] = on]
  <2>1. wire' \in [Line -> Seq(Answer)] /\ OnWire' \subseteq OnWire
    BY <1>2, <1>3, <1>5, LineReplaced
  <2> QED
    BY <1>4, <2>1 DEF LinesOK
<1>6. CASE UNCHANGED host /\ wire' = [wire EXCEPT ![MyLine] = Append(on, Reply(m, "05"))]
  <2>1. wire' \in [Line -> Seq(Answer)] /\ OnWire' \subseteq OnWire \cup {Reply(m, "05")}
    BY <1>1, <1>2, <1>6, LineGets
  <2> QED
    BY <1>6, <2>1 DEF LinesOK
<1>7. CASE /\ h = m.acq /\ host' = Booked(h, m)
           /\ wire' = [wire EXCEPT ![MyLine] = Append(on, Reply(m, "00"))]
  <2>1. wire' \in [Line -> Seq(Answer)] /\ OnWire' \subseteq OnWire \cup {Reply(m, "00")}
    BY <1>1, <1>2, <1>7, LineGets
  <2> QED
    BY <1>7, <2>1 DEF LinesOK
<1> QED
  BY <1>4, <1>5, <1>6, <1>7

(* The host's batch after it has done what a packet asks for. *)
LEMMA BookedSales ==
  ASSUME host \in [Acq -> [sale: SUBSET Stan, shut: BOOLEAN]],
         NEW m \in Packet, host' = Booked(m.acq, m)
  PROVE  /\ host' \in [Acq -> [sale: SUBSET Stan, shut: BOOLEAN]]
         /\ \A a \in Acq : \A s \in host'[a].sale :
               s \in host[a].sale \/ (m.type = "sale" /\ a = m.acq /\ s = m.stan)
         /\ m.type = "reversal" => m.stan \notin host'[m.acq].sale
         /\ m.type = "settle" => host'[m.acq].shut
<1>0. m.acq \in Acq /\ m.stan \in Stan /\ m.type \in {"sale", "reversal", "settle", "logon"}
  BY DEF Packet, Type
<1>1. CASE m.type = "sale"
  <2>1. host' = [host EXCEPT ![m.acq] = [host[m.acq] EXCEPT !.sale = @ \cup {m.stan}]]
    BY <1>1 DEF Booked
  <2> QED
    BY <1>0, <1>1, <2>1
<1>2. CASE m.type = "reversal"
  <2>1. host' = [host EXCEPT ![m.acq] = [host[m.acq] EXCEPT !.sale = @ \ {m.stan}]]
    BY <1>2 DEF Booked
  <2> QED
    BY <1>0, <1>2, <2>1
<1>3. CASE m.type = "settle"
  <2>1. host' = [host EXCEPT ![m.acq] = [host[m.acq] EXCEPT !.shut = TRUE]]
    BY <1>3 DEF Booked
  <2> DEFINE b == [host[m.acq] EXCEPT !.shut = TRUE]
  <2>2. host[m.acq] \in [sale: SUBSET Stan, shut: BOOLEAN]
    BY <1>0
  <2>3. b \in [sale: SUBSET Stan, shut: BOOLEAN] /\ b.sale = host[m.acq].sale
    BY <2>2
  <2>4. b.shut = TRUE
    BY <2>2
  <2> HIDE DEF b
  <2>5. host' = [host EXCEPT ![m.acq] = b]
    BY <2>1 DEF b
  <2>6. host'[m.acq].shut
    BY <1>0, <2>4, <2>5
  <2>7. \A a \in Acq : host'[a].sale = host[a].sale
    BY <1>0, <2>3, <2>5
  <2>8. host' \in [Acq -> [sale: SUBSET Stan, shut: BOOLEAN]]
    BY <2>3, <2>5
  <2> QED
    BY <1>0, <1>3, <2>6, <2>7, <2>8
<1>4. CASE m.type = "logon"
  BY <1>4 DEF Booked
<1> QED
  BY <1>0, <1>1, <1>2, <1>3, <1>4

------------------------------------------------------------------------------
(* Where the program goes. *)

Place ==
    /\ pc \in {"idle", "card"} => ~all
    /\ step # "send" => pc \in {"reverse", "request", "settle"}
    /\ pc = "reverse" /\ step # "send" => rev[cur] # NoStan
    /\ pc = "settle" /\ step = "send" => req = [type |-> "settle", acq |-> cur, stan |-> stan]

LEMMA NextSettlementFlow ==
  ASSUME TypeOK, NEW batch, NextSettlement(batch)
  PROVE  /\ req' = req /\ step' = "send" /\ cur' \in Acq
         /\ pc' = "finish" \/ (pc' = "reverse" /\ then' = "settle")
         /\ then' \in {"settle", then} /\ all' = all
         /\ ~all => pc' = "finish" /\ cur' = cur
         /\ pc' = "reverse" => all /\ cur' > cur
<1> DEFINE todo == {a \in Acq : a > cur /\ batch[a] # {}}
<1>1. CASE all /\ todo # {}
  <2>1. todo \subseteq Nat /\ todo \subseteq Acq
    BY DEF Acq
  <2>2. Min(todo) \in Acq /\ Min(todo) > cur
    <3>1. Min(todo) \in todo
      <4> HIDE DEF todo
      <4> QED
        BY <1>1, <2>1, MinIsLeast
    <3> QED
      BY <3>1
  <2>3. cur' = Min(todo) /\ then' = "settle" /\ Goto("reverse") /\ UNCHANGED <<req, all>>
    BY <1>1 DEF NextSettlement
  <2> QED
    BY <1>1, <2>2, <2>3 DEF Goto
<1>2. CASE ~(all /\ todo # {})
  <2>1. Goto("finish") /\ UNCHANGED <<cur, req, then, all>>
    BY <1>2 DEF NextSettlement
  <2> QED
    BY <2>1 DEF Goto, TypeOK
<1> QED
  BY <1>1, <1>2

LEMMA FailedFlow ==
  ASSUME TypeOK, Failed, pc \in {"reverse", "request", "settle"}
  PROVE  /\ req' = req /\ step' = "send" /\ cur' \in Acq
         /\ pc' = "finish" \/ (pc' = "reverse" /\ then' \in {"settle", "end"})
         /\ then' \in {"settle", "end", then} /\ all' = all
         /\ ~all => cur' = cur
<1>1. CASE pc = "request"
  <2>1. Goto("reverse") /\ then' = "end" /\ UNCHANGED <<cur, req, all>>
    BY <1>1 DEF Failed
  <2> QED
    BY <2>1 DEF Goto, TypeOK
<1>2. CASE pc = "settle" \/ (pc = "reverse" /\ then = "settle")
  <2>1. NextSettlement(log)
    BY <1>2 DEF Failed
  <2> QED
    BY <2>1, NextSettlementFlow
<1>3. CASE pc = "reverse" /\ then # "settle"
  <2>1. Goto("finish") /\ UNCHANGED <<cur, req, then, all>>
    BY <1>3 DEF Failed
  <2> QED
    BY <2>1 DEF Goto, TypeOK
<1> QED
  BY <1>1, <1>2, <1>3

(* What is sent, by a program that is where it can be. *)
LEMMA SentType ==
  ASSUME TypeOK, pc = "reverse" => rev[cur] # NoStan
  PROVE  Sent \in Packet
BY DEF Sent, TypeOK, Packet, Type

------------------------------------------------------------------------------
(* The lines.  Where all acquirers are on TCP/IP a packet finds it closed;    *)
(* where all share a line, it is closed or their own but in the loop over all *)
(* acquirers and after a card entry that was given up.                        *)

AllTcp == \A a \in Acq : link[a] = "TCPIP"

OwnLine ==
    /\ AllTcp /\ step = "send" => conn["net"] = NoHost
    /\ OneLine => /\ LineOf(cfg) = MyLine
                  /\ pc = "idle" /\ ~left => conn[MyLine] = NoHost
                  /\ ~all /\ ~left => conn[MyLine] \in {NoHost, Dead, cur}

CInv == TypeOK /\ Place /\ OwnLine

------------------------------------------------------------------------------
(* The trace numbers.  Whatever came of earlier packets bears a lower number  *)
(* than the one to be sent next; while its answer is awaited, an answer with  *)
(* its number is one to it and tells what the host has done.                  *)

Held(a) == host[a].sale \ exposed

Bound(b) ==
    /\ \A ans \in OnWire : ans.stan < b
    /\ \A a \in Acq : rev[a] # NoStan => rev[a] < b
    /\ \A a \in Acq : \A s \in Held(a) : s < b
    /\ ~torn => last < b

Built == (pc = "reverse" /\ then = "request") \/ (pc = "request" /\ step = "send")

SaleBuilt == Bound(req.stan) /\ req.stan <= stan /\ req.type \in {"sale", "logon"} /\ req.acq = cur

InFlight == pc \in {"request", "settle"} /\ step # "send"

Saved == pc = "request" /\ step = "recv" /\ req.type = "sale"

IsReply(ans) ==
    /\ ans.stan = req.stan /\ ans.type = req.type
    /\ ans.type = "sale" /\ ans.code = "05" => req.stan \notin Held(cur)
    /\ ans.type = "settle" /\ ans.code = "00" => host[cur].shut

Awaited ==
    /\ req.acq = cur
    /\ req.type \in IF pc = "settle" THEN {"settle"} ELSE {"sale", "logon"}
    /\ last = req.stan /\ req.stan <= stan
    /\ step # "trace" => req.stan < stan
    /\ \A ans \in OnWire : ans.stan < req.stan \/ IsReply(ans)
    /\ Saved => rev[cur] = req.stan
    /\ \A a \in Acq : rev[a] # NoStan => rev[a] < req.stan \/ (Saved /\ a = cur)
    /\ \A a \in Acq : \A s \in Held(a) :
          s < req.stan \/ (req.type = "sale" /\ a = cur /\ s = req.stan)

(* A reversal answered with 00 has been done, and of two acquirers' sales to  *)
(* be reversed no two share a number.                                         *)
Reversals ==
    /\ \A a, b \in Acq : rev[a] = rev[b] /\ rev[a] # NoStan => a = b
    /\ \A ans \in OnWire : ans.type = "reversal" =>
          /\ \A a \in Acq : ans.stan = rev[a] => ans.acq = a
          /\ ans.code = "00" => ans.stan \notin Held(ans.acq)

IInv ==
    /\ CInv
    /\ Reversals
    /\ Built => SaleBuilt
    /\ InFlight => Awaited
    /\ ~Built /\ ~InFlight => Bound(stan)

(* Once the number of the packet in flight is used up, all are below the next. *)
LEMMA AwaitedBound ==
  ASSUME TypeOK, Awaited, step # "trace"
  PROVE  Bound(stan)
<1>1. req.stan < stan /\ req.stan \in Nat /\ stan \in Nat
  BY DEF Awaited, TypeOK, Packet, Stan
<1>2. ASSUME NEW ans \in OnWire PROVE ans.stan < stan
  <2>1. ans.stan \in Nat
    BY OnWireType DEF Answer, Stan
  <2>2. ans.stan < req.stan \/ ans.stan = req.stan
    BY DEF Awaited, IsReply
  <2> QED
    BY <1>1, <2>1, <2>2
<1>3. ASSUME NEW a \in Acq, rev[a] # NoStan PROVE rev[a] < stan
  <2>1. rev[a] \in Nat
    BY <1>3 DEF TypeOK, Stan
  <2>2. rev[a] < req.stan \/ rev[a] = req.stan
    BY <1>3 DEF Awaited
  <2> QED
    BY <1>1, <2>1, <2>2
<1>4. ASSUME NEW a \in Acq, NEW s \in Held(a) PROVE s < stan
  <2>1. s \in Nat
    BY DEF TypeOK, Stan, Held
  <2>2. s < req.stan \/ s = req.stan
    BY DEF Awaited
  <2> QED
    BY <1>1, <2>1, <2>2
<1>5. last < stan
  BY <1>1 DEF Awaited
<1> QED
  BY <1>2, <1>3, <1>4, <1>5 DEF Bound

(* A sale that is built but not sent leaves all below the next number too. *)
LEMMA BuiltBound ==
  ASSUME TypeOK, SaleBuilt
  PROVE  Bound(stan)
<1>1. req.stan <= stan /\ req.stan \in Nat /\ stan \in Nat /\ last \in Nat
  BY DEF SaleBuilt, TypeOK, Packet, Stan
<1>2. \A ans \in OnWire : ans.stan \in Nat
  BY OnWireType DEF Answer, Stan
<1>3. \A a \in Acq : rev[a] # NoStan => rev[a] \in Nat
  BY DEF TypeOK, Stan
<1>4. \A a \in Acq : \A s \in Held(a) : s \in Nat
  BY DEF TypeOK, Stan, Held
<1> QED
  BY <1>1, <1>2, <1>3, <1>4 DEF SaleBuilt, Bound

LEMMA AlwaysBound ==
  ASSUME IInv, pc \in {"request", "settle"} => step # "trace"
  PROVE  Bound(stan)
BY AwaitedBound, BuiltBound DEF IInv, CInv, InFlight

(* Nothing is added to what a bound is about. *)
LEMMA BoundShrinks ==
  ASSUME NEW b, Bound(b), OnWire' \subseteq OnWire,
         \A a \in Acq : rev'[a] \in {rev[a], NoStan},
         \A a \in Acq : Held(a)' \subseteq Held(a),
         UNCHANGED <<last, torn>>
  PROVE  /\ \A ans \in OnWire' : ans.stan < b
         /\ \A a \in Acq : rev'[a] # NoStan => rev'[a] < b
         /\ \A a \in Acq : \A s \in Held(a)' : s < b
         /\ ~torn' => last' < b
BY DEF Bound

LEMMA ReversalsShrink ==
  ASSUME TypeOK, Reversals, OnWire' \subseteq OnWire,
         \A a \in Acq : rev'[a] \in {rev[a], NoStan},
         \A a \in Acq : Held(a)' \subseteq Held(a)
  PROVE  Reversals'
<1>1. \A ans \in OnWire : ans.acq \in Acq /\ ans.stan # NoStan
  BY OnWireType, ConstantsAssumption DEF Answer
<1>2. \A a, b \in Acq : rev'[a] = rev'[b] /\ rev'[a] # NoStan => a = b
  BY DEF Reversals
<1>3. ASSUME NEW ans \in OnWire', ans.type = "reversal"
      PROVE  /\ \A a \in Acq : ans.stan = rev'[a] => ans.acq = a
             /\ ans.code = "00" => ans.stan \notin Held(ans.acq)'
  <2>1. ans \in OnWire
    OBVIOUS
  <2> QED
    BY <1>1, <1>3, <2>1 DEF Reversals
<1> QED
  BY <1>2, <1>3 DEF Reversals

------------------------------------------------------------------------------
(* Types, places and lines are kept by every step, whatever the trace number. *)

LEMMA TypeLines == TypeOK => LinesOK
BY DEF TypeOK, LinesOK

LEMMA SendLines ==
  ASSUME CInv, SendPacket
  PROVE  /\ LinesOK' /\ conn'[MyLine] \in {conn[MyLine], cur} \ {NoHost, Dead}
         /\ host' \in [Acq -> [sale: SUBSET Stan, shut: BOOLEAN]]
         /\ \E m \in Packet :
               /\ m = Sent
               /\ UNCHANGED host \/ (conn'[MyLine] = m.acq /\ host' = Booked(m.acq, m))
               /\ \A ans \in OnWire' :
                     \/ ans \in OnWire
                     \/ ans = Reply(m, "05") /\ UNCHANGED host
                     \/ ans = Reply(m, "00") /\ host' = Booked(m.acq, m)
<1>1. Sent \in Packet
  BY SentType DEF CInv, SendPacket, Sending
<1>2. /\ conn' \in [Line -> Acq \cup {NoHost, Dead}]
      /\ conn'[MyLine] \in {conn[MyLine], cur} \ {NoHost, Dead}
  <2>1. conn \in [Line -> Acq \cup {NoHost, Dead}] /\ cur \in Acq /\ MyLine \in Line
    BY LineType DEF CInv, TypeOK
  <2>2. conn'[MyLine] # Dead
    BY DEF SendPacket
  <2>3. CASE Kept
    BY <2>1, <2>2, <2>3 DEF Kept
  <2>4. CASE Dialled
    BY <2>1, <2>2, <2>4, ConstantsAssumption DEF Dialled
  <2> QED
    BY <2>3, <2>4 DEF SendPacket
<1>3. PICK h, m : h = conn'[MyLine] /\ m = Sent /\ HostTakes(h, m)
  <2>1. HostTakes(conn'[MyLine], Sent)
    BY DEF SendPacket
  <2> SUFFICES \E h, m : h = conn'[MyLine] /\ m = Sent /\ HostTakes(h, m)
    OBVIOUS
  <2> WITNESS conn'[MyLine], Sent
  <2> QED
    BY <2>1
<1>4. /\ LinesOK'
      /\ UNCHANGED host \/ (h = m.acq /\ host' = Booked(h, m))
      /\ \A ans \in OnWire' :
            \/ ans \in OnWire
            \/ ans = Reply(m, "05") /\ UNCHANGED host
            \/ ans = Reply(m, "00") /\ h = m.acq /\ host' = Booked(h, m)
  BY <1>1, <1>2, <1>3, TypeLines, HostLines DEF CInv
<1>5. host' \in [Acq -> [sale: SUBSET Stan, shut: BOOLEAN]]
  <2>1. host \in [Acq -> [sale: SUBSET Stan, shut: BOOLEAN]]
    BY DEF CInv, TypeOK
  <2>2. CASE host' = Booked(m.acq, m)
    BY <1>1, <1>3, <2>1, <2>2, BookedSales
  <2> QED
    BY <1>4, <2>1, <2>2
<1> QED
  BY <1>1, <1>2, <1>3, <1>4, <1>5

LEMMA OwnLineKept ==
  ASSUME CInv, link' = link, conn' \in [Line -> Acq \cup {NoHost, Dead}],
         cur' \in Acq, cfg' \in {cfg, link[cur]}, pc' # "idle", left' = left,
         AllTcp /\ step' = "send" => conn'["net"] = NoHost,
         conn'[MyLine] \in {conn[MyLine], NoHost, Dead, cur},
         pc = "idle" => conn' = conn,
         ~all' => pc = "idle" \/ (~all /\ cur' = cur)
  PROVE  OwnLine'
<1>1. (AllTcp /\ step = "send" => conn["net"] = NoHost)'
  BY DEF AllTcp
<1>2. ASSUME OneLine'
      PROVE  /\ LineOf(cfg)' = MyLine'
             /\ ~all' /\ ~left' => conn'[MyLine'] \in {NoHost, Dead, cur'}
  <2>1. OneLine
    BY <1>2 DEF OneLine
  <2>2. MyLine' = MyLine /\ LineOf(link[cur]) = MyLine
    BY <2>1 DEF OneLine, MyLine, CInv, TypeOK
  <2>3. LineOf(cfg)' = MyLine
    BY <2>1, <2>2 DEF OwnLine, CInv
  <2>4. ASSUME ~all', ~left' PROVE conn'[MyLine] \in {NoHost, Dead, cur'}
    BY <2>1, <2>4 DEF OwnLine, CInv
  <2> QED
    BY <2>2, <2>3, <2>4
<1> QED
  BY <1>1, <1>2 DEF OwnLine

LEMMA ShapeInit == Init => CInv
<1> SUFFICES ASSUME Init PROVE CInv
  OBVIOUS
<1>1. 1 \in Acq /\ 1 \in Stan /\ (Acq = 1 .. AcqNum) /\ NoHost \notin Acq
  BY ConstantsAssumption DEF Acq, Stan
<1>2. link[1] \in Link /\ link \in [Acq -> Link]
  BY <1>1, ConstantsAssumption DEF Init
<1>3. \A l \in Line : conn[l] = NoHost
  BY DEF Init, AllClosed
<1>4. TypeOK
  <2>1. conn \in [Line -> Acq \cup {NoHost, Dead}]
    BY DEF Init, AllClosed
  <2>2. wire \in [Line -> Seq(Answer)]
    BY DEF Init, NothingOnTheWay
  <2>3. host \in [Acq -> [sale: SUBSET Stan, shut: BOOLEAN]]
    <3>1. NewBatch \in [sale: SUBSET Stan, shut: BOOLEAN]
      BY DEF NewBatch
    <3> QED
      BY <3>1 DEF Init
  <2>4. req \in Packet
    BY <1>1 DEF Init, Idle, Packet, Type
  <2> QED
    BY <1>1, <1>2, <2>1, <2>2, <2>3, <2>4 DEF Init, TypeOK
<1>5. Place
  BY DEF Init, Place
<1>6. OwnLine
  BY <1>1, <1>3, LineType DEF Init, OwnLine, MyLine, Line
<1> QED
  BY <1>4, <1>5, <1>6 DEF CInv

LEMMA ShapeSend ==
  ASSUME CInv, SendPacket
  PROVE  CInv'
<1>1. /\ LinesOK' /\ conn'[MyLine] \in {conn[MyLine], cur}
      /\ host' \in [Acq -> [sale: SUBSET Stan, shut: BOOLEAN]]
  BY SendLines
<1>2. OwnLine'
  <2>1. /\ cur' = cur /\ all' = all /\ cfg' = link[cur] /\ link' = link
        /\ pc' # "idle" /\ pc # "idle" /\ step' # "send" /\ cur \in Acq /\ left' = left
    BY DEF SendPacket, Sending, CInv, TypeOK, setup
  <2> QED
    BY <1>1, <2>1, OwnLineKept DEF LinesOK
<1>3. Place'
  BY DEF SendPacket, Sending, Place, CInv, store
<1>4. cfg' \in Link
  BY ConstantsAssumption DEF SendPacket, CInv, TypeOK
<1>5. last' \in Nat
  BY DEF SendPacket, CInv, TypeOK, Packet, Stan
<1> QED
  BY <1>1, <1>2, <1>3, <1>4, <1>5 DEF SendPacket, CInv, TypeOK, LinesOK, setup, store

LEMMA ShapeSendFails ==
  ASSUME CInv, SendFails
  PROVE  CInv'
<1>1. LinesOK' /\ Hangs
  BY TypeLines, NotDialledLines DEF SendFails, CInv, TypeOK
<1>2. /\ req' = req /\ step' = "send" /\ cur' \in Acq
      /\ pc' = "finish" \/ (pc' = "reverse" /\ then' \in {"settle", "end"})
      /\ then' \in {"settle", "end", then} /\ all' = all
      /\ ~all => cur' = cur
  BY FailedFlow DEF SendFails, Sending, CInv
<1>3. OwnLine'
  <2>1. cfg' = link[cur] /\ link' = link /\ pc # "idle" /\ cur \in Acq /\ left' = left
    BY DEF SendFails, Sending, CInv, TypeOK, setup, history
  <2> QED
    BY <1>1, <1>2, <2>1, OwnLineKept DEF LinesOK, Hangs, AllTcp
<1>4. Place'
  BY <1>2 DEF Place
<1>5. cfg' \in Link
  BY ConstantsAssumption DEF SendFails, CInv, TypeOK
<1> QED
  BY <1>1, <1>2, <1>3, <1>4, <1>5
  DEF SendFails, CInv, TypeOK, LinesOK, setup, store, history

LEMMA ShapeTrace ==
  ASSUME CInv, GetNewTraceNo \/ SaveSent
  PROVE  CInv'
<1>1. /\ pc' = pc /\ step # "send" /\ step' \in {"save", "recv"} /\ cur' = cur /\ req' = req
      /\ then' = then /\ all' = all /\ link' = link /\ cfg' = cfg /\ conn' = conn /\ wire' = wire
      /\ left' = left
  BY DEF GetNewTraceNo, SaveSent, setup, lines, history
<1>2. OwnLine'
  <2>1. pc # "idle" /\ cur \in Acq
    BY <1>1 DEF CInv, TypeOK, Place
  <2> QED
    BY <1>1, <2>1, OwnLineKept DEF CInv, TypeOK
<1>3. stan' \in Stan /\ torn' \in BOOLEAN
  <2>1. stan' \in Stan
    BY ConstantsAssumption DEF GetNewTraceNo, SaveSent, CInv, TypeOK, Stan
  <2>2. torn' = (torn /\ pc = "reverse") \/ torn' = torn
    BY DEF GetNewTraceNo, SaveSent, history
  <2>3. torn \in BOOLEAN
    BY DEF CInv, TypeOK
  <2> QED
    BY <2>1, <2>2, <2>3
<1>4. /\ rev' \in [Acq -> Stan \cup {NoStan}]
      /\ rev'[cur] = rev[cur] \/ pc # "reverse"
      /\ status' \in [Acq -> {"S_USE", "S_PENDING"}]
  BY DEF GetNewTraceNo, SaveSent, CInv, TypeOK, Packet, store
<1>5. Place'
  BY <1>1, <1>4 DEF Place, CInv
<1> QED
  BY <1>1, <1>2, <1>3, <1>4, <1>5
  DEF GetNewTraceNo, SaveSent, CInv, TypeOK, setup, lines, store, history

LEMMA ShapeRecvFails ==
  ASSUME CInv, RecvFails
  PROVE  CInv'
<1>1. LinesOK' /\ Hangs
  BY TypeLines, RecvFailsLines DEF CInv
<1>0. pc \in {"reverse", "request", "settle"}
  BY DEF RecvFails, CInv, Place
<1>2. /\ req' = req /\ step' = "send" /\ cur' \in Acq
      /\ pc' = "finish" \/ (pc' = "reverse" /\ then' \in {"settle", "end"})
      /\ then' \in {"settle", "end", then} /\ all' = all
      /\ ~all => cur' = cur
  BY <1>0, FailedFlow DEF RecvFails, CInv
<1>3. OwnLine'
  <2>1. cfg' = cfg /\ link' = link /\ cur \in Acq /\ left' = left
    BY DEF RecvFails, CInv, TypeOK, setup, history
  <2> QED
    BY <1>0, <1>1, <1>2, <2>1, OwnLineKept DEF LinesOK, Hangs, AllTcp
<1>4. Place'
  BY <1>2 DEF Place
<1> QED
  BY <1>1, <1>2, <1>3, <1>4
  DEF RecvFails, CInv, TypeOK, LinesOK, setup, store, history

LEMMA AfterReversalFlow ==
  ASSUME CInv, AfterReversal, stan' = stan
  PROVE  /\ cur' = cur /\ then' = then /\ all' = all /\ step' = "send"
         /\ \/ pc' = "request" /\ then = "request" /\ req' = req
            \/ pc' = "settle" /\ req' = [type |-> "settle", acq |-> cur, stan |-> stan]
            \/ pc' = "finish" /\ req' = req
         /\ Place' /\ req' \in Packet
<1>1. then \in {"request", "settle", "end"} /\ req \in Packet /\ cur \in Acq /\ stan \in Stan
  BY DEF CInv, TypeOK
<1>2. cur' = cur /\ then' = then /\ all' = all
  BY DEF AfterReversal
<1>3. CASE then = "request"
  BY <1>1, <1>2, <1>3 DEF AfterReversal, Goto, Place
<1>4. CASE then = "settle"
  BY <1>1, <1>2, <1>4 DEF AfterReversal, Goto, Place, Packet, Type
<1>5. CASE then = "end"
  BY <1>1, <1>2, <1>5 DEF AfterReversal, Goto, Place
<1> QED
  BY <1>1, <1>3, <1>4, <1>5

LEMMA ShapeNoReversal ==
  ASSUME CInv, NoReversal
  PROVE  CInv'
<1>1. AfterReversal /\ stan' = stan /\ link' = link /\ cfg' = cfg /\ conn' = conn
      /\ step = "send" /\ pc = "reverse" /\ left' = left
  BY DEF NoReversal, setup, lines, history
<1>2. /\ cur' = cur /\ all' = all /\ step' = "send" /\ pc' \in {"request", "settle", "finish"}
      /\ then' = then /\ req' \in Packet /\ Place'
  BY <1>1, AfterReversalFlow
<1>3. OwnLine'
  BY <1>1, <1>2, OwnLineKept DEF CInv, TypeOK, OwnLine
<1> QED
  BY <1>1, <1>2, <1>3 DEF NoReversal, CInv, TypeOK, setup, lines, store, history

LEMMA ShapeTranReversal ==
  ASSUME CInv, TranReversal
  PROVE  CInv'
<1>1. LinesOK' /\ Hangs
  BY TypeLines, AnsweredLines DEF TranReversal, CInv
<1>2. AfterReversal /\ stan' = stan /\ link' = link /\ cfg' = cfg /\ pc = "reverse"
      /\ left' = left
  BY DEF TranReversal, setup, history
<1>3. /\ cur' = cur /\ all' = all /\ step' = "send" /\ pc' \in {"request", "settle", "finish"}
      /\ then' = then /\ req' \in Packet /\ Place'
  BY <1>2, AfterReversalFlow
<1>4. OwnLine'
  BY <1>1, <1>2, <1>3, OwnLineKept DEF CInv, TypeOK, LinesOK, Hangs, AllTcp
<1> QED
  BY <1>1, <1>2, <1>3, <1>4
  DEF TranReversal, CInv, TypeOK, LinesOK, setup, store, history

LEMMA ShapeRefused ==
  ASSUME CInv, ReversalRefused \/ HostRejected
  PROVE  CInv'
<1>1. LinesOK' /\ Hangs
  BY TypeLines, AnsweredLines DEF ReversalRefused, HostRejected, CInv
<1>2. /\ link' = link /\ cfg' = cfg /\ pc # "idle" /\ pc' = "finish" /\ step' = "send"
      /\ cur' = cur /\ all' = all /\ left' = left
  BY DEF ReversalRefused, HostRejected, setup, Goto, history
<1>3. OwnLine'
  BY <1>1, <1>2, OwnLineKept DEF CInv, TypeOK, LinesOK, Hangs, AllTcp
<1>4. Place'
  BY <1>2 DEF Place
<1>5. rev' \in [Acq -> Stan \cup {NoStan}]
  BY DEF ReversalRefused, HostRejected, CInv, TypeOK, store
<1> QED
  BY <1>1, <1>2, <1>3, <1>4, <1>5
  DEF ReversalRefused, HostRejected, CInv, TypeOK, LinesOK, setup, store, history

LEMMA ShapeAccepted ==
  ASSUME CInv, HostAccepted
  PROVE  CInv'
<1>1. LinesOK' /\ Hangs
  BY TypeLines, AnsweredLines DEF HostAccepted, CInv
<1>2. /\ log' \in [Acq -> SUBSET Stan] /\ rev' \in [Acq -> Stan \cup {NoStan}]
      /\ req.type = "sale" => log'[cur] # {}
  BY DEF HostAccepted, CInv, TypeOK, Packet
<1>3. /\ step' = "send" /\ cur' \in Acq
      /\ \/ pc' = "reverse" /\ then' = "settle" /\ all' = TRUE
         \/ pc' = "finish" /\ cur' = cur /\ then' = then /\ all' = all
  <2>1. CASE auto /\ req.type = "sale"
    <3> DEFINE logged == {a \in Acq : log'[a] # {}}
    <3>1. logged \subseteq Nat /\ logged \subseteq Acq /\ logged # {}
      BY <1>2, <2>1 DEF Acq, CInv, TypeOK
    <3>2. cur' = Min(logged) /\ then' = "settle" /\ all' = TRUE /\ Goto("reverse")
      BY <2>1 DEF HostAccepted
    <3> HIDE DEF logged
    <3>3. cur' \in Acq
      BY <3>1, <3>2, MinIsLeast
    <3> QED
      BY <3>2, <3>3 DEF Goto
  <2>2. CASE ~(auto /\ req.type = "sale")
    BY <2>2 DEF HostAccepted, Goto, CInv, TypeOK
  <2> QED
    BY <2>1, <2>2
<1>4. link' = link /\ cfg' = cfg /\ pc # "idle" /\ req' = req /\ left' = left
  BY DEF HostAccepted, setup, history
<1>5. OwnLine'
  BY <1>1, <1>3, <1>4, OwnLineKept DEF CInv, TypeOK, LinesOK, Hangs, AllTcp
<1>6. Place'
  BY <1>3 DEF Place
<1>7. then' \in {"request", "settle", "end"} /\ all' \in BOOLEAN
  BY <1>3 DEF CInv, TypeOK
<1> QED
  BY <1>1, <1>2, <1>3, <1>4, <1>5, <1>6, <1>7
  DEF HostAccepted, CInv, TypeOK, LinesOK, setup, history

LEMMA ShapeSettled ==
  ASSUME CInv, Settled \/ NotSettled
  PROVE  CInv'
<1>1. LinesOK' /\ Hangs
  <2>1. CASE Settled
    BY <2>1, TypeLines, HangLines, HangIsClosed, LineType DEF Settled, CInv
  <2>2. CASE NotSettled
    BY <2>2, TypeLines, AnsweredLines DEF NotSettled, CInv
  <2> QED
    BY <2>1, <2>2
<1>2. /\ req' = req /\ step' = "send" /\ cur' \in Acq
      /\ pc' = "finish" \/ (pc' = "reverse" /\ then' = "settle")
      /\ then' \in {"settle", then} /\ all' = all
      /\ ~all => cur' = cur
  <2>1. CASE Settled
    <3>1. PICK batch : NextSettlement(batch)
      BY <2>1 DEF Settled, NextSettlement
    <3> QED
      BY <3>1, NextSettlementFlow DEF CInv
  <2>2. CASE NotSettled
    <3>1. PICK batch : NextSettlement(batch)
      BY <2>2 DEF NotSettled, NextSettlement
    <3> QED
      BY <3>1, NextSettlementFlow DEF CInv
  <2> QED
    BY <2>1, <2>2
<1>3. OwnLine'
  <2>1. cfg' = cfg /\ link' = link /\ pc # "idle" /\ cur \in Acq /\ left' = left
    BY DEF Settled, NotSettled, CInv, TypeOK, setup, history
  <2> QED
    BY <1>1, <1>2, <2>1, OwnLineKept DEF LinesOK, Hangs, AllTcp
<1>4. Place'
  BY <1>2 DEF Place
<1>5. /\ log' \in [Acq -> SUBSET Stan] /\ rev' \in [Acq -> Stan \cup {NoStan}]
      /\ status' \in [Acq -> {"S_USE", "S_PENDING"}]
  <2>1. CASE Settled
    BY <2>1 DEF Settled, CInv, TypeOK, store
  <2>2. CASE NotSettled
    BY <2>2 DEF NotSettled, CInv, TypeOK, store
  <2> QED
    BY <2>1, <2>2
<1>6. host' \in [Acq -> [sale: SUBSET Stan, shut: BOOLEAN]]
  <2>1. NewBatch \in [sale: SUBSET Stan, shut: BOOLEAN]
    BY DEF NewBatch
  <2>2. host' = host \/ host' = [host EXCEPT ![cur] = NewBatch]
    BY DEF Settled, NotSettled
  <2> QED
    BY <2>1, <2>2 DEF CInv, TypeOK
<1>7. UNCHANGED <<setup, cfg, stan, history>>
  BY DEF Settled, NotSettled
<1> QED
  BY <1>1, <1>2, <1>3, <1>4, <1>5, <1>6, <1>7 DEF CInv, TypeOK, LinesOK, setup, history

LEMMA ShapeFinish ==
  ASSUME CInv, Finish
  PROVE  CInv'
<1>0. 1 \in Acq /\ 1 \in Stan
  BY ConstantsAssumption DEF Acq, Stan
<1>1. LineOf(cfg) \in Line /\ LinesOK'
  BY TypeLines, HangLines, LineType DEF Finish, CInv, TypeOK
<1>2. conn' = [conn EXCEPT ![LineOf(cfg)] = NoHost] /\ "net" \in Line /\ left' = FALSE
  BY DEF Finish, Hang, Renewed, Line
<1>3. OwnLine'
  <2>1. step = "send" /\ link' = link /\ cfg' = cfg /\ cur' = 1 /\ cur \in Acq
    BY DEF Finish, CInv, Place, TypeOK, setup
  <2>2. AllTcp' => conn'["net"] = NoHost
    BY <1>1, <1>2, <2>1 DEF AllTcp, CInv, OwnLine, TypeOK
  <2>3. ASSUME OneLine' PROVE LineOf(cfg) = MyLine' /\ conn'[MyLine'] = NoHost
    <3>1. LineOf(cfg) = MyLine /\ MyLine = MyLine'
      BY <1>0, <2>1, <2>3 DEF OneLine, MyLine, CInv, OwnLine
    <3> QED
      BY <1>1, <1>2, <3>1 DEF CInv, TypeOK
  <2> QED
    BY <2>1, <2>2, <2>3 DEF OwnLine
<1>4. Place' /\ req' \in Packet
  BY <1>0 DEF Finish, Place, Goto, Idle, Packet, Type
<1> QED
  BY <1>0, <1>1, <1>3, <1>4
  DEF Finish, Goto, CInv, TypeOK, LinesOK, setup, store

LEMMA ShapeBegin ==
  ASSUME CInv,
         \/ \E a \in Acq : TransSaleSub(a)
         \/ TransLogon
         \/ \E a \in Acq, loop \in BOOLEAN : TransSettle(a, loop)
  PROVE  CInv'
<1>0. 1 \in Acq
  BY ConstantsAssumption DEF Acq
<1>1. /\ cur' \in Acq /\ all' \in BOOLEAN /\ then' \in {"request", "settle", "end"}
      /\ pc = "idle" \/ (pc = "card" /\ cur' = cur)
      /\ pc' \in {"reverse", "request"} /\ step' = "send"
      /\ UNCHANGED <<setup, lines, stan, store, host, history>>
  BY <1>0 DEF TransSaleSub, TransLogon, TransSettle, Free, Goto
<1>2. req' \in Packet
  <2>1. CASE \E a \in Acq : TransSaleSub(a)
    BY <2>1 DEF TransSaleSub, Packet, Type, CInv, TypeOK
  <2>2. CASE \E a \in Acq, loop \in BOOLEAN : TransSettle(a, loop)
    BY <2>2 DEF TransSettle, CInv, TypeOK
  <2>3. CASE TransLogon
    BY <1>0, <2>3 DEF TransLogon, Packet, Type, CInv, TypeOK
  <2> QED
    BY <2>1, <2>2, <2>3
<1>3. OwnLine'
  <2>1. /\ step = "send" /\ conn' = conn /\ link' = link /\ cfg' = cfg /\ cur \in Acq /\ ~all
        /\ left' = left
    BY <1>1 DEF CInv, Place, TypeOK, setup, lines, history
  <2> QED
    BY <1>1, <2>1, OwnLineKept DEF CInv, OwnLine, TypeOK
<1>4. Place'
  BY <1>1 DEF Place
<1> QED
  BY <1>1, <1>2, <1>3, <1>4 DEF CInv, TypeOK, setup, lines, store, history

LEMMA ShapePreDial ==
  ASSUME CInv, NEW a \in Acq, PreDial(a)
  PROVE  CInv'
<1>1. /\ pc = "idle" /\ pc' = "card" /\ step = "send" /\ step' = "send" /\ ~all
      /\ cur' = a /\ cfg' = link[a]
      /\ UNCHANGED <<setup, stan, store, host, req, then, all, history>>
  BY DEF PreDial, Goto, CInv, Place
<1>2. link[a] \in Link /\ link \in [Acq -> Link] /\ link' = link /\ left' = left /\ cur \in Acq
  BY <1>1, ConstantsAssumption DEF CInv, TypeOK, setup, history
<1>3. /\ LinesOK'
      /\ conn'[LineOf(link[a])] \in {conn[LineOf(link[a])], NoHost, a}
      /\ link[a] = "TCPIP" => conn' = conn
  BY <1>2, TypeLines, PreDialLines DEF PreDial, CInv
<1>4. OwnLine'
  <2>1. (AllTcp /\ step = "send" => conn["net"] = NoHost)'
    BY <1>1, <1>2, <1>3 DEF AllTcp, CInv, OwnLine
  <2>2. ASSUME OneLine'
        PROVE  /\ LineOf(cfg)' = MyLine'
               /\ ~left' => conn'[MyLine'] \in {NoHost, cur'}
    <3>1. OneLine
      BY <1>2, <2>2 DEF OneLine
    <3>2. MyLine' = LineOf(link[a]) /\ MyLine = LineOf(link[a])
      BY <1>1, <1>2, <3>1 DEF OneLine, MyLine
    <3> QED
      BY <1>1, <1>2, <1>3, <3>1, <3>2 DEF CInv, OwnLine
  <2> QED
    BY <1>1, <2>1, <2>2 DEF OwnLine
<1>5. Place'
  BY <1>1 DEF Place
<1> QED
  BY <1>1, <1>2, <1>3, <1>4, <1>5 DEF CInv, TypeOK, LinesOK, setup, store, history

LEMMA ShapeCardRefused ==
  ASSUME CInv, CardRefused
  PROVE  CInv'
<1>1. /\ pc = "card" /\ pc' = "finish" /\ step = "send" /\ step' = "send" /\ ~all
      /\ UNCHANGED <<setup, lines, stan, store, host, cur, req, then, all, history>>
  BY DEF CardRefused, Goto, CInv, Place
<1>2. OwnLine'
  BY <1>1, OwnLineKept DEF CInv, OwnLine, TypeOK, setup, lines, history
<1>3. Place'
  BY <1>1 DEF Place
<1> QED
  BY <1>1, <1>2, <1>3 DEF CInv, TypeOK, setup, lines, store, history

LEMMA ShapeCardCancelled ==
  ASSUME CInv, CardCancelled
  PROVE  CInv'
<1>0. 1 \in Acq
  BY ConstantsAssumption DEF Acq
<1>1. /\ pc = "card" /\ pc' = "idle" /\ step = "send" /\ step' = "send" /\ ~all
      /\ cur' = 1 /\ left' = (conn # AllClosed)
      /\ UNCHANGED <<setup, lines, stan, store, host, req, then, all, last, torn, exposed>>
  BY DEF CardCancelled, Goto, CInv, Place
<1>2. OwnLine'
  <2>1. (AllTcp /\ step = "send" => conn["net"] = NoHost)'
    BY <1>1 DEF AllTcp, CInv, OwnLine, setup, lines
  <2>2. ASSUME OneLine'
        PROVE  LineOf(cfg)' = MyLine' /\ (~left' => conn'[MyLine'] = NoHost)
    <3>1. OneLine /\ MyLine' = MyLine
      BY <1>0, <1>1, <2>2 DEF OneLine, MyLine, CInv, TypeOK, setup
    <3>2. ~left' => conn' = AllClosed
      BY <1>1 DEF lines
    <3>3. LineOf(cfg)' = MyLine'
      BY <1>1, <3>1 DEF CInv, OwnLine, lines
    <3> QED
      BY <3>1, <3>2, <3>3, LineType DEF AllClosed
  <2> QED
    BY <1>1, <2>1, <2>2 DEF OwnLine
<1>3. Place'
  BY <1>1 DEF Place
<1>4. left' \in BOOLEAN
  BY <1>1
<1> QED
  BY <1>0, <1>1, <1>2, <1>3, <1>4 DEF CInv, TypeOK, setup, lines, store

LEMMA ShapePowerFail ==
  ASSUME CInv, PowerFail
  PROVE  CInv'
<1>0. 1 \in Acq /\ 1 \in Stan
  BY ConstantsAssumption DEF Acq, Stan
<1>1. LinesOK' /\ \A l \in Line : conn'[l] = NoHost
  BY LineCleared DEF PowerFail, AllClosed, LinesOK
<1>2. /\ link' = link /\ link[1] \in Link /\ cfg' = link[1]
      /\ cur' = 1 /\ pc' = "idle" /\ step' = "send" /\ ~all' /\ left' = FALSE
  BY <1>0, ConstantsAssumption DEF PowerFail, Goto, CInv, TypeOK, setup
<1>3. OwnLine'
  BY <1>1, <1>2, LineType DEF OwnLine, MyLine, Line
<1>4. Place' /\ req' \in Packet
  BY <1>0, <1>2 DEF PowerFail, Place, Idle, Packet, Type
<1>5. torn' \in BOOLEAN /\ exposed' \subseteq Stan
  <2>1. torn' \in BOOLEAN
    <3>1. torn' = (torn \/ (step = "trace" /\ pc # "reverse"))
      BY DEF PowerFail
    <3> QED
      BY <3>1
  <2>2. exposed' \subseteq Stan
    BY DEF PowerFail, CInv, TypeOK, Packet
  <2> QED
    BY <2>1, <2>2
<1> QED
  BY <1>0, <1>1, <1>2, <1>3, <1>4, <1>5 DEF PowerFail, CInv, TypeOK, LinesOK, setup, store

LEMMA ShapeKept ==
  ASSUME CInv, [Next]_vars
  PROVE  CInv'
<1>1. CASE UNCHANGED vars
  BY <1>1 DEF vars, CInv, TypeOK, Place, OwnLine, AllTcp, OneLine, MyLine
<1>2. CASE Continue
  BY <1>2, ShapeSend, ShapeSendFails, ShapeTrace, ShapeRecvFails, ShapeNoReversal,
     ShapeTranReversal, ShapeRefused, ShapeAccepted, ShapeSettled, ShapeFinish, ShapeBegin,
     ShapeCardRefused, ShapeCardCancelled DEF Continue
<1> QED
  BY <1>1, <1>2, ShapeBegin, ShapePreDial, ShapePowerFail DEF Next, Wait

(* A packet goes out in SendPacket alone. *)
LEMMA OnlySendPacket ==
  ASSUME CInv, [Next]_vars, Out
  PROVE  SendPacket
<1>0. step = "send" /\ step' = "trace"
  BY DEF Out
<1>3. ~TransLogon /\ \A a \in Acq : /\ ~PreDial(a) /\ ~TransSaleSub(a)
                                    /\ \A loop \in BOOLEAN : ~TransSettle(a, loop)
  BY <1>0 DEF PreDial, TransLogon, TransSaleSub, TransSettle, Goto
<1>1. ASSUME Continue PROVE SendPacket
  <2>1. ~SendFails
    BY <1>0, FailedFlow DEF SendFails, Sending, CInv
  <2>2. ~GetNewTraceNo /\ ~SaveSent /\ ~RecvFails
    BY <1>0 DEF GetNewTraceNo, SaveSent, RecvFails
  <2>3. ~NoReversal
    BY <1>0, AfterReversalFlow DEF NoReversal
  <2>4. ~Answered("00") /\ ~Answered("05")
    BY <1>0, TypeLines, AnsweredLines DEF CInv
  <2>5. ~Settled /\ ~Finish /\ ~CardRefused /\ ~CardCancelled
    BY <1>0 DEF Settled, Finish, CardRefused, CardCancelled, Goto
  <2> QED
    BY <1>1, <1>3, <2>1, <2>2, <2>3, <2>4, <2>5
    DEF Continue, TranReversal, ReversalRefused, HostAccepted, HostRejected, NotSettled
<1>2. ~UNCHANGED vars /\ ~PowerFail
  BY <1>0 DEF vars, PowerFail, Goto
<1> QED
  BY <1>1, <1>2, <1>3 DEF Next, Wait

(* Every variable keeps its type, whatever the trace number. *)
THEOREM TypeCorrect == Spec => []TypeOK
<1>1. Spec => []CInv
  BY ShapeInit, ShapeKept, PTL DEF Spec
<1>2. CInv => TypeOK
  BY DEF CInv
<1> QED
  BY <1>1, <1>2, PTL

(* TcpReachesItsHost: where all acquirers are on TCP/IP a packet always finds *)
(* the line closed (CommRxd, TcpOnHook), for any number of acquirers.         *)
THEOREM TcpReaches == Spec => TcpReachesItsHost
<1> DEFINE Step == Out /\ (\A a \in Acq : link[a] = "TCPIP") => conn'[MyLine] = cur
<1>1. ASSUME CInv, [Next]_vars PROVE [Step]_vars
  <2> SUFFICES ASSUME ~UNCHANGED vars, Out, AllTcp PROVE conn'[MyLine] = cur
    BY DEF AllTcp
  <2>1. SendPacket
    BY <1>1, OnlySendPacket
  <2>2. conn["net"] = NoHost /\ MyLine = "net"
    BY <1>1 DEF Out, CInv, OwnLine, AllTcp, MyLine, LineOf, TypeOK
  <2> QED
    BY <1>1, <2>1, <2>2, SendLines
<1>2. Spec => []CInv
  BY ShapeInit, ShapeKept, PTL DEF Spec
<1> QED
  BY <1>1, <1>2, PTL DEF Spec, TcpReachesItsHost

(* SaleReachesItsHost: where all acquirers share a kind of line, a packet that *)
(* is not of the loop over all acquirers goes to its own host (CommOnHook at   *)
(* the end of an event), for any number of acquirers, lines dialled ahead      *)
(* included, but for the event after a card entry that was given up.           *)
THEOREM SaleReaches == Spec => SaleReachesItsHost
<1> DEFINE Step == Out /\ ~all /\ ~left /\ OneLine => conn'[MyLine] = cur
<1>1. ASSUME CInv, [Next]_vars PROVE [Step]_vars
  <2> SUFFICES ASSUME ~UNCHANGED vars, Out, ~all, ~left, OneLine PROVE conn'[MyLine] = cur
    OBVIOUS
  <2>1. SendPacket
    BY <1>1, OnlySendPacket
  <2>2. conn[MyLine] \in {NoHost, Dead, cur}
    BY <1>1 DEF CInv, OwnLine
  <2> QED
    BY <1>1, <2>1, <2>2, SendLines
<1>2. Spec => []CInv
  BY ShapeInit, ShapeKept, PTL DEF Spec
<1> QED
  BY <1>1, <1>2, PTL DEF Spec, SaleReachesItsHost

------------------------------------------------------------------------------
(* The trace numbers, as long as they have not wrapped. *)

LEMMA NumbersInit == Init => IInv
<1> SUFFICES ASSUME Init PROVE IInv
  OBVIOUS
<1>1. OnWire = {}
  <2>1. \A l \in Line : wire[l] = <<>> /\ 1 .. Len(wire[l]) = {}
    BY DEF Init, NothingOnTheWay
  <2> QED
    BY <2>1 DEF OnWire
<1>2. ~Built /\ ~InFlight /\ last = 0 /\ stan = 1 /\ \A a \in Acq : rev[a] = NoStan /\ Held(a) = {}
  BY DEF Init, Built, InFlight, Held, NewBatch
<1>3. Reversals /\ Bound(stan)
  BY <1>1, <1>2 DEF Reversals, Bound
<1> QED
  BY <1>2, <1>3, ShapeInit DEF IInv

(* A step that goes on without a packet built or in flight, and books nothing. *)
LEMMA NumbersQuiet ==
  ASSUME IInv, CInv', pc \in {"request", "settle"} => step # "trace",
         OnWire' \subseteq OnWire,
         \A a \in Acq : rev'[a] \in {rev[a], NoStan},
         \A a \in Acq : Held(a)' \subseteq Held(a),
         UNCHANGED <<stan, last, torn>>, ~Built', ~InFlight'
  PROVE  IInv'
<1>1. Reversals'
  BY ReversalsShrink DEF IInv, CInv
<1>2. PICK b : b = stan /\ Bound(b)
  BY AlwaysBound DEF Bound
<1>3. /\ \A ans \in OnWire' : ans.stan < b
      /\ \A a \in Acq : rev'[a] # NoStan => rev'[a] < b
      /\ \A a \in Acq : \A s \in Held(a)' : s < b
      /\ ~torn' => last' < b
  BY <1>2, BoundShrinks
<1>4. Bound(stan)'
  BY <1>2, <1>3 DEF Bound
<1> QED
  BY <1>1, <1>4 DEF IInv

LEMMA HeldUnchanged ==
  ASSUME UNCHANGED <<host, exposed>>
  PROVE  \A a \in Acq : Held(a)' = Held(a)
BY DEF Held

LEMMA NumbersFail ==
  ASSUME IInv, SendFails \/ RecvFails
  PROVE  IInv'
<1>1. CInv'
  BY ShapeSendFails, ShapeRecvFails DEF IInv
<1>2. OnWire' \subseteq OnWire
  BY TypeLines, NotDialledLines, RecvFailsLines DEF SendFails, IInv, CInv, TypeOK
<1>3. pc \in {"reverse", "request", "settle"} /\ step # "trace"
  BY DEF SendFails, Sending, RecvFails, IInv, CInv, Place
<1>4. ~Built' /\ ~InFlight'
  BY <1>3, FailedFlow DEF SendFails, RecvFails, IInv, CInv, Built, InFlight
<1>5. UNCHANGED <<stan, rev, host, exposed, last, torn>>
  BY DEF SendFails, RecvFails, store, history
<1> QED
  BY <1>1, <1>2, <1>3, <1>4, <1>5, NumbersQuiet, HeldUnchanged

LEMMA NumbersAnswered ==
  ASSUME IInv, ReversalRefused \/ HostRejected \/ HostAccepted \/ NotSettled
  PROVE  IInv'
<1>1. CInv'
  BY ShapeRefused, ShapeAccepted, ShapeSettled DEF IInv
<1>2. OnWire' \subseteq OnWire /\ step = "recv"
  BY TypeLines, AnsweredLines
  DEF ReversalRefused, HostRejected, HostAccepted, NotSettled, IInv, CInv
<1>3. ~Built' /\ ~InFlight'
  <2>1. CASE ReversalRefused \/ HostRejected \/ HostAccepted
    BY <2>1 DEF ReversalRefused, HostRejected, HostAccepted, Goto, Built, InFlight
  <2>2. CASE NotSettled
    <3>1. PICK batch : NextSettlement(batch)
      BY <2>2 DEF NotSettled, NextSettlement
    <3> QED
      BY <3>1, NextSettlementFlow DEF IInv, CInv, Built, InFlight
  <2> QED
    BY <2>1, <2>2
<1>4. UNCHANGED <<stan, host, exposed, last, torn>>
  BY DEF ReversalRefused, HostRejected, HostAccepted, NotSettled, store, history
<1>5. \A a \in Acq : rev'[a] \in {rev[a], NoStan}
  BY DEF ReversalRefused, HostRejected, HostAccepted, NotSettled, store, IInv, CInv, TypeOK
<1> QED
  BY <1>1, <1>2, <1>3, <1>4, <1>5, NumbersQuiet, HeldUnchanged

LEMMA NumbersSettled ==
  ASSUME IInv, Settled
  PROVE  IInv'
<1>1. CInv'
  BY ShapeSettled DEF IInv
<1>2. OnWire' \subseteq OnWire
  BY TypeLines, HangLines, LineType DEF Settled, IInv, CInv
<1>3. ~Built' /\ ~InFlight'
  <2>1. PICK batch : NextSettlement(batch)
    BY DEF Settled, NextSettlement
  <2> QED
    BY <2>1, NextSettlementFlow DEF IInv, CInv, Built, InFlight
<1>4. \A a \in Acq : Held(a)' \subseteq Held(a)
  BY DEF Settled, Held, NewBatch, history, IInv, CInv, TypeOK
<1>5. \A a \in Acq : rev'[a] \in {rev[a], NoStan}
  BY DEF Settled, IInv, CInv, TypeOK
<1>6. UNCHANGED <<stan, last, torn>> /\ step # "trace"
  BY DEF Settled, history
<1> QED
  BY <1>1, <1>2, <1>3, <1>4, <1>5, <1>6, NumbersQuiet

LEMMA NumbersFinish ==
  ASSUME IInv, Finish
  PROVE  IInv'
<1>1. CInv'
  BY ShapeFinish DEF IInv
<1>2. OnWire' \subseteq OnWire
  BY TypeLines, HangLines, LineType DEF Finish, IInv, CInv, TypeOK
<1>3. ~Built' /\ ~InFlight' /\ pc = "finish"
  BY DEF Finish, Goto, Built, InFlight
<1>4. UNCHANGED <<stan, rev, host, exposed, last, torn>>
  BY DEF Finish, store
<1> QED
  BY <1>1, <1>2, <1>3, <1>4, NumbersQuiet, HeldUnchanged

(* TranReversal is done: a sale built before it goes out now, under the number *)
(* it was given then.                                                         *)
LEMMA NumbersReversed ==
  ASSUME IInv, NoReversal \/ TranReversal
  PROVE  IInv'
<1>1. CInv'
  BY ShapeNoReversal, ShapeTranReversal DEF IInv
<1>2. OnWire' \subseteq OnWire /\ step # "trace" /\ pc = "reverse"
  <2>1. CASE NoReversal
    BY <2>1 DEF NoReversal, lines, OnWire
  <2>2. CASE TranReversal
    BY <2>2, TypeLines, AnsweredLines DEF TranReversal, IInv, CInv
  <2> QED
    BY <2>1, <2>2
<1>3. /\ cur' = cur /\ then' = then /\ step' = "send"
      /\ \/ pc' = "request" /\ then = "request" /\ req' = req
         \/ pc' = "settle"
         \/ pc' = "finish"
  BY AfterReversalFlow DEF NoReversal, TranReversal, IInv, CInv
<1>4. UNCHANGED <<stan, host, exposed, last, torn>>
  BY DEF NoReversal, TranReversal, store, history
<1>5. \A a \in Acq : rev'[a] \in {rev[a], NoStan}
  BY DEF NoReversal, TranReversal, store, IInv, CInv, TypeOK
<1>6. CASE pc' = "request"
  <2>1. PICK b : b = req.stan /\ Bound(b)
    BY <1>2, <1>3, <1>6 DEF IInv, Built, SaleBuilt, Bound
  <2>2. /\ \A ans \in OnWire' : ans.stan < b
        /\ \A a \in Acq : rev'[a] # NoStan => rev'[a] < b
        /\ \A a \in Acq : \A s \in Held(a)' : s < b
        /\ ~torn' => last' < b
    BY <1>2, <1>4, <1>5, <2>1, BoundShrinks, HeldUnchanged
  <2>3. Bound(req.stan)'
    BY <1>3, <1>6, <2>1, <2>2 DEF Bound
  <2>4. SaleBuilt'
    BY <1>2, <1>3, <1>4, <1>6, <2>3 DEF IInv, Built, SaleBuilt
  <2>5. Reversals'
    BY <1>2, <1>4, <1>5, ReversalsShrink, HeldUnchanged DEF IInv, CInv
  <2> QED
    BY <1>1, <1>3, <1>6, <2>4, <2>5 DEF IInv, Built, InFlight
<1>7. CASE pc' # "request"
  <2>1. ~Built' /\ ~InFlight'
    BY <1>3, <1>7 DEF Built, InFlight
  <2> QED
    BY <1>1, <1>2, <1>4, <1>5, <2>1, NumbersQuiet, HeldUnchanged
<1> QED
  BY <1>6, <1>7

LEMMA NumbersBegin ==
  ASSUME IInv,
         \/ \E a \in Acq : TransSaleSub(a)
         \/ TransLogon
         \/ \E a \in Acq, loop \in BOOLEAN : TransSettle(a, loop)
  PROVE  IInv'
<1>1. CInv'
  BY ShapeBegin DEF IInv
<1>2. pc \in {"idle", "card"} /\ step' = "send"
      /\ UNCHANGED <<wire, stan, rev, host, exposed, last, torn>>
  BY DEF TransSaleSub, TransLogon, TransSettle, Free, Goto, lines, store, history
<1>3. OnWire' = OnWire
  BY <1>2 DEF OnWire
<1>4. Bound(stan) /\ Reversals
  BY <1>2, AlwaysBound DEF IInv
<1>5. CASE TransLogon \/ \E a \in Acq : TransSaleSub(a)
  <2>1. /\ req'.stan = stan /\ req'.type \in {"sale", "logon"} /\ req'.acq = cur'
        /\ (pc' = "reverse" /\ then' = "request") \/ pc' = "request"
    BY <1>5 DEF TransSaleSub, TransLogon, Goto
  <2>2. Bound(req.stan)'
    BY <1>2, <1>3, <1>4, <2>1, HeldUnchanged DEF Bound
  <2>3. Reversals'
    BY <1>2, <1>3, <1>4, ReversalsShrink, HeldUnchanged DEF IInv, CInv
  <2>4. SaleBuilt'
    BY <1>2, <2>1, <2>2 DEF SaleBuilt, IInv, CInv, TypeOK, Stan
  <2> QED
    BY <1>1, <1>2, <2>1, <2>3, <2>4 DEF IInv, Built, InFlight
<1>6. CASE \E a \in Acq, loop \in BOOLEAN : TransSettle(a, loop)
  <2>1. ~Built' /\ ~InFlight'
    BY <1>2, <1>6 DEF TransSettle, Built, InFlight, Goto
  <2> QED
    BY <1>1, <1>2, <1>3, <2>1, NumbersQuiet, HeldUnchanged
<1> QED
  BY <1>5, <1>6

(* The card entry: a line is dialled ahead, the entry is given up. *)
LEMMA NumbersCard ==
  ASSUME IInv, CardRefused \/ CardCancelled \/ \E a \in Acq : PreDial(a)
  PROVE  IInv'
<1>1. CInv'
  BY ShapePreDial, ShapeCardRefused, ShapeCardCancelled DEF IInv
<1>2. OnWire' \subseteq OnWire
  <2>1. CASE CardRefused \/ CardCancelled
    BY <2>1 DEF CardRefused, CardCancelled, lines, OnWire
  <2>2. ASSUME NEW a \in Acq, PreDial(a) PROVE OnWire' \subseteq OnWire
    <3>1. link[a] \in Link
      BY ConstantsAssumption DEF IInv, CInv, TypeOK
    <3> QED
      BY <2>2, <3>1, TypeLines, PreDialLines DEF PreDial, IInv, CInv
  <2> QED
    BY <2>1, <2>2
<1>3. pc \in {"idle", "card"} /\ ~Built' /\ ~InFlight'
  BY DEF PreDial, CardRefused, CardCancelled, Goto, Built, InFlight
<1>4. UNCHANGED <<stan, rev, host, exposed, last, torn>>
  BY DEF PreDial, CardRefused, CardCancelled, store, history
<1> QED
  BY <1>1, <1>2, <1>3, <1>4, NumbersQuiet, HeldUnchanged

LEMMA NumbersPowerFail ==
  ASSUME IInv, PowerFail
  PROVE  IInv'
<1>1. CInv' /\ TypeOK
  BY ShapePowerFail DEF IInv, CInv
<1>2. OnWire' = {}
  BY LineCleared DEF PowerFail
<1>3. ~Built' /\ ~InFlight' /\ UNCHANGED <<stan, rev, host, last>> /\ exposed \subseteq exposed'
  BY DEF PowerFail, Goto, Built, InFlight, store
<1>4. \A a \in Acq : Held(a)' \subseteq Held(a)
  BY <1>3 DEF Held
<1>5. Reversals'
  BY <1>1, <1>2, <1>3, <1>4, ReversalsShrink DEF IInv
<1>6. Bound(stan)'
  <2>1. CASE pc \in {"request", "settle"} /\ step = "trace"
    <3>1. Awaited /\ req.stan <= stan /\ ~Saved /\ torn'
      BY <2>1 DEF IInv, InFlight, Awaited, Saved, PowerFail
    <3>2. req.type = "sale" => req.stan \in exposed'
      BY <2>1, <3>1 DEF PowerFail, NeedReversal, Awaited
    <3>3. ASSUME NEW a \in Acq, NEW s \in Held(a)' PROVE s < stan
      <4>1. s \in Held(a) /\ s \notin exposed'
        BY <1>4, <3>3 DEF Held
      <4>2. s < req.stan
        BY <3>1, <3>2, <4>1 DEF Awaited
      <4>3. s \in Nat /\ req.stan \in Nat /\ stan \in Nat
        BY <1>1, <4>1 DEF Held, TypeOK, Packet, Stan
      <4> QED
        BY <3>1, <4>2, <4>3
    <3>4. ASSUME NEW a \in Acq, rev[a] # NoStan PROVE rev[a] < stan
      <4>1. rev[a] < req.stan
        BY <3>1, <3>4 DEF Awaited
      <4>2. rev[a] \in Nat /\ req.stan \in Nat /\ stan \in Nat
        BY <1>1, <3>4 DEF TypeOK, Packet, Stan
      <4> QED
        BY <3>1, <4>1, <4>2
    <3> QED
      BY <1>2, <1>3, <3>1, <3>3, <3>4 DEF Bound
  <2>2. CASE ~(pc \in {"request", "settle"} /\ step = "trace")
    <3>1. Bound(stan)
      BY <2>2, AlwaysBound
    <3>2. ~torn' => ~torn
      BY DEF PowerFail
    <3> QED
      BY <1>2, <1>3, <1>4, <3>1, <3>2 DEF Bound
  <2> QED
    BY <2>1, <2>2
<1> QED
  BY <1>1, <1>3, <1>5, <1>6 DEF IInv

(* GetNewTraceNo uses up the number of a request that was sent. *)
LEMMA NumbersTrace ==
  ASSUME IInv, GetNewTraceNo, stan < MaxStan
  PROVE  IInv'
<1>1. CInv' /\ TypeOK
  BY ShapeTrace DEF IInv, CInv
<1>2. stan' = stan + 1 /\ stan \in Nat /\ req.stan \in Nat
  BY <1>1 DEF GetNewTraceNo, TypeOK, Packet, Stan
<1>3. /\ step = "trace" /\ step' = "save"
      /\ UNCHANGED <<wire, rev, host, cur, req, pc, then, last, exposed>>
  BY DEF GetNewTraceNo, lines, store
<1>4. OnWire' = OnWire /\ \A a \in Acq : Held(a)' = Held(a)
  BY <1>3, HeldUnchanged DEF OnWire
<1>5. Reversals'
  BY <1>1, <1>3, <1>4, ReversalsShrink DEF IInv
<1>6. CASE pc = "reverse"
  <2>1. torn' = torn /\ torn \in BOOLEAN
    BY <1>1, <1>6 DEF GetNewTraceNo, TypeOK
  <2>2. CASE then = "request"
    <3>1. SaleBuilt
      BY <1>6, <2>2 DEF IInv, Built
    <3>2. SaleBuilt'
      BY <1>2, <1>3, <1>4, <2>1, <3>1 DEF SaleBuilt, Bound
    <3> QED
      BY <1>1, <1>3, <1>5, <1>6, <2>2, <3>2 DEF IInv, Built, InFlight
  <2>3. CASE then # "request"
    <3>1. Bound(stan)
      BY <1>6, AlwaysBound
    <3>2. /\ \A ans \in OnWire : ans.stan \in Nat
          /\ \A a \in Acq : rev[a] # NoStan => rev[a] \in Nat
          /\ \A a \in Acq : \A s \in Held(a) : s \in Nat
          /\ last \in Nat
      <4>1. \A ans \in OnWire : ans.stan \in Nat
        BY <1>1, OnWireType DEF Answer, Stan
      <4>2. \A a \in Acq : rev[a] # NoStan => rev[a] \in Nat
        BY <1>1 DEF TypeOK, Stan
      <4>3. \A a \in Acq : \A s \in Held(a) : s \in Nat
        BY <1>1 DEF TypeOK, Stan, Held
      <4>4. last \in Nat
        BY <1>1 DEF TypeOK
      <4> QED
        BY <4>1, <4>2, <4>3, <4>4
    <3>3. Bound(stan)'
      BY <1>2, <1>3, <1>4, <2>1, <3>1, <3>2 DEF Bound
    <3> QED
      BY <1>1, <1>3, <1>5, <1>6, <2>3, <3>3 DEF IInv, Built, InFlight
  <2> QED
    BY <2>2, <2>3
<1>7. CASE pc # "reverse"
  <2>1. InFlight /\ Awaited /\ InFlight' /\ ~Built' /\ ~Saved /\ ~Saved'
    BY <1>1, <1>3, <1>7 DEF IInv, CInv, Place, InFlight, Built, Saved
  <2>2. \A ans \in OnWire' : (ans.stan < req.stan \/ IsReply(ans))'
    BY <1>3, <1>4, <2>1 DEF Awaited, IsReply, Held
  <2>3. Awaited'
    BY <1>2, <1>3, <1>4, <2>1, <2>2 DEF Awaited
  <2> QED
    BY <1>1, <1>5, <2>1, <2>3 DEF IInv
<1> QED
  BY <1>6, <1>7

(* SaveRevInfo(TRUE): no other sale to be reversed has this number. *)
LEMMA NumbersSave ==
  ASSUME IInv, SaveSent
  PROVE  IInv'
<1>1. CInv' /\ TypeOK
  BY ShapeTrace DEF IInv, CInv
<1>2. /\ step = "save" /\ step' = "recv"
      /\ UNCHANGED <<wire, stan, host, cur, req, pc, then, last, torn, exposed>>
  BY DEF SaveSent, lines, history
<1>3. OnWire' = OnWire /\ \A a \in Acq : Held(a)' = Held(a)
  BY <1>2, HeldUnchanged DEF OnWire
<1>4. CASE pc \notin {"request", "settle"}
  <2>1. pc = "reverse" /\ rev' = rev
    BY <1>2, <1>4 DEF SaveSent, IInv, CInv, Place
  <2>2. Reversals'
    BY <1>1, <1>3, <2>1, ReversalsShrink DEF IInv
  <2>3. CASE then = "request"
    <3>1. SaleBuilt
      BY <2>1, <2>3 DEF IInv, Built
    <3>2. SaleBuilt'
      BY <1>2, <1>3, <2>1, <3>1 DEF SaleBuilt, Bound
    <3> QED
      BY <1>1, <1>2, <2>1, <2>2, <2>3, <3>2 DEF IInv, Built, InFlight
  <2>4. CASE then # "request"
    <3>1. ~Built' /\ ~InFlight'
      BY <1>2, <2>1, <2>4 DEF Built, InFlight
    <3> QED
      BY <1>1, <1>2, <1>3, <2>1, <3>1, NumbersQuiet
  <2> QED
    BY <2>3, <2>4
<1>5. CASE pc \in {"request", "settle"}
  <2>1. InFlight /\ Awaited /\ InFlight' /\ ~Built' /\ ~Saved /\ Reversals
    BY <1>2, <1>5 DEF IInv, InFlight, Built, Saved
  <2>2. req.stan < stan /\ req.stan \in Stan /\ cur \in Acq /\ NoStan \notin Stan
    BY <1>1, <1>2, <2>1, ConstantsAssumption DEF Awaited, TypeOK, Packet
  <2>3. \A ans \in OnWire' : (ans.stan < req.stan \/ IsReply(ans))'
    BY <1>2, <1>3, <2>1 DEF Awaited, IsReply, Held
  <2>4. CASE req.type # "sale"
    <3>1. rev' = rev /\ ~Saved'
      BY <1>2, <2>4 DEF SaveSent, NeedReversal, Saved
    <3>2. Awaited'
      BY <1>2, <1>3, <2>1, <2>2, <2>3, <2>4, <3>1 DEF Awaited
    <3>3. Reversals'
      BY <1>1, <1>3, <2>1, <3>1, ReversalsShrink
    <3> QED
      BY <1>1, <2>1, <3>2, <3>3 DEF IInv
  <2>5. CASE req.type = "sale"
    <3>0. pc = "request"
      BY <1>5, <2>1, <2>5 DEF Awaited
    <3>1. Saved' /\ \A a \in Acq : rev'[a] = IF a = cur THEN req.stan ELSE rev[a]
      BY <1>1, <1>2, <2>5, <3>0 DEF SaveSent, NeedReversal, Saved, TypeOK
    <3>2. \A a \in Acq : rev[a] # NoStan => rev[a] < req.stan
      BY <2>1 DEF Awaited
    <3>3. Awaited'
      BY <1>2, <1>3, <2>1, <2>2, <2>3, <2>5, <3>0, <3>1, <3>2 DEF Awaited
    <3>4. \A a, b \in Acq : rev'[a] = rev'[b] /\ rev'[a] # NoStan => a = b
      <4>1. \A a \in Acq : rev[a] # req.stan
        BY <2>2, <3>2 DEF Stan
      <4> QED
        BY <2>1, <2>2, <3>1, <4>1 DEF Reversals
    <3>5. ASSUME NEW ans \in OnWire', ans.type = "reversal"
          PROVE  /\ \A a \in Acq : ans.stan = rev'[a] => ans.acq = a
                 /\ ans.code = "00" => ans.stan \notin Held(ans.acq)'
      <4>1. ans \in OnWire /\ ans.acq \in Acq /\ ans.stan \in Stan
        BY <1>1, <1>3, OnWireType DEF Answer
      <4>2. ans.stan < req.stan
        BY <2>1, <2>5, <3>5, <4>1 DEF Awaited, IsReply
      <4>3. ans.stan # req.stan
        BY <2>2, <4>1, <4>2 DEF Stan
      <4> QED
        BY <1>3, <2>1, <3>1, <3>5, <4>1, <4>3 DEF Reversals
    <3>6. Reversals'
      BY <3>4, <3>5 DEF Reversals
    <3> QED
      BY <1>1, <2>1, <3>3, <3>6 DEF IInv
  <2> QED
    BY <1>5, <2>4, <2>5
<1> QED
  BY <1>4, <1>5

(* A reversal goes out: its answers bear a number that was used before. *)
LEMMA NumbersSendReversal ==
  ASSUME IInv, SendPacket, pc = "reverse"
  PROVE  IInv'
<1>1. CInv' /\ TypeOK /\ CInv
  BY ShapeSend DEF IInv, CInv
<1>2. PICK m \in Packet :
         /\ m = Sent
         /\ UNCHANGED host \/ host' = Booked(m.acq, m)
         /\ \A ans \in OnWire' :
               \/ ans \in OnWire
               \/ ans = Reply(m, "05") /\ UNCHANGED host
               \/ ans = Reply(m, "00") /\ host' = Booked(m.acq, m)
  BY <1>1, SendLines
<1>3. m.type = "reversal" /\ m.acq = cur /\ m.stan = rev[cur] /\ rev[cur] # NoStan /\ cur \in Acq
  BY <1>1, <1>2 DEF Sent, SendPacket, Sending, TypeOK
<1>4. /\ step' = "trace" /\ step = "send"
      /\ UNCHANGED <<stan, rev, cur, req, pc, then, last, torn, exposed>>
  BY DEF SendPacket, Sending, store
<1>5. /\ \A a \in Acq : Held(a)' \subseteq Held(a)
      /\ host' = Booked(m.acq, m) => m.stan \notin Held(m.acq)'
  <2>1. host \in [Acq -> [sale: SUBSET Stan, shut: BOOLEAN]]
    BY <1>1 DEF TypeOK
  <2>2. CASE UNCHANGED host /\ host' # Booked(m.acq, m)
    BY <1>4, <2>2 DEF Held
  <2>3. CASE host' = Booked(m.acq, m)
    BY <1>3, <1>4, <2>1, <2>3, BookedSales DEF Held
  <2> QED
    BY <1>2, <2>2, <2>3
<1>6. \A ans \in OnWire' :
         \/ ans \in OnWire
         \/ /\ ans.stan = rev[cur] /\ ans.acq = cur
            /\ ans.code = "00" => ans.stan \notin Held(cur)'
  <2>1. /\ Reply(m, "05").stan = rev[cur] /\ Reply(m, "05").acq = cur /\ Reply(m, "05").code = "05"
        /\ Reply(m, "00").stan = rev[cur] /\ Reply(m, "00").acq = cur
    BY <1>3 DEF Reply
  <2>2. host' = Booked(m.acq, m) => rev[cur] \notin Held(cur)'
    BY <1>3, <1>4, <1>5 DEF Held
  <2> QED
    BY <1>2, <2>1, <2>2
<1>7. ASSUME NEW b, Bound(b)
      PROVE  /\ \A ans \in OnWire' : ans.stan < b
             /\ \A a \in Acq : rev'[a] # NoStan => rev'[a] < b
             /\ \A a \in Acq : \A s \in Held(a)' : s < b
             /\ ~torn' => last' < b
  BY <1>3, <1>4, <1>5, <1>6, <1>7 DEF Bound
<1>8. Reversals'
  <2>1. \A a, b \in Acq : rev'[a] = rev'[b] /\ rev'[a] # NoStan => a = b
    BY <1>4 DEF IInv, Reversals
  <2>2. ASSUME NEW ans \in OnWire', ans.type = "reversal"
        PROVE  /\ \A a \in Acq : ans.stan = rev'[a] => ans.acq = a
               /\ ans.code = "00" => ans.stan \notin Held(ans.acq)'
    <3>1. CASE ans \in OnWire
      <4>1. ans.acq \in Acq
        BY <1>1, <3>1, OnWireType DEF Answer
      <4> QED
        BY <1>4, <1>5, <2>2, <3>1, <4>1 DEF IInv, Reversals
    <3>2. CASE /\ ans.stan = rev[cur] /\ ans.acq = cur
               /\ ans.code = "00" => ans.stan \notin Held(cur)'
      <4>1. \A a \in Acq : ans.stan = rev'[a] => ans.acq = a
        BY <1>3, <1>4, <3>2 DEF IInv, Reversals
      <4> QED
        BY <1>4, <3>2, <4>1 DEF Held
    <3> QED
      BY <1>6, <3>1, <3>2
  <2> QED
    BY <2>1, <2>2 DEF Reversals
<1>9. CASE then = "request"
  <2>1. PICK b : b = req.stan /\ Bound(b)
    BY <1>9 DEF IInv, Built, SaleBuilt, Bound
  <2>2. Bound(req.stan)'
    BY <1>4, <1>7, <2>1 DEF Bound
  <2>3. SaleBuilt'
    BY <1>4, <1>9, <2>2 DEF IInv, Built, SaleBuilt
  <2> QED
    BY <1>1, <1>4, <1>8, <1>9, <2>3 DEF IInv, Built, InFlight
<1>10. CASE then # "request"
  <2>1. PICK b : b = stan /\ Bound(b)
    BY AlwaysBound DEF Bound
  <2>2. Bound(stan)'
    BY <1>4, <1>7, <2>1 DEF Bound
  <2> QED
    BY <1>1, <1>4, <1>8, <1>10, <2>2 DEF IInv, Built, InFlight
<1> QED
  BY <1>9, <1>10

(* A sale or a settlement goes out under a number that nothing has borne yet. *)
LEMMA NumbersSendRequest ==
  ASSUME IInv, SendPacket, pc # "reverse"
  PROVE  IInv' /\ (~torn => req.stan > last)
<1>1. CInv' /\ TypeOK /\ CInv
  BY ShapeSend DEF IInv, CInv
<1>2. PICK m \in Packet :
         /\ m = Sent
         /\ UNCHANGED host \/ host' = Booked(m.acq, m)
         /\ \A ans \in OnWire' :
               \/ ans \in OnWire
               \/ ans = Reply(m, "05") /\ UNCHANGED host
               \/ ans = Reply(m, "00") /\ host' = Booked(m.acq, m)
  BY <1>1, SendLines
<1>3. m = req /\ pc \in {"request", "settle"} /\ step = "send"
  BY <1>2 DEF Sent, SendPacket, Sending
<1>4. /\ step' = "trace" /\ last' = req.stan
      /\ UNCHANGED <<stan, rev, cur, req, pc, then, torn, exposed>>
  BY <1>3 DEF SendPacket, store
<1>5. /\ req.acq = cur
      /\ req.type \in IF pc = "settle" THEN {"settle"} ELSE {"sale", "logon"}
      /\ req.stan <= stan
  <2>1. CASE pc = "request"
    BY <1>3, <2>1 DEF IInv, Built, SaleBuilt
  <2>2. CASE pc = "settle"
    BY <1>1, <1>3, <2>2 DEF Place, CInv, TypeOK, Stan
  <2> QED
    BY <1>3, <2>1, <2>2
<1>6. Bound(req.stan)
  <2>1. CASE pc = "request"
    BY <1>3, <2>1 DEF IInv, Built, SaleBuilt
  <2>2. CASE pc = "settle"
    <3>1. Bound(stan) /\ req.stan = stan
      BY <1>1, <1>3, <2>2, AlwaysBound DEF Place, CInv
    <3> QED
      BY <3>1 DEF Bound
  <2> QED
    BY <1>3, <2>1, <2>2
<1>7. cur \in Acq /\ req.stan \in Nat /\ last \in Nat /\ req.type \in {"sale", "logon", "settle"}
  BY <1>1, <1>5 DEF TypeOK, Packet, Stan
<1>8. /\ \A a \in Acq : \A s \in Held(a)' :
            s \in Held(a) \/ (req.type = "sale" /\ a = cur /\ s = req.stan)
      /\ host' = Booked(m.acq, m) /\ pc = "settle" => host'[cur].shut
  <2>1. host \in [Acq -> [sale: SUBSET Stan, shut: BOOLEAN]]
    BY <1>1 DEF TypeOK
  <2>2. CASE UNCHANGED host /\ host' # Booked(m.acq, m)
    BY <1>4, <2>2 DEF Held
  <2>3. CASE host' = Booked(m.acq, m)
    <3>1. /\ \A a \in Acq : \A s \in host'[a].sale :
               s \in host[a].sale \/ (m.type = "sale" /\ a = m.acq /\ s = m.stan)
          /\ m.type = "settle" => host'[m.acq].shut
      BY <2>1, <2>3, BookedSales
    <3>2. m.acq = cur /\ m.stan = req.stan
          /\ m.type = req.type /\ (pc = "settle" => m.type = "settle")
      BY <1>3, <1>5
    <3> QED
      BY <1>4, <3>1, <3>2 DEF Held
  <2> QED
    BY <1>2, <2>2, <2>3
<1>9. /\ \A ans \in OnWire : ans.stan < req.stan
      /\ \A a \in Acq : rev[a] # NoStan => rev[a] < req.stan
      /\ \A a \in Acq : \A s \in Held(a) : s < req.stan
      /\ ~torn => last < req.stan
  BY <1>6 DEF Bound
<1>10. ASSUME NEW ans \in OnWire'
       PROVE  ans \in OnWire \/ (ans.type = req.type /\ IsReply(ans)')
  <2>1. /\ Reply(m, "05").stan = req.stan /\ Reply(m, "05").type = req.type
        /\ Reply(m, "05").code = "05"
        /\ Reply(m, "00").stan = req.stan /\ Reply(m, "00").type = req.type
        /\ Reply(m, "00").code = "00"
    BY <1>3 DEF Reply
  <2>2. CASE ans = Reply(m, "05") /\ UNCHANGED host
    <3>1. req.stan \notin Held(cur)
      BY <1>7, <1>9
    <3> QED
      BY <1>4, <2>1, <2>2, <3>1 DEF IsReply, Held
  <2>3. CASE ans = Reply(m, "00") /\ host' = Booked(m.acq, m)
    <3>1. req.type = "settle" => host'[cur].shut
      BY <1>5, <1>8, <2>3
    <3> QED
      BY <1>4, <2>1, <2>3, <3>1 DEF IsReply
  <2> QED
    BY <1>2, <1>10, <2>2, <2>3
<1>11. InFlight' /\ ~Built' /\ ~Saved'
  BY <1>3, <1>4 DEF InFlight, Built, Saved
<1>12. Awaited'
  <2>1. \A ans \in OnWire' : (ans.stan < req.stan \/ IsReply(ans))'
    BY <1>4, <1>9, <1>10
  <2>2. \A a \in Acq : rev'[a] # NoStan => rev'[a] < req'.stan
    BY <1>4, <1>9
  <2>3. \A a \in Acq : \A s \in Held(a)' :
          s < req'.stan \/ (req'.type = "sale" /\ a = cur' /\ s = req'.stan)
    BY <1>4, <1>8, <1>9
  <2> QED
    BY <1>4, <1>5, <1>11, <2>1, <2>2, <2>3 DEF Awaited
<1>13. Reversals'
  <2>1. \A a, b \in Acq : rev'[a] = rev'[b] /\ rev'[a] # NoStan => a = b
    BY <1>4 DEF IInv, Reversals
  <2>2. ASSUME NEW ans \in OnWire', ans.type = "reversal"
        PROVE  /\ \A a \in Acq : ans.stan = rev'[a] => ans.acq = a
               /\ ans.code = "00" => ans.stan \notin Held(ans.acq)'
    <3>1. ans \in OnWire
      BY <1>7, <1>10, <2>2
    <3>2. ans.acq \in Acq /\ ans.stan \in Nat
      BY <1>1, <3>1, OnWireType DEF Answer, Stan
    <3>3. ans.stan # req.stan
      BY <1>7, <1>9, <3>1, <3>2
    <3> QED
      BY <1>4, <1>8, <2>2, <3>1, <3>2, <3>3 DEF IInv, Reversals
  <2> QED
    BY <2>1, <2>2 DEF Reversals
<1>14. ~torn => req.stan > last
  BY <1>7, <1>9
<1> QED
  BY <1>1, <1>11, <1>12, <1>13, <1>14 DEF IInv

LEMMA NumbersKept ==
  ASSUME IInv, [Next]_vars, stan < MaxStan
  PROVE  IInv'
<1>1. CASE UNCHANGED vars
  <2>1. CInv'
    BY <1>1, ShapeKept DEF IInv
  <2>2. OnWire' = OnWire
    BY <1>1 DEF vars, OnWire
  <2> QED
    BY <1>1, <2>1, <2>2
    DEF vars, IInv, Reversals, Built, SaleBuilt, InFlight, Awaited, IsReply, Saved, Bound, Held
<1>2. CASE Continue
  <2>1. SendPacket => IInv'
    BY NumbersSendReversal, NumbersSendRequest
  <2> QED
    BY <1>2, <2>1, NumbersFail, NumbersTrace, NumbersSave, NumbersReversed, NumbersAnswered,
       NumbersSettled, NumbersFinish, NumbersBegin, NumbersCard DEF Continue
<1> QED
  BY <1>1, <1>2, NumbersBegin, NumbersCard, NumbersPowerFail DEF Next, Wait

NoWrap == stan < MaxStan

(* As long as the trace number has not wrapped the invariant holds: nothing on *)
(* its way, to be reversed or held by a host bears a number not used up yet.   *)
THEOREM Invariance == Spec /\ []NoWrap => []IInv
<1>1. IInv /\ [Next]_vars /\ NoWrap => IInv'
  BY NumbersKept DEF NoWrap
<1> QED
  BY NumbersInit, <1>1, PTL DEF Spec

(* StanIsFresh: no request goes out under the trace number of an earlier one  *)
(* (GetNewTraceNo), unless power failed before that number was raised.        *)
THEOREM FreshStan == Spec /\ []NoWrap => StanIsFresh
<1> DEFINE Step == Out /\ pc # "reverse" /\ ~torn => req.stan > last
<1>1. ASSUME IInv, [Next]_vars PROVE [Step]_vars
  BY <1>1, OnlySendPacket, NumbersSendRequest DEF IInv
<1> QED
  BY Invariance, <1>1, PTL DEF Spec, StanIsFresh

(* An answer that ProcRecvPacket takes for the one to a request is the one.   *)
LEMMA AnswerIsReply ==
  ASSUME IInv, InFlight, NEW ans \in OnWire, Matches(Sent, ans)
  PROVE  IsReply(ans)
<1>1. Sent = req /\ ans.stan = req.stan
  BY DEF InFlight, Sent, Matches
<1>2. ans.stan \in Nat
  BY OnWireType DEF IInv, CInv, Answer, Stan
<1>3. ans.stan < req.stan \/ IsReply(ans)
  BY DEF IInv, Awaited
<1> QED
  BY <1>1, <1>2, <1>3

LEMMA SettledShut ==
  ASSUME IInv, Settled
  PROVE  host[cur].shut
<1>1. PICK n \in 1 .. Len(wire[MyLine]) :
         Matches(Sent, Head(wire[MyLine])) /\ Head(wire[MyLine]).code = "00" /\ step = "recv"
  BY DEF Settled
<1>2. PICK ans \in OnWire : Matches(Sent, ans) /\ ans.code = "00"
  <2>1. Head(wire[MyLine]) \in OnWire
    BY LineType, TypeLines, RestOfLine DEF IInv, CInv
  <2> QED
    BY <1>1, <2>1
<1>3. InFlight /\ pc = "settle"
  BY <1>1 DEF Settled, InFlight
<1>4. IsReply(ans)
  BY <1>2, <1>3, AnswerIsReply
<1>5. ans.type = "settle"
  BY <1>3, <1>4 DEF IInv, Awaited, IsReply
<1> QED
  BY <1>2, <1>4, <1>5 DEF IsReply

(* ClosesWithItsHost: the terminal forgets a batch (ClearRecord) only when the *)
(* host of that acquirer has closed it, whatever lines and late answers.       *)
THEOREM ClosesTogether == Spec /\ []NoWrap => ClosesWithItsHost
<1> DEFINE Step == \A a \in Acq : log[a] # {} /\ log'[a] = {} => host[a].shut
<1>1. ASSUME IInv, [Next]_vars PROVE [Step]_vars
  <2> SUFFICES ASSUME NEW a \in Acq, log[a] # {}, log'[a] = {} PROVE host[a].shut
    OBVIOUS
  <2>1. log' # log
    OBVIOUS
  <2>2. HostAccepted \/ Settled
    BY <1>1, <2>1 DEF Next, vars, Wait, Continue, SendPacket, SendFails, GetNewTraceNo, SaveSent,
       RecvFails, NoReversal, TranReversal, ReversalRefused, HostRejected, NotSettled, Finish,
       PreDial, TransSaleSub, TransLogon, CardRefused, CardCancelled, TransSettle, PowerFail, store
  <2>3. ~HostAccepted
    BY <1>1 DEF HostAccepted, IInv, CInv, TypeOK
  <2>4. Settled /\ a = cur
    BY <1>1, <2>2, <2>3 DEF Settled, IInv, CInv, TypeOK
  <2> QED
    BY <1>1, <2>4, SettledShut
<1> QED
  BY Invariance, <1>1, PTL DEF Spec, ClosesWithItsHost

(* ReversalIsDone: a sale is no longer to be reversed (SaveRevInfo(FALSE))     *)
(* only when it is logged, or its host does not hold it, or a LOGON of the     *)
(* same acquirer, which is sent without TranReversal, is answered.             *)
THEOREM ReversalsDone == Spec /\ []NoWrap => ReversalIsDone
<1> DEFINE Step == ~(pc = "request" /\ req.type = "logon") =>
                   \A a \in Acq : rev[a] \notin exposed \cup {NoStan} /\ rev'[a] = NoStan =>
                      rev[a] \in log'[a] \/ rev[a] \notin host'[a].sale
<1>1. ASSUME IInv, [Next]_vars PROVE [Step]_vars
  <2> SUFFICES ASSUME ~(pc = "request" /\ req.type = "logon"),
                      NEW a \in Acq, rev[a] \notin exposed, rev[a] # NoStan, rev'[a] = NoStan
               PROVE  rev[a] \in log'[a] \/ rev[a] \notin host'[a].sale
    OBVIOUS
  <2>0. TypeOK /\ NoStan \notin Stan
    BY <1>1, ConstantsAssumption DEF IInv, CInv
  <2>1. rev' # rev
    OBVIOUS
  <2>2. TranReversal \/ HostAccepted \/ HostRejected \/ Settled
    <3>1. ~SaveSent
      BY <2>0 DEF SaveSent, TypeOK, Packet
    <3> QED
      BY <1>1, <2>1, <3>1 DEF Next, vars, Wait, Continue, SendPacket, SendFails, GetNewTraceNo,
         RecvFails, NoReversal, ReversalRefused, NotSettled, Finish, PreDial, TransSaleSub,
         TransLogon, CardRefused, CardCancelled, TransSettle, PowerFail, store
  <2>3. a = cur
    BY <2>0, <2>2 DEF TranReversal, HostAccepted, HostRejected, Settled, TypeOK
  <2>4. CASE TranReversal
    <3>1. PICK ans \in OnWire : Matches(Sent, ans) /\ ans.code = "00"
      BY <1>1, <2>4, TypeLines, AnsweredLines DEF TranReversal, IInv, CInv
    <3>2. ans.type = "reversal" /\ ans.stan = rev[cur]
      BY <2>4, <3>1 DEF TranReversal, Sent, Matches
    <3>3. rev[cur] \notin Held(cur)
      BY <1>1, <2>3, <3>1, <3>2 DEF IInv, Reversals, Held
    <3> QED
      BY <2>3, <2>4, <3>3 DEF TranReversal, Held
  <2>5. CASE HostAccepted
    <3>1. pc = "request" /\ step = "recv" /\ req.type # "logon"
      BY <1>1, <2>5, TypeLines, AnsweredLines DEF HostAccepted, IInv, CInv
    <3>2. rev[cur] = req.stan /\ req.type = "sale"
      BY <1>1, <3>1 DEF Saved, IInv, InFlight, Awaited
    <3> QED
      BY <2>0, <2>3, <2>5, <3>2 DEF HostAccepted, TypeOK
  <2>6. CASE HostRejected
    <3>1. pc = "request" /\ step = "recv" /\ req.type # "logon" /\ InFlight
      BY <1>1, <2>6, TypeLines, AnsweredLines DEF HostRejected, InFlight, IInv, CInv
    <3>2. rev[cur] = req.stan /\ req.type = "sale"
      BY <1>1, <3>1 DEF Saved, IInv, Awaited
    <3>3. PICK ans \in OnWire : Matches(Sent, ans) /\ ans.code = "05"
      BY <1>1, <2>6, TypeLines, AnsweredLines DEF HostRejected, IInv, CInv
    <3>4. IsReply(ans)
      BY <1>1, <3>1, <3>3, AnswerIsReply
    <3>5. rev[cur] \notin Held(cur)
      BY <3>2, <3>3, <3>4 DEF IsReply
    <3> QED
      BY <2>3, <2>6, <3>5 DEF HostRejected, Held
  <2>7. CASE Settled
    <3>1. host' = [host EXCEPT ![cur] = NewBatch]
      BY <1>1, <2>7, SettledShut DEF Settled
    <3> QED
      BY <2>0, <2>3, <3>1 DEF NewBatch, TypeOK
  <2> QED
    BY <2>2, <2>4, <2>5, <2>6, <2>7
<1> QED
  BY Invariance, <1>1, PTL DEF Spec, ReversalIsDone

------------------------------------------------------------------------------
(* The end of an event. *)

Measured ==
    /\ AcqLeft \in Nat /\ AcqLeft + 1 <= AcqNum
    /\ Exchanges \in Nat /\ StepsHere \in Nat /\ StepsHere <= 3

LEMMA MeasureTypes == TypeOK => Measured
<1> SUFFICES ASSUME TypeOK PROVE Measured
  OBVIOUS
<1>1. AcqNum \in Nat /\ cur \in Nat /\ 1 <= cur /\ cur <= AcqNum
  BY ConstantsAssumption DEF TypeOK, Acq
<1>2. AcqLeft \in Nat /\ AcqLeft + 1 <= AcqNum
  BY <1>1 DEF AcqLeft
<1>3. Exchanges \in Nat
  BY <1>1, <1>2 DEF Exchanges, TypeOK
<1>4. StepsHere \in Nat /\ StepsHere <= 3
  BY DEF StepsHere, TypeOK
<1> QED
  BY <1>2, <1>3, <1>4 DEF Measured

LEMMA MeasureTypesNext == TypeOK' => Measured'
BY MeasureTypes, PTL

LEMMA MultipleFalls ==
  \A m, n \in Nat : m + 1 <= n => (6 + 8 * m) + 4 <= 2 + 8 * n /\ (6 + 8 * m) + 4 <= 6 + 8 * n
OBVIOUS

LEMMA SumFalls ==
  \A e, h, f, g \in Nat :
     \/ f + 4 <= e /\ g <= 3
     \/ f < e /\ g = 0
     \/ f = e /\ g < h
     => f + g < e + h
OBVIOUS

(* A step inside an exchange, the last of one, the last of all. *)
LEMMA Nearer ==
  ASSUME TypeOK, TypeOK',
         \/ Exchanges' = Exchanges /\ StepsHere' < StepsHere
         \/ Exchanges' + 4 <= Exchanges
         \/ Exchanges' < Exchanges /\ StepsHere' = 0
  PROVE  StepsLeft' < StepsLeft
<1>1. /\ Exchanges \in Nat /\ StepsHere \in Nat
      /\ Exchanges' \in Nat /\ StepsHere' \in Nat /\ StepsHere' <= 3
  BY MeasureTypes, MeasureTypesNext DEF Measured
<1>2. StepsLeft = Exchanges + StepsHere /\ StepsLeft' = Exchanges' + StepsHere'
  BY DEF StepsLeft
<1>3. Exchanges' + StepsHere' < Exchanges + StepsHere
  BY <1>1, SumFalls
<1> QED
  BY <1>2, <1>3

LEMMA NearerToFinish ==
  ASSUME TypeOK, TypeOK', pc \in {"card", "reverse", "request", "settle"}, pc' = "finish"
  PROVE  StepsLeft' < StepsLeft
<1>1. AcqLeft \in Nat /\ AcqNum \in Nat
  BY MeasureTypes, ConstantsAssumption DEF Measured
<1>2. Exchanges >= 2
  <2>1. \E n \in Nat : \/ Exchanges = 10 + 8 * n \/ Exchanges = 6 + 8 * n
                      \/ Exchanges = 2 + 8 * n \/ Exchanges = 2
    BY <1>1 DEF Exchanges, TypeOK
  <2>2. \A n \in Nat : 10 + 8 * n >= 2 /\ 6 + 8 * n >= 2 /\ 2 + 8 * n >= 2
    OBVIOUS
  <2> QED
    BY <2>1, <2>2
<1>3. Exchanges' = 1 /\ StepsHere' = 0
  BY DEF Exchanges, StepsHere
<1>4. Exchanges' < Exchanges
  BY <1>2, <1>3, MeasureTypes DEF Measured
<1> QED
  BY <1>3, <1>4, Nearer

(* The loop goes on: with a later acquirer. *)
LEMMA NearerToLast ==
  ASSUME TypeOK, TypeOK', NEW batch, NextSettlement(batch),
         pc = "settle" \/ (pc = "reverse" /\ then = "settle")
  PROVE  StepsLeft' < StepsLeft
<1>1. CASE pc' = "finish"
  BY <1>1, NearerToFinish
<1>2. CASE pc' = "reverse" /\ then' = "settle"
  <2>1. all /\ all' = all /\ cur' > cur
    BY <1>2, NextSettlementFlow
  <2>2. cur \in Nat /\ cur' \in Nat /\ cur' <= AcqNum /\ AcqNum \in Nat
    BY ConstantsAssumption DEF TypeOK, Acq
  <2>3. AcqLeft = AcqNum - cur /\ AcqLeft' = AcqNum - cur'
    BY <2>1 DEF AcqLeft
  <2>4. AcqLeft' + 1 <= AcqLeft /\ AcqLeft \in Nat /\ AcqLeft' \in Nat
    <3>1. \A c, d, n \in Nat : d > c /\ d <= n => (n - d) + 1 <= n - c
      OBVIOUS
    <3>2. (AcqNum - cur') + 1 <= AcqNum - cur
      BY <2>1, <2>2, <3>1
    <3> QED
      BY <2>3, <3>2, MeasureTypes, MeasureTypesNext DEF Measured
  <2>5. Exchanges' = 6 + 8 * AcqLeft'
    BY <1>2 DEF Exchanges
  <2>6. Exchanges = 2 + 8 * AcqLeft \/ Exchanges = 6 + 8 * AcqLeft
    BY DEF Exchanges
  <2>7. Exchanges' + 4 <= Exchanges
    BY <2>4, <2>5, <2>6, MultipleFalls
  <2> QED
    BY <2>7, Nearer
<1> QED
  BY <1>1, <1>2, NextSettlementFlow

LEMMA FailedCounts ==
  ASSUME TypeOK, TypeOK', Failed, pc \in {"reverse", "request", "settle"}
  PROVE  StepsLeft' < StepsLeft
<1>1. CASE pc = "request"
  <2>1. pc' = "reverse" /\ then' = "end"
    BY <1>1 DEF Failed, Goto
  <2>2. Exchanges = 2 + 8 * AcqNum /\ Exchanges' = 2
    BY <1>1, <2>1 DEF Exchanges
  <2>3. Exchanges' + 4 <= Exchanges
    BY <2>2, ConstantsAssumption
  <2> QED
    BY <2>3, Nearer
<1>2. CASE pc = "settle" \/ (pc = "reverse" /\ then = "settle")
  <2>1. NextSettlement(log)
    BY <1>2 DEF Failed
  <2> QED
    BY <1>2, <2>1, NearerToLast
<1>3. CASE pc = "reverse" /\ then # "settle"
  <2>1. pc' = "finish"
    BY <1>3 DEF Failed, Goto
  <2> QED
    BY <2>1, NearerToFinish
<1> QED
  BY <1>1, <1>2, <1>3

LEMMA ReversedCounts ==
  ASSUME CInv, TypeOK', AfterReversal, pc = "reverse", stan' = stan
  PROVE  StepsLeft' < StepsLeft
<1>0. TypeOK
  BY DEF CInv
<1>1. /\ cur' = cur /\ then' = then /\ all' = all
      /\ \/ pc' = "request" /\ then = "request"
         \/ pc' = "settle" /\ then = "settle"
         \/ pc' = "finish"
  BY DEF AfterReversal, Goto, CInv, TypeOK
<1>2. CASE pc' = "request" /\ then = "request"
  <2>1. Exchanges = 6 + 8 * AcqNum /\ Exchanges' = 2 + 8 * AcqNum
    BY <1>2 DEF Exchanges
  <2>2. Exchanges' + 4 <= Exchanges
    BY <2>1, ConstantsAssumption
  <2> QED
    BY <1>0, <2>2, Nearer
<1>3. CASE pc' = "settle" /\ then = "settle"
  <2>1. AcqLeft' = AcqLeft /\ AcqLeft \in Nat
    BY <1>0, <1>1, MeasureTypes DEF AcqLeft, Measured
  <2>2. Exchanges = 6 + 8 * AcqLeft /\ Exchanges' = 2 + 8 * AcqLeft
    BY <1>3, <2>1 DEF Exchanges
  <2>3. Exchanges' + 4 <= Exchanges
    BY <2>1, <2>2
  <2> QED
    BY <1>0, <2>3, Nearer
<1>4. CASE pc' = "finish"
  BY <1>0, <1>4, NearerToFinish
<1> QED
  BY <1>1, <1>2, <1>3, <1>4

(* TransAutoSettlement begins behind a sale: as many acquirers as there are. *)
LEMMA AcceptedCounts ==
  ASSUME CInv, TypeOK', HostAccepted
  PROVE  StepsLeft' < StepsLeft
<1>0. TypeOK /\ pc = "request"
  BY DEF CInv, HostAccepted
<1>1. CASE pc' = "reverse" /\ then' = "settle"
  <2>1. AcqLeft' \in Nat /\ AcqLeft' + 1 <= AcqNum /\ AcqNum \in Nat
    BY MeasureTypesNext, ConstantsAssumption DEF Measured
  <2>2. Exchanges' = 6 + 8 * AcqLeft' /\ Exchanges = 2 + 8 * AcqNum
    BY <1>0, <1>1 DEF Exchanges
  <2>3. Exchanges' + 4 <= Exchanges
    BY <2>1, <2>2, MultipleFalls
  <2> QED
    BY <1>0, <2>3, Nearer
<1>2. CASE pc' = "finish"
  BY <1>0, <1>2, NearerToFinish
<1> QED
  BY <1>1, <1>2 DEF HostAccepted, Goto

LEMMA ContinueCounts ==
  ASSUME CInv, CInv', Continue
  PROVE  StepsLeft' < StepsLeft
<1>0. TypeOK /\ TypeOK' /\ (step # "send" => pc \in {"reverse", "request", "settle"})
  BY DEF CInv, Place
<1>1. CASE SendPacket \/ GetNewTraceNo \/ SaveSent
  <2>1. /\ pc' = pc /\ then' = then /\ all' = all /\ cur' = cur
        /\ pc \in {"reverse", "request", "settle"}
        /\ \/ step = "send" /\ step' = "trace"
           \/ step = "trace" /\ step' = "save"
           \/ step = "save" /\ step' = "recv"
    BY <1>0, <1>1 DEF SendPacket, Sending, GetNewTraceNo, SaveSent
  <2>2. Exchanges' = Exchanges
    BY <2>1 DEF Exchanges, AcqLeft
  <2>3. StepsHere' < StepsHere
    BY <2>1 DEF StepsHere
  <2> QED
    BY <1>0, <2>2, <2>3, Nearer
<1>2. CASE SendFails \/ RecvFails
  BY <1>0, <1>2, FailedCounts DEF SendFails, Sending, RecvFails
<1>3. CASE NoReversal \/ TranReversal
  BY <1>0, <1>3, ReversedCounts DEF NoReversal, TranReversal
<1>4. CASE ReversalRefused \/ HostRejected
  BY <1>0, <1>4, NearerToFinish DEF ReversalRefused, HostRejected, Goto
<1>5. CASE HostAccepted
  BY <1>0, <1>5, AcceptedCounts
<1>6. CASE Settled \/ NotSettled
  <2>1. PICK batch : pc = "settle" /\ NextSettlement(batch)
    BY <1>6 DEF Settled, NotSettled
  <2> QED
    BY <1>0, <2>1, NearerToLast
<1>7. CASE Finish
  <2>1. pc = "finish" /\ pc' = "idle"
    BY <1>7 DEF Finish, Goto
  <2>2. Exchanges = 1
    BY <2>1 DEF Exchanges
  <2>3. Exchanges' = 0
    BY <2>1 DEF Exchanges
  <2>4. StepsHere' = 0
    BY <2>1 DEF StepsHere
  <2> QED
    BY <1>0, <2>2, <2>3, <2>4, Nearer
<1>8. CASE pc = "card" /\ (TransLogon \/ \E a \in Acq : TransSaleSub(a))
  <2>1. (pc' = "reverse" /\ then' = "request") \/ pc' = "request"
    BY <1>8 DEF TransLogon, TransSaleSub, Goto
  <2>2. Exchanges = 10 + 8 * AcqNum
    BY <1>8 DEF Exchanges
  <2>3. Exchanges' = 6 + 8 * AcqNum \/ Exchanges' = 2 + 8 * AcqNum
    BY <2>1 DEF Exchanges
  <2>4. Exchanges' + 4 <= Exchanges
    BY <2>2, <2>3, ConstantsAssumption
  <2> QED
    BY <1>0, <2>4, Nearer
<1>9. CASE CardRefused
  BY <1>0, <1>9, NearerToFinish DEF CardRefused, Goto
<1>10. CASE CardCancelled
  <2>1. pc = "card" /\ pc' = "idle"
    BY <1>10 DEF CardCancelled, Goto
  <2>2. Exchanges = 10 + 8 * AcqNum /\ AcqNum \in Nat
    BY <2>1, ConstantsAssumption DEF Exchanges
  <2>3. Exchanges' = 0 /\ StepsHere' = 0
    BY <2>1 DEF Exchanges, StepsHere
  <2>4. Exchanges' < Exchanges
    BY <2>2, <2>3
  <2> QED
    BY <1>0, <2>3, <2>4, Nearer
<1> QED
  BY <1>1, <1>2, <1>3, <1>4, <1>5, <1>6, <1>7, <1>8, <1>9, <1>10 DEF Continue

(* EveryStepCounts: the loop over the acquirers (TransSettle,                  *)
(* TransAutoSettlement) comes to none of them twice and no exchange is made    *)
(* again, so that an event takes at most 10 + 8 * AcqNum steps, whatever the   *)
(* lines, the hosts and the trace number do.                                   *)
THEOREM EventsAreBounded == Spec => EveryStepCounts
<1> DEFINE Counts == Continue => StepsLeft' < StepsLeft
<1>1. ASSUME CInv, [Next]_vars PROVE [Counts]_vars /\ CInv'
  BY <1>1, ShapeKept, ContinueCounts
<1>2. CInv /\ [Next]_vars => CInv' /\ [Counts]_vars
  BY <1>1
<1> QED
  BY ShapeInit, <1>2, PTL DEF Spec, EveryStepCounts
==============================================================================
