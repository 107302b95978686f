---------------------------- MODULE Modem_proofs ----------------------------
(***************************************************************************)
(* Proofs about Modem, for every set of initialisation threads.            *)
(***************************************************************************)
EXTENDS Modem, FiniteSetTheorems, TLAPS

(* Who may initialise the module at each place of the event loop, and what the
   shared variables say then.  None of it survives a pre-dial or a set-up that
   closes the module under a thread. *)
Order ==
    /\ \A p, q \in Inside : p = q
    /\ \A t \in Running : tid = t
    /\ pc \in Dialling \cup {"online", "prereset"} => Running = {}
    /\ init[Main] # "none" => pc \in {"reset", "reinit", "rereset", "prereset"}
    /\ \A p \in Thread \cup {Main} : init[p] = "ok" => up
    /\ ret = "ok" /\ ~up => \E t \in Thread : init[t] = "created"
    /\ \A p \in Thread \cup {Main} : init[p] = "created" => ~sock

IInv == TypeOK /\ (~raced => Order)

------------------------------------------------------------------------------
(* TypeOK in two parts: the counters, and everything else. *)
CountersOK ==
    /\ reinit \in 0 .. MaxReInit + 1 /\ timeouts \in 0 .. MaxTimeout - 1
    /\ dials \in 1 .. MaxDial /\ tries \in 1 .. MaxDial

KindsOK ==
    /\ ret \in Result /\ tid \in Thread \cup {NoTid}
    /\ init \in [Thread \cup {Main} -> Phase]
    /\ up \in BOOLEAN /\ ppp \in {"down", "opening", "up"}
    /\ sock \in BOOLEAN /\ owed \in BOOLEAN /\ nosim \in BOOLEAN
    /\ pc \in {"idle", "predial", "preattach", "prereset", "prelogin", "join", "loop",
               "attach", "reinit", "check", "recheck", "rereset", "login", "connect", "reset",
               "online"}
    /\ late \in BOOLEAN /\ raced \in BOOLEAN

(* Every action keeps the types. *)
LEMMA TypeStep == TypeOK /\ [Next]_vars => TypeOK'
<1> SUFFICES ASSUME CountersOK, KindsOK, [Next]_vars PROVE CountersOK' /\ KindsOK'
  BY DEF TypeOK, CountersOK, KindsOK
<1> USE ConstantsAssumption DEF CountersOK, KindsOK, Result, Phase
<1>0. CASE UNCHANGED vars
  BY <1>0 DEF vars, module, counters, progress
<1>1. ASSUME NEW p \in Thread \cup {Main}, Initialise(p) PROVE CountersOK' /\ KindsOK'
  <2>1. CASE EnterInit(p)
    BY <2>1 DEF EnterInit, At, Move, module, counters, progress
  <2>2. CASE PowerUp(p)
    <3>1. up' \in BOOLEAN /\ (up' = TRUE \/ up' = up)
      BY <2>2 DEF PowerUp
    <3>2. CASE up' = TRUE /\ Move(p, "attach")
      BY <2>2, <3>2 DEF PowerUp, At, Move, counters, progress
    <3>3. CASE Move(p, "error")
      BY <2>2, <3>1, <3>3 DEF PowerUp, At, Move, counters, progress
    <3> QED
      BY <2>2, <3>2, <3>3 DEF PowerUp
  <2>3. CASE CheckAttached(p)
    BY <2>3 DEF CheckAttached, At, Move, module, counters, progress
  <2> QED
    BY <1>1, <2>1, <2>2, <2>3 DEF Initialise
<1>2. ASSUME NEW t \in Thread, ThreadEnds(t) PROVE CountersOK' /\ KindsOK'
  BY <1>2 DEF ThreadEnds, Move, module, counters, progress
<1>3. CASE PreDialCheck
  BY <1>3 DEF PreDialCheck, WirelessReset, WirelessClose, Closes, Move, Running, module, counters, progress
<1>4. CASE PreDialAttach
  BY <1>4 DEF PreDialAttach, module, counters, progress
<1>5. CASE PreDialReset
  BY <1>5 DEF PreDialReset, Reset, Move, module, counters, progress
<1>6. CASE PreDialLogin
  BY <1>6 DEF PreDialLogin, PPPLogin
<1>7. CASE ThreadJoinInitModule
  BY <1>7 DEF ThreadJoinInitModule, Running, module, counters, progress
<1>8. CASE DialTimeout
  <2>1. CountersOK'
    <3>1. timeouts \in {0, 1, 2}
      BY DEF MaxTimeout
    <3>2. timeouts' \in {0, 1, 2}
      BY <1>8, <3>1 DEF DialTimeout, MaxTimeout
    <3> QED
      BY <1>8, <3>2 DEF DialTimeout, progress, MaxTimeout
  <2>2. KindsOK'
    BY <1>8 DEF DialTimeout, WirelessReset, WirelessClose, Closes, Move, progress
  <2> QED
    BY <2>1, <2>2
<1>9. CASE DialReInit
  <2>1. CountersOK'
    BY <1>9 DEF DialReInit, WirelessReset, WirelessClose, Closes, Move, module, progress, MaxReInit, MaxTimeout, MaxDial
  <2>2. KindsOK'
    BY <1>9 DEF DialReInit, WirelessReset, WirelessClose, Closes, Move, module, progress
  <2> QED
    BY <2>1, <2>2
<1>10. CASE DialAttach
  <2>1. CountersOK'
    BY <1>10 DEF DialAttach, module, progress, MaxReInit, MaxTimeout, MaxDial
  <2>2. KindsOK'
    BY <1>10 DEF DialAttach, module, progress
  <2> QED
    BY <2>1, <2>2
<1>11. CASE DialReInitDone
  <2>1. CountersOK'
    BY <1>11 DEF DialReInitDone, Reset, Move, module, progress, MaxReInit, MaxTimeout, MaxDial
  <2>2. KindsOK'
    BY <1>11 DEF DialReInitDone, Reset, Move, module, progress
  <2> QED
    BY <2>1, <2>2
<1>12. CASE DialInited
  <2>1. CountersOK'
    BY <1>12 DEF DialInited, module, progress, MaxReInit, MaxTimeout, MaxDial
  <2>2. KindsOK'
    BY <1>12 DEF DialInited, module, progress
  <2> QED
    BY <2>1, <2>2
<1>13. CASE DialNoSim
  BY <1>13 DEF DialNoSim, WirelessClose, Closes, counters, progress
<1>14. CASE DialCheck
  <2>1. CountersOK'
    BY <1>14 DEF DialCheck, module, progress, MaxReInit, MaxTimeout, MaxDial
  <2>2. KindsOK'
    BY <1>14 DEF DialCheck, module, progress
  <2> QED
    BY <2>1, <2>2
<1>15. CASE DialRecheck
  BY <1>15 DEF DialRecheck, WirelessReset, WirelessClose, Closes, Move, module, counters, progress
<1>16. CASE DialLogin
  <2>1. CountersOK'
    BY <1>16 DEF DialLogin, PPPLogin, MaxReInit, MaxTimeout, MaxDial
  <2>2. KindsOK'
    BY <1>16 DEF DialLogin, PPPLogin
  <2> QED
    BY <2>1, <2>2
<1>17. CASE DialLoginFails
  BY <1>17 DEF DialLoginFails, WirelessReset, WirelessClose, Closes, Move, counters, progress
<1>18. CASE DialResetDone \/ DialRecheckDone
  BY <1>18 DEF DialResetDone, DialRecheckDone, Reset, Move, module, counters, progress
<1>19. CASE DialConnect
  <2>1. CountersOK'
    BY <1>19 DEF DialConnect, module, MaxReInit, MaxTimeout, MaxDial
  <2>2. KindsOK'
    BY <1>19 DEF DialConnect, module
  <2> QED
    BY <2>1, <2>2
<1>20. CASE DialConnectFails
  BY <1>20 DEF DialConnectFails, WirelessClose, Closes, counters, progress
<1>21. CASE Exchange
  BY <1>21 DEF Exchange, WirelessClose, Closes, counters, progress
<1>22. CASE HangUp
  BY <1>22 DEF HangUp, module, counters, progress
<1>23. CASE DialCancelled
  BY <1>23 DEF DialCancelled, module, counters, progress
<1>24. CASE PreDial
  <2>1. CountersOK'
    BY <1>24 DEF PreDial, module, progress, MaxReInit, MaxTimeout, MaxDial
  <2>2. KindsOK'
    BY <1>24 DEF PreDial, module, progress
  <2> QED
    BY <2>1, <2>2
<1>25. CASE Dial
  <2>1. CountersOK'
    BY <1>25 DEF Dial, module, MaxReInit, MaxTimeout, MaxDial
  <2>2. KindsOK'
    BY <1>25 DEF Dial, module
  <2> QED
    BY <2>1, <2>2
<1>26. CASE SetAcqCommType
  BY <1>26 DEF SetAcqCommType, Move, Running, counters, progress
<1>27. CASE LinkChanges
  BY <1>27 DEF LinkChanges, counters, progress
<1>28. CASE Clock
  BY <1>28 DEF Clock, Dialling, module
<1> QED
  BY <1>0, <1>1, <1>2, <1>3, <1>4, <1>5, <1>6, <1>7, <1>8, <1>9, <1>10, <1>11,
     <1>12, <1>13, <1>14, <1>15, <1>16, <1>17, <1>18, <1>19, <1>20, <1>21, <1>22,
     <1>23, <1>24, <1>25, <1>26, <1>27, <1>28 DEF Next, Going

------------------------------------------------------------------------------
(* Every action that does not close the module under a thread keeps the order. *)
LEMMA OrderStep ==
  ASSUME TypeOK, TypeOK', ~raced', ~raced, Order, [Next]_vars
  PROVE  Order'
<1> USE ConstantsAssumption DEF TypeOK, Result, Phase, Order, Inside, Running, Dialling
<1>0. CASE UNCHANGED vars
  BY <1>0 DEF vars, module, counters, progress
<1>1. ASSUME NEW p \in Thread \cup {Main}, Initialise(p) PROVE Order'
  <2>1. CASE EnterInit(p)
    BY <2>1 DEF EnterInit, At, Move, module, counters, progress
  <2>2. CASE PowerUp(p)
    <3>1. up' \in BOOLEAN /\ (up' = TRUE \/ up' = up)
      BY <2>2 DEF PowerUp
    <3>2. CASE up' = TRUE /\ Move(p, "attach")
      BY <2>2, <3>2 DEF PowerUp, At, Move, counters, progress
    <3>3. CASE Move(p, "error")
      BY <2>2, <3>1, <3>3 DEF PowerUp, At, Move, counters, progress
    <3> QED
      BY <2>2, <3>2, <3>3 DEF PowerUp
  <2>3. CASE CheckAttached(p)
    BY <2>3 DEF CheckAttached, At, Move, module, counters, progress
  <2> QED
    BY <1>1, <2>1, <2>2, <2>3 DEF Initialise
<1>2. ASSUME NEW t \in Thread, ThreadEnds(t) PROVE Order'
  BY <1>2 DEF ThreadEnds, Move, module, counters, progress
<1>3. CASE PreDialCheck
  BY <1>3 DEF PreDialCheck, WirelessReset, WirelessClose, Closes, Move, module, counters, progress
<1>4. CASE PreDialAttach
  BY <1>4 DEF PreDialAttach, module, counters, progress
<1>5. CASE PreDialReset
  BY <1>5 DEF PreDialReset, Reset, Move, module, counters, progress
<1>6. CASE PreDialLogin
  BY <1>6 DEF PreDialLogin, PPPLogin
<1>7. CASE ThreadJoinInitModule
  BY <1>7 DEF ThreadJoinInitModule, module, counters, progress
<1>8. CASE DialTimeout
  BY <1>8 DEF DialTimeout, WirelessReset, WirelessClose, Closes, Move, progress
<1>9. CASE DialReInit
  BY <1>9 DEF DialReInit, WirelessReset, WirelessClose, Closes, Move, module, progress
<1>10. CASE DialAttach
  BY <1>10 DEF DialAttach, module, progress
<1>11. CASE DialReInitDone
  BY <1>11 DEF DialReInitDone, Reset, Move, module, progress
<1>12. CASE DialInited
  BY <1>12 DEF DialInited, module, progress
<1>13. CASE DialNoSim
  BY <1>13 DEF DialNoSim, WirelessClose, Closes, counters, progress
<1>14. CASE DialCheck
  BY <1>14 DEF DialCheck, module, progress
<1>15. CASE DialRecheck
  BY <1>15 DEF DialRecheck, WirelessReset, WirelessClose, Closes, Move, module, counters, progress
<1>16. CASE DialLogin
  BY <1>16 DEF DialLogin, PPPLogin
<1>17. CASE DialLoginFails
  BY <1>17 DEF DialLoginFails, WirelessReset, WirelessClose, Closes, Move, counters, progress
<1>18. CASE DialResetDone \/ DialRecheckDone
  BY <1>18 DEF DialResetDone, DialRecheckDone, Reset, Move, module, counters, progress
<1>19. CASE DialConnect
  BY <1>19 DEF DialConnect, module
<1>20. CASE DialConnectFails
  BY <1>20 DEF DialConnectFails, WirelessClose, Closes, counters, progress
<1>21. CASE Exchange
  BY <1>21 DEF Exchange, WirelessClose, Closes, counters, progress
<1>22. CASE HangUp
  BY <1>22 DEF HangUp, module, counters, progress
<1>23. CASE DialCancelled
  BY <1>23 DEF DialCancelled, module, counters, progress
<1>24. CASE PreDial
  BY <1>24 DEF PreDial, module, progress
<1>25. CASE Dial
  BY <1>25 DEF Dial, module
<1>26. CASE SetAcqCommType
  BY <1>26 DEF SetAcqCommType, Move, counters, progress
<1>27. CASE LinkChanges
  BY <1>27 DEF LinkChanges, counters, progress
<1>28. CASE Clock
  BY <1>28 DEF Clock, module
<1> QED
  BY <1>0, <1>1, <1>2, <1>3, <1>4, <1>5, <1>6, <1>7, <1>8, <1>9, <1>10, <1>11,
     <1>12, <1>13, <1>14, <1>15, <1>16, <1>17, <1>18, <1>19, <1>20, <1>21, <1>22,
     <1>23, <1>24, <1>25, <1>26, <1>27, <1>28 DEF Next, Going

------------------------------------------------------------------------------
(* No action undoes raced. *)
LEMMA RacedStays == TypeOK /\ [Next]_vars /\ raced => raced'
<1> SUFFICES ASSUME TypeOK, [Next]_vars, raced PROVE raced'
  OBVIOUS
<1>0. CASE UNCHANGED vars
  BY <1>0 DEF vars
<1>1. ASSUME NEW p \in Thread \cup {Main}, Initialise(p) PROVE raced'
  BY <1>1 DEF Initialise, EnterInit, PowerUp, CheckAttached
<1>2. ASSUME NEW t \in Thread, ThreadEnds(t) PROVE raced'
  BY <1>2 DEF ThreadEnds
<1>3. CASE PreDialCheck \/ PreDialAttach \/ PreDialReset \/ PreDialLogin \/
            ThreadJoinInitModule \/ DialTimeout \/ DialReInit \/ DialAttach \/
            DialReInitDone \/ DialInited
  BY <1>3 DEF PreDialCheck, PreDialAttach, PreDialReset, PreDialLogin,
     ThreadJoinInitModule, DialTimeout, DialReInit, DialAttach, DialReInitDone,
     DialInited, PPPLogin
<1>4. CASE DialNoSim \/ DialCheck \/ DialRecheck \/ DialLogin \/ DialLoginFails \/
            DialResetDone \/ DialRecheckDone \/ DialConnect \/ DialConnectFails \/ Exchange
  BY <1>4 DEF DialNoSim, DialCheck, DialRecheck, DialLogin, DialLoginFails,
     DialResetDone, DialRecheckDone, DialConnect, DialConnectFails, Exchange, PPPLogin
<1>5. CASE HangUp \/ DialCancelled \/ PreDial \/ Dial \/ SetAcqCommType \/
            LinkChanges \/ Clock
  BY <1>5 DEF HangUp, DialCancelled, PreDial, Dial, SetAcqCommType, LinkChanges,
     Clock
<1> QED
  BY <1>0, <1>1, <1>2, <1>3, <1>4, <1>5 DEF Next, Going

(* IInv holds in every reachable state. *)
THEOREM Invariance == Spec => []IInv
<1>1. Init => IInv
  <2> SUFFICES ASSUME Init PROVE IInv
    OBVIOUS
  <2> USE ConstantsAssumption DEF Init
  <2>1. CountersOK
    BY DEF CountersOK, MaxReInit, MaxTimeout, MaxDial
  <2>2. KindsOK
    BY DEF KindsOK, Result, Phase
  <2>3. Order
    BY DEF Order, Inside, Running, Dialling
  <2> QED
    BY <2>1, <2>2, <2>3 DEF IInv, TypeOK, CountersOK, KindsOK
<1>2. IInv /\ [Next]_vars => IInv'
  BY TypeStep, OrderStep, RacedStays DEF IInv
<1> QED
  BY <1>1, <1>2, PTL DEF Spec

(* TypeOK: the counters of the dial stay within their bounds. *)
THEOREM TypeCorrect == Spec => []TypeOK
BY Invariance, PTL DEF IInv

(* OneInitialiser: the join at the start of a dial keeps initialisations and dials
   apart, as long as nobody closes the module under a thread. *)
THEOREM InitialiserAlone == Spec => []OneInitialiser
<1>1. IInv => OneInitialiser
  <2> SUFFICES ASSUME IInv, ~raced
               PROVE  /\ Cardinality(Inside) <= 1
                      /\ pc \in Dialling \cup {"online"} => Inside \subseteq {Main}
    BY DEF OneInitialiser
  <2>1. CASE Inside = {}
    BY <2>1, FS_EmptySet
  <2>2. CASE Inside # {}
    <3>1. PICK p \in Inside : Inside = {p}
      BY <2>2 DEF IInv, Order
    <3>2. Cardinality(Inside) = 1
      BY <3>1, FS_Singleton
    <3> QED
      BY <3>2 DEF IInv, Order, Inside, Running
  <2> QED
    BY <2>1, <2>2
<1> QED
  BY <1>1, Invariance, PTL

(* ReadyIsUp: sg_InitModulRet, when nobody is about to write it, says "ready" of a
   module that has power only. *)
THEOREM ReadyHasPower == Spec => []ReadyIsUp
<1>1. IInv => ReadyIsUp
  BY DEF IInv, TypeOK, Order, ReadyIsUp, Inside
<1> QED
  BY <1>1, Invariance, PTL

(* NoSocketLost: InitWirelessModule, which forgets sg_Tcpsocket, finds it closed. *)
THEOREM SocketKept == Spec => NoSocketLost
<1>1. IInv /\ [Next]_vars =>
        [(\E p \in Thread \cup {Main} : At(p, "created") /\ init'[p] = "power") /\ ~raced => ~sock]_vars
  BY DEF IInv, Order, At
<1> QED
  BY <1>1, Invariance, PTL DEF Spec, NoSocketLost

------------------------------------------------------------------------------
(* Once the time of a dial is over. *)

(* A measure of two parts. *)
LEMMA SumFalls ==
  /\ \A p, i, q, j \in Nat : (q < p /\ j = i) \/ (q = p /\ j < i) => q + j < p + i
  /\ \A p, i, q, j \in Nat : q < p /\ j < i => q + j < p + i
  /\ \A p, i, q, j \in Nat : p > q + 4 /\ j = 4 => q + j < p + i
OBVIOUS

LEMMA TwoParts == DialLeft = PlaceLeft + InitLeft /\ DialLeft' = PlaceLeft' + InitLeft'
BY DEF DialLeft

(* WirelessReset leaves the place after it and the four steps of an initialisation. *)
LEMMA ResetCounts ==
  ASSUME TypeOK,
         \/ WirelessReset("reset") /\ pc \in {"loop", "login"}
         \/ WirelessReset("rereset") /\ pc = "recheck"
  PROVE  DialLeft' < DialLeft
<1>1. /\ init'[Main] = "created"
      /\ \/ pc' = "reset" /\ pc \in {"loop", "login"}
         \/ pc' = "rereset" /\ pc = "recheck"
  BY DEF WirelessReset, Move, TypeOK
<1>2. InitLeft \in Nat /\ PlaceLeft \in Nat /\ PlaceLeft' \in Nat /\ PlaceLeft > PlaceLeft' + 4
  BY <1>1 DEF InitLeft, PlaceLeft, TypeOK, Phase, Result
<1>3. InitLeft' = 4
  BY <1>1 DEF InitLeft, Result
<1>4. PlaceLeft' + InitLeft' < PlaceLeft + InitLeft
  BY <1>2, <1>3, SumFalls
<1> QED
  BY <1>4, TwoParts

(* A step of the event loop that leaves the initialisation alone goes to a place with
   less before it. *)
LEMMA PlaceCounts ==
  ASSUME TypeOK, init' = init, PlaceLeft' < PlaceLeft
  PROVE  DialLeft' < DialLeft
<1>1. InitLeft' = InitLeft /\ InitLeft \in Nat
  BY DEF InitLeft, TypeOK, Phase, Result
<1>2. PlaceLeft \in Nat /\ PlaceLeft' \in Nat
  BY DEF PlaceLeft
<1>3. PlaceLeft' + InitLeft' < PlaceLeft + InitLeft
  BY <1>1, <1>2, SumFalls
<1> QED
  BY <1>3, TwoParts

(* One step of a dial whose time is over. *)
LEMMA LateStep ==
  ASSUME TypeOK, late, pc \in Dialling, Going
  PROVE  DialLeft' < DialLeft
<1>0. InitLeft \in Nat /\ PlaceLeft \in Nat
  BY DEF InitLeft, PlaceLeft, TypeOK, Phase, Result
<1>1. CASE Initialise(Main)
  <2>1. /\ pc' = pc
        /\ \/ init[Main] = "created" /\ init'[Main] = "power"
           \/ init[Main] = "power" /\ init'[Main] \in {"attach", "error"}
           \/ init[Main] = "attach" /\ init'[Main] \in {"ok", "unattached"}
    BY <1>1 DEF Initialise, EnterInit, PowerUp, CheckAttached, At, Move, TypeOK
  <2>2. InitLeft' < InitLeft /\ InitLeft' \in Nat
    BY <2>1 DEF InitLeft, Result
  <2>3. PlaceLeft' = PlaceLeft
    BY <2>1 DEF PlaceLeft
  <2>4. PlaceLeft' + InitLeft' < PlaceLeft + InitLeft
    BY <1>0, <2>2, <2>3, SumFalls
  <2> QED
    BY <2>4, TwoParts
<1>2. CASE DialTimeout
  <2>1. CASE WirelessReset("reset")
    BY <1>2, <2>1, ResetCounts DEF DialTimeout
  <2>2. CASE pc' = "idle" /\ init' = init
    BY <1>2, <2>2, PlaceCounts DEF DialTimeout, PlaceLeft
  <2> QED
    BY <1>2, <2>1, <2>2 DEF DialTimeout
<1>3. CASE DialRecheck \/ DialLoginFails
  <2>1. CASE WirelessReset("reset") /\ pc = "login"
    BY <2>1, ResetCounts
  <2>2. CASE WirelessReset("rereset") /\ pc = "recheck"
    BY <2>2, ResetCounts
  <2>3. CASE pc = "recheck" /\ pc' = "login" /\ init' = init
    BY <2>3, PlaceCounts DEF PlaceLeft
  <2> QED
    BY <1>3, <2>1, <2>2, <2>3 DEF DialRecheck, DialLoginFails
<1>4. CASE DialReInitDone \/ DialResetDone \/ DialRecheckDone
  <2>1. /\ init[Main] \in Result /\ init'[Main] = "none"
        /\ \/ pc = "reinit" /\ pc' \in {"check", "idle"}
           \/ pc = "rereset" /\ pc' \in {"login", "idle"}
           \/ pc = "reset" /\ pc' = "idle"
    BY <1>4 DEF DialReInitDone, DialResetDone, DialRecheckDone, Reset, Move, TypeOK
  <2>2. InitLeft' < InitLeft /\ InitLeft' \in Nat
    BY <2>1 DEF InitLeft, Result
  <2>3. PlaceLeft' < PlaceLeft /\ PlaceLeft' \in Nat
    BY <2>1 DEF PlaceLeft
  <2>4. PlaceLeft' + InitLeft' < PlaceLeft + InitLeft
    BY <1>0, <2>2, <2>3, SumFalls
  <2> QED
    BY <2>4, TwoParts
<1>5. CASE DialAttach \/ DialNoSim \/ DialCheck \/ DialLogin \/ DialConnect \/ DialConnectFails
  <2>1. /\ init' = init
        /\ \/ pc = "attach" /\ pc' \in {"check", "idle"}
           \/ pc = "check" /\ pc' \in {"idle", "loop", "connect", "recheck"}
           \/ pc = "login" /\ pc' = "loop"
           \/ pc = "connect" /\ pc' \in {"idle", "online", "loop"}
    BY <1>5 DEF DialAttach, DialNoSim, DialCheck, DialLogin, PPPLogin, DialConnect,
       DialConnectFails
  <2>2. PlaceLeft' < PlaceLeft
    BY <2>1 DEF PlaceLeft
  <2> QED
    BY <2>1, <2>2, PlaceCounts
<1> QED
  BY <1>1, <1>2, <1>3, <1>4, <1>5
     DEF Going, Dialling, DialReInit, DialInited, PreDialCheck, PreDialAttach, PreDialReset,
         PreDialLogin, ThreadJoinInitModule, Exchange, Reset

(* LateDialEnds: after the 60 seconds every step of the dial brings its end nearer. *)
THEOREM LateDialsEnd == Spec => LateDialEnds
<1> DEFINE Counts == late /\ pc \in Dialling /\ Going => DialLeft' < DialLeft
<1>1. ASSUME IInv, [Next]_vars PROVE [Counts]_vars
  BY <1>1, LateStep DEF IInv
<1>2. []IInv /\ [][Next]_vars => [][Counts]_vars
  BY <1>1, PTL
<1> QED
  BY <1>2, Invariance, PTL DEF Spec, LateDialEnds
==============================================================================
