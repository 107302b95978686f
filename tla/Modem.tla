-------------------------------- MODULE Modem --------------------------------
(***************************************************************************)
(* The wireless module between the threads that initialise it and the      *)
(* event loop that dials: ThreadInitModule and ThreadJoinInitModule of     *)
(* New8210.c, CommInitModule, InitWirelessModule, WirelessDial,            *)
(* WirelessReset and WirelessClose of Commlib.c, SetAcqCommType of Setup.c. *)
(*                                                                         *)
(* They share sg_InitModulRet, sg_Tcpsocket and InitCommTid without a lock *)
(* or an order but the join at the start of a dial.  One action is what    *)
(* runs between two accesses to them.  The module, its PPP link and the    *)
(* network are external: every call may fail, the link may drop at any     *)
(* time, and nothing succeeds on a module that is powered down.            *)
(***************************************************************************)
EXTENDS Naturals, FiniteSets

CONSTANTS
    Thread,     \* the initialisation threads that may exist at a time
    Main,       \* the event loop
    NoTid,      \* InitCommTid = -1
    First       \* the thread that start-up creates

ASSUME ConstantsAssumption ==
    /\ First \in Thread /\ Main \notin Thread /\ NoTid \notin Thread

MaxReInit == 2      \* iReInitTimes <= 2
MaxTimeout == 3     \* iTimeoutTimes < 3
MaxDial == 3        \* iDialTimes > 3, iRetyTimes > 3

VARIABLES
    ret,      \* sg_InitModulRet
    tid,      \* InitCommTid
    init,     \* where each thread, and the event loop, is in its initialisation
    up,       \* the module has power
    ppp,      \* the PPP link, what PPPCheck says
    sock,     \* sg_Tcpsocket is open
    owed,     \* sg_ucWirePPPFlag: there may be a link to log out of
    nosim,    \* sg_Wire_PreDial_Ret: the last login found no SIM
    reinit,   \* iReInitTimes
    timeouts, \* iTimeoutTimes
    pc,       \* where the event loop is
    dials,    \* iDialTimes
    tries,    \* iRetyTimes
    late,     \* the 60 s of the dial are over
    raced     \* history: pre-dial or set-up closed the module while a thread ran

vars == <<ret, tid, init, up, ppp, sock, owed, nosim, reinit, timeouts, pc, dials, tries,
          late, raced>>
module == <<up, ppp>>
progress == <<dials, tries, late>>
counters == <<nosim, reinit, timeouts, progress>>

Result == {"ok", "unattached", "error"}
Phase == {"none", "created", "power", "attach"} \cup Result

TypeOK ==
    /\ ret \in Result /\ tid \in Thread \cup {NoTid}
    /\ init \in [Thread \cup {Main} -> Phase]
    /\ up \in BOOLEAN /\ ppp \in {"down", "opening", "up"}
    /\ sock \in BOOLEAN /\ owed \in BOOLEAN /\ nosim \in BOOLEAN
    /\ reinit \in 0 .. MaxReInit + 1 /\ timeouts \in 0 .. MaxTimeout - 1
    /\ pc \in {"idle", "predial", "preattach", "prereset", "prelogin", "join", "loop",
               "attach", "reinit", "check", "recheck", "rereset", "login", "connect", "reset",
               "online"}
    /\ dials \in 1 .. MaxDial /\ tries \in 1 .. MaxDial /\ late \in BOOLEAN /\ raced \in BOOLEAN

\* Start-up has created its thread; sg_InitModulRet is 0 until that thread runs.
Init ==
    /\ ret = "ok" /\ tid = First
    /\ init = [p \in Thread \cup {Main} |-> IF p = First THEN "created" ELSE "none"]
    /\ up = FALSE /\ ppp = "down" /\ sock = FALSE /\ owed = TRUE /\ nosim = FALSE
    /\ reinit = 0 /\ timeouts = 0 /\ pc = "idle" /\ dials = 1 /\ tries = 1
    /\ late = FALSE /\ raced = FALSE

Dialling == {"loop", "attach", "reinit", "check", "recheck", "rereset", "login", "connect",
             "reset"}
Running == {t \in Thread : init[t] # "none"}

------------------------------------------------------------------------------
(* InitWirelessModule, in a thread or in the event loop. *)

At(p, phase) == init[p] = phase
Move(p, phase) == init' = [init EXCEPT ![p] = phase]

EnterInit(p) ==
    /\ At(p, "created") /\ Move(p, "power")
    /\ ret' = "error" /\ sock' = FALSE
    /\ UNCHANGED <<tid, module, owed, counters, pc, raced>>

\* WnetInit and the SIM checks.
PowerUp(p) ==
    /\ At(p, "power")
    /\ \/ up' = TRUE /\ Move(p, "attach")
       \/ (up' = TRUE \/ UNCHANGED up) /\ Move(p, "error")
    /\ UNCHANGED <<ret, tid, ppp, sock, owed, counters, pc, raced>>

CheckAttached(p) ==
    /\ At(p, "attach")
    /\ \/ up /\ Move(p, "ok") /\ ret' = "ok"
       \/ Move(p, "unattached") /\ ret' = "unattached"
    /\ UNCHANGED <<tid, module, sock, owed, counters, pc, raced>>

\* CommInitModule stores the result once more, and the thread ends.
ThreadEnds(t) ==
    /\ init[t] \in Result
    /\ ret' = init[t] /\ Move(t, "none")
    /\ UNCHANGED <<tid, module, sock, owed, counters, pc, raced>>

------------------------------------------------------------------------------
(* WirelessClose and WirelessReset. *)

Closes == owed     \* bRelease && 0 != sg_ucWirePPPFlag

\* Mutants: the module is powered down and still counts as initialised; the socket
\* is left to PPPLogout.
WirelessCloseKeepsRet ==
    /\ sock' = FALSE
    /\ IF Closes
       THEN /\ up' = FALSE /\ ppp' = "down" /\ tid' = NoTid
            /\ owed' \in BOOLEAN
       ELSE UNCHANGED <<up, ppp, tid, owed>>
    /\ UNCHANGED ret
WirelessCloseKeepsSocket ==
    /\ UNCHANGED sock
    /\ IF Closes
       THEN /\ up' = FALSE /\ ppp' = "down" /\ ret' = "error" /\ tid' = NoTid
            /\ owed' \in BOOLEAN
       ELSE UNCHANGED <<up, ppp, ret, tid, owed>>

\* WirelessClose(TRUE): PPPLogout may fail, the module is powered down all the same,
\* and InitCommTid is forgotten.
WirelessClose ==
    /\ sock' = FALSE
    /\ IF Closes
       THEN /\ up' = FALSE /\ ppp' = "down" /\ ret' = "error" /\ tid' = NoTid
            /\ owed' \in BOOLEAN
       ELSE UNCHANGED <<up, ppp, ret, tid, owed>>

\* WirelessReset: close, WnetReset, and the event loop initialises the module itself.
WirelessReset(next) == WirelessClose /\ Move(Main, "created") /\ pc' = next

\* InitWirelessModule has returned to the event loop.
Reset(place, to) ==
    /\ pc = place /\ init[Main] \in Result /\ Move(Main, "none") /\ pc' = to

------------------------------------------------------------------------------
(* PPPLogin, in a pre-dial and in a dial. *)

PPPLogin(ok) ==
    /\ IF ok THEN up /\ ppp' = "up" ELSE ppp' \in {"down", "opening"}
    /\ owed' = TRUE
    /\ UNCHANGED <<ret, tid, init, up, sock, reinit, timeouts, tries, late, raced>>

\* WirelessDial(PREDIAL_MODE), on a card and before a void: it does not join.
PreDial ==
    /\ pc = "idle" /\ ~sock /\ ret # "error"
    /\ reinit' = 0 /\ nosim' = FALSE /\ pc' = "predial"
    /\ UNCHANGED <<ret, tid, init, module, sock, owed, timeouts, progress, raced>>

\* PPPCheck, then sg_InitModulRet is read again.
PreDialCheck ==
    /\ pc = "predial"
    /\ \/ /\ ppp = "down" /\ ret = "error"
          /\ WirelessReset("prereset")
          /\ raced' = (raced \/ Running # {})
       \/ /\ ppp # "down" \/ ret # "error"
          /\ pc' = IF ppp # "down" THEN "idle"
                   ELSE IF ret = "ok" THEN "prelogin" ELSE "preattach"
          /\ UNCHANGED <<ret, tid, init, module, sock, owed, raced>>
    /\ UNCHANGED counters

\* CheckWirelessAttached; sg_InitModulRet is looked at again, and nothing here has
\* changed it.
PreDialAttach ==
    /\ pc = "preattach"
    /\ pc' = IF ret = "ok" THEN "prelogin" ELSE "idle"
    /\ UNCHANGED <<ret, tid, init, module, sock, owed, counters, raced>>

PreDialReset ==
    /\ Reset("prereset", IF ret = "ok" THEN "prelogin" ELSE "idle")
    /\ UNCHANGED <<ret, tid, module, sock, owed, counters, raced>>

PreDialLogin ==
    /\ pc = "prelogin" /\ pc' = "idle"
    /\ \/ PPPLogin(TRUE) /\ nosim' = FALSE
       \/ PPPLogin(FALSE) /\ nosim' \in BOOLEAN
    /\ UNCHANGED dials

------------------------------------------------------------------------------
(* WirelessDial(ACTDIAL_MODE). *)

Dial ==
    /\ pc = "idle" /\ pc' = "join"
    /\ dials' = 1 /\ tries' = 1 /\ late' = FALSE
    /\ UNCHANGED <<ret, tid, init, module, sock, owed, nosim, reinit, timeouts, raced>>

\* Mutant: CommDial does not wait for the thread.
JoinNot ==
    /\ pc = "join" /\ pc' = "loop" /\ tid' = NoTid
    /\ UNCHANGED <<ret, init, module, sock, owed, counters, raced>>

ThreadJoinInitModule ==
    /\ pc = "join" /\ pc' = "loop"
    /\ \A t \in Running : tid # t
    /\ tid' = NoTid
    /\ UNCHANGED <<ret, init, module, sock, owed, counters, raced>>

\* The user cancels.
DialCancelled ==
    /\ pc = "loop" /\ pc' = "idle"
    /\ UNCHANGED <<ret, tid, init, module, sock, owed, counters, raced>>

\* Mutants: the count of timeouts is never reset; the timeout is not looked at while
\* the link is opening.
DialTimeoutNoReset ==
    /\ pc = "loop" /\ late
    /\ timeouts' = timeouts + 1
    /\ IF timeouts + 1 < MaxTimeout
       THEN WirelessClose /\ pc' = "idle" /\ UNCHANGED init
       ELSE WirelessReset("reset")
    /\ UNCHANGED <<nosim, reinit, progress, raced>>
DialTimeoutNotOpening ==
    /\ pc = "loop" /\ late /\ ppp # "opening"
    /\ timeouts' = (timeouts + 1) % MaxTimeout
    /\ IF timeouts + 1 < MaxTimeout
       THEN WirelessClose /\ pc' = "idle" /\ UNCHANGED init
       ELSE WirelessReset("reset")
    /\ UNCHANGED <<nosim, reinit, progress, raced>>

DialTimeout ==
    /\ pc = "loop" /\ late
    /\ timeouts' = (timeouts + 1) % MaxTimeout
    /\ IF timeouts + 1 < MaxTimeout
       THEN WirelessClose /\ pc' = "idle" /\ UNCHANGED init
       ELSE WirelessReset("reset")
    /\ UNCHANGED <<nosim, reinit, progress, raced>>

\* The module is not initialised: try again, or give up at once.
DialReInit ==
    /\ pc = "loop" /\ ~late /\ ret # "ok"
    /\ reinit' = IF reinit <= MaxReInit THEN reinit + 1 ELSE reinit
    /\ \/ reinit < MaxReInit /\ ret = "error" /\ WirelessReset("reinit")
       \/ /\ reinit >= MaxReInit \/ ret = "unattached"
          /\ pc' = IF reinit < MaxReInit THEN "attach" ELSE "idle"
          /\ UNCHANGED <<ret, tid, init, module, sock, owed>>
    /\ UNCHANGED <<nosim, timeouts, progress, raced>>

DialAttach ==
    /\ pc = "attach"
    /\ \/ up /\ ret' = "ok" /\ reinit' = 0 /\ pc' = "check"
       \/ pc' = "idle" /\ UNCHANGED <<ret, reinit>>
    /\ UNCHANGED <<tid, init, module, sock, owed, nosim, timeouts, progress, raced>>

DialReInitDone ==
    /\ Reset("reinit", IF init[Main] = "ok" THEN "check" ELSE "idle")
    /\ reinit' = IF init[Main] = "ok" THEN 0 ELSE reinit
    /\ UNCHANGED <<ret, tid, module, sock, owed, nosim, timeouts, progress, raced>>

\* Mutant: the time is not looked at once the module is initialised.
DialInitedLate ==
    /\ pc = "loop" /\ ret = "ok"
    /\ reinit' = 0 /\ pc' = "check"
    /\ UNCHANGED <<ret, tid, init, module, sock, owed, nosim, timeouts, progress, raced>>

DialInited ==
    /\ pc = "loop" /\ ~late /\ ret = "ok"
    /\ reinit' = 0 /\ pc' = "check"
    /\ UNCHANGED <<ret, tid, init, module, sock, owed, nosim, timeouts, progress, raced>>

DialNoSim ==
    /\ pc = "check" /\ nosim
    /\ WirelessClose /\ pc' = "idle"
    /\ UNCHANGED <<init, counters, raced>>

\* PPPCheck: the link is being built, is there, or is gone and the socket with it.
DialCheck ==
    /\ pc = "check" /\ ~nosim
    /\ pc' = CASE ppp = "opening" -> "loop" [] ppp = "up" -> "connect" [] OTHER -> "recheck"
    /\ timeouts' = IF ppp = "up" THEN 0 ELSE timeouts
    /\ sock' = (sock /\ ppp # "down")
    /\ UNCHANGED <<ret, tid, init, module, owed, nosim, reinit, progress, raced>>

\* sg_InitModulRet is read again before the login.
DialRecheck ==
    /\ pc = "recheck"
    /\ IF ret = "ok"
       THEN pc' = "login" /\ UNCHANGED <<ret, tid, init, module, sock, owed>>
       ELSE WirelessReset("rereset")
    /\ UNCHANGED <<counters, raced>>

\* Unlike the other resets of a dial this one goes on to the login.
DialRecheckDone ==
    /\ Reset("rereset", IF ret = "ok" THEN "login" ELSE "idle")
    /\ UNCHANGED <<ret, tid, module, sock, owed, counters, raced>>

DialLogin ==
    /\ pc = "login"
    /\ \/ /\ PPPLogin(TRUE)
          /\ nosim' = FALSE /\ pc' = "loop"
          /\ dials' = IF dials < MaxDial THEN dials + 1 ELSE dials
       \/ /\ dials < MaxDial /\ PPPLogin(FALSE)
          /\ nosim' \in BOOLEAN /\ dials' = dials + 1 /\ pc' = "loop"

\* The third login in vain resets the module.
DialLoginFails ==
    /\ pc = "login" /\ dials = MaxDial
    /\ WirelessReset("reset")
    /\ UNCHANGED <<counters, raced>>

DialResetDone ==
    /\ Reset("reset", "idle")
    /\ UNCHANGED <<ret, tid, module, sock, owed, counters, raced>>

\* An open socket is used as it is.  NetConnect may succeed, be cancelled, which leaves
\* the socket open, or fail; NetSocket may fail too.
DialConnect ==
    /\ pc = "connect"
    /\ \/ sock' = TRUE /\ pc' = "online" /\ UNCHANGED tries
       \/ ~sock /\ sock' \in BOOLEAN /\ pc' = "idle" /\ UNCHANGED tries
       \/ ~sock /\ tries < MaxDial /\ sock' = FALSE /\ tries' = tries + 1 /\ pc' = "loop"
    /\ UNCHANGED <<ret, tid, init, module, owed, nosim, reinit, timeouts, dials, late, raced>>

DialConnectFails ==
    /\ pc = "connect" /\ ~sock /\ tries = MaxDial
    /\ WirelessClose /\ pc' = "idle"
    /\ UNCHANGED <<init, counters, raced>>

\* The event ends after a dial in vain: CommOnHook(FALSE).
HangUp ==
    /\ pc = "idle" /\ sock /\ sock' = FALSE
    /\ UNCHANGED <<ret, tid, init, module, owed, counters, pc, raced>>

\* The exchange is over: CommOnHook(FALSE), or WirelessTxd has failed and closed all.
Exchange ==
    /\ pc = "online" /\ pc' = "idle"
    /\ \/ sock' = FALSE /\ UNCHANGED <<ret, tid, up, ppp, owed>>
       \/ WirelessClose
    /\ UNCHANGED <<init, counters, raced>>

------------------------------------------------------------------------------
\* SetAcqCommType, GPRS to CDMA or back: CommOnHook(TRUE), ThreadInitModule.
SetAcqCommType ==
    /\ pc = "idle" /\ ~sock
    /\ \E t \in Thread \ Running :
          /\ IF owed
             THEN /\ up' = FALSE /\ ppp' = "down" /\ ret' = "error"
                  /\ owed' \in BOOLEAN
             ELSE UNCHANGED <<up, ppp, ret, owed>>
          /\ IF (owed \/ tid = NoTid) /\ ppp' = "down"
             THEN tid' = t /\ Move(t, "created")
             ELSE tid' = (IF owed THEN NoTid ELSE tid) /\ UNCHANGED init
    /\ raced' = (raced \/ Running # {})
    /\ UNCHANGED <<sock, counters, pc>>

\* The network: a link gets ready or drops.
LinkChanges ==
    /\ ppp # "down" /\ ppp' \in {"down", "up"} \ {ppp}
    /\ UNCHANGED <<ret, tid, init, up, sock, owed, counters, pc, raced>>

\* 60 s have passed since the dial began.
Clock ==
    /\ pc \in Dialling /\ ~late /\ late' = TRUE
    /\ UNCHANGED <<ret, tid, init, module, sock, owed, nosim, reinit, timeouts, pc, dials, tries,
                   raced>>

Initialise(p) == EnterInit(p) \/ PowerUp(p) \/ CheckAttached(p)

Going ==
    \/ Initialise(Main)
    \/ PreDialCheck \/ PreDialAttach \/ PreDialReset \/ PreDialLogin
    \/ ThreadJoinInitModule \/ DialTimeout \/ DialReInit \/ DialAttach
    \/ DialReInitDone \/ DialInited \/ DialNoSim \/ DialCheck \/ DialRecheck
    \/ DialRecheckDone \/ DialLogin \/ DialLoginFails \/ DialResetDone \/ DialConnect \/ DialConnectFails \/ Exchange

Next ==
    \/ Going \/ HangUp \/ DialCancelled \/ PreDial \/ Dial \/ SetAcqCommType
    \/ \E t \in Thread : Initialise(t) \/ ThreadEnds(t)
    \/ LinkChanges \/ Clock

Spec == Init /\ [][Next]_vars

\* Both threads of control run, and time passes.
FairSpec ==
    /\ Spec
    /\ WF_vars(Going) /\ WF_vars(Clock)
    /\ \A t \in Thread : WF_vars(Initialise(t) \/ ThreadEnds(t))

------------------------------------------------------------------------------
Inside == {p \in Thread \cup {Main} : init[p] # "none"}

\* Commlib.c:72, "to avoid two threads initialising", ThreadJoinInitModule: never do two
\* threads initialise the module at once, nor one while a dial uses it, unless a pre-dial
\* or the set-up, which do not wait, has closed it while a thread was still running.
OneInitialiser ==
    ~raced =>
        /\ Cardinality(Inside) <= 1
        /\ pc \in Dialling \cup {"online"} => Inside \subseteq {Main}

\* sg_InitModulRet is written by threads and event loop in turn: between them it never
\* says that a module is ready that has been powered down.
ReadyIsUp ==
    ~raced /\ Inside = {} /\ ret = "ok" => up

\* Commlib.c:1747 sets sg_Tcpsocket to -1 without closing it: no initialisation begins
\* while a socket is open.
NoSocketLost ==
    [][(\E p \in Thread \cup {Main} : At(p, "created") /\ init'[p] = "power") /\ ~raced
         => ~sock]_vars

\* WirelessDial: whatever module and network do, and whatever thread it waits for, a
\* dial returns.
DialEnds == pc = "join" ~> pc \in {"idle", "online"}

\* A bound on the steps left to a dial whose time is over: to its end from each place,
\* and those of an initialisation that the event loop is in.
InitLeft == CASE init[Main] = "none"    -> 0
              [] init[Main] \in Result  -> 1
              [] init[Main] = "attach"  -> 2
              [] init[Main] = "power"   -> 3
              [] init[Main] = "created" -> 4

PlaceLeft == CASE pc = "reset"   -> 1
               [] pc = "loop"    -> 6
               [] pc = "connect" -> 7
               [] pc = "login"   -> 7
               [] pc = "rereset" -> 8
               [] pc = "recheck" -> 13
               [] pc = "check"   -> 14
               [] pc \in {"attach", "reinit"} -> 15
               [] OTHER -> 0

DialLeft == PlaceLeft + InitLeft

\* WirelessDial, iTimeoutTimes: once the 60 s are over no retry loop of the dial goes
\* round again, be the link opening, dropped or refused: what is left of it is at most
\* nineteen steps of its own.
LateDialEnds == [][late /\ pc \in Dialling /\ Going => DialLeft' < DialLeft]_vars
==============================================================================
