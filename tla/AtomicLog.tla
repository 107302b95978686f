------------------------------ MODULE AtomicLog ------------------------------
(***************************************************************************)
(* What the transaction store of the terminal (fileoper.c, and ClearRecord *)
(* of Manage.c) promises to the programs that use it: every operation on   *)
(* the records, on the reversal flags and on the "last record" takes       *)
(* effect at one instant.  There are no files, no RAM copies and no power  *)
(* failures here; TranLog is the store as the code builds it, and is shown *)
(* to implement this module.                                               *)
(*                                                                         *)
(* The one promise that spans two pieces of state is Save: logging a       *)
(* transaction the host has answered and dropping the reversal of its      *)
(* acquirer happen together.  A crash that separated them would either     *)
(* reverse a logged sale at the host or leave an unlogged sale standing.   *)
(***************************************************************************)
CONSTANTS
    Acq,     \* acquirers
    Slot,    \* record numbers of the transaction file
    Body,    \* what a record says, its acquirer apart
    Unsent,  \* the bodies whose uiStatus has TS_NOSEND
    Pack,    \* request packets kept for a reversal
    NoRec,   \* an empty slot
    NoSlot,  \* no last record (0xFFFF)
    NoPack   \* no reversal pending

VARIABLES
    txn,     \* txn[s]: the record of slot s, or NoRec
    last,    \* the record a reprint takes
    rev      \* rev[a]: the packet to reverse with acquirer a, or NoPack

vars == <<txn, last, rev>>

Rec == [acq: Acq, body: Body]

\* The types of the three variables.
TypeOK ==
    /\ txn \in [Slot -> Rec \cup {NoRec}]
    /\ last \in Slot \cup {NoSlot}
    /\ rev \in [Acq -> Pack \cup {NoPack}]

Init ==
    /\ txn = [s \in Slot |-> NoRec]
    /\ last = NoSlot
    /\ rev = [a \in Acq |-> NoPack]

\* SaveTranLog, step 1 and step 2 together.
Save(s, a, b) ==
    /\ txn[s] = NoRec
    /\ txn' = [txn EXCEPT ![s] = [acq |-> a, body |-> b]]
    /\ last' = s
    /\ rev' = IF b \in Unsent THEN rev ELSE [rev EXCEPT ![a] = NoPack]

\* UpdateTranLog: a record changes in place and stays with its acquirer.
Update(s, b) ==
    /\ txn[s] # NoRec
    /\ txn' = [txn EXCEPT ![s] = [acq |-> txn[s].acq, body |-> b]]
    /\ UNCHANGED <<last, rev>>

\* TransAdjust makes the adjusted record the one a reprint takes.
SetLast(s) ==
    /\ txn[s] # NoRec
    /\ last' = s
    /\ UNCHANGED <<txn, rev>>

\* SaveRevInfo(TRUE) and SaveRevInfo(FALSE).
NeedReversal(a, p) == rev' = [rev EXCEPT ![a] = p] /\ UNCHANGED <<txn, last>>

DropReversal(a) == rev' = [rev EXCEPT ![a] = NoPack] /\ UNCHANGED <<txn, last>>

\* ClearReversalSub.
DropAllReversals ==
    /\ rev' = [a \in Acq |-> NoPack]
    /\ UNCHANGED <<txn, last>>

\* The batches of the acquirers A leave the terminal: a settlement the host
\* closed (one acquirer), or the CLR BATCH function (all of them).
OfBatch(s, A) == txn[s] # NoRec /\ txn[s].acq \in A

Clear(A) ==
    /\ txn' = [s \in Slot |-> IF OfBatch(s, A) THEN NoRec ELSE txn[s]]
    /\ last' = IF last \in Slot /\ OfBatch(last, A) THEN NoSlot ELSE last
    /\ rev' = [a \in Acq |-> IF a \in A THEN NoPack ELSE rev[a]]

Next ==
    \/ \E s \in Slot, a \in Acq, b \in Body : Save(s, a, b)
    \/ \E s \in Slot, b \in Body : Update(s, b)
    \/ \E s \in Slot : SetLast(s)
    \/ \E a \in Acq, p \in Pack : NeedReversal(a, p)
    \/ \E a \in Acq : DropReversal(a)
    \/ DropAllReversals
    \/ \E a \in Acq : Clear({a})
    \/ Clear(Acq)

Spec == Init /\ [][Next]_vars
==============================================================================
