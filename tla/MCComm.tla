------------------------------- MODULE MCComm -------------------------------
(* TLC instances of Comm: the set-ups, and acquirers that share a terminal number. *)
EXTENDS Comm

AnyLinks == [Acq -> Link]
GprsOnly == [Acq -> {"GPRS"}]
SameTermID == [a \in Acq |-> "00000001"]
==============================================================================
