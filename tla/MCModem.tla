------------------------------- MODULE MCModem -------------------------------
(* TLC instances of Modem. *)
EXTENDS Modem
==============================================================================
