------------------------- MODULE MCEscalationCare -------------------------
(* A conversation with one case, for TLC.                                  *)
EXTENDS EscalationCare
===========================================================================
