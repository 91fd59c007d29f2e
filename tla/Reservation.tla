---------------------------- MODULE Reservation ----------------------------
(***************************************************************************)
(* What the usage ledger promises its callers about one reservation row    *)
(* (TblUsageReservation, unique per business, event type and key): the     *)
(* life of its State column under reserve, consume, release and            *)
(* mark-uncertain.  Counters, plans and add-on lots are left out here; the *)
(* module QuotaLedger adds them and implements this one, and the module    *)
(* AiReplyPipeline uses the operators below for the two reservations of a  *)
(* reply job.                                                              *)
(***************************************************************************)
CONSTANT Keys            \* reservation keys

VARIABLE resv            \* resv[k]: State of the row, "NONE" when absent

ReservationStates == {"NONE", "RESERVED", "RELEASED", "UNCERTAIN", "CONSUMED"}

(* The states that keep a unit of quota committed.                         *)
Committed == {"RESERVED", "UNCERTAIN", "CONSUMED"}

(* reserveQuota: a committed row is returned unchanged, anything else is   *)
(* reserved afresh.                                                        *)
AfterReserve(st) == IF st \in Committed THEN st ELSE "RESERVED"

(* releaseQuotaReservation: only RESERVED is released.                     *)
AfterRelease(st) == IF st = "RESERVED" THEN "RELEASED" ELSE st

(* markQuotaReservationUncertain.                                          *)
AfterUncertain(st) == IF st \in {"RESERVED", "UNCERTAIN"} THEN "UNCERTAIN" ELSE st

(* consumeQuotaReservation throws on a missing or released row.            *)
Consumable(st) == st \in Committed

----------------------------------------------------------------------------
Init == resv = [k \in Keys |-> "NONE"]

Set(k, st) == resv' = [resv EXCEPT ![k] = st]

Next == \E k \in Keys :
           \/ Set(k, AfterReserve(resv[k]))
           \/ Set(k, AfterRelease(resv[k]))
           \/ Set(k, AfterUncertain(resv[k]))
           \/ Consumable(resv[k]) /\ Set(k, "CONSUMED")

Spec == Init /\ [][Next]_resv
============================================================================
