------------------------ MODULE EscalationCare_proofs ------------------------
(***************************************************************************)
(* What holds of the hold messages and the owner alerts for any number of  *)
(* cases, of worker processes, of mishaps and of changes of the settings.  *)
(*                                                                         *)
(* Neither table claim has a token, so the proofs do not rest on who holds *)
(* it.  For the hold message they rest on the step that the claim read,    *)
(* which is the key of the send, and on the reservation; for the alert, on *)
(* the one way out of PENDING: whoever is past the claim finds the row     *)
(* SENDING or UNKNOWN, so nobody else can have claimed it since.           *)
(***************************************************************************)
EXTENDS EscalationCare, FiniteSetTheorems, TLAPS

(* A tick at work has a case.                                              *)
TicksAtWork ==
  /\ \A h \in HoldTicks : hold[h].pc # "idle" => hold[h].case \in Cases
  /\ \A a \in AlertTicks : alert[a].pc # "idle" => alert[a].case \in Cases

(* What a hold tick sends and records is the text of a step there is.      *)
WithinSteps ==
  \A h \in HoldTicks :
    hold[h].pc \notin {"idle", "stop"} => hold[h].step < MaxHoldSteps

TypeInv == TypeOK /\ TicksAtWork /\ WithinSteps

(* Whoever sent it, a text was that of a step there is.                    *)
KeysWithinSteps ==
  \A c \in Cases : \A key \in heard[c] : key < MaxHoldSteps

(* A row that nobody has created holds nothing.                            *)
BlankRows ==
  \A c \in Cases :
    case[c].status = "NONE" => case[c].step = 0 /\ case[c].notice = "CANCELLED"

(* A hold tick works on a case that exists, and records what was heard.    *)
HoldOnRow ==
  \A h \in HoldTicks :
    LET c == hold[h].case IN
    /\ hold[h].pc # "idle" => case[c].status # "NONE"
    /\ hold[h].pc = "record" => heard[c] # {}

(* An alert tick past its claim finds its own claim, or the sweep's        *)
(* verdict, and no other tick is at work on the case.                      *)
AlertIsAlone ==
  \A a \in AlertTicks :
    alert[a].pc # "idle" =>
      /\ case[alert[a].case].notice \in {"SENDING", "UNKNOWN"}
      /\ \A b \in AlertTicks \ {a} :
           alert[b].pc # "idle" => alert[b].case # alert[a].case

(* What a tick is about to settle is true.                                 *)
AlertKnows ==
  \A a \in AlertTicks :
    LET c == alert[a].case IN
    /\ alert[a].pc \in {"read", "send"} => c \notin alerted
    /\ alert[a].pc = "settle" /\ alert[a].verdict \in Unsent => c \notin alerted
    /\ alert[a].pc = "settle" /\ alert[a].verdict = "SENT" => c \in alerted

HoldInv == BlankRows /\ HoldOnRow /\ HoldIsAccounted /\ KeysWithinSteps
AlertInv == BlankRows /\ AlertIsAlone /\ AlertKnows /\ AlertVerdictIsTrue
CareInv == TypeInv /\ HoldInv /\ AlertInv

----------------------------------------------------------------------------
(* Types.                                                                  *)

LEMMA IdleTyped == HoldIdle \in HoldLocal /\ AlertIdle \in AlertLocal
BY DEF HoldIdle, HoldLocal, HoldPoints, MaxHoldSteps, AlertIdle, AlertLocal,
   AlertPoints, Verdicts, Unsent

LEMMA NoRowTyped == NoRow \in Row
BY DEF NoRow, Row, MaxHoldSteps, Ages, Verdicts, Unsent

LEMMA StoppedTyped ==
  ASSUME NEW row \in Row
  PROVE  Stopped(row) \in Row
BY DEF Stopped, Row, Ages

LEMMA SweptTyped ==
  ASSUME NEW row \in Row
  PROVE  Swept(row) \in Row
BY DEF Swept, Row, Verdicts, Unsent, Ages

LEMMA ResolvedTyped ==
  ASSUME NEW row \in Row
  PROVE  Resolved(row) \in Row
<1>1. DEFINE notice == IF row.notice = "PENDING" THEN "CANCELLED" ELSE row.notice
<1>2. notice \in Verdicts
  BY DEF Row, Verdicts, Unsent
<1>3. Resolved(row) = [row EXCEPT !.status = "RESOLVED", !.armed = FALSE,
                                  !.claim = "none", !.notice = notice]
  BY DEF Resolved
<1> HIDE DEF notice
<1>4. QED
  BY <1>2, <1>3 DEF Row, Ages

(* People change rows only.                                                *)
LEMMA PeopleTyped ==
  ASSUME TypeOK, People
  PROVE  TypeOK'
<1> USE DEF TypeOK
<1>1. ASSUME NEW c \in Cases, CreateCase(c) PROVE TypeOK'
  <2>1. PICK notice \in Verdicts :
          case' = [case EXCEPT ![c] = [NoRow EXCEPT !.status = "OPEN",
                                         !.armed = TRUE, !.notice = notice]]
    BY <1>1 DEF CreateCase, Verdicts, Unsent
  <2>2. [NoRow EXCEPT !.status = "OPEN", !.armed = TRUE, !.notice = notice] \in Row
    BY NoRowTyped DEF Row
  <2>3. QED
    BY <1>1, <2>1, <2>2 DEF CreateCase, ByPeople, ticks, outside, bounds
<1>2. ASSUME NEW c \in Cases, RepairCase(c) PROVE TypeOK'
  <2>1. PICK armed \in BOOLEAN :
          case' = [case EXCEPT ![c] = [case[c] EXCEPT !.notice = "PENDING",
                                                      !.armed = armed]]
    BY <1>2 DEF RepairCase
  <2>2. [case[c] EXCEPT !.notice = "PENDING", !.armed = armed] \in Row
    BY DEF Row, Verdicts, Unsent
  <2>3. QED
    BY <1>2, <2>1, <2>2 DEF RepairCase, ByPeople, ticks, outside, bounds
<1>3. ASSUME NEW c \in Cases, AcknowledgeCase(c) PROVE TypeOK'
  <2>1. [case[c] EXCEPT !.status = "ACKNOWLEDGED", !.armed = FALSE] \in Row
    BY DEF Row
  <2>2. case' = [case EXCEPT ![c] =
                   [case[c] EXCEPT !.status = "ACKNOWLEDGED", !.armed = FALSE]]
    BY <1>3 DEF AcknowledgeCase
  <2>3. QED
    BY <1>3, <2>1, <2>2 DEF AcknowledgeCase, ByPeople, ticks, outside, bounds
<1>4. ASSUME NEW c \in Cases, ResolveCase(c) \/ CustomerConfirms(c) PROVE TypeOK'
  <2>1. Resolved(case[c]) \in Row
    BY ResolvedTyped
  <2>2. QED
    BY <1>4, <2>1 DEF ResolveCase, CustomerConfirms, ByPeople, ticks, outside, bounds
<1>5. ASSUME NEW c \in Cases, NEW inbox \in BOOLEAN, HumanAnswers(c, inbox)
      PROVE  TypeOK'
  <2>1. PICK seen \in BOOLEAN :
          case' = [case EXCEPT ![c] =
                     [case[c] EXCEPT !.status = "ACKNOWLEDGED", !.answered = TRUE,
                        !.fromInbox = seen, !.armed = FALSE, !.claim = "none"]]
    BY <1>5 DEF HumanAnswers
  <2>2. [case[c] EXCEPT !.status = "ACKNOWLEDGED", !.answered = TRUE,
           !.fromInbox = seen, !.armed = FALSE, !.claim = "none"] \in Row
    BY DEF Row, Ages
  <2>3. case' \in [Cases -> Row]
    BY <2>1, <2>2
  <2>4. ByPeople
    BY <1>5 DEF HumanAnswers
  <2>5. QED
    BY <2>3, <2>4 DEF ByPeople, ticks, outside, bounds
<1>6. ASSUME SettingChanges PROVE TypeOK'
  <2>1. eligible' \in BOOLEAN
    BY <1>6 DEF SettingChanges
  <2>2. owner' \in 0 .. MaxOwner
    BY <1>6, CareAssumption DEF SettingChanges
  <2>3. QED
    BY <1>6, <2>1, <2>2 DEF SettingChanges, ticks, outside
<1>7. QED
  BY <1>1, <1>2, <1>3, <1>4, <1>5, <1>6 DEF People

(* The four ways a tick moves.                                             *)
LEMMA HoldMoves ==
  ASSUME hold \in [HoldTicks -> HoldLocal], NEW h \in HoldTicks,
         NEW l \in HoldPoints, HoldTo(h, l)
  PROVE  hold' \in [HoldTicks -> HoldLocal]
<1>1. [hold[h] EXCEPT !.pc = l] \in HoldLocal
  BY DEF HoldLocal
<1>2. QED
  BY <1>1 DEF HoldTo

LEMMA AlertMoves ==
  ASSUME alert \in [AlertTicks -> AlertLocal], NEW a \in AlertTicks,
         NEW l \in AlertPoints, AlertTo(a, l)
  PROVE  alert' \in [AlertTicks -> AlertLocal]
<1>1. [alert[a] EXCEPT !.pc = l] \in AlertLocal
  BY DEF AlertLocal
<1>2. QED
  BY <1>1 DEF AlertTo

LEMMA AlertSettles ==
  ASSUME alert \in [AlertTicks -> AlertLocal], NEW a \in AlertTicks,
         NEW v \in Verdicts, Settles(a, v)
  PROVE  /\ alert' \in [AlertTicks -> AlertLocal]
         /\ alert' = [alert EXCEPT ![a] = [alert[a] EXCEPT !.pc = "settle", !.verdict = v]]
<1>1. [alert[a] EXCEPT !.pc = "settle", !.verdict = v] \in AlertLocal
  BY DEF AlertLocal, AlertPoints
<1>2. alert' = [alert EXCEPT ![a] = [alert[a] EXCEPT !.pc = "settle", !.verdict = v]]
  BY DEF Settles
<1>3. QED
  BY <1>1, <1>2

LEMMA ReservationTyped ==
  ASSUME NEW st \in Quota!ReservationStates
  PROVE  /\ Quota!AfterReserve(st) \in Quota!ReservationStates
         /\ Quota!AfterRelease(st) \in Quota!ReservationStates
BY DEF Quota!ReservationStates, Quota!AfterReserve, Quota!AfterRelease

(* The one record of a hold is that of the last step.                      *)
LEMMA RecordsLast ==
  ASSUME TypeInv, NEW h \in HoldTicks, HoldRecord(h)
  PROVE  hold[h].step + 1 = MaxHoldSteps
<1>1. hold[h].step \in 0 .. MaxHoldSteps /\ hold[h].step < MaxHoldSteps
  BY DEF TypeInv, TypeOK, HoldLocal, WithinSteps, HoldRecord, Holds
<1>2. QED
  BY <1>1 DEF MaxHoldSteps

LEMMA HoldTyped ==
  ASSUME TypeInv, NEW h \in HoldTicks, HoldStep(h) \/ HoldDies(h)
  PROVE  TypeOK'
<1> USE DEF TypeInv, TypeOK, HoldOnly, outside, bounds
<1>0. HoldIdle \in HoldLocal
  BY IdleTyped
<1>1. ASSUME HoldSweep(h) PROVE TypeOK'
  <2>1. \A c \in Cases : Stopped(case[c]) \in Row
    BY StoppedTyped
  <2>2. QED
    BY <1>1, <2>1 DEF HoldSweep
<1>2. ASSUME HoldClaim(h) PROVE TypeOK'
  <2>1. PICK c \in Cases :
          /\ case' = [case EXCEPT ![c].claim = "fresh"]
          /\ hold' = [hold EXCEPT ![h] =
                       [HoldIdle EXCEPT !.case = c, !.late = case[c].answered,
                          !.step = case[c].step, !.pc = HoldEntry(case[c].step)]]
    BY <1>2 DEF HoldClaim
  <2>2. [case[c] EXCEPT !.claim = "fresh"] \in Row
    BY DEF Row, Ages
  <2>3. [HoldIdle EXCEPT !.case = c, !.late = case[c].answered,
           !.step = case[c].step, !.pc = HoldEntry(case[c].step)] \in HoldLocal
    <3>1. /\ case[c].answered \in BOOLEAN /\ case[c].step \in 0 .. MaxHoldSteps
          /\ HoldEntry(case[c].step) \in HoldPoints
      BY DEF Row, HoldEntry, HoldPoints
    <3>2. QED
      BY <1>0, <3>1 DEF HoldLocal
  <2>4. QED
    BY <1>2, <2>1, <2>2, <2>3 DEF HoldClaim
<1>3. ASSUME HoldLook(h) PROVE TypeOK'
  <2>1. hold' \in [HoldTicks -> HoldLocal]
    BY <1>3, HoldMoves DEF HoldLook, HoldPoints
  <2>2. mishaps' \in 0 .. MaxMishaps /\ owner' = owner
    BY <1>3, CareAssumption DEF HoldLook, Mishap
  <2>3. QED
    BY <1>3, <2>1, <2>2 DEF HoldLook
<1>4. ASSUME HoldReserve(h) PROVE TypeOK'
  <2>1. hold[h].case \in Cases
    BY <1>4 DEF HoldReserve, Holds, TicksAtWork
  <2>2. CASE HoldTo(h, "stop") /\ UNCHANGED quota
    <3>1. hold' \in [HoldTicks -> HoldLocal]
      BY <2>2, HoldMoves DEF HoldPoints
    <3>2. QED
      BY <1>4, <2>2, <3>1 DEF HoldReserve
  <2>3. ASSUME quota' = [quota EXCEPT ![OnHold(h)] = Quota!AfterReserve(@)],
               NEW fresh \in BOOLEAN,
               hold' = [hold EXCEPT ![h].pc = "send", ![h].fresh = fresh]
        PROVE  TypeOK'
    <3>1. quota' \in [Cases -> Quota!ReservationStates]
      BY <2>1, <2>3, ReservationTyped DEF OnHold
    <3>2. [hold[h] EXCEPT !.pc = "send", !.fresh = fresh] \in HoldLocal
      BY DEF HoldLocal, HoldPoints
    <3>3. hold' = [hold EXCEPT ![h] = [hold[h] EXCEPT !.pc = "send", !.fresh = fresh]]
      BY <2>3
    <3>4. QED
      BY <1>4, <3>1, <3>2, <3>3 DEF HoldReserve
  <2>4. QED
    BY <1>4, <2>2, <2>3 DEF HoldReserve
<1>5. ASSUME HoldSent(h) \/ HoldUncertain(h) PROVE TypeOK'
  <2>1. hold' \in [HoldTicks -> HoldLocal]
    BY <1>5, HoldMoves DEF HoldSent, HoldUncertain, HoldPoints
  <2>2. hold[h].step \in 0 .. MaxHoldSteps
    BY DEF HoldLocal
  <2>3. heard' \in [Cases -> SUBSET (0 .. MaxHoldSteps)]
    BY <1>5, <2>2 DEF HoldSent, HoldUncertain, HoldReaches, HoldKey
  <2>4. QED
    BY <1>5, <2>1, <2>3 DEF HoldSent, HoldUncertain
<1>6. ASSUME HoldNotReady(h) PROVE TypeOK'
  <2>1. hold' \in [HoldTicks -> HoldLocal]
    BY <1>6, HoldMoves DEF HoldNotReady, HoldPoints
  <2>2. mishaps' \in 0 .. MaxMishaps /\ owner' = owner
    BY <1>6, CareAssumption DEF HoldNotReady, Mishap
  <2>3. QED
    BY <1>6, <2>1, <2>2 DEF HoldNotReady
<1>7. ASSUME HoldRelease(h) PROVE TypeOK'
  <2>1. hold' \in [HoldTicks -> HoldLocal]
    BY <1>7, HoldMoves DEF HoldRelease, HoldPoints
  <2>2. mishaps' \in 0 .. MaxMishaps /\ owner' = owner
    BY <1>7, CareAssumption DEF HoldRelease, Mishap
  <2>3. quota' \in [Cases -> Quota!ReservationStates]
    BY <1>7, ReservationTyped DEF HoldRelease
  <2>4. QED
    BY <1>7, <2>1, <2>2, <2>3 DEF HoldRelease
<1>8. ASSUME HoldRetry(h) PROVE TypeOK'
  <2>0. OnHold(h) \in Cases
    BY <1>8 DEF HoldRetry, Holds, TicksAtWork, OnHold
  <2>1. [case[OnHold(h)] EXCEPT !.claim = "none", !.armed = TRUE] \in Row
    BY <2>0 DEF Row, Ages
  <2>2. case' = [case EXCEPT ![OnHold(h)] =
                   [case[OnHold(h)] EXCEPT !.claim = "none", !.armed = TRUE]]
    BY <1>8 DEF HoldRetry
  <2>3. QED
    BY <1>0, <1>8, <2>1, <2>2 DEF HoldRetry, HoldEnds
<1>9. ASSUME HoldStop(h) PROVE TypeOK'
  <2>1. Stopped(case[OnHold(h)]) \in Row
    BY <1>9, StoppedTyped DEF HoldStop, Holds, TicksAtWork, OnHold
  <2>2. QED
    BY <1>0, <1>9, <2>1 DEF HoldStop, HoldEnds
<1>10. ASSUME HoldRecord(h) PROVE TypeOK'
  <2>1. OnHold(h) \in Cases
    BY <1>10 DEF HoldRecord, Holds, TicksAtWork, OnHold
  <2>2. [Stopped(case[OnHold(h)]) EXCEPT !.step = MaxHoldSteps] \in Row
    BY <2>1, StoppedTyped DEF Row, MaxHoldSteps
  <2>3. quota' \in [Cases -> Quota!ReservationStates]
    BY <1>10, <2>1 DEF HoldRecord, Quota!ReservationStates
  <2>4. case' \in [Cases -> Row] /\ noted' \subseteq Cases
    BY <1>10, <2>1, <2>2, RecordsLast DEF HoldRecord
  <2>5. hold' \in [HoldTicks -> HoldLocal]
    BY <1>0, <1>10 DEF HoldRecord, HoldEnds
  <2>6. QED
    BY <1>10, <2>3, <2>4, <2>5 DEF HoldRecord
<1>11. ASSUME HoldDies(h) PROVE TypeOK'
  <2>1. mishaps' \in 0 .. MaxMishaps /\ owner' = owner
    BY <1>11, CareAssumption DEF HoldDies, Mishap
  <2>2. QED
    BY <1>0, <1>11, <2>1 DEF HoldDies, HoldEnds
<1>12. QED
  BY <1>1, <1>2, <1>3, <1>4, <1>5, <1>6, <1>7, <1>8, <1>9, <1>10, <1>11 DEF HoldStep

LEMMA AlertTyped ==
  ASSUME TypeInv, NEW a \in AlertTicks,
         AlertStep(a) \/ AlertThrows(a) \/ AlertDies(a)
  PROVE  TypeOK'
<1> USE DEF TypeInv, TypeOK, AlertOnly, bounds
<1>0. AlertIdle \in AlertLocal
  BY IdleTyped
<1>0a. alert[a].verdict \in Verdicts
  BY DEF AlertLocal
<1>1. ASSUME AlertRequeue(a) PROVE TypeOK'
  <2>1. \A c \in Cases : [case[c] EXCEPT !.notice = "PENDING"] \in Row
    BY DEF Row, Verdicts, Unsent
  <2>2. QED
    BY <1>1, <2>1 DEF AlertRequeue
<1>2. ASSUME AlertSweep(a) PROVE TypeOK'
  <2>1. \A c \in Cases : Swept(case[c]) \in Row
    BY SweptTyped
  <2>2. QED
    BY <1>2, <2>1 DEF AlertSweep
<1>3. ASSUME AlertClaim(a) PROVE TypeOK'
  <2>1. PICK c \in Cases :
          /\ case' = [case EXCEPT ![c] = [case[c] EXCEPT !.notice = "SENDING", !.taken = "fresh"]]
          /\ alert' = [alert EXCEPT ![a] = [alert[a] EXCEPT !.pc = "read", !.case = c]]
    BY <1>3 DEF AlertClaim
  <2>2. [case[c] EXCEPT !.notice = "SENDING", !.taken = "fresh"] \in Row
    BY DEF Row, Verdicts, Ages
  <2>3. [alert[a] EXCEPT !.pc = "read", !.case = c] \in AlertLocal
    BY DEF AlertLocal, AlertPoints
  <2>4. QED
    BY <1>3, <2>1, <2>2, <2>3 DEF AlertClaim
<1>4. ASSUME AlertRead(a) PROVE TypeOK'
  <2>1. alert' \in [AlertTicks -> AlertLocal]
    BY <1>4, AlertMoves, AlertSettles DEF AlertRead, AlertPoints, Verdicts, Unsent
  <2>2. mishaps' \in 0 .. MaxMishaps /\ owner' = owner
    BY <1>4, CareAssumption DEF AlertRead, Mishap
  <2>3. QED
    BY <1>4, <2>1, <2>2 DEF AlertRead
<1>5. ASSUME AlertSent(a) \/ AlertUncertain(a) PROVE TypeOK'
  <2>1. alert' \in [AlertTicks -> AlertLocal]
    BY <1>5, AlertSettles DEF AlertSent, AlertUncertain, Verdicts
  <2>2. OnAlert(a) \in Cases
    BY <1>5 DEF AlertSent, AlertUncertain, Alerts, TicksAtWork, OnAlert
  <2>3. QED
    BY <1>5, <2>1, <2>2 DEF AlertSent, AlertUncertain
<1>6. ASSUME AlertNotReady(a) \/ AlertThrows(a) PROVE TypeOK'
  <2>1. alert' \in [AlertTicks -> AlertLocal]
    BY <1>6, AlertSettles DEF AlertNotReady, AlertThrows, Verdicts, Unsent
  <2>2. mishaps' \in 0 .. MaxMishaps /\ owner' = owner
    BY <1>6, CareAssumption DEF AlertNotReady, AlertThrows, Mishap
  <2>3. QED
    BY <1>6, <2>1, <2>2 DEF AlertNotReady, AlertThrows
<1>7. ASSUME AlertSettle(a) PROVE TypeOK'
  <2>1. OnAlert(a) \in Cases
    BY <1>7 DEF AlertSettle, Alerts, TicksAtWork, OnAlert
  <2>2. [case[OnAlert(a)] EXCEPT !.notice = alert[a].verdict, !.taken = "none"] \in Row
    BY <1>0a, <2>1 DEF Row, Ages
  <2>3. case' \in [Cases -> Row]
    BY <1>7, <2>1, <2>2 DEF AlertSettle
  <2>4. alert' \in [AlertTicks -> AlertLocal]
    BY <1>0, <1>7 DEF AlertSettle, AlertEnds
  <2>5. QED
    BY <1>7, <2>3, <2>4 DEF AlertSettle
<1>8. ASSUME AlertDies(a) PROVE TypeOK'
  <2>1. mishaps' \in 0 .. MaxMishaps /\ owner' = owner
    BY <1>8, CareAssumption DEF AlertDies, Mishap
  <2>2. QED
    BY <1>0, <1>8, <2>1 DEF AlertDies, AlertEnds
<1>9. QED
  BY <1>1, <1>2, <1>3, <1>4, <1>5, <1>6, <1>7, <1>8 DEF AlertStep

LEMMA AgesTyped ==
  ASSUME TypeOK, NEW c \in Cases, HoldAges(c) \/ AlertAges(c)
  PROVE  TypeOK'
<1> USE DEF TypeOK
<1>1. /\ [case[c] EXCEPT !.claim = "stale"] \in Row
      /\ [case[c] EXCEPT !.taken = "stale"] \in Row
  BY DEF Row, Ages
<1>2. case' \in [Cases -> Row]
  BY <1>1 DEF HoldAges, AlertAges
<1>3. mishaps' \in 0 .. MaxMishaps /\ owner' = owner
  BY CareAssumption DEF HoldAges, AlertAges, Mishap, bounds
<1>4. QED
  BY <1>2, <1>3 DEF HoldAges, AlertAges, ticks, outside

----------------------------------------------------------------------------
(* What a tick does to the local variables, and that nobody else does.     *)

(* A hold tick keeps its case until it is idle.                            *)
LEMMA HoldKeepsCase ==
  ASSUME TypeInv, NEW h \in HoldTicks, HoldStep(h) \/ HoldDies(h)
  PROVE  /\ hold'[h].pc = "idle" \/ hold'[h].case \in Cases
         /\ hold[h].pc # "idle" => hold'[h].pc = "idle" \/ hold'[h].case = hold[h].case
         /\ \A i \in HoldTicks \ {h} : hold'[i] = hold[i]
         /\ alert' = alert
<1> USE DEF TypeInv, TypeOK, TicksAtWork, HoldLocal, HoldOnly, HoldTo, Holds
<1>1. ASSUME HoldSweep(h) \/ HoldClaim(h)
      PROVE  /\ hold'[h].pc = "idle" \/ hold'[h].case \in Cases
             /\ hold[h].pc = "idle"
             /\ \A i \in HoldTicks \ {h} : hold'[i] = hold[i]
             /\ alert' = alert
  <2>1. CASE HoldSweep(h)
    BY <2>1 DEF HoldSweep
  <2>2. CASE HoldClaim(h)
    BY <2>2 DEF HoldClaim, HoldIdle
  <2>3. QED
    BY <1>1, <2>1, <2>2
<1>2. ASSUME HoldLook(h) \/ HoldReserve(h) \/ HoldSent(h) \/ HoldNotReady(h)
              \/ HoldUncertain(h) \/ HoldRelease(h)
      PROVE  /\ hold[h].pc # "idle"
             /\ hold'[h].case = hold[h].case
             /\ \A i \in HoldTicks \ {h} : hold'[i] = hold[i]
             /\ alert' = alert
  <2>1. CASE HoldLook(h)
    BY <2>1 DEF HoldLook
  <2>2. CASE HoldReserve(h)
    <3>1. PICK fresh \in BOOLEAN :
            \/ hold' = [hold EXCEPT ![h].pc = "send", ![h].fresh = fresh]
            \/ hold' = [hold EXCEPT ![h].pc = "stop"]
      BY <2>2 DEF HoldReserve
    <3>2. QED
      BY <2>2, <3>1 DEF HoldReserve
  <2>3. CASE HoldSent(h) \/ HoldUncertain(h)
    BY <2>3 DEF HoldSent, HoldUncertain
  <2>4. CASE HoldNotReady(h) \/ HoldRelease(h)
    BY <2>4 DEF HoldNotReady, HoldRelease
  <2>5. QED
    BY <1>2, <2>1, <2>2, <2>3, <2>4
<1>3. ASSUME HoldRetry(h) \/ HoldStop(h) \/ HoldRecord(h) \/ HoldDies(h)
      PROVE  /\ hold'[h].pc = "idle"
             /\ \A i \in HoldTicks \ {h} : hold'[i] = hold[i]
             /\ alert' = alert
  BY <1>3 DEF HoldRetry, HoldStop, HoldRecord, HoldDies, HoldEnds, HoldIdle
<1>4. QED
  BY <1>1, <1>2, <1>3 DEF HoldStep

(* So does an alert tick.                                                  *)
LEMMA HoldKeepsStep ==
  ASSUME TypeInv, NEW h \in HoldTicks, HoldStep(h) \/ HoldDies(h)
  PROVE  hold'[h].pc \notin {"idle", "stop"} => hold'[h].step < MaxHoldSteps
<1> USE DEF TypeInv, TypeOK
<1>1. CASE HoldClaim(h)
  <2>1. PICK c \in Cases :
          hold' = [hold EXCEPT ![h] =
                     [HoldIdle EXCEPT !.case = c, !.late = case[c].answered,
                        !.step = case[c].step, !.pc = HoldEntry(case[c].step)]]
    BY <1>1 DEF HoldClaim
  <2>2. case[c].step \in 0 .. MaxHoldSteps
    BY DEF Row
  <2>3. hold'[h].step = case[c].step /\ hold'[h].pc = HoldEntry(case[c].step)
    BY <2>1 DEF HoldIdle
  <2>4. QED
    BY <2>2, <2>3 DEF HoldEntry, MaxHoldSteps
<1>2. CASE HoldSweep(h)
  BY <1>2 DEF HoldSweep, WithinSteps
<1>3. CASE HoldLook(h) \/ HoldReserve(h) \/ HoldSent(h) \/ HoldNotReady(h)
           \/ HoldUncertain(h) \/ HoldRelease(h)
  <2>1. hold[h].step < MaxHoldSteps
    BY <1>3 DEF HoldLook, HoldReserve, HoldSent, HoldNotReady, HoldUncertain,
       HoldRelease, Holds, WithinSteps
  <2>2. hold'[h].step = hold[h].step
    <3>1. \/ \E l \in HoldPoints : hold' = [hold EXCEPT ![h].pc = l]
          \/ \E fresh \in BOOLEAN : hold' = [hold EXCEPT ![h].pc = "send", ![h].fresh = fresh]
      BY <1>3 DEF HoldLook, HoldReserve, HoldSent, HoldNotReady, HoldUncertain,
         HoldRelease, HoldTo, HoldPoints
    <3>2. QED
      BY <3>1 DEF HoldLocal
  <2>3. QED
    BY <2>1, <2>2
<1>4. CASE HoldRetry(h) \/ HoldStop(h) \/ HoldRecord(h) \/ HoldDies(h)
  BY <1>4 DEF HoldRetry, HoldStop, HoldRecord, HoldDies, HoldEnds, HoldIdle
<1>5. QED
  BY <1>1, <1>2, <1>3, <1>4 DEF HoldStep

LEMMA AlertKeepsCase ==
  ASSUME TypeInv, NEW a \in AlertTicks,
         AlertStep(a) \/ AlertThrows(a) \/ AlertDies(a)
  PROVE  /\ alert'[a].pc = "idle" \/ alert'[a].case \in Cases
         /\ \A i \in AlertTicks \ {a} : alert'[i] = alert[i]
         /\ hold' = hold
<1> USE DEF TypeInv, TypeOK, TicksAtWork, AlertLocal, AlertOnly, AlertTo, Alerts, Settles
<1>1. ASSUME AlertRequeue(a) \/ AlertSweep(a) \/ AlertClaim(a)
      PROVE  /\ alert'[a].pc = "idle" \/ alert'[a].case \in Cases
             /\ \A i \in AlertTicks \ {a} : alert'[i] = alert[i]
             /\ hold' = hold
  <2>1. CASE AlertRequeue(a) \/ AlertSweep(a)
    BY <2>1 DEF AlertRequeue, AlertSweep
  <2>2. CASE AlertClaim(a)
    BY <2>2 DEF AlertClaim
  <2>3. QED
    BY <1>1, <2>1, <2>2
<1>2. ASSUME AlertRead(a) \/ AlertSent(a) \/ AlertNotReady(a) \/ AlertUncertain(a)
              \/ AlertThrows(a)
      PROVE  /\ alert[a].pc # "idle" /\ alert'[a].case = alert[a].case
             /\ \A i \in AlertTicks \ {a} : alert'[i] = alert[i]
             /\ hold' = hold
  <2>1. CASE AlertRead(a)
    BY <2>1 DEF AlertRead
  <2>2. CASE AlertSent(a) \/ AlertUncertain(a)
    BY <2>2 DEF AlertSent, AlertUncertain
  <2>3. CASE AlertNotReady(a) \/ AlertThrows(a)
    BY <2>3 DEF AlertNotReady, AlertThrows
  <2>4. QED
    BY <1>2, <2>1, <2>2, <2>3
<1>3. ASSUME AlertSettle(a) \/ AlertDies(a)
      PROVE  /\ alert'[a].pc = "idle"
             /\ \A i \in AlertTicks \ {a} : alert'[i] = alert[i]
             /\ hold' = hold
  BY <1>3 DEF AlertSettle, AlertDies, AlertEnds, AlertIdle
<1>4. QED
  BY <1>1, <1>2, <1>3 DEF AlertStep

LEMMA TypeStep ==
  ASSUME TypeInv, [Next]_vars
  PROVE  TypeInv'
<1> USE DEF TypeInv
<1>1. ASSUME People PROVE TypeInv'
  <2>1. hold' = hold /\ alert' = alert
    BY <1>1 DEF People, CreateCase, RepairCase, AcknowledgeCase, ResolveCase,
       CustomerConfirms, HumanAnswers, SettingChanges, ByPeople, ticks
  <2>2. QED
    BY <1>1, <2>1, PeopleTyped DEF TicksAtWork, WithinSteps
<1>2. ASSUME NEW h \in HoldTicks, HoldStep(h) \/ HoldDies(h) PROVE TypeInv'
  <2>1. TicksAtWork'
    BY <1>2, HoldKeepsCase DEF TicksAtWork
  <2>2. WithinSteps'
    BY <1>2, HoldKeepsCase, HoldKeepsStep DEF WithinSteps
  <2>3. QED
    BY <1>2, <2>1, <2>2, HoldTyped
<1>3. ASSUME NEW a \in AlertTicks, AlertStep(a) \/ AlertThrows(a) \/ AlertDies(a)
      PROVE  TypeInv'
  <2>1. TicksAtWork'
    BY <1>3, AlertKeepsCase DEF TicksAtWork
  <2>2. hold' = hold
    BY <1>3 DEF AlertStep, AlertRequeue, AlertSweep, AlertClaim, AlertRead, AlertSent,
       AlertNotReady, AlertUncertain, AlertSettle, AlertThrows, AlertDies, AlertOnly
  <2>3. WithinSteps'
    BY <2>2 DEF WithinSteps
  <2>4. QED
    BY <1>3, <2>1, <2>3, AlertTyped
<1>4. ASSUME NEW c \in Cases, HoldAges(c) \/ AlertAges(c) PROVE TypeInv'
  <2>1. TicksAtWork' /\ WithinSteps'
    BY <1>4 DEF TicksAtWork, WithinSteps, HoldAges, AlertAges, ticks
  <2>2. QED
    BY <1>4, <2>1, AgesTyped
<1>5. CASE UNCHANGED vars
  BY <1>5 DEF vars, TypeOK, TicksAtWork, WithinSteps
<1>6. QED
  BY <1>1, <1>2, <1>3, <1>4, <1>5 DEF Next

LEMMA TypeInit ==
  ASSUME Init
  PROVE  TypeInv
<1>1. TypeOK
  BY CareAssumption, NoRowTyped, IdleTyped DEF Init, TypeOK, Quota!ReservationStates
<1>2. TicksAtWork /\ WithinSteps
  BY DEF Init, TicksAtWork, WithinSteps, HoldIdle, AlertIdle
<1>3. QED
  BY <1>1, <1>2 DEF TypeInv

(* Every variable has its type, and a tick at work has a case              *)
(* (customer-hold.ts, notifier.ts).                                        *)
THEOREM CareTyped == Spec => []TypeInv
<1>1. Init => TypeInv
  BY TypeInit
<1>2. TypeInv /\ [Next]_vars => TypeInv'
  BY TypeStep
<1>3. QED
  BY <1>1, <1>2, PTL DEF Spec

----------------------------------------------------------------------------
(* Rows.                                                                   *)

LEMMA PeopleChangeRows ==
  ASSUME People
  PROVE  UNCHANGED <<hold, alert, quota, heard, alerted, noted>>
BY DEF People, CreateCase, RepairCase, AcknowledgeCase, ResolveCase,
   CustomerConfirms, HumanAnswers, SettingChanges, ByPeople, ticks, outside

(* How the people change a row: the counter of the hold stays, and an      *)
(* alert that was claimed is left alone.                                   *)
LEMMA PeopleOnRow ==
  ASSUME TypeInv, BlankRows, People, NEW c \in Cases
  PROVE  /\ case[c].status # "NONE" => case'[c].status # "NONE"
         /\ case'[c].status = "NONE" => case'[c] = case[c]
         /\ case'[c].step = case[c].step
         /\ \/ case'[c].notice = case[c].notice
            \/ {case'[c].notice, case[c].notice} \subseteq Unsent
<1> USE DEF TypeInv, TypeOK
<1>0. case[c] \in Row
  OBVIOUS
<1>1. ASSUME NEW d \in Cases, CreateCase(d)
      PROVE  /\ case[c].status # "NONE" => case'[c].status # "NONE"
             /\ case'[c].status = "NONE" => case'[c] = case[c]
             /\ case'[c].step = case[c].step
             /\ \/ case'[c].notice = case[c].notice
                \/ {case'[c].notice, case[c].notice} \subseteq Unsent
  <2>1. PICK notice \in {"PENDING", "CANCELLED"} :
          case' = [case EXCEPT ![d] = [NoRow EXCEPT !.status = "OPEN",
                                         !.armed = TRUE, !.notice = notice]]
    BY <1>1 DEF CreateCase
  <2>2. /\ [NoRow EXCEPT !.status = "OPEN", !.armed = TRUE, !.notice = notice].step = 0
        /\ [NoRow EXCEPT !.status = "OPEN", !.armed = TRUE, !.notice = notice].status = "OPEN"
        /\ [NoRow EXCEPT !.status = "OPEN", !.armed = TRUE, !.notice = notice].notice = notice
    BY DEF NoRow
  <2>3. case[d].step = 0 /\ case[d].notice = "CANCELLED"
    BY <1>1 DEF CreateCase, BlankRows
  <2>4. CASE c = d
    BY <2>1, <2>2, <2>3, <2>4 DEF Unsent
  <2>5. CASE c # d
    BY <2>1, <2>5
  <2>6. QED
    BY <2>4, <2>5
<1>2. ASSUME NEW d \in Cases, RepairCase(d)
      PROVE  /\ case'[c].status = case[c].status
             /\ case[c].status = "NONE" => case'[c] = case[c]
             /\ case'[c].step = case[c].step
             /\ \/ case'[c].notice = case[c].notice
                \/ {case'[c].notice, case[c].notice} \subseteq Unsent
  <2>1. PICK armed \in BOOLEAN :
          case' = [case EXCEPT ![d] = [case[d] EXCEPT !.notice = "PENDING",
                                                      !.armed = armed]]
    BY <1>2 DEF RepairCase
  <2>2. Open(d) /\ case[d].notice \in Unsent
    BY <1>2 DEF RepairCase, Unsent
  <2>3. QED
    BY <1>0, <2>1, <2>2 DEF Row, Unsent, Open
<1>3. ASSUME NEW d \in Cases, AcknowledgeCase(d) \/ HumanAnswers(d, TRUE)
                              \/ HumanAnswers(d, FALSE)
      PROVE  /\ case'[c].status # "NONE" \/ case'[c] = case[c]
             /\ case'[c].step = case[c].step
             /\ case'[c].notice = case[c].notice
  <2>1. CASE AcknowledgeCase(d)
    BY <1>0, <2>1 DEF AcknowledgeCase, Row
  <2>2. ASSUME NEW inbox \in BOOLEAN, HumanAnswers(d, inbox)
        PROVE  /\ case'[c].status # "NONE" \/ case'[c] = case[c]
               /\ case'[c].step = case[c].step
               /\ case'[c].notice = case[c].notice
    BY <1>0, <2>2 DEF HumanAnswers, Row
  <2>3. QED
    BY <1>3, <2>1, <2>2
<1>4. ASSUME NEW d \in Cases, ResolveCase(d) \/ CustomerConfirms(d)
      PROVE  /\ case'[c].status # "NONE" \/ case'[c] = case[c]
             /\ case'[c].step = case[c].step
             /\ \/ case'[c].notice = case[c].notice
                \/ {case'[c].notice, case[c].notice} \subseteq Unsent
  <2>1. case' = [case EXCEPT ![d] = Resolved(case[d])]
    BY <1>4 DEF ResolveCase, CustomerConfirms
  <2>2. ASSUME NEW row \in Row
        PROVE  /\ Resolved(row).status = "RESOLVED" /\ Resolved(row).step = row.step
               /\ \/ Resolved(row).notice = row.notice
                  \/ {Resolved(row).notice, row.notice} \subseteq Unsent
    BY DEF Resolved, Row, Unsent
  <2>3. QED
    BY <2>1, <2>2
<1>5. ASSUME SettingChanges PROVE case' = case
  BY <1>5 DEF SettingChanges
<1>6. QED
  BY <1>1, <1>2, <1>3, <1>4, <1>5 DEF People

(* How a hold tick changes a row: never the alert.                         *)
LEMMA HoldOnRowStep ==
  ASSUME TypeInv, NEW h \in HoldTicks, HoldStep(h) \/ HoldDies(h), NEW c \in Cases
  PROVE  /\ case'[c].status = case[c].status
         /\ case'[c].notice = case[c].notice
         /\ case'[c].step # case[c].step => HoldRecord(h) /\ c = hold[h].case
<1> USE DEF TypeInv, TypeOK
<1>0. /\ case[c] \in Row
      /\ \A d \in Cases : case[d] \in Row
      /\ hold[h].pc # "idle" => hold[h].case \in Cases
  BY DEF TicksAtWork
<1>1. ASSUME NEW row \in Row
      PROVE  /\ Stopped(row).status = row.status /\ Stopped(row).notice = row.notice
             /\ Stopped(row).step = row.step
             /\ [Stopped(row) EXCEPT !.step = MaxHoldSteps].status = row.status
             /\ [Stopped(row) EXCEPT !.step = MaxHoldSteps].notice = row.notice
  BY DEF Stopped, Row
<1>2. CASE HoldSweep(h)
  BY <1>0, <1>1, <1>2 DEF HoldSweep
<1>3. CASE HoldClaim(h)
  BY <1>0, <1>3 DEF HoldClaim, Row
<1>4. CASE HoldRetry(h)
  <2>1. PICK d \in Cases :
          case' = [case EXCEPT ![d] = [case[d] EXCEPT !.claim = "none", !.armed = TRUE]]
    BY <1>0, <1>4 DEF HoldRetry, OnHold, Holds
  <2>2. QED
    BY <1>0, <2>1 DEF Row
<1>5. CASE HoldStop(h)
  BY <1>0, <1>1, <1>5 DEF HoldStop, OnHold, Holds
<1>6. CASE HoldRecord(h)
  <2>1. hold[h].case \in Cases
    BY <1>0, <1>6 DEF HoldRecord, Holds
  <2>2. \/ case' = case
        \/ case' = [case EXCEPT ![hold[h].case] =
                      [Stopped(case[hold[h].case]) EXCEPT !.step = MaxHoldSteps]]
    BY <1>6, RecordsLast DEF HoldRecord, OnHold
  <2>3. QED
    BY <1>0, <1>1, <1>6, <2>1, <2>2
<1>7. CASE HoldLook(h) \/ HoldReserve(h) \/ HoldSent(h) \/ HoldNotReady(h)
           \/ HoldUncertain(h) \/ HoldRelease(h) \/ HoldDies(h)
  BY <1>7 DEF HoldLook, HoldReserve, HoldSent, HoldNotReady, HoldUncertain,
     HoldRelease, HoldDies
<1>8. QED
  BY <1>2, <1>3, <1>4, <1>5, <1>6, <1>7 DEF HoldStep

(* How an alert tick changes a row: only the alert.                        *)
LEMMA AlertOnRowStep ==
  ASSUME TypeInv, NEW a \in AlertTicks,
         AlertStep(a) \/ AlertThrows(a) \/ AlertDies(a), NEW c \in Cases
  PROVE  /\ case'[c].status = case[c].status
         /\ case'[c].step = case[c].step
         /\ \/ case'[c].notice = case[c].notice
            \/ /\ AlertRequeue(a) /\ Open(c)
               /\ case[c].notice = "INELIGIBLE" /\ case'[c].notice = "PENDING"
            \/ AlertSweep(a) /\ case[c].notice = "SENDING" /\ case'[c].notice = "UNKNOWN"
            \/ /\ AlertClaim(a) /\ Open(c) /\ alert'[a].case = c
               /\ case[c].notice = "PENDING" /\ case'[c].notice = "SENDING"
            \/ /\ AlertSettle(a) /\ alert[a].case = c
               /\ case[c].notice = "SENDING" /\ case'[c].notice = alert[a].verdict
<1> USE DEF TypeInv, TypeOK
<1>0. /\ case[c] \in Row
      /\ \A d \in Cases : case[d] \in Row
      /\ alert[a].pc # "idle" => alert[a].case \in Cases
      /\ alert[a] \in AlertLocal
  BY DEF TicksAtWork
<1>1. CASE AlertRequeue(a)
  BY <1>0, <1>1 DEF AlertRequeue, Requeuable, Row
<1>2. CASE AlertSweep(a)
  BY <1>0, <1>2 DEF AlertSweep, AlertStuck, Swept, Row
<1>3. CASE AlertClaim(a)
  <2>1. PICK d \in Cases :
          /\ AlertDue(d)
          /\ case' = [case EXCEPT ![d].notice = "SENDING", ![d].taken = "fresh"]
          /\ alert' = [alert EXCEPT ![a].pc = "read", ![a].case = d]
    BY <1>3 DEF AlertClaim
  <2>2. alert'[a].case = d
    BY <1>0, <2>1 DEF AlertLocal
  <2>3. QED
    BY <1>0, <1>3, <2>1, <2>2 DEF AlertDue, Row
<1>4. CASE AlertSettle(a)
  <2>1. alert[a].case \in Cases
    BY <1>0, <1>4 DEF AlertSettle, Alerts
  <2>2. CASE c # alert[a].case
    BY <1>4, <2>1, <2>2 DEF AlertSettle, OnAlert
  <2>3. CASE c = alert[a].case /\ case[c].notice # "SENDING"
    BY <1>4, <2>1, <2>3 DEF AlertSettle, OnAlert
  <2>4. CASE c = alert[a].case /\ case[c].notice = "SENDING"
    BY <1>0, <1>4, <2>1, <2>4 DEF AlertSettle, OnAlert, Row
  <2>5. QED
    BY <2>2, <2>3, <2>4
<1>5. CASE AlertRead(a) \/ AlertSent(a) \/ AlertNotReady(a) \/ AlertUncertain(a)
           \/ AlertThrows(a) \/ AlertDies(a)
  BY <1>5 DEF AlertRead, AlertSent, AlertNotReady, AlertUncertain, AlertThrows, AlertDies
<1>6. QED
  BY <1>1, <1>2, <1>3, <1>4, <1>5 DEF AlertStep

LEMMA AgesOnRow ==
  ASSUME TypeInv, NEW d \in Cases, HoldAges(d) \/ AlertAges(d), NEW c \in Cases
  PROVE  /\ case'[c].status = case[c].status
         /\ case'[c].step = case[c].step
         /\ case'[c].notice = case[c].notice
         /\ UNCHANGED <<hold, alert, quota, heard, alerted, noted>>
<1> USE DEF ticks, outside
<1>1. case[c] \in Row
  BY DEF TypeInv, TypeOK
<1>2. CASE HoldAges(d)
  BY <1>1, <1>2 DEF TypeInv, TypeOK, Row, HoldAges
<1>3. CASE AlertAges(d)
  BY <1>1, <1>3 DEF TypeInv, TypeOK, Row, AlertAges
<1>4. QED
  BY <1>2, <1>3

----------------------------------------------------------------------------
(* The hold message.                                                       *)

(* What a hold tick does to the ledger, the message row and the customer.  *)
LEMMA HoldOutsideStep ==
  ASSUME TypeInv, NEW h \in HoldTicks, HoldStep(h) \/ HoldDies(h), NEW c \in Cases
  PROVE  /\ heard[c] \subseteq heard'[c]
         /\ \/ /\ c \in noted' <=> c \in noted
               /\ quota'[c] = "CONSUMED" <=> quota[c] = "CONSUMED"
               /\ case'[c].step = case[c].step
            \/ /\ HoldRecord(h) /\ c = hold[h].case
               /\ c \in noted' /\ quota'[c] = "CONSUMED"
               /\ case'[c].step = MaxHoldSteps
         /\ alerted' = alerted
<1> USE DEF TypeInv, TypeOK
<1>1. ASSUME NEW st \in Quota!ReservationStates
      PROVE  /\ Quota!AfterReserve(st) = "CONSUMED" <=> st = "CONSUMED"
             /\ Quota!AfterRelease(st) = "CONSUMED" <=> st = "CONSUMED"
  BY DEF Quota!AfterReserve, Quota!AfterRelease, Quota!Committed
<1>2. case'[c].step # case[c].step => HoldRecord(h) /\ c = hold[h].case
  BY HoldOnRowStep
<1>3. CASE HoldReserve(h)
  <2>1. ~HoldRecord(h)
    BY <1>3 DEF HoldReserve, HoldRecord, Holds
  <2>2. quota'[c] = "CONSUMED" <=> quota[c] = "CONSUMED"
    BY <1>1, <1>3 DEF HoldReserve
  <2>3. QED
    BY <1>2, <1>3, <2>1, <2>2 DEF HoldReserve
<1>4. CASE HoldRelease(h)
  <2>1. ~HoldRecord(h)
    BY <1>4 DEF HoldRelease, HoldRecord, Holds
  <2>2. quota'[c] = "CONSUMED" <=> quota[c] = "CONSUMED"
    BY <1>1, <1>4 DEF HoldRelease
  <2>3. QED
    BY <1>2, <1>4, <2>1, <2>2 DEF HoldRelease
<1>5. CASE HoldSent(h) \/ HoldUncertain(h)
  <2>1. ~HoldRecord(h)
    BY <1>5 DEF HoldSent, HoldUncertain, HoldRecord, Holds
  <2>2. heard[c] \subseteq heard'[c]
    BY <1>5 DEF HoldSent, HoldUncertain, HoldReaches
  <2>3. QED
    BY <1>2, <1>5, <2>1, <2>2 DEF HoldSent, HoldUncertain
<1>6. CASE HoldSweep(h) \/ HoldClaim(h) \/ HoldLook(h) \/ HoldNotReady(h)
           \/ HoldRetry(h) \/ HoldStop(h) \/ HoldDies(h)
  <2>1. UNCHANGED outside
    BY <1>6 DEF HoldSweep, HoldClaim, HoldLook, HoldNotReady, HoldRetry, HoldStop, HoldDies
  <2>2. ~HoldRecord(h) \/ HoldDies(h)
    BY <1>6 DEF HoldSweep, HoldClaim, HoldLook, HoldNotReady, HoldRetry, HoldStop,
       HoldRecord, Holds
  <2>3. HoldDies(h) => case' = case
    BY DEF HoldDies
  <2>4. QED
    BY <1>2, <2>1, <2>2, <2>3 DEF outside
<1>7. CASE HoldRecord(h)
  <2>1. hold[h].case \in Cases
    BY <1>7 DEF HoldRecord, Holds, TicksAtWork
  <2>2. Stopped(case[hold[h].case]) \in Row
    BY <2>1, StoppedTyped
  <2>3. CASE Payable(hold[h].case) /\ c = hold[h].case
    <3>1. [Stopped(case[c]) EXCEPT !.step = MaxHoldSteps].step = MaxHoldSteps
      BY <2>2, <2>3 DEF Row
    <3>2. case'[c].step = MaxHoldSteps /\ c \in noted'
      BY <1>7, <2>1, <2>3, <3>1, RecordsLast DEF HoldRecord, OnHold
    <3>3. quota'[c] = "CONSUMED"
      BY <1>7, <2>1, <2>3 DEF HoldRecord, OnHold, Payable, Quota!Consumable
    <3>4. QED
      BY <1>7, <2>3, <3>2, <3>3 DEF HoldRecord
  <2>4. CASE ~(Payable(hold[h].case) /\ c = hold[h].case)
    <3>1. (c \in noted' <=> c \in noted) /\ quota'[c] = quota[c] /\ case'[c] = case[c]
      BY <1>7, <2>1, <2>4 DEF HoldRecord, OnHold
    <3>2. QED
      BY <1>7, <3>1 DEF HoldRecord
  <2>5. QED
    BY <2>3, <2>4
<1>8. QED
  BY <1>3, <1>4, <1>5, <1>6, <1>7 DEF HoldStep

(* A hold tick reaches "record" only by a send that was answered.          *)
LEMMA HoldHears ==
  ASSUME TypeInv, NEW h \in HoldTicks, HoldStep(h) \/ HoldDies(h),
         hold'[h].pc = "record"
  PROVE  heard'[hold'[h].case] # {}
<1> USE DEF TypeInv, TypeOK, HoldLocal
<1>1. CASE HoldSent(h)
  <2>1. hold[h].case \in Cases /\ hold'[h].case = hold[h].case
    BY <1>1 DEF HoldSent, Holds, TicksAtWork, HoldTo
  <2>2. QED
    BY <1>1, <2>1 DEF HoldSent, HoldReaches, OnHold
<1>2. CASE HoldSweep(h) \/ HoldClaim(h)
  <2>1. CASE HoldSweep(h)
    BY <2>1 DEF HoldSweep, Holds
  <2>2. CASE HoldClaim(h)
    <3>1. PICK step : hold'[h].pc = HoldEntry(step)
      BY <2>2 DEF HoldClaim, HoldIdle
    <3>2. QED
      BY <3>1 DEF HoldEntry
  <2>3. QED
    BY <1>2, <2>1, <2>2
<1>3. CASE HoldLook(h) \/ HoldNotReady(h) \/ HoldUncertain(h) \/ HoldRelease(h)
  <2>1. \E l \in {"reserve", "retry", "release", "stop"} : HoldTo(h, l)
    BY <1>3 DEF HoldLook, HoldNotReady, HoldUncertain, HoldRelease
  <2>2. hold'[h].pc # "record"
    BY <2>1 DEF HoldTo
  <2>3. QED
    BY <2>2
<1>4. CASE HoldReserve(h)
  <2>1. PICK fresh \in BOOLEAN :
          \/ hold' = [hold EXCEPT ![h].pc = "send", ![h].fresh = fresh]
          \/ hold' = [hold EXCEPT ![h].pc = "stop"]
    BY <1>4 DEF HoldReserve, HoldTo
  <2>2. QED
    BY <2>1
<1>5. CASE HoldRetry(h) \/ HoldStop(h) \/ HoldRecord(h) \/ HoldDies(h)
  BY <1>5 DEF HoldRetry, HoldStop, HoldRecord, HoldDies, HoldEnds, HoldIdle
<1>6. QED
  BY <1>1, <1>2, <1>3, <1>4, <1>5 DEF HoldStep

(* A hold tick only starts on an open case.                                *)
LEMMA HoldStarts ==
  ASSUME TypeInv, NEW h \in HoldTicks, HoldStep(h) \/ HoldDies(h),
         hold[h].pc = "idle", hold'[h].pc # "idle"
  PROVE  case[hold'[h].case].status # "NONE"
<1> USE DEF TypeInv, TypeOK
<1>1. CASE HoldClaim(h)
  BY <1>1 DEF HoldClaim, HoldDue, Open, HoldIdle
<1>2. CASE HoldSweep(h)
  BY <1>2 DEF HoldSweep
<1>3. ~(HoldLook(h) \/ HoldReserve(h) \/ HoldSent(h) \/ HoldNotReady(h)
         \/ HoldUncertain(h) \/ HoldRelease(h) \/ HoldRetry(h) \/ HoldStop(h)
         \/ HoldRecord(h) \/ HoldDies(h))
  BY DEF HoldLook, HoldReserve, HoldSent, HoldNotReady, HoldUncertain, HoldRelease,
     HoldRetry, HoldStop, HoldRecord, HoldDies, Holds
<1>4. QED
  BY <1>1, <1>2, <1>3 DEF HoldStep

(* Nobody sends a text under a key past the last step.                     *)
LEMMA KeysStep ==
  ASSUME TypeInv, KeysWithinSteps, [Next]_vars
  PROVE  KeysWithinSteps'
<1>1. ASSUME NEW h \in HoldTicks, HoldSent(h) \/ HoldUncertain(h)
      PROVE  KeysWithinSteps'
  <2>1. hold[h].step < MaxHoldSteps
    BY <1>1 DEF TypeInv, WithinSteps, HoldSent, HoldUncertain, Holds
  <2>2. heard' = heard \/ heard' = [heard EXCEPT ![OnHold(h)] = @ \union {hold[h].step}]
    BY <1>1 DEF HoldSent, HoldUncertain, HoldReaches, HoldKey
  <2>3. QED
    BY <2>1, <2>2 DEF KeysWithinSteps, TypeInv, TypeOK
<1>2. CASE heard' = heard
  BY <1>2 DEF KeysWithinSteps
<1>3. ASSUME NEW h \in HoldTicks, HoldStep(h) \/ HoldDies(h), ~(HoldSent(h) \/ HoldUncertain(h))
      PROVE  heard' = heard
  BY <1>3 DEF HoldStep, HoldSweep, HoldClaim, HoldLook, HoldReserve, HoldNotReady,
     HoldRelease, HoldRetry, HoldStop, HoldRecord, HoldDies, outside
<1>4. ASSUME NEW a \in AlertTicks, AlertStep(a) \/ AlertThrows(a) \/ AlertDies(a)
      PROVE  heard' = heard
  BY <1>4 DEF AlertStep, AlertRequeue, AlertSweep, AlertClaim, AlertRead, AlertSent,
     AlertNotReady, AlertUncertain, AlertSettle, AlertThrows, AlertDies, AlertOnly
<1>5. (People => heard' = heard) /\ \A c \in Cases : (HoldAges(c) \/ AlertAges(c) => heard' = heard)
  BY PeopleChangeRows DEF HoldAges, AlertAges, outside
<1>6. QED
  BY <1>1, <1>2, <1>3, <1>4, <1>5 DEF Next, vars

LEMMA HoldInvStep ==
  ASSUME TypeInv, TypeInv', HoldInv, [Next]_vars
  PROVE  HoldInv'
<1> USE DEF HoldInv
<1>0. KeysWithinSteps'
  BY KeysStep
<1>1. ASSUME People PROVE HoldInv'
  <2>1. UNCHANGED <<hold, quota, heard, alerted, noted>>
    BY <1>1, PeopleChangeRows
  <2>2. BlankRows'
    BY <1>1, PeopleOnRow DEF BlankRows
  <2>3. HoldOnRow'
    BY <1>1, <2>1, PeopleOnRow DEF HoldOnRow, TypeInv, TicksAtWork
  <2>4. HoldIsAccounted'
    BY <1>1, <2>1, PeopleOnRow DEF HoldIsAccounted
  <2>5. QED
    BY <1>0, <2>2, <2>3, <2>4
<1>2. ASSUME NEW h \in HoldTicks, HoldStep(h) \/ HoldDies(h) PROVE HoldInv'
  <2>0. HoldRecord(h) => /\ hold[h].case \in Cases
                         /\ case[hold[h].case].status # "NONE"
                         /\ heard[hold[h].case] # {}
    BY DEF HoldRecord, Holds, HoldOnRow, TypeInv, TicksAtWork
  <2>1. BlankRows'
    BY <1>2, <2>0, HoldOnRowStep DEF BlankRows
  <2>2. ASSUME NEW i \in HoldTicks, hold'[i].pc # "idle"
        PROVE  case'[hold'[i].case].status # "NONE"
    <3>1. hold'[i].case \in Cases
      BY <2>2 DEF TypeInv, TicksAtWork
    <3>2. case[hold'[i].case].status # "NONE"
      BY <1>2, <2>2, HoldKeepsCase, HoldStarts DEF HoldOnRow
    <3>3. QED
      BY <1>2, <3>1, <3>2, HoldOnRowStep
  <2>3. ASSUME NEW i \in HoldTicks, hold'[i].pc = "record"
        PROVE  heard'[hold'[i].case] # {}
    <3>1. CASE i = h
      BY <1>2, <2>3, <3>1, HoldHears
    <3>2. CASE i # h
      <4>1. hold'[i] = hold[i]
        BY <1>2, <3>2, HoldKeepsCase
      <4>2. hold[i].case \in Cases /\ heard[hold[i].case] # {}
        BY <2>3, <4>1 DEF TypeInv, TicksAtWork, HoldOnRow
      <4>3. QED
        BY <1>2, <4>1, <4>2, HoldOutsideStep
    <3>3. QED
      BY <3>1, <3>2
  <2>4. HoldIsAccounted'
    <3>1. ASSUME NEW c \in Cases
          PROVE  /\ c \in noted' <=> case'[c].step = MaxHoldSteps
                 /\ c \in noted' <=> quota'[c] = "CONSUMED"
                 /\ c \in noted' => heard'[c] # {}
      BY <1>2, <2>0, HoldOutsideStep DEF HoldIsAccounted
    <3>2. QED
      BY <3>1 DEF HoldIsAccounted
  <2>5. QED
    BY <1>0, <2>1, <2>2, <2>3, <2>4 DEF HoldOnRow
<1>3. ASSUME NEW a \in AlertTicks, AlertStep(a) \/ AlertThrows(a) \/ AlertDies(a)
      PROVE  HoldInv'
  <2>1. UNCHANGED <<hold, quota, heard, noted>>
    BY <1>3 DEF AlertStep, AlertRequeue, AlertSweep, AlertClaim, AlertRead, AlertSent,
       AlertNotReady, AlertUncertain, AlertSettle, AlertThrows, AlertDies, AlertOnly
  <2>2. BlankRows'
    BY <1>3, AlertOnRowStep DEF BlankRows, Open
  <2>3. HoldOnRow'
    BY <1>3, <2>1, AlertOnRowStep DEF HoldOnRow, TypeInv, TicksAtWork
  <2>4. HoldIsAccounted'
    BY <1>3, <2>1, AlertOnRowStep DEF HoldIsAccounted
  <2>5. QED
    BY <1>0, <2>2, <2>3, <2>4
<1>4. ASSUME NEW d \in Cases, HoldAges(d) \/ AlertAges(d) PROVE HoldInv'
  <2>1. UNCHANGED <<hold, quota, heard, noted>>
    BY <1>4, AgesOnRow
  <2>2. BlankRows' /\ HoldIsAccounted'
    BY <1>4, <2>1, AgesOnRow DEF BlankRows, HoldIsAccounted
  <2>3. HoldOnRow'
    BY <1>4, <2>1, AgesOnRow DEF HoldOnRow, TypeInv, TicksAtWork
  <2>4. QED
    BY <1>0, <2>2, <2>3
<1>5. CASE UNCHANGED vars
  BY <1>0, <1>5 DEF vars, BlankRows, HoldOnRow, HoldIsAccounted
<1>6. QED
  BY <1>1, <1>2, <1>3, <1>4, <1>5 DEF Next

----------------------------------------------------------------------------
(* The alert.                                                              *)

(* Whose alert the runtime executes, and what the tick then settles.       *)
LEMMA AlertOutsideStep ==
  ASSUME TypeInv, NEW a \in AlertTicks,
         AlertStep(a) \/ AlertThrows(a) \/ AlertDies(a)
  PROVE  /\ alerted \subseteq alerted'
         /\ \A c \in alerted' \ alerted :
              alert[a].pc = "send" /\ c = alert[a].case
         /\ alert'[a].pc = "settle" =>
              \/ alert'[a].verdict = "SENT" /\ alert[a].case \in alerted'
              \/ alert'[a].verdict = "UNKNOWN"
              \/ /\ alert'[a].verdict \in Unsent /\ alert[a].pc \in {"read", "send"}
                 /\ alerted' = alerted
<1> USE DEF TypeInv, TypeOK, AlertLocal, AlertTo, Settles, Alerts
<1>1. CASE AlertRequeue(a) \/ AlertSweep(a) \/ AlertClaim(a)
  <2>1. alerted' = alerted
    BY <1>1 DEF AlertRequeue, AlertSweep, AlertClaim
  <2>2. alert'[a].pc # "settle"
    BY <1>1 DEF AlertRequeue, AlertSweep, AlertClaim
  <2>3. QED
    BY <2>1, <2>2
<1>2. CASE AlertRead(a)
  <2>1. \/ AlertTo(a, "send")
        \/ Settles(a, "INELIGIBLE")
    BY <1>2 DEF AlertRead
  <2>2. QED
    BY <1>2, <2>1 DEF AlertRead, Unsent
<1>3. CASE AlertSent(a) \/ AlertUncertain(a)
  BY <1>3 DEF AlertSent, AlertUncertain, OnAlert
<1>4. CASE AlertNotReady(a)
  BY <1>4 DEF AlertNotReady, Unsent
<1>5. CASE AlertThrows(a)
  BY <1>5 DEF AlertThrows
<1>6. CASE AlertSettle(a) \/ AlertDies(a)
  BY <1>6 DEF AlertSettle, AlertDies, AlertEnds, AlertIdle
<1>7. QED
  BY <1>1, <1>2, <1>3, <1>4, <1>5, <1>6 DEF AlertStep

(* A tick changes case only by a claim, of a case that nobody else is at   *)
(* work on; otherwise it goes on with its case or ends.                    *)
LEMMA AlertGoesOn ==
  ASSUME TypeInv, NEW a \in AlertTicks,
         AlertStep(a) \/ AlertThrows(a) \/ AlertDies(a), alert'[a].pc # "idle"
  PROVE  \/ /\ AlertClaim(a) /\ alert'[a].pc = "read" /\ alert'[a].case \in Cases
            /\ case[alert'[a].case].notice = "PENDING"
            /\ case'[alert'[a].case].notice = "SENDING"
         \/ /\ alert[a].pc # "idle" /\ alert'[a].case = alert[a].case
            /\ alert'[a].pc \in {"read", "send"} => alert[a].pc \in {"read", "send"}
            /\ case' = case
<1> USE DEF TypeInv, TypeOK, AlertLocal, AlertTo, Settles, Alerts
<1>1. CASE AlertClaim(a)
  <2>1. PICK c \in Cases :
          /\ case[c].notice = "PENDING"
          /\ case' = [case EXCEPT ![c] = [case[c] EXCEPT !.notice = "SENDING", !.taken = "fresh"]]
          /\ alert' = [alert EXCEPT ![a] = [alert[a] EXCEPT !.pc = "read", !.case = c]]
    BY <1>1 DEF AlertClaim, AlertDue
  <2>2. alert'[a].case = c /\ alert'[a].pc = "read"
    BY <2>1
  <2>3. case'[c].notice = "SENDING"
    BY <2>1 DEF Row
  <2>4. QED
    BY <1>1, <2>1, <2>2, <2>3
<1>2. CASE AlertRequeue(a) \/ AlertSweep(a)
  BY <1>2 DEF AlertRequeue, AlertSweep
<1>3. CASE AlertRead(a) \/ AlertSent(a) \/ AlertUncertain(a) \/ AlertNotReady(a) \/ AlertThrows(a)
  <2>1. CASE AlertRead(a)
    BY <2>1 DEF AlertRead
  <2>2. CASE AlertSent(a) \/ AlertUncertain(a)
    BY <2>2 DEF AlertSent, AlertUncertain
  <2>3. CASE AlertNotReady(a) \/ AlertThrows(a)
    BY <2>3 DEF AlertNotReady, AlertThrows
  <2>4. QED
    BY <1>3, <2>1, <2>2, <2>3
<1>4. CASE AlertSettle(a) \/ AlertDies(a)
  BY <1>4 DEF AlertSettle, AlertDies, AlertEnds, AlertIdle
<1>5. QED
  BY <1>1, <1>2, <1>3, <1>4 DEF AlertStep

(* A step that leaves the ticks and their verdicts alone, and moves an     *)
(* alert at most between the states of one that was not sent.              *)
LEMMA AlertUntouched ==
  ASSUME TypeInv, AlertInv, UNCHANGED <<alert, alerted>>, BlankRows',
         \A c \in Cases : \/ case'[c].notice = case[c].notice
                          \/ {case'[c].notice, case[c].notice} \subseteq Unsent
  PROVE  AlertInv'
<1> USE DEF AlertInv
<1>1. \A a \in AlertTicks : alert[a].pc # "idle" => alert[a].case \in Cases
  BY DEF TypeInv, TicksAtWork
<1>2. AlertIsAlone'
  <2>1. ASSUME NEW c \in Cases, case[c].notice \in {"SENDING", "UNKNOWN"}
        PROVE  case'[c].notice \in {"SENDING", "UNKNOWN"}
    BY <2>1 DEF Unsent
  <2>2. QED
    BY <1>1, <2>1 DEF AlertIsAlone
<1>3. AlertKnows'
  BY DEF AlertKnows
<1>4. AlertVerdictIsTrue'
  BY DEF AlertVerdictIsTrue, Unsent
<1>5. QED
  BY <1>2, <1>3, <1>4

LEMMA AlertTickStep ==
  ASSUME TypeInv, TypeInv', AlertInv, NEW a \in AlertTicks,
         AlertStep(a) \/ AlertThrows(a) \/ AlertDies(a)
  PROVE  AlertInv'
<1> USE DEF AlertInv
<1>1. /\ \A b \in AlertTicks : alert[b].pc # "idle" => alert[b].case \in Cases
      /\ \A b \in AlertTicks : alert'[b].pc # "idle" => alert'[b].case \in Cases
      /\ \A b \in AlertTicks \ {a} : alert'[b] = alert[b]
  BY AlertKeepsCase DEF TypeInv, TicksAtWork
<1>2. BlankRows'
  BY AlertOnRowStep DEF BlankRows, Open
(* Who else is at work on a case still finds its own claim there.          *)
<1>3. ASSUME NEW b \in AlertTicks \ {a}, alert[b].pc # "idle"
      PROVE  /\ case'[alert[b].case].notice \in {"SENDING", "UNKNOWN"}
             /\ alert'[a].pc # "idle" => alert'[a].case # alert[b].case
             /\ alert[b].case \in alerted' <=> alert[b].case \in alerted
  <2>1. alert[b].case \in Cases /\ case[alert[b].case].notice \in {"SENDING", "UNKNOWN"}
    BY <1>1, <1>3 DEF AlertIsAlone
  <2>2. alert[a].pc # "idle" => alert[a].case # alert[b].case
    BY <1>3 DEF AlertIsAlone
  <2>3. AlertSettle(a) => alert[a].pc # "idle"
    BY DEF AlertSettle, Alerts
  <2>4. case'[alert[b].case].notice \in {"SENDING", "UNKNOWN"}
    BY <2>1, <2>2, <2>3, AlertOnRowStep
  <2>5. alert'[a].pc # "idle" => alert'[a].case # alert[b].case
    BY <2>1, <2>2, AlertGoesOn
  <2>6. alert[b].case \in alerted' <=> alert[b].case \in alerted
    BY <2>2, AlertOutsideStep
  <2>7. QED
    BY <2>4, <2>5, <2>6
<1>4. AlertIsAlone'
  <2>1. ASSUME NEW b \in AlertTicks, alert'[b].pc # "idle"
        PROVE  case'[alert'[b].case].notice \in {"SENDING", "UNKNOWN"}
    <3>1. CASE b = a
      BY <2>1, <3>1, AlertGoesOn DEF AlertIsAlone
    <3>2. CASE b # a
      BY <1>1, <1>3, <2>1, <3>2
    <3>3. QED
      BY <3>1, <3>2
  <2>2. ASSUME NEW b \in AlertTicks, NEW d \in AlertTicks \ {b},
               alert'[b].pc # "idle", alert'[d].pc # "idle"
        PROVE  alert'[d].case # alert'[b].case
    <3>1. CASE b = a
      BY <1>1, <1>3, <2>2, <3>1
    <3>2. CASE d = a
      BY <1>1, <1>3, <2>2, <3>2
    <3>3. CASE a \notin {b, d}
      BY <1>1, <2>2, <3>3 DEF AlertIsAlone
    <3>4. QED
      BY <3>1, <3>2, <3>3
  <2>3. QED
    BY <2>1, <2>2 DEF AlertIsAlone
<1>5. AlertKnows'
  <2>1. ASSUME NEW b \in AlertTicks \ {a}
        PROVE  /\ alert'[b].pc \in {"read", "send"} => alert'[b].case \notin alerted'
               /\ alert'[b].pc = "settle" /\ alert'[b].verdict \in Unsent
                    => alert'[b].case \notin alerted'
               /\ alert'[b].pc = "settle" /\ alert'[b].verdict = "SENT"
                    => alert'[b].case \in alerted'
    BY <1>1, <1>3, <2>1 DEF AlertKnows
  <2>2. alert'[a].pc \in {"read", "send"} => alert'[a].case \notin alerted'
    <3>1. SUFFICES ASSUME alert'[a].pc \in {"read", "send"}
                   PROVE  alert'[a].case \notin alerted'
      OBVIOUS
    <3>2. CASE AlertClaim(a)
      <4>1. alerted' = alerted /\ alert[a].pc = "idle"
        BY <3>2 DEF AlertClaim, Alerts
      <4>2. case[alert'[a].case].notice = "PENDING" /\ alert'[a].case \in Cases
        BY <3>1, <4>1, AlertGoesOn
      <4>3. QED
        BY <4>1, <4>2 DEF AlertVerdictIsTrue, Unsent
    <3>3. CASE ~AlertClaim(a)
      <4>1. alert[a].pc \in {"read", "send"} /\ alert'[a].case = alert[a].case
        BY <3>1, <3>3, AlertGoesOn
      <4>2. alerted' = alerted
        <5>1. ~AlertSent(a) /\ ~AlertUncertain(a)
          BY <3>1 DEF AlertSent, AlertUncertain, Settles, TypeInv, TypeOK, AlertLocal
        <5>2. QED
          BY <5>1 DEF AlertStep, AlertRequeue, AlertSweep, AlertClaim, AlertRead,
             AlertNotReady, AlertSettle, AlertThrows, AlertDies
      <4>3. QED
        BY <4>1, <4>2 DEF AlertKnows
    <3>4. QED
      BY <3>2, <3>3
  <2>3. ASSUME alert'[a].pc = "settle"
        PROVE  /\ alert'[a].verdict \in Unsent => alert'[a].case \notin alerted'
               /\ alert'[a].verdict = "SENT" => alert'[a].case \in alerted'
    <3>1. alert'[a].case = alert[a].case
      BY <2>3, AlertGoesOn
    <3>2. alert[a].pc \in {"read", "send"} => alert[a].case \notin alerted
      BY DEF AlertKnows
    <3>3. QED
      BY <2>3, <3>1, <3>2, AlertOutsideStep DEF Unsent
  <2>4. QED
    BY <2>1, <2>2, <2>3 DEF AlertKnows
<1>6. AlertVerdictIsTrue'
  <2>1. SUFFICES ASSUME NEW c \in Cases
                 PROVE  /\ case'[c].notice = "SENT" => c \in alerted'
                        /\ case'[c].notice \in Unsent => c \notin alerted'
    BY DEF AlertVerdictIsTrue
  <2>2. alerted \subseteq alerted'
    BY AlertOutsideStep
  <2>3. ASSUME c \in alerted', c \notin alerted
        PROVE  case[c].notice \in {"SENDING", "UNKNOWN"} /\ ~AlertSettle(a)
    BY <2>3, AlertOutsideStep DEF AlertIsAlone, AlertSettle, Alerts
  <2>4. CASE case'[c].notice = case[c].notice
    BY <2>2, <2>3, <2>4 DEF AlertVerdictIsTrue, Unsent
  <2>5. CASE AlertSettle(a) /\ alert[a].case = c /\ case'[c].notice = alert[a].verdict
    BY <2>2, <2>3, <2>5 DEF AlertSettle, Alerts, AlertKnows
  <2>6. CASE case[c].notice = "INELIGIBLE" /\ case'[c].notice = "PENDING"
    BY <2>3, <2>6 DEF AlertVerdictIsTrue, Unsent
  <2>7. CASE case'[c].notice \in {"SENDING", "UNKNOWN"}
    BY <2>7 DEF Unsent
  <2>8. QED
    BY <2>4, <2>5, <2>6, <2>7, AlertOnRowStep
<1>7. QED
  BY <1>2, <1>4, <1>5, <1>6

LEMMA AlertInvStep ==
  ASSUME TypeInv, TypeInv', HoldInv', AlertInv, [Next]_vars
  PROVE  AlertInv'
<1>0. BlankRows /\ BlankRows'
  BY DEF HoldInv, AlertInv
<1>1. ASSUME People PROVE AlertInv'
  <2>1. UNCHANGED <<alert, alerted>>
    BY <1>1, PeopleChangeRows
  <2>2. QED
    BY <1>0, <1>1, <2>1, PeopleOnRow, AlertUntouched
<1>2. ASSUME NEW h \in HoldTicks, HoldStep(h) \/ HoldDies(h) PROVE AlertInv'
  <2>1. UNCHANGED <<alert, alerted>>
    BY <1>2 DEF HoldStep, HoldSweep, HoldClaim, HoldLook, HoldReserve, HoldSent,
       HoldNotReady, HoldUncertain, HoldRelease, HoldRetry, HoldStop, HoldRecord, HoldDies,
       HoldOnly, outside
  <2>2. QED
    BY <1>0, <1>2, <2>1, HoldOnRowStep, AlertUntouched
<1>3. ASSUME NEW a \in AlertTicks, AlertStep(a) \/ AlertThrows(a) \/ AlertDies(a)
      PROVE  AlertInv'
  BY <1>3, AlertTickStep
<1>4. ASSUME NEW d \in Cases, HoldAges(d) \/ AlertAges(d) PROVE AlertInv'
  <2>1. UNCHANGED <<alert, alerted>>
    BY <1>4, AgesOnRow
  <2>2. QED
    BY <1>0, <1>4, <2>1, AgesOnRow, AlertUntouched
<1>5. CASE UNCHANGED vars
  BY <1>0, <1>5, AlertUntouched DEF vars
<1>6. QED
  BY <1>1, <1>2, <1>3, <1>4, <1>5 DEF Next

----------------------------------------------------------------------------
(* The theorems.                                                           *)

LEMMA CareInit ==
  ASSUME Init
  PROVE  HoldInv /\ AlertInv
<1>1. BlankRows
  BY DEF Init, BlankRows, NoRow
<1>2. HoldOnRow /\ HoldIsAccounted /\ KeysWithinSteps
  BY DEF Init, HoldOnRow, HoldIsAccounted, KeysWithinSteps, HoldIdle, NoRow, MaxHoldSteps
<1>3. AlertIsAlone /\ AlertKnows /\ AlertVerdictIsTrue
  BY DEF Init, AlertIsAlone, AlertKnows, AlertVerdictIsTrue, AlertIdle, NoRow
<1>4. QED
  BY <1>1, <1>2, <1>3 DEF HoldInv, AlertInv

(* The invariant behind the theorems below: a claim without a token is     *)
(* safe because a row leaves PENDING only by a claim, and a tick past its  *)
(* claim finds SENDING or the verdict of the sweep (notifier.ts,           *)
(* customer-hold.ts).                                                      *)
THEOREM CareInvariance == Spec => []CareInv
<1>1. Init => CareInv
  BY TypeInit, CareInit DEF CareInv
<1>2. CareInv /\ [Next]_vars => CareInv'
  BY TypeStep, HoldInvStep, AlertInvStep DEF CareInv
<1>3. QED
  BY <1>1, <1>2, PTL DEF Spec

(* A customer gets one hold text of a case: also a tick that was swept,    *)
(* whose case was taken again, or that arms the hold after another one     *)
(* recorded it sends under the key of the one step there is                *)
(* (customer-hold.ts:32-34).                                               *)
THEOREM OneHold == Spec => []OneHoldMessage
<1>1. CareInv => OneHoldMessage
  <2>1. SUFFICES ASSUME CareInv, NEW c \in Cases PROVE Cardinality(heard[c]) <= 1
    BY DEF OneHoldMessage
  <2>2. /\ heard[c] \subseteq 0 .. MaxHoldSteps
        /\ \A key \in heard[c] : key < MaxHoldSteps
    BY <2>1 DEF CareInv, TypeInv, TypeOK, HoldInv, KeysWithinSteps
  <2>3. heard[c] = {} \/ heard[c] = {0}
    BY <2>2 DEF MaxHoldSteps
  <2>4. Cardinality({}) = 0 /\ Cardinality({0}) = 1
    BY FS_EmptySet, FS_Singleton
  <2>5. QED
    BY <2>3, <2>4
<1>2. QED
  BY <1>1, CareInvariance, PTL

(* The step counter, the message row and the ledger agree on every hold    *)
(* message, whatever dies or stalls in between (customer-hold.ts).         *)
THEOREM HoldsAccounted == Spec => []HoldIsAccounted
<1>1. CareInv => HoldIsAccounted
  BY DEF CareInv, HoldInv
<1>2. QED
  BY <1>1, CareInvariance, PTL

(* The status of an alert is true, so no alert is ever replayed, although  *)
(* finalize is fenced by the status alone (notifier.ts).                   *)
THEOREM AlertsTold == Spec => []AlertVerdictIsTrue
<1>1. CareInv => AlertVerdictIsTrue
  BY DEF CareInv, AlertInv
<1>2. QED
  BY <1>1, CareInvariance, PTL
==============================================================================
