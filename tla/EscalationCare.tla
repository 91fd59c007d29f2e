--------------------------- MODULE EscalationCare ---------------------------
(***************************************************************************)
(* What the workers do for a conversation that waits for a person          *)
(* (src/modules/escalations): one hold message to the customer             *)
(* (customer-hold.ts) and one alert to the owner (notifier.ts), each       *)
(* claimed in the row of TblHumanEscalation without a token, swept after   *)
(* ten minutes and settled by separate statements, while operators, the    *)
(* owner and the customer change the same row (service.ts,                 *)
(* followup-service.ts).                                                   *)
(*                                                                         *)
(* A hold tick and an alert tick are the two interval timers of a worker   *)
(* process; a tick that finds nothing to do leaves no trace, so the sweeps *)
(* and the claim are actions of an idle tick.  Every action is the code    *)
(* between two awaits.  The times of the messages and the pause of the     *)
(* assistant are the subject of ConversationOwnership.                     *)
(***************************************************************************)
EXTENDS Naturals, FiniteSets

CONSTANTS
  Cases,         \* rows of TblHumanEscalation of one conversation
  HoldTicks,     \* customerHoldTick of each worker process
  AlertTicks,    \* notificationTick of each worker process
  NoCase,
  MaxMishaps,    \* bound: ticks that die or stall beyond ten minutes, statements
                 \* that fail, sends answered NOT_READY, channels found inactive
  MaxOwner       \* bound: changes of the owner's alert settings

ASSUME CareAssumption ==
  /\ NoCase \notin Cases
  /\ {MaxMishaps, MaxOwner} \subseteq Nat

VARIABLES
  case,        \* case[c]: the row
  hold,        \* hold[h]: local variables of deliverNextCustomerHoldMessage
  alert,       \* alert[a]: local variables of deliverNextEscalationNotification
  quota,       \* State of the reservation escalation-hold:<id>:0, the only one
               \* to be taken while a claim past the last step goes nowhere
  heard,       \* heard[c]: keys escalation-hold:<id>:step-<n>, by their step,
               \* under which a hold text reached the customer
  alerted,     \* cases whose alert the runtime has executed
  noted,       \* cases whose hold text has a TblMessage row
  eligible,    \* isOwnerNotifyEligible with the current settings
  mishaps, owner

ticks == <<hold, alert>>
outside == <<quota, heard, alerted, noted>>
bounds == <<mishaps, owner>>
vars == <<case, hold, alert, quota, heard, alerted, noted, eligible, mishaps, owner>>

Quota == INSTANCE Reservation WITH Keys <- Cases, resv <- quota

MaxHoldSteps == 1
Ages == {"none", "fresh", "stale"}
Unsent == {"PENDING", "CANCELLED", "INELIGIBLE"}
Verdicts == Unsent \union {"SENDING", "SENT", "UNKNOWN"}

(* INELIGIBLE stands for CANCELLED with the code NOTIFICATION_NOT_ELIGIBLE;*)
(* "armed" for a CustomerHoldNextAtUtc, whose delay is left to the         *)
(* scheduler; claim and taken are the ages of the two ClaimedAtUtc, the    *)
(* latter of interest while the alert is SENDING.                          *)
Row == [status: {"NONE", "OPEN", "ACKNOWLEDGED", "RESOLVED"},
        step: 0 .. MaxHoldSteps, armed: BOOLEAN, claim: Ages,
        notice: Verdicts, taken: Ages,
        answered: BOOLEAN,       \* LastHumanReplyAtUtc is set
        fromInbox: BOOLEAN]      \* a TblMessage row of Origin HUMAN since its creation

NoRow == [status |-> "NONE", step |-> 0, armed |-> FALSE, claim |-> "none",
          notice |-> "CANCELLED", taken |-> "none", answered |-> FALSE,
          fromInbox |-> FALSE]

HoldPoints == {"idle", "look", "reserve", "send", "release", "retry", "stop", "record"}
AlertPoints == {"idle", "read", "send", "settle"}

HoldLocal == [pc: HoldPoints, case: Cases \union {NoCase}, fresh: BOOLEAN,
              step: 0 .. MaxHoldSteps,   \* as the claim read it
              late: BOOLEAN]     \* history: the case was answered at the claim
AlertLocal == [pc: AlertPoints, case: Cases \union {NoCase}, verdict: Verdicts]

HoldIdle == [pc |-> "idle", case |-> NoCase, fresh |-> FALSE, step |-> 0,
             late |-> FALSE]
AlertIdle == [pc |-> "idle", case |-> NoCase, verdict |-> "UNKNOWN"]

Open(c) == case[c].status \in {"OPEN", "ACKNOWLEDGED"}

Mishap == mishaps < MaxMishaps /\ mishaps' = mishaps + 1 /\ UNCHANGED owner

----------------------------------------------------------------------------
(* People: operators, the owner, the customer.                             *)

ByPeople == UNCHANGED <<ticks, outside, eligible, bounds>>

(* createEscalation without an unresolved case.                            *)
CreateCase(c) ==
  /\ case[c].status = "NONE"
  /\ \A d \in Cases : ~Open(d)
  /\ case' = [case EXCEPT ![c] =
       [NoRow EXCEPT !.status = "OPEN", !.armed = TRUE,
                     !.notice = IF eligible THEN "PENDING" ELSE "CANCELLED"]]
  /\ ByPeople

(* createEscalation on an unresolved case repairs an alert that was        *)
(* cancelled, and arms the hold again while nobody has answered.           *)
RepairCase(c) ==
  /\ Open(c) /\ eligible
  /\ case[c].notice \in {"CANCELLED", "INELIGIBLE"}
  /\ case' = [case EXCEPT ![c].notice = "PENDING",
                          ![c].armed = case[c].step = 0 /\ ~case[c].answered]
  /\ ByPeople

(* updateEscalationStatus to ACKNOWLEDGED leaves a claim in place.         *)
AcknowledgeCase(c) ==
  /\ Open(c)
  /\ case' = [case EXCEPT ![c].status = "ACKNOWLEDGED", ![c].armed = FALSE]
  /\ ByPeople

Resolved(row) ==
  [row EXCEPT !.status = "RESOLVED", !.armed = FALSE, !.claim = "none",
              !.notice = IF @ = "PENDING" THEN "CANCELLED" ELSE @]

ResolveCase(c) ==
  /\ Open(c)
  /\ case' = [case EXCEPT ![c] = Resolved(@)]
  /\ ByPeople

(* recordHumanFollowUpReply, after a reply from the inbox, which is stored *)
(* as a message, or one observed from the phone, which is not.             *)
HumanAnswers(c, inbox) ==
  /\ Open(c)
  /\ case' = [case EXCEPT ![c].status = "ACKNOWLEDGED", ![c].answered = TRUE,
                          ![c].fromInbox = @ \/ inbox,
                          ![c].armed = FALSE, ![c].claim = "none"]
  /\ ByPeople

(* recordCustomerFollowUpReply with an explicit confirmation.              *)
CustomerConfirms(c) ==
  /\ Open(c) /\ case[c].answered
  /\ case' = [case EXCEPT ![c] = Resolved(@)]
  /\ ByPeople

(* updateEscalationSetting, confirmOwnerVerification: alerts become        *)
(* possible or stop being so.                                              *)
SettingChanges ==
  /\ owner < MaxOwner /\ owner' = owner + 1
  /\ eligible' = ~eligible
  /\ UNCHANGED <<case, ticks, outside, mishaps>>

People == \/ \E c \in Cases : \/ CreateCase(c) \/ RepairCase(c) \/ AcknowledgeCase(c)
                              \/ ResolveCase(c) \/ CustomerConfirms(c)
                              \/ \E inbox \in BOOLEAN : HumanAnswers(c, inbox)
          \/ SettingChanges

----------------------------------------------------------------------------
(* The hold message.                                                       *)

Holds(h, l) == hold[h].pc = l
HoldTo(h, l) == hold' = [hold EXCEPT ![h].pc = l]
HoldEnds(h) == hold' = [hold EXCEPT ![h] = HoldIdle]
HoldOnly == UNCHANGED <<alert, eligible>>
OnHold(h) == hold[h].case

(* stopHold: whatever became of the row meanwhile.                         *)
Stopped(row) == [row EXCEPT !.armed = FALSE, !.claim = "none"]

(* Faulty variant of HoldStuck: a claim is given up only in a case that    *)
(* nobody has acknowledged.                                                *)
HoldStuckUnseen(c) == case[c].status = "OPEN" /\ case[c].claim = "stale"

HoldStuck(c) == Open(c) /\ case[c].claim = "stale"

(* A claim older than ten minutes is given up: its text may be out.        *)
HoldSweep(h) ==
  /\ Holds(h, "idle")
  /\ \E c \in Cases : HoldStuck(c)
  /\ case' = [c \in Cases |-> IF HoldStuck(c) THEN Stopped(case[c]) ELSE case[c]]
  /\ HoldOnly /\ UNCHANGED <<hold, outside, bounds>>

HoldDue(c) == Open(c) /\ case[c].armed /\ case[c].claim = "none"

(* Faulty variant of HoldEntry: whoever is due is sent the next text.      *)
HoldEntryUnbounded(step) == "look"

(* Where a claim that read this step goes on.                              *)
HoldEntry(step) == IF step >= MaxHoldSteps THEN "stop" ELSE "look"

HoldClaim(h) ==
  /\ Holds(h, "idle")
  /\ \E c \in Cases :
       /\ HoldDue(c)
       /\ case' = [case EXCEPT ![c].claim = "fresh"]
       /\ hold' = [hold EXCEPT ![h] =
            [HoldIdle EXCEPT !.case = c, !.late = case[c].answered,
               !.step = case[c].step, !.pc = HoldEntry(case[c].step)]]
  /\ HoldOnly /\ UNCHANGED <<outside, bounds>>

(* humanAlreadyReplied reads TblMessage only; then the destination, which  *)
(* may be unavailable.                                                     *)
HoldLook(h) ==
  /\ Holds(h, "look")
  /\ \/ ~case[OnHold(h)].fromInbox /\ HoldTo(h, "reserve") /\ UNCHANGED bounds
     \/ case[OnHold(h)].fromInbox /\ HoldTo(h, "stop") /\ UNCHANGED bounds
     \/ HoldTo(h, "stop") /\ Mishap
  /\ HoldOnly /\ UNCHANGED <<case, outside>>

HoldReserve(h) ==
  LET c == OnHold(h) IN
  /\ Holds(h, "reserve")
  /\ \/ /\ quota' = [quota EXCEPT ![c] = Quota!AfterReserve(@)]
        /\ hold' = [hold EXCEPT ![h].pc = "send",
                                ![h].fresh = quota[c] \notin Quota!Committed]
     \/ HoldTo(h, "stop") /\ UNCHANGED quota          \* a plan error
  /\ HoldOnly /\ UNCHANGED <<case, heard, alerted, noted, bounds>>

(* The runtime executes a key once, whoever sends it; the key is that of   *)
(* the step the sender has read.                                           *)
HoldKey(h) == hold[h].step
HoldReaches(h) == heard' = [heard EXCEPT ![OnHold(h)] = @ \union {HoldKey(h)}]

HoldSent(h) ==
  /\ Holds(h, "send")
  /\ HoldReaches(h) /\ HoldTo(h, "record")
  /\ HoldOnly /\ UNCHANGED <<case, quota, alerted, noted, bounds>>

(* Thrown, a NOT_READY gives a fresh reservation back; answered, it does   *)
(* not.                                                                    *)
HoldNotReady(h) ==
  /\ Holds(h, "send") /\ Mishap
  /\ \/ HoldTo(h, "retry")
     \/ hold[h].fresh /\ HoldTo(h, "release")
  /\ HoldOnly /\ UNCHANGED <<case, outside>>

(* Any other error or refusal: the text may have been sent.                *)
HoldUncertain(h) ==
  /\ Holds(h, "send")
  /\ HoldReaches(h) \/ UNCHANGED heard
  /\ HoldTo(h, "stop")
  /\ HoldOnly /\ UNCHANGED <<case, quota, alerted, noted, bounds>>

(* A failing release is swallowed.                                         *)
HoldRelease(h) ==
  /\ Holds(h, "release")
  /\ \/ quota' = [quota EXCEPT ![OnHold(h)] = Quota!AfterRelease(@)] /\ UNCHANGED bounds
     \/ UNCHANGED quota /\ Mishap
  /\ HoldTo(h, "retry")
  /\ HoldOnly /\ UNCHANGED <<case, heard, alerted, noted>>

(* Due again in ninety seconds, whatever became of the row meanwhile.      *)
HoldRetry(h) ==
  /\ Holds(h, "retry")
  /\ case' = [case EXCEPT ![OnHold(h)].claim = "none", ![OnHold(h)].armed = TRUE]
  /\ HoldEnds(h)
  /\ HoldOnly /\ UNCHANGED <<outside, bounds>>

HoldStop(h) ==
  /\ Holds(h, "stop")
  /\ case' = [case EXCEPT ![OnHold(h)] = Stopped(@)]
  /\ HoldEnds(h)
  /\ HoldOnly /\ UNCHANGED <<outside, bounds>>

(* Faulty variant of Payable: the outcome of the ledger call is not seen.  *)
PayableAnyway(c) == TRUE

Payable(c) == Quota!Consumable(quota[c])

(* One transaction: message, ledger, row.  It rolls back when the          *)
(* reservation is gone, and the claim stays behind.                        *)
HoldRecord(h) ==
  LET c == OnHold(h) IN
  /\ Holds(h, "record")
  /\ IF Payable(c)
       THEN /\ noted' = noted \union {c}
            /\ quota' = [quota EXCEPT ![c] = IF @ \in Quota!Committed THEN "CONSUMED" ELSE @]
            /\ case' = [case EXCEPT ![c] =
                 [Stopped(@) EXCEPT !.step = hold[h].step + 1]]
       ELSE UNCHANGED <<noted, quota, case>>
  /\ HoldEnds(h)
  /\ HoldOnly /\ UNCHANGED <<heard, alerted, bounds>>

(* The process dies or a statement throws.                                 *)
HoldDies(h) ==
  /\ hold[h].pc # "idle"
  /\ Mishap /\ HoldEnds(h)
  /\ HoldOnly /\ UNCHANGED <<case, outside>>

HoldStep(h) == \/ HoldSweep(h) \/ HoldClaim(h) \/ HoldLook(h) \/ HoldReserve(h)
               \/ HoldSent(h) \/ HoldNotReady(h) \/ HoldUncertain(h) \/ HoldRelease(h)
               \/ HoldRetry(h) \/ HoldStop(h) \/ HoldRecord(h)

(* Time passes over a claim; under a running tick, this is a stall.        *)
HoldAges(c) ==
  /\ case[c].claim = "fresh"
  /\ case' = [case EXCEPT ![c].claim = "stale"]
  /\ IF \E h \in HoldTicks : OnHold(h) = c
       THEN Mishap ELSE UNCHANGED bounds
  /\ UNCHANGED <<ticks, outside, eligible>>

----------------------------------------------------------------------------
(* The alert to the owner.                                                 *)

Alerts(a, l) == alert[a].pc = l
AlertTo(a, l) == alert' = [alert EXCEPT ![a].pc = l]
AlertEnds(a) == alert' = [alert EXCEPT ![a] = AlertIdle]
Settles(a, v) == alert' = [alert EXCEPT ![a].pc = "settle", ![a].verdict = v]
AlertOnly == UNCHANGED <<hold, eligible, quota, heard, noted>>
OnAlert(a) == alert[a].case

Requeuable(c) == case[c].notice = "INELIGIBLE" /\ Open(c) /\ eligible

(* Alerts cancelled only because the settings did not allow them.          *)
AlertRequeue(a) ==
  /\ Alerts(a, "idle")
  /\ \E c \in Cases : Requeuable(c)
  /\ case' = [c \in Cases |-> IF Requeuable(c)
                                THEN [case[c] EXCEPT !.notice = "PENDING"] ELSE case[c]]
  /\ AlertOnly /\ UNCHANGED <<alert, alerted, bounds>>

AlertStuck(c) == case[c].notice = "SENDING" /\ case[c].taken = "stale"

(* Faulty variant of Swept: the alert is queued again.                     *)
SweptToPending(row) == [row EXCEPT !.notice = "PENDING", !.taken = "none"]

(* The runtime may have sent it: never replayed.                           *)
Swept(row) == [row EXCEPT !.notice = "UNKNOWN", !.taken = "none"]

AlertSweep(a) ==
  /\ Alerts(a, "idle")
  /\ \E c \in Cases : AlertStuck(c)
  /\ case' = [c \in Cases |-> IF AlertStuck(c) THEN Swept(case[c]) ELSE case[c]]
  /\ AlertOnly /\ UNCHANGED <<alert, alerted, bounds>>

AlertDue(c) == Open(c) /\ case[c].notice = "PENDING"

AlertClaim(a) ==
  /\ Alerts(a, "idle")
  /\ \E c \in Cases :
       /\ AlertDue(c)
       /\ case' = [case EXCEPT ![c].notice = "SENDING", ![c].taken = "fresh"]
       /\ alert' = [alert EXCEPT ![a].pc = "read", ![a].case = c]
  /\ AlertOnly /\ UNCHANGED <<alerted, bounds>>

(* Settings, channel and contact as they are now.                          *)
AlertRead(a) ==
  /\ Alerts(a, "read")
  /\ \/ eligible /\ AlertTo(a, "send") /\ UNCHANGED bounds
     \/ ~eligible /\ Settles(a, "INELIGIBLE") /\ UNCHANGED bounds
     \/ Settles(a, "INELIGIBLE") /\ Mishap
  /\ AlertOnly /\ UNCHANGED <<case, alerted>>

AlertSent(a) ==
  /\ Alerts(a, "send")
  /\ alerted' = alerted \union {OnAlert(a)} /\ Settles(a, "SENT")
  /\ AlertOnly /\ UNCHANGED <<case, bounds>>

AlertNotReady(a) ==
  /\ Alerts(a, "send") /\ Mishap
  /\ Settles(a, "PENDING")
  /\ AlertOnly /\ UNCHANGED <<case, alerted>>

AlertUncertain(a) ==
  /\ Alerts(a, "send")
  /\ alerted' \in {alerted, alerted \union {OnAlert(a)}}
  /\ Settles(a, "UNKNOWN")
  /\ AlertOnly /\ UNCHANGED <<case, bounds>>

(* finalize is fenced by the status alone.                                 *)
AlertSettle(a) ==
  LET c == OnAlert(a) IN
  /\ Alerts(a, "settle")
  /\ case' = [case EXCEPT ![c] =
                IF @.notice = "SENDING"
                  THEN [@ EXCEPT !.notice = alert[a].verdict, !.taken = "none"] ELSE @]
  /\ AlertEnds(a)
  /\ AlertOnly /\ UNCHANGED <<alerted, bounds>>

(* An error inside the try, finalize itself included, settles as UNKNOWN.  *)
AlertThrows(a) ==
  /\ alert[a].pc \in {"read", "settle"} /\ Mishap
  /\ Settles(a, "UNKNOWN")
  /\ AlertOnly /\ UNCHANGED <<case, alerted>>

AlertDies(a) ==
  /\ alert[a].pc # "idle" /\ Mishap
  /\ AlertEnds(a)
  /\ AlertOnly /\ UNCHANGED <<case, alerted>>

AlertStep(a) == \/ AlertRequeue(a) \/ AlertSweep(a) \/ AlertClaim(a) \/ AlertRead(a)
                \/ AlertSent(a) \/ AlertNotReady(a) \/ AlertUncertain(a) \/ AlertSettle(a)

AlertAges(c) ==
  /\ case[c].notice = "SENDING" /\ case[c].taken = "fresh"
  /\ case' = [case EXCEPT ![c].taken = "stale"]
  /\ IF \E a \in AlertTicks : OnAlert(a) = c
       THEN Mishap ELSE UNCHANGED bounds
  /\ UNCHANGED <<ticks, outside, eligible>>

----------------------------------------------------------------------------
Init ==
  /\ case = [c \in Cases |-> NoRow]
  /\ hold = [h \in HoldTicks |-> HoldIdle]
  /\ alert = [a \in AlertTicks |-> AlertIdle]
  /\ quota = [c \in Cases |-> "NONE"]
  /\ heard = [c \in Cases |-> {}]
  /\ alerted = {} /\ noted = {}
  /\ eligible \in BOOLEAN
  /\ mishaps = 0 /\ owner = 0

Next == \/ People
        \/ \E h \in HoldTicks : HoldStep(h) \/ HoldDies(h)
        \/ \E a \in AlertTicks : AlertStep(a) \/ AlertThrows(a) \/ AlertDies(a)
        \/ \E c \in Cases : HoldAges(c) \/ AlertAges(c)

Spec == Init /\ [][Next]_vars

(* The interval timers keep ticking, every call of a tick returns, and     *)
(* time passes over a claim.                                               *)
Fairness == /\ \A h \in HoldTicks : WF_vars(HoldStep(h))
            /\ \A a \in AlertTicks : WF_vars(AlertStep(a))
            /\ \A c \in Cases : WF_vars(HoldAges(c)) /\ WF_vars(AlertAges(c))

FairSpec == Spec /\ Fairness

----------------------------------------------------------------------------
(* Properties.                                                             *)

(* Every variable has its type.                                            *)
TypeOK ==
  /\ case \in [Cases -> Row]
  /\ hold \in [HoldTicks -> HoldLocal]
  /\ alert \in [AlertTicks -> AlertLocal]
  /\ quota \in [Cases -> Quota!ReservationStates]
  /\ heard \in [Cases -> SUBSET (0 .. MaxHoldSteps)]
  /\ alerted \subseteq Cases /\ noted \subseteq Cases
  /\ eligible \in BOOLEAN
  /\ mishaps \in 0 .. MaxMishaps /\ owner \in 0 .. MaxOwner

(* A customer gets one hold text of a case (customer-hold.ts:32-34),       *)
(* although a claim given up after ten minutes may be taken again while    *)
(* its sender is still at work, and that sender, late, arms the hold once  *)
(* more, whatever the other one has sent and recorded meanwhile.           *)
OneHoldMessage == \A c \in Cases : Cardinality(heard[c]) <= 1

(* The step counter, the message row and the ledger agree: a hold that is  *)
(* on record was heard and is paid for, once.                              *)
HoldIsAccounted ==
  \A c \in Cases :
     /\ c \in noted <=> case[c].step = MaxHoldSteps
     /\ c \in noted <=> quota[c] = "CONSUMED"
     /\ c \in noted => heard[c] # {}

(* The status of the alert is true: SENT was sent, and one that may still  *)
(* be sent, or never will, was not; so no alert is ever replayed.          *)
AlertVerdictIsTrue ==
  \A c \in Cases :
     /\ case[c].notice = "SENT" => c \in alerted
     /\ case[c].notice \in Unsent => c \notin alerted

AlertOwed(c) == Open(c) /\ case[c].notice \in {"PENDING", "SENDING"}

(* No claim of a hold is kept for ever, though nothing but the sweep frees *)
(* that of a dead tick, and the alert of an open case is decided.          *)
CareSettles ==
  \A c \in Cases : /\ case[c].claim # "none" ~> case[c].claim = "none"
                   /\ AlertOwed(c) ~> ~AlertOwed(c)

(* customer-hold.ts:104: hold messages stop when a human agent replies.  A *)
(* text may be under way at that moment; one that is claimed later may not *)
(* be sent.                                                                *)
HoldStopsAtAnswer == \A h \in HoldTicks : Holds(h, "send") => ~hold[h].late
============================================================================
