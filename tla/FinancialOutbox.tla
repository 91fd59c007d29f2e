-------------------------- MODULE FinancialOutbox --------------------------
(***************************************************************************)
(* TblSaasFinancialOutbox and the workers that empty it into the financial *)
(* Hub (src/modules/billing/saas-financial-worker.ts, -client.ts and       *)
(* -delivery-repository.ts).  A row is captured in the transaction of the  *)
(* approval or of the refund it reports; the module that owns those        *)
(* transactions calls Capture.  Workers lease one row at a time, post its  *)
(* immutable payload and settle the row under the lease.                   *)
(*                                                                         *)
(* Times are abstracted: a lease is live or not, a row put back is due at  *)
(* once (the delay only postpones the next claim, and any postponement is  *)
(* a behaviour).  AttemptCount < 2^31 - 1 is taken for granted.            *)
(***************************************************************************)
EXTENDS Naturals

CONSTANTS
  Payments,         \* payment requests an event can be about
  Posters,          \* worker processes
  Nobody,           \* LeaseOwner = NULL
  NoEvent,          \* a worker that holds no claim
  MaxTrouble        \* bound on lost answers, refusals, deaths and stalls

VARIABLES
  outbox,           \* outbox[e] : row of event e, "NONE" while not captured
  hub,              \* events the Hub has booked
  poster,           \* poster[w] : what worker w is doing
  trouble           \* number of troubles so far, at most MaxTrouble

outboxVars == <<outbox, hub, poster, trouble>>

PaidEvent(p) == <<"payment.confirmed", p>>
RefundEvent(p) == <<"payment.refunded", p>>
Events == {"payment.confirmed", "payment.refunded"} \X Payments

Uncaptured == [state |-> "NONE", owner |-> Nobody, live |-> FALSE]
Due == [state |-> "PENDING", owner |-> Nobody, live |-> FALSE]
Resting == [pc |-> "rest", event |-> NoEvent, answer |-> "none"]

Trouble == trouble < MaxTrouble /\ trouble' = trouble + 1

----------------------------------------------------------------------------
(* The insert of the event by the transaction that makes it true.          *)
Capture(e) == outbox' = [outbox EXCEPT ![e] = Due]

(* The claim that only sees PENDING rows.                                  *)
PendingOnly(e) == outbox[e].state = "PENDING"

(* A row is due, or its lease has run out.                                 *)
Claimable(e) ==
  \/ outbox[e].state = "PENDING"
  \/ outbox[e].state = "LEASED" /\ ~outbox[e].live

(* claimFinancialEvent: one UPDATE leases the row to a fresh token; a      *)
(* worker has one claim at a time, so its name stands for the token.       *)
Claim(w, e) ==
  /\ poster[w].pc = "rest" /\ Claimable(e)
  /\ outbox' = [outbox EXCEPT ![e] = [state |-> "LEASED", owner |-> w,
                                      live |-> TRUE]]
  /\ poster' = [poster EXCEPT ![w] = [pc |-> "post", event |-> e,
                                      answer |-> "none"]]
  /\ UNCHANGED <<hub, trouble>>

Hears(w, answer) ==
  poster' = [poster EXCEPT ![w].pc = "settle", ![w].answer = answer]

(* The Hub refuses a refund whose payment it has not booked.               *)
OriginalKnown(e) == e[1] = "payment.refunded" => PaidEvent(e[2]) \in hub

(* 201, or 200 for an event it has booked before.                          *)
PostAccepted(w) ==
  LET e == poster[w].event
  IN /\ poster[w].pc = "post" /\ OriginalKnown(e)
     /\ hub' = hub \union {e}
     /\ Hears(w, "accepted")
     /\ UNCHANGED <<outbox, trouble>>

(* 409 original_payment_missing, and only that conflict, is tried again.   *)
PostTooEarly(w) ==
  /\ poster[w].pc = "post" /\ ~OriginalKnown(poster[w].event)
  /\ Hears(w, "retry")
  /\ UNCHANGED <<outbox, hub, trouble>>

(* The Hub has booked the event, or has not.                               *)
MayBook(e) ==
  hub' \in {hub} \union (IF OriginalKnown(e) THEN {hub \union {e}} ELSE {})

(* 429, 5xx or a lost answer.                                              *)
PostUncertain(w) ==
  /\ poster[w].pc = "post" /\ Trouble
  /\ MayBook(poster[w].event)
  /\ Hears(w, "retry")
  /\ UNCHANGED outbox

(* The payload fails the local check, or the Hub answers 401, 403, 409,    *)
(* 422, a redirect, or a 200 or 201 that is no acknowledgement, although   *)
(* it may have booked the event (INVALID_SUCCESS).                         *)
PostRefused(w) ==
  /\ poster[w].pc = "post" /\ Trouble
  /\ MayBook(poster[w].event)
  /\ Hears(w, "review")
  /\ UNCHANGED outbox

(* The verdict that takes a conflict for a duplicate.                      *)
ConflictIsAccepted(answer) ==
  CASE answer \in {"accepted", "review"} -> "ACCEPTED"
    [] OTHER -> "PENDING"

Verdict(answer) ==
  CASE answer = "accepted" -> "ACCEPTED"
    [] answer = "review"   -> "DEAD"
    [] OTHER               -> "PENDING"

(* A settlement by event id alone.                                         *)
HoldsAnyToken(w, e) == outbox[e].state # "NONE"

(* WHERE DeliveryState = LEASED AND LeaseOwner = @token AND not expired.   *)
Holds(w, e) ==
  outbox[e].state = "LEASED" /\ outbox[e].owner = w /\ outbox[e].live

(* settleFinancialEvent: a lease that was lost settles nothing.            *)
Settle(w) ==
  LET e == poster[w].event
  IN /\ poster[w].pc = "settle"
     /\ outbox' = IF Holds(w, e)
                  THEN [outbox EXCEPT ![e] =
                          [state |-> Verdict(poster[w].answer),
                           owner |-> Nobody, live |-> FALSE]]
                  ELSE outbox
     /\ poster' = [poster EXCEPT ![w] = Resting]
     /\ UNCHANGED <<hub, trouble>>

(* The process dies, or the database fails it and the loop goes on.        *)
PosterDies(w) ==
  /\ poster[w].pc # "rest" /\ Trouble
  /\ poster' = [poster EXCEPT ![w] = Resting]
  /\ UNCHANGED <<outbox, hub>>

Works(e) ==
  \E w \in Posters : /\ outbox[e].owner = w
                     /\ poster[w].pc # "rest" /\ poster[w].event = e

(* Sixty seconds pass over a lease nobody works under.                     *)
LeaseRunsOut(e) ==
  /\ outbox[e].live /\ ~Works(e)
  /\ outbox' = [outbox EXCEPT ![e].live = FALSE]
  /\ UNCHANGED <<hub, poster, trouble>>

(* A stalled worker outlives its lease.                                    *)
LeaseLost(e) ==
  /\ outbox[e].live /\ Works(e) /\ Trouble
  /\ outbox' = [outbox EXCEPT ![e].live = FALSE]
  /\ UNCHANGED <<hub, poster>>

----------------------------------------------------------------------------
OutboxInit ==
  /\ outbox = [e \in Events |-> Uncaptured]
  /\ hub = {}
  /\ poster = [w \in Posters |-> Resting]
  /\ trouble = 0

PosterStep(w) ==
  \/ \E e \in Events : Claim(w, e)
  \/ PostAccepted(w) \/ PostTooEarly(w) \/ PostUncertain(w)
  \/ PostRefused(w) \/ Settle(w)

OutboxStep ==
  \/ \E w \in Posters : PosterStep(w) \/ PosterDies(w)
  \/ \E e \in Events : LeaseRunsOut(e) \/ LeaseLost(e)

(* What the owner of the payments may do to the outbox: capture an event   *)
(* once, a refund only after its payment.                                  *)
Captured(e) ==
  /\ outbox[e].state = "NONE"
  /\ e[1] = "payment.refunded" => outbox[PaidEvent(e[2])].state # "NONE"
  /\ Capture(e)
  /\ UNCHANGED <<hub, poster, trouble>>

OutboxNext == OutboxStep \/ \E e \in Events : Captured(e)

OutboxSpec == OutboxInit /\ [][OutboxNext]_outboxVars

(* Every worker's loop goes on, leases run out, and rows are claimed by    *)
(* the order of NextAttemptAtUtc, so that none is passed over for ever.    *)
Fairness ==
  /\ \A w \in Posters : WF_outboxVars(PosterStep(w))
  /\ \A e \in Events :
       /\ WF_outboxVars(LeaseRunsOut(e))
       /\ SF_outboxVars(\E w \in Posters : Claim(w, e))

FairOutboxSpec == OutboxSpec /\ Fairness

----------------------------------------------------------------------------
(* A row that says ACCEPTED is in the Hub's books, although leases expire  *)
(* under a worker, two workers post the same event and answers get lost;   *)
(* and the Hub has booked nothing that was not captured.                   *)
AcceptedIsBooked ==
  \A e \in Events :
    /\ outbox[e].state = "ACCEPTED" => e \in hub
    /\ e \in hub => outbox[e].state # "NONE"

(* A verdict is final: no worker that lost its lease takes back what       *)
(* another one settled.                                                    *)
VerdictIsFinal ==
  [][\A e \in Events : outbox[e].state \in {"ACCEPTED", "DEAD"} =>
                         outbox'[e] = outbox[e]]_outboxVars

(* Every captured event reaches a verdict, with one exception the code     *)
(* has: a refund whose payment the Hub never got is tried again for ever.  *)
HasVerdict(e) == outbox[e].state \in {"ACCEPTED", "DEAD"}
Orphaned(e) ==
  /\ e[1] = "payment.refunded"
  /\ outbox[PaidEvent(e[2])].state = "DEAD" /\ PaidEvent(e[2]) \notin hub
EventsSettle ==
  \A e \in Events :
    outbox[e].state # "NONE" ~> HasVerdict(e) \/ Orphaned(e)

============================================================================
