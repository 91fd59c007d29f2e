--------------------------- MODULE ManualPayment ---------------------------
(***************************************************************************)
(* Manual InstaPay billing of one business (src/modules/billing): payment  *)
(* requests and their invoices, receipts, coupons and refunds, the         *)
(* subscription they buy, scheduled downgrades and cancellations, the      *)
(* hourly maintenance, and the capture of financial events, composed with  *)
(* the outbox that delivers them (FinancialOutbox).                        *)
(*                                                                         *)
(* Every operation is one transaction under the business lock, except two  *)
(* that are several: the creation of an intent (read, cancel the stale     *)
(* one, insert) and the stale sweep of the maintenance (two statements).   *)
(*                                                                         *)
(* Time is relative: every date is kept as the number of ticks left until  *)
(* it, and a tick decrements them all.  The interval is monthly (an annual *)
(* one only makes the period longer), the catalogue is active, one coupon  *)
(* exists, and refund processing is configured.  Financial capture is      *)
(* enabled and every approval is past its cutoff: capture of a payment is  *)
(* never skipped (saas-financial-outbox.ts 36-37, 46-50), and the refusal  *)
(* of a refund whose payment was not captured (-refund-outbox.ts 29-41)    *)
(* does not occur.                                                         *)
(***************************************************************************)
EXTENDS FinancialOutbox, Integers, FiniteSets

CONSTANTS
  Tabs,             \* concurrent createManualPaymentIntent calls
  Wants,            \* requests a customer makes: [plan, coupon]
  Month, Grace, Window,  \* period, grace and renewal window, in ticks
  MaxRedemptions,   \* of the coupon
  NoPayment

Plans == {"FREE", "STARTER", "PRO"}

ASSUME BillingAssumption ==
  /\ Wants # {} /\ Wants \subseteq [plan: Plans, coupon: BOOLEAN]
  /\ {Month, Grace, Window, MaxRedemptions} \subseteq Nat
  /\ NoPayment \notin Payments

VARIABLES
  pay,              \* pay[p] : row of TblManualPaymentRequest
  inv,              \* inv[p] : its invoice, with the receipt
  refund,           \* refund[p] : state of TblBillingRefund
  sub,              \* sub[p] : the subscription that payment p created
  free,             \* the FREE subscription is the current one
  change,           \* the pending row of TblBillingScheduledChange
  tab,              \* tab[t] : where a creation stands
  sweep,            \* the maintenance is between its two statements
  rivals            \* uses of the coupon by other businesses

billingVars == <<pay, inv, refund, sub, free, change, tab, sweep, rivals>>
vars == <<billingVars, outboxVars>>

Rank == [FREE |-> 0, STARTER |-> 1, PRO |-> 2]

NoRequest == [status |-> "NONE", plan |-> "FREE", coupon |-> FALSE,
              amount |-> "full", sub |-> NoPayment]
NoInvoice == [status |-> "NONE", total |-> "full", valid |-> Month + Grace,
              limited |-> FALSE, renews |-> NoPayment, receipt |-> FALSE]
NoSub == [status |-> "NONE", plan |-> "FREE", left |-> 0]
NoChange == [kind |-> "NONE", sub |-> NoPayment, pay |-> NoPayment,
             plan |-> "FREE", left |-> 0]
IdleTab == [pc |-> "idle", want |-> CHOOSE w \in Wants : TRUE,
            old |-> NoPayment]

----------------------------------------------------------------------------
(* Reading.                                                                *)

Open == {p \in Payments : pay[p].status \in {"AWAITING_TRANSFER", "PENDING"}}

(* The same question asked of the requests under review alone.             *)
OpenUnderReview == {p \in Payments : pay[p].status = "PENDING"}

(* findOpenByBusinessId; a unique index backs it.                          *)
Occupied == Open

(* getCurrentSubscription: the newest ACTIVE row; NoPayment is FREE.       *)
Live == {p \in Payments : sub[p].status = "ACTIVE"}
Current == IF Live = {} THEN NoPayment ELSE CHOOSE p \in Live : TRUE
CurrentPlan == IF Live = {} THEN "FREE" ELSE sub[Current].plan
Paid == Live # {}

(* assertNoScheduledChange.                                                *)
Unscheduled == change.kind = "NONE"

(* quoteDiscount under the coupon's lock: uses by this business, and by    *)
(* all, in any state that is not refused.                                  *)
Redeemed == {p \in Payments : pay[p].coupon /\ pay[p].status \in
                                {"AWAITING_TRANSFER", "PENDING", "APPROVED"}}
CouponAvailable ==
  Redeemed = {} /\ rivals + Cardinality(Redeemed) < MaxRedemptions

Same(p, want) == pay[p].plan = want.plan /\ pay[p].coupon = want.coupon

----------------------------------------------------------------------------
(* Writing.                                                                *)

SetPay(p, status) == pay' = [pay EXCEPT ![p].status = status]

(* voidPaymentInvoice touches OPEN invoices only.                          *)
Voided(f, S) ==
  [p \in Payments |-> IF p \in S /\ f[p].status = "OPEN"
                      THEN [f[p] EXCEPT !.status = "VOID"] ELSE f[p]]

(* insertAwaitingTransfer and ensurePaymentInvoice, in a fresh row.        *)
Insert(p, want, invoice) ==
  /\ pay[p].status = "NONE"
  /\ pay' = [pay EXCEPT ![p] =
               [NoRequest EXCEPT !.status = "AWAITING_TRANSFER",
                                 !.plan = want.plan, !.coupon = want.coupon]]
  /\ inv' = [inv EXCEPT ![p] = invoice]

OpenInvoice == [NoInvoice EXCEPT !.status = "OPEN"]

Canceled(f) ==
  [p \in Payments |-> IF f[p].status = "ACTIVE"
                      THEN [f[p] EXCEPT !.status = "CANCELED"] ELSE f[p]]

(* The current subscription is canceled and one for payment p starts.      *)
Replace(p, left) ==
  /\ sub' = [Canceled(sub) EXCEPT ![p] =
               [status |-> "ACTIVE", plan |-> pay[p].plan, left |-> left]]
  /\ free' = FALSE

(* The cancellation that leaves the pending change behind.                 *)
CancelLeavingChange ==
  /\ change.pay = NoPayment
  /\ sub' = Canceled(sub) /\ free' = TRUE /\ UNCHANGED change

(* cancelToFree: a paid change blocks it, any other pending one goes.      *)
CancelToFree ==
  /\ change.pay = NoPayment
  /\ sub' = Canceled(sub) /\ free' = TRUE /\ change' = NoChange

----------------------------------------------------------------------------
(* createManualPaymentIntent: the first read, outside any transaction.     *)
Begin(t, want) ==
  /\ tab[t].pc = "idle"
  /\ \/ /\ Open = {}
        /\ tab' = [tab EXCEPT ![t] = [pc |-> "create", want |-> want,
                                      old |-> NoPayment]]
     \/ \E p \in Open :
          /\ pay[p].status = "AWAITING_TRANSFER" /\ ~Same(p, want)
          /\ tab' = [tab EXCEPT ![t] = [pc |-> "cancel", want |-> want,
                                        old |-> p]]
  /\ UNCHANGED <<pay, inv, refund, sub, free, change, sweep, rivals,
                 outboxVars>>

(* The stale intent is canceled in a transaction of its own.               *)
CancelStale(t) ==
  LET p == tab[t].old
  IN /\ tab[t].pc = "cancel"
     /\ IF pay[p].status = "AWAITING_TRANSFER"
        THEN SetPay(p, "CANCELED") /\ inv' = Voided(inv, {p})
        ELSE UNCHANGED <<pay, inv>>
     /\ tab' = [tab EXCEPT ![t].pc = "create", ![t].old = NoPayment]
     /\ UNCHANGED <<refund, sub, free, change, sweep, rivals, outboxVars>>

(* The insert, under the business lock, after every check again.           *)
Create(t) ==
  /\ tab[t].pc = "create"
  /\ Unscheduled /\ Occupied = {}
  /\ tab[t].want.coupon => CouponAvailable
  /\ \E p \in Payments : Insert(p, tab[t].want, OpenInvoice)
  /\ tab' = [tab EXCEPT ![t] = IdleTab]
  /\ UNCHANGED <<refund, sub, free, change, sweep, rivals, outboxVars>>

(* A check refuses, the raced intent is returned, or the caller is gone.   *)
GiveUp(t) ==
  /\ tab[t].pc # "idle"
  /\ tab' = [tab EXCEPT ![t] = IdleTab]
  /\ UNCHANGED <<pay, inv, refund, sub, free, change, sweep, rivals,
                 outboxVars>>

(* confirmManualPaymentTransfer: the customer says the money is sent; the  *)
(* invoice is created when missing, and otherwise not looked at.           *)
Confirm(p) ==
  /\ pay[p].status = "AWAITING_TRANSFER"
  /\ SetPay(p, "PENDING")
  /\ UNCHANGED <<inv, refund, sub, free, change, tab, sweep, rivals,
                 outboxVars>>

(* The settlement that compares the amounts only.                          *)
SettleableByAmount(p) == inv[p].total = pay[p].amount

(* settlePaymentInvoice refuses an invoice that is void, out of validity   *)
(* or of another amount, and a settled one is left alone.                  *)
Settleable(p) ==
  /\ inv[p].limited => inv[p].valid > 0
  /\ inv[p].status # "VOID" /\ inv[p].total = pay[p].amount

Settled(p) ==
  IF inv[p].status = "OPEN"
  THEN [inv EXCEPT ![p].status = IF inv[p].total = "zero" THEN "WAIVED"
                                 ELSE "PAID",
                   ![p].receipt = inv[p].total # "zero"]
  ELSE inv

Deferred(p) == Paid /\ sub[Current].left > 0
               /\ Rank[pay[p].plan] < Rank[CurrentPlan]

(* computePaidSubscriptionPeriod: an early renewal extends the period.     *)
NewLeft(p) ==
  IF Paid /\ CurrentPlan = pay[p].plan /\ sub[Current].left > 0
  THEN sub[Current].left + Month ELSE Month

(* Approval and rejection are of requests under review.                    *)
Reviewable(p) == pay[p].status = "PENDING"

(* approveManualPayment: subscription or scheduled downgrade, invoice,     *)
(* receipt and financial event, all or nothing.                            *)
Approve(p) ==
  /\ Reviewable(p) /\ Unscheduled /\ Settleable(p)
  /\ IF Deferred(p)
     THEN /\ change' = [kind |-> "DOWNGRADE", sub |-> Current, pay |-> p,
                        plan |-> pay[p].plan, left |-> sub[Current].left]
          /\ UNCHANGED <<sub, free>>
     ELSE Replace(p, NewLeft(p)) /\ UNCHANGED change
  /\ pay' = [pay EXCEPT ![p].status = "APPROVED",
                        ![p].sub = IF Deferred(p) THEN Current ELSE p]
  /\ inv' = Settled(p)
  /\ IF pay[p].amount = "zero" THEN UNCHANGED outbox
     ELSE Capture(PaidEvent(p))
  /\ UNCHANGED <<refund, tab, sweep, rivals, hub, poster, trouble>>

(* rejectManualPayment.                                                    *)
Reject(p) ==
  /\ Reviewable(p)
  /\ SetPay(p, "REJECTED") /\ inv' = Voided(inv, {p})
  /\ UNCHANGED <<refund, sub, free, change, tab, sweep, rivals, outboxVars>>

----------------------------------------------------------------------------
(* performBillingAdminAction.                                              *)

(* discount: invoice and request change together; one hundred percent      *)
(* needs no transfer and goes to review.                                   *)
Discount(p, amount) ==
  /\ pay[p].status = "AWAITING_TRANSFER" /\ ~pay[p].coupon
  /\ inv[p].status = "OPEN"
  /\ inv' = [inv EXCEPT ![p].total = amount]
  /\ pay' = [pay EXCEPT ![p].amount = amount,
                        ![p].status = IF amount = "zero" THEN "PENDING"
                                      ELSE @]
  /\ UNCHANGED <<refund, sub, free, change, tab, sweep, rivals, outboxVars>>

Refundable(p) == pay[p].status = "APPROVED" /\ inv[p].status = "PAID"

RequestRefund(p) ==
  /\ Refundable(p) /\ refund[p] \in {"NONE", "FAILED"}
  /\ refund' = [refund EXCEPT ![p] = "PENDING"]
  /\ UNCHANGED <<pay, inv, sub, free, change, tab, sweep, rivals, outboxVars>>

FailRefund(p) ==
  /\ Refundable(p) /\ refund[p] = "PENDING"
  /\ refund' = [refund EXCEPT ![p] = "FAILED"]
  /\ UNCHANGED <<pay, inv, sub, free, change, tab, sweep, rivals, outboxVars>>

(* A refund that cancels whatever is current.                              *)
RefundEndsAny(p) ==
  IF change.kind # "NONE" /\ change.pay = p
  THEN change' = NoChange /\ UNCHANGED <<sub, free>>
  ELSE IF Paid THEN CancelToFree
  ELSE UNCHANGED <<sub, free, change>>

(* The refund ends what its payment bought: the change it scheduled, or    *)
(* the current subscription when it is the payment's own.                  *)
RefundEnds(p) ==
  IF change.kind # "NONE" /\ change.pay = p
  THEN change' = NoChange /\ UNCHANGED <<sub, free>>
  ELSE IF Paid /\ Current = pay[p].sub THEN CancelToFree
  ELSE UNCHANGED <<sub, free, change>>

(* confirm_refund: captured against the captured payment, or not at all.   *)
ConfirmRefund(p) ==
  /\ Refundable(p) /\ refund[p] = "PENDING"
  /\ outbox[PaidEvent(p)].state # "NONE"
  /\ refund' = [refund EXCEPT ![p] = "SUCCEEDED"]
  /\ Capture(RefundEvent(p))
  /\ RefundEnds(p)
  /\ UNCHANGED <<pay, inv, tab, sweep, rivals, hub, poster, trouble>>

(* The payment an operator acts through is the current subscription's.     *)
Linked(p) == Paid /\ pay[p].sub = Current

CancelNow(p) ==
  /\ Linked(p) /\ CancelToFree
  /\ UNCHANGED <<pay, inv, refund, tab, sweep, rivals, outboxVars>>

Cancellation == [kind |-> "CANCEL", sub |-> Current, pay |-> NoPayment,
                 plan |-> "FREE", left |-> sub[Current].left]

CancelAtEnd(p) ==
  /\ Linked(p) /\ sub[Current].left > 0 /\ Unscheduled
  /\ change' = Cancellation
  /\ UNCHANGED <<pay, inv, refund, sub, free, tab, sweep, rivals, outboxVars>>

CancelScheduled(p) ==
  /\ Linked(p) /\ change.pay = NoPayment
  /\ change' = NoChange
  /\ UNCHANGED <<pay, inv, refund, sub, free, tab, sweep, rivals, outboxVars>>

(* setCustomerCancellation: schedule_cancel and undo_cancel.               *)
ScheduleCancel ==
  /\ Paid /\ sub[Current].left > 0 /\ Unscheduled
  /\ change' = Cancellation
  /\ UNCHANGED <<pay, inv, refund, sub, free, tab, sweep, rivals, outboxVars>>

UndoCancel ==
  /\ change.kind = "CANCEL"
  /\ change' = NoChange
  /\ UNCHANGED <<pay, inv, refund, sub, free, tab, sweep, rivals, outboxVars>>

----------------------------------------------------------------------------
(* ensureCurrentSubscriptionEntitlements, on any entitlement read and in   *)
(* the maintenance: applyDueScheduledChange, then the end of grace.        *)

DueChange == change.kind # "NONE" /\ Paid /\ change.sub = Current
             /\ change.left <= 0

GraceEnded(left) == left <= 0 - Grace

(* The payment keeps naming the subscription it was approved under.        *)
LinkKept(p) == UNCHANGED pay

(* From now on the payment names the subscription it has become.           *)
Relink(p) == pay' = [pay EXCEPT ![p].sub = p]

(* The subscription a due change starts, dated back to its due date.       *)
ApplyChange ==
  /\ DueChange
  /\ IF change.kind = "CANCEL"
     THEN sub' = Canceled(sub) /\ free' = TRUE /\ UNCHANGED pay
     ELSE LET p == change.pay
              left == change.left + Month
          IN /\ sub' = [Canceled(sub) EXCEPT ![p] =
                          [status |-> IF GraceEnded(left) THEN "EXPIRED"
                                      ELSE "ACTIVE",
                           plan |-> change.plan, left |-> left]]
             /\ free' = GraceEnded(left)
             /\ Relink(p)
  /\ change' = NoChange
  /\ UNCHANGED <<inv, refund, tab, sweep, rivals, outboxVars>>

ExpirePaid ==
  /\ ~DueChange /\ Paid /\ GraceEnded(sub[Current].left)
  /\ sub' = [sub EXCEPT ![Current].status = "EXPIRED"]
  /\ free' = TRUE
  /\ UNCHANGED <<pay, inv, refund, change, tab, sweep, rivals, outboxVars>>

(* runBillingMaintenance, first statement of the stale sweep: no lock on   *)
(* the business, no transaction around the two.                            *)
Stale(p) ==
  /\ inv[p].status = "OPEN" /\ inv[p].limited /\ inv[p].valid <= 0
  /\ pay[p].status = "AWAITING_TRANSFER"

SweepVoid ==
  /\ ~sweep /\ sweep' = TRUE
  /\ inv' = Voided(inv, {p \in Payments : Stale(p)})
  /\ UNCHANGED <<pay, refund, sub, free, change, tab, rivals, outboxVars>>

SweepCancel ==
  /\ sweep /\ sweep' = FALSE
  /\ pay' = [p \in Payments |->
               IF pay[p].status = "AWAITING_TRANSFER" /\ inv[p].status = "VOID"
               THEN [pay[p] EXCEPT !.status = "CANCELED"] ELSE pay[p]]
  /\ UNCHANGED <<inv, refund, sub, free, change, tab, rivals, outboxVars>>

(* The process dies between the two statements.                            *)
SweepDies ==
  /\ sweep /\ sweep' = FALSE
  /\ UNCHANGED <<pay, inv, refund, sub, free, change, tab, rivals, outboxVars>>

(* One renewal invoice per subscription, in its last days.                 *)
Renew ==
  /\ ~sweep
  /\ Paid /\ sub[Current].left \in 1..Window
  /\ \A q \in Payments : inv[q].renews # Current
  /\ Unscheduled /\ Open = {}
  /\ \E p \in Payments :
       Insert(p, [plan |-> CurrentPlan, coupon |-> FALSE],
              [OpenInvoice EXCEPT !.limited = TRUE, !.renews = Current,
                                  !.valid = sub[Current].left + Grace])
  /\ UNCHANGED <<refund, sub, free, change, tab, sweep, rivals, outboxVars>>

(* Another business redeems the coupon, or loses its request.              *)
RivalRedeems ==
  /\ rivals + Cardinality(Redeemed) < MaxRedemptions /\ rivals' = rivals + 1
  /\ UNCHANGED <<pay, inv, refund, sub, free, change, tab, sweep, outboxVars>>

RivalLeaves ==
  /\ rivals > 0 /\ rivals' = rivals - 1
  /\ UNCHANGED <<pay, inv, refund, sub, free, change, tab, sweep, outboxVars>>

(* The clock: dates nobody will compare again stop at the last value that  *)
(* matters, for the end of a period the one where even a downgrade dated   *)
(* back to it has run out.                                                 *)
Earlier(n, floor) == IF n > floor THEN n - 1 ELSE n
LongOver == 0 - (Month + Grace)

Tick ==
  /\ sub' = [p \in Payments |-> [sub[p] EXCEPT !.left =
               IF sub[p].status = "ACTIVE" THEN Earlier(@, LongOver) ELSE 0]]
  /\ inv' = [p \in Payments |-> [inv[p] EXCEPT !.valid =
               IF inv[p].limited THEN Earlier(@, 0) ELSE @]]
  /\ change' = [change EXCEPT !.left =
               IF change.kind = "NONE" THEN 0 ELSE Earlier(@, LongOver)]
  /\ UNCHANGED <<pay, refund, free, tab, sweep, rivals, outboxVars>>

----------------------------------------------------------------------------
Init ==
  /\ pay = [p \in Payments |-> NoRequest]
  /\ inv = [p \in Payments |-> NoInvoice]
  /\ refund = [p \in Payments |-> "NONE"]
  /\ sub = [p \in Payments |-> NoSub]
  /\ free = TRUE /\ change = NoChange
  /\ tab = [t \in Tabs |-> IdleTab]
  /\ sweep = FALSE /\ rivals = 0
  /\ OutboxInit

Customer ==
  \/ \E t \in Tabs : \/ \E want \in Wants : Begin(t, want)
                     \/ CancelStale(t) \/ Create(t) \/ GiveUp(t)
  \/ \E p \in Payments : Confirm(p)
  \/ ScheduleCancel \/ UndoCancel

Operator ==
  \E p \in Payments :
    \/ Approve(p) \/ Reject(p)
    \/ \E amount \in {"reduced", "zero"} : Discount(p, amount)
    \/ RequestRefund(p) \/ FailRefund(p) \/ ConfirmRefund(p)
    \/ CancelNow(p) \/ CancelAtEnd(p) \/ CancelScheduled(p)

Maintenance ==
  \/ ApplyChange \/ ExpirePaid
  \/ SweepVoid \/ SweepCancel \/ SweepDies \/ Renew

Billing ==
  Customer \/ Operator \/ Maintenance \/ RivalRedeems \/ RivalLeaves \/ Tick

(* Billing reads of the outbox only whether a row exists, which no worker  *)
(* changes, so that Spec leaves the workers out; ComposedSpec has them.    *)
Next == Billing

Spec == Init /\ [][Next]_vars

Workers == OutboxStep /\ UNCHANGED billingVars

ComposedNext == Next \/ Workers

ComposedSpec == Init /\ [][ComposedNext]_vars

----------------------------------------------------------------------------
(* Every field stays in the range of its column.                           *)
TypeOK ==
  /\ \A p \in Payments :
       /\ pay[p].status \in {"NONE", "AWAITING_TRANSFER", "PENDING",
                             "APPROVED", "REJECTED", "CANCELED"}
       /\ pay[p].sub \in Payments \union {NoPayment}
       /\ inv[p].status \in {"NONE", "OPEN", "PAID", "WAIVED", "VOID"}
       /\ refund[p] \in {"NONE", "PENDING", "SUCCEEDED", "FAILED"}
       /\ sub[p].status \in {"NONE", "ACTIVE", "CANCELED", "EXPIRED"}
       /\ sub[p].left \in LongOver..(Month * Cardinality(Payments))
  /\ change.kind \in {"NONE", "DOWNGRADE", "CANCEL"}
  /\ \A t \in Tabs : tab[t].pc \in {"idle", "cancel", "create"}

(* One request is open, exactly one subscription is current, and the       *)
(* coupon is spent at most once here and never beyond its total, although  *)
(* intents are created in steps beside the renewal worker and other        *)
(* businesses.                                                             *)
OneOpenRequest == Cardinality(Open) <= 1
OneSubscription == Cardinality(Live) + (IF free THEN 1 ELSE 0) = 1
CouponCeiling == /\ Cardinality(Redeemed) <= 1
                 /\ rivals + Cardinality(Redeemed) <= MaxRedemptions
OneOfEach == OneOpenRequest /\ OneSubscription /\ CouponCeiling

(* A pending change belongs to the subscription that is current, is due    *)
(* when that one ends, and its payment is not refunded: it can always be   *)
(* applied, and never blocks purchases for ever.                           *)
ChangeBindsCurrent ==
  change.kind # "NONE" =>
    /\ Paid /\ change.sub = Current /\ change.left = sub[Current].left
    /\ change.kind = "DOWNGRADE" =>
         /\ pay[change.pay].status = "APPROVED"
         /\ refund[change.pay] # "SUCCEEDED"
         /\ sub[change.pay].status = "NONE"

(* The four books of a payment agree: it is approved exactly when its      *)
(* invoice is settled at its amount; cash gives a receipt and a financial  *)
(* event, a waiver neither; a refund is booked exactly when it is done.    *)
MoneyAgrees ==
  \A p \in Payments :
    LET cash == pay[p].status = "APPROVED" /\ pay[p].amount # "zero"
    IN /\ pay[p].status = "APPROVED" <=> inv[p].status \in {"PAID", "WAIVED"}
       /\ inv[p].total = pay[p].amount
       /\ inv[p].receipt <=> cash
       /\ outbox[PaidEvent(p)].state # "NONE" <=> cash
       /\ outbox[RefundEvent(p)].state # "NONE" <=> refund[p] = "SUCCEEDED"

(* Who got the money back has no service for it, also when the payment was *)
(* for a downgrade that was scheduled, then applied, then refunded.        *)
RefundedIsNotServed ==
  \A p \in Payments : refund[p] = "SUCCEEDED" => sub[p].status # "ACTIVE"

(* A refund ends nothing that another payment bought.                      *)
RefundSparesOthers ==
  [][\A p, q \in Payments :
       /\ p # q /\ refund[p] # "SUCCEEDED" /\ refund'[p] = "SUCCEEDED"
       /\ sub[q].status = "ACTIVE"
       => sub'[q].status = "ACTIVE"]_vars

(* Billing uses the outbox as FinancialOutbox allows it: every event is    *)
(* captured once, and a refund after its payment.                          *)
CapturesInOrder == OutboxSpec

(* docs/BILLING_V2.md has the maintenance take the business lock like      *)
(* every other mutation.  Then a confirmed request would keep the invoice  *)
(* it was confirmed with.                                                  *)
ConfirmedKeepsInvoice ==
  \A p \in Payments : pay[p].status = "PENDING" => inv[p].status = "OPEN"

============================================================================
