------------------------ MODULE ManualPayment_proofs ------------------------
(***************************************************************************)
(* What holds of manual billing for every set of payments, concurrent      *)
(* creations and workers, every length of period, grace and window, from   *)
(* BillingAssumption alone, with the workers of the outbox running beside  *)
(* (ComposedSpec).                                                         *)
(*                                                                         *)
(* MoneyAgrees needs only that a request has an invoice and the other way  *)
(* round; it gives that billing uses the outbox as OutboxSpec allows, and  *)
(* so hands on what FinancialOutbox_proofs says of that specification.     *)
(*                                                                         *)
(* RefundSparesOthers and RefundedIsNotServed rest on the link from a      *)
(* payment to its subscription: it is the payment's own, except while the  *)
(* downgrade it paid for is still to come.  That ChangeBindsCurrent is     *)
(* kept by an expiry rests on grace not being negative: a change is due    *)
(* before the subscription it is bound to can expire.                      *)
(***************************************************************************)
EXTENDS ManualPayment, FinancialOutbox_proofs, FiniteSetTheorems

PayRow ==
  [status: {"NONE", "AWAITING_TRANSFER", "PENDING", "APPROVED", "REJECTED",
            "CANCELED"},
   plan: Plans, coupon: BOOLEAN, amount: {"full", "reduced", "zero"},
   sub: Payments \union {NoPayment}]
InvRow ==
  [status: {"NONE", "OPEN", "PAID", "WAIVED", "VOID"},
   total: {"full", "reduced", "zero"}, valid: Int, limited: BOOLEAN,
   renews: Payments \union {NoPayment}, receipt: BOOLEAN]
SubRow == [status: {"NONE", "ACTIVE", "CANCELED", "EXPIRED"}, plan: Plans,
           left: Int]
ChangeRow == [kind: {"NONE", "DOWNGRADE", "CANCEL"},
              sub: Payments \union {NoPayment},
              pay: Payments \union {NoPayment}, plan: Plans, left: Int]
TabRow == [pc: {"idle", "cancel", "create"}, want: Wants,
           old: Payments \union {NoPayment}]

PayTypeOK == pay \in [Payments -> PayRow]
InvTypeOK == inv \in [Payments -> InvRow]
RefundTypeOK ==
  refund \in [Payments -> {"NONE", "PENDING", "SUCCEEDED", "FAILED"}]
SubTypeOK == sub \in [Payments -> SubRow] /\ free \in BOOLEAN
ChangeTypeOK == change \in ChangeRow
TabTypeOK == tab \in [Tabs -> TabRow]

BillingTypeOK ==
  /\ PayTypeOK /\ InvTypeOK /\ RefundTypeOK
  /\ SubTypeOK /\ ChangeTypeOK /\ TabTypeOK

----------------------------------------------------------------------------
(* Facts about the operators of the module.                                *)

LEMMA RowTypes ==
  /\ NoRequest \in PayRow /\ NoInvoice \in InvRow /\ OpenInvoice \in InvRow
  /\ NoSub \in SubRow /\ NoChange \in ChangeRow /\ IdleTab \in TabRow
<1>1. NoRequest \in PayRow
  BY DEF NoRequest, PayRow, Plans
<1>2. Month \in Nat /\ Grace \in Nat
  BY BillingAssumption
<1>3. NoInvoice \in InvRow
  BY <1>2 DEF NoInvoice, InvRow
<1>31. OpenInvoice \in InvRow
  BY <1>3 DEF OpenInvoice, InvRow
<1>4. NoSub \in SubRow /\ NoChange \in ChangeRow
  BY DEF NoSub, SubRow, NoChange, ChangeRow, Plans
<1>5. (CHOOSE w \in Wants : TRUE) \in Wants
  BY BillingAssumption
<1>6. IdleTab \in TabRow
  BY <1>5 DEF IdleTab, TabRow
<1>7. QED
  BY <1>1, <1>3, <1>31, <1>4, <1>6

LEMMA CurrentType ==
  ASSUME SubTypeOK
  PROVE  /\ Current \in Payments \union {NoPayment}
         /\ Paid => Current \in Live
         /\ CurrentPlan \in Plans
<1>1. Paid => Current \in Live
  BY DEF Paid, Current
<1>2. Live \subseteq Payments
  BY DEF Live
<1>3. Current \in Payments \union {NoPayment}
  BY <1>1, <1>2 DEF Current, Paid
<1>4. CASE Live = {}
  BY <1>1, <1>3, <1>4 DEF CurrentPlan, Plans, Paid
<1>5. CASE Live # {}
  <2>1. Current \in Payments
    BY <1>1, <1>2, <1>5 DEF Paid
  <2>2. sub[Current].plan \in Plans
    BY <2>1 DEF SubTypeOK, SubRow
  <2>3. QED
    BY <1>1, <1>3, <1>5, <2>2 DEF CurrentPlan
<1>6. QED
  BY <1>4, <1>5

LEMMA VoidedType ==
  ASSUME InvTypeOK, NEW S
  PROVE  Voided(inv, S) \in [Payments -> InvRow]
  BY DEF InvTypeOK, InvRow, Voided

LEMMA CanceledType ==
  ASSUME SubTypeOK
  PROVE  Canceled(sub) \in [Payments -> SubRow]
  BY DEF SubTypeOK, SubRow, Canceled

----------------------------------------------------------------------------
(* Types.                                                                  *)

LEMMA PayTypeStep ==
  ASSUME BillingTypeOK, [ComposedNext]_vars
  PROVE  PayTypeOK'
<1> USE DEF BillingTypeOK, PayTypeOK
<1>1. ASSUME NEW p \in Payments, NEW want \in [plan: Plans, coupon: BOOLEAN],
             NEW invoice, Insert(p, want, invoice)
      PROVE  PayTypeOK'
  BY <1>1 DEF Insert, NoRequest, PayRow
<1>2. ASSUME NEW p \in Payments,
             NEW status \in {"PENDING", "REJECTED", "CANCELED"},
             SetPay(p, status)
      PROVE  PayTypeOK'
  BY <1>2 DEF SetPay, PayRow
<1>3. ASSUME NEW t \in Tabs, CancelStale(t)
      PROVE  PayTypeOK'
  <2>1. CASE pay' = pay
    BY <2>1
  <2>2. CASE SetPay(tab[t].old, "CANCELED")
    <3>1. CASE tab[t].old \in Payments
      BY <1>2, <2>2, <3>1
    <3>2. CASE tab[t].old \notin Payments
      BY <2>2, <3>2 DEF SetPay
    <3>3. QED
      BY <3>1, <3>2
  <2>3. QED
    BY <1>3, <2>1, <2>2 DEF CancelStale
<1>4. ASSUME NEW t \in Tabs, Create(t)
      PROVE  PayTypeOK'
  <2>1. tab[t].want \in [plan: Plans, coupon: BOOLEAN]
    BY BillingAssumption DEF TabTypeOK, TabRow
  <2>2. QED
    BY <1>1, <1>4, <2>1 DEF Create
<1>5. ASSUME NEW p \in Payments, Confirm(p) \/ Reject(p)
      PROVE  PayTypeOK'
  BY <1>2, <1>5 DEF Confirm, Reject
<1>6. ASSUME NEW p \in Payments, Approve(p)
      PROVE  PayTypeOK'
  <2>1. (IF Deferred(p) THEN Current ELSE p) \in Payments \union {NoPayment}
    BY CurrentType
  <2>2. PICK s \in Payments \union {NoPayment} :
          pay' = [pay EXCEPT ![p].status = "APPROVED", ![p].sub = s]
    BY <1>6, <2>1 DEF Approve
  <2>3. [pay[p] EXCEPT !.status = "APPROVED", !.sub = s] \in PayRow
    BY DEF PayRow
  <2>4. pay' = [pay EXCEPT ![p] =
                  [pay[p] EXCEPT !.status = "APPROVED", !.sub = s]]
    BY <2>2
  <2>5. QED
    BY <2>3, <2>4
<1>7. ASSUME NEW p \in Payments, NEW amount \in {"reduced", "zero"},
             Discount(p, amount)
      PROVE  PayTypeOK'
  <2>1. PICK status \in {"AWAITING_TRANSFER", "PENDING"} :
          pay' = [pay EXCEPT ![p].amount = amount, ![p].status = status]
    BY <1>7 DEF Discount, PayRow
  <2>2. QED
    BY <2>1 DEF PayRow
<1>8. ASSUME ApplyChange
      PROVE  PayTypeOK'
  <2>1. CASE pay' = pay
    BY <2>1
  <2>2. CASE pay' = [pay EXCEPT ![change.pay].sub = change.pay]
    <3>1. CASE change.pay \in Payments
      BY <2>2, <3>1 DEF PayRow
    <3>2. CASE change.pay \notin Payments
      BY <2>2, <3>2
    <3>3. QED
      BY <3>1, <3>2
  <2>3. QED
    BY <1>8, <2>1, <2>2 DEF ApplyChange, Relink
<1>9. ASSUME SweepCancel
      PROVE  PayTypeOK'
  BY <1>9 DEF SweepCancel, PayRow
<1>10. ASSUME Renew
       PROVE  PayTypeOK'
  <2>1. [plan |-> CurrentPlan, coupon |-> FALSE] \in [plan: Plans, coupon: BOOLEAN]
    BY CurrentType
  <2>2. QED
    BY <1>1, <1>10, <2>1 DEF Renew
<1>11. ASSUME pay' = pay
       PROVE  PayTypeOK'
  BY <1>11
<1>12. QED
  BY <1>3, <1>4, <1>5, <1>6, <1>7, <1>8, <1>9, <1>10, <1>11
     DEF ComposedNext, Workers, vars, billingVars, Next, Billing, Customer,
         Operator, Maintenance, Begin, GiveUp, ScheduleCancel, UndoCancel,
         RequestRefund, FailRefund, ConfirmRefund, CancelNow, CancelAtEnd,
         CancelScheduled, ExpirePaid, SweepVoid, SweepDies, RivalRedeems,
         RivalLeaves, Tick

LEMMA InvTypeStep ==
  ASSUME BillingTypeOK, [ComposedNext]_vars
  PROVE  InvTypeOK'
<1> USE DEF BillingTypeOK
<1>1. ASSUME NEW p \in Payments, NEW want, NEW invoice \in InvRow,
             Insert(p, want, invoice)
      PROVE  InvTypeOK'
  BY <1>1 DEF Insert, InvTypeOK
<1>2. ASSUME NEW S, inv' = Voided(inv, S)
      PROVE  InvTypeOK'
  BY <1>2, VoidedType DEF InvTypeOK
<1>3. ASSUME NEW t \in Tabs, CancelStale(t) \/ Create(t)
      PROVE  InvTypeOK'
  BY <1>1, <1>2, <1>3, RowTypes DEF CancelStale, Create, InvTypeOK
<1>4. ASSUME NEW p \in Payments, Approve(p)
      PROVE  InvTypeOK'
  <2>1. CASE inv' = inv
    BY <2>1 DEF InvTypeOK
  <2>2. CASE inv' # inv
    <3>1. PICK status \in {"PAID", "WAIVED"}, receipt \in BOOLEAN :
            inv' = [inv EXCEPT ![p].status = status, ![p].receipt = receipt]
      BY <1>4, <2>2 DEF Approve, Settled
    <3>2. [inv[p] EXCEPT !.status = status, !.receipt = receipt] \in InvRow
      BY DEF InvTypeOK, InvRow
    <3>3. inv' = [inv EXCEPT ![p] = [inv[p] EXCEPT !.status = status,
                                                   !.receipt = receipt]]
      BY <3>1
    <3>4. QED
      BY <3>2, <3>3 DEF InvTypeOK
  <2>3. QED
    BY <2>1, <2>2
<1>5. ASSUME NEW p \in Payments, Reject(p)
      PROVE  InvTypeOK'
  BY <1>2, <1>5 DEF Reject
<1>6. ASSUME NEW p \in Payments, NEW amount \in {"reduced", "zero"},
             Discount(p, amount)
      PROVE  InvTypeOK'
  <2>1. inv' = [inv EXCEPT ![p].total = amount]
    BY <1>6 DEF Discount
  <2>2. QED
    BY <2>1 DEF InvTypeOK, InvRow
<1>7. ASSUME SweepVoid
      PROVE  InvTypeOK'
  BY <1>2, <1>7 DEF SweepVoid
<1>8. ASSUME Renew
      PROVE  InvTypeOK'
  <2>1. Current \in Payments
    BY <1>8, CurrentType DEF Renew, Live
  <2>2. sub[Current].left + Grace \in Int
    BY <2>1, BillingAssumption DEF SubTypeOK, SubRow
  <2>3. [OpenInvoice EXCEPT !.limited = TRUE, !.renews = Current,
                            !.valid = sub[Current].left + Grace] \in InvRow
    BY <2>1, <2>2, RowTypes DEF InvRow
  <2>4. QED
    BY <1>1, <1>8, <2>3 DEF Renew
<1>9. ASSUME Tick
      PROVE  InvTypeOK'
  <2>1. \A p \in Payments : Earlier(inv[p].valid, 0) \in Int
    BY DEF InvTypeOK, InvRow, Earlier
  <2>2. \A p \in Payments : (IF inv[p].limited THEN Earlier(inv[p].valid, 0)
                             ELSE inv[p].valid) \in Int
    BY <2>1 DEF InvTypeOK, InvRow
  <2>3. \A p \in Payments :
          [inv[p] EXCEPT !.valid = IF inv[p].limited
                                   THEN Earlier(inv[p].valid, 0)
                                   ELSE inv[p].valid] \in InvRow
    BY <2>2 DEF InvTypeOK, InvRow
  <2>4. QED
    BY <1>9, <2>3 DEF Tick, InvTypeOK
<1>10. ASSUME inv' = inv
       PROVE  InvTypeOK'
  BY <1>10 DEF InvTypeOK
<1>11. QED
  BY <1>3, <1>4, <1>5, <1>6, <1>7, <1>8, <1>9, <1>10
     DEF ComposedNext, Workers, vars, billingVars, Next, Billing, Customer,
         Operator, Maintenance, Begin, GiveUp, Confirm, ScheduleCancel,
         UndoCancel, RequestRefund, FailRefund, ConfirmRefund, CancelNow,
         CancelAtEnd, CancelScheduled, ApplyChange, ExpirePaid, SweepCancel,
         SweepDies, RivalRedeems, RivalLeaves

LEMMA RefundTypeStep ==
  ASSUME RefundTypeOK, [ComposedNext]_vars
  PROVE  RefundTypeOK'
<1> USE DEF RefundTypeOK
<1>1. ASSUME NEW p \in Payments,
             RequestRefund(p) \/ FailRefund(p) \/ ConfirmRefund(p)
      PROVE  RefundTypeOK'
  BY <1>1 DEF RequestRefund, FailRefund, ConfirmRefund
<1>2. ASSUME refund' = refund
      PROVE  RefundTypeOK'
  BY <1>2
<1>3. QED
  BY <1>1, <1>2
     DEF ComposedNext, Workers, vars, billingVars, Next, Billing, Customer,
         Operator, Maintenance, Begin, CancelStale, Create, GiveUp, Confirm,
         ScheduleCancel, UndoCancel, Approve, Reject, Discount, CancelNow,
         CancelAtEnd, CancelScheduled, ApplyChange, ExpirePaid, SweepVoid,
         SweepCancel, SweepDies, Renew, RivalRedeems, RivalLeaves, Tick

LEMMA TabTypeStep ==
  ASSUME TabTypeOK, [ComposedNext]_vars
  PROVE  TabTypeOK'
<1> USE DEF TabTypeOK, TabRow
<1>1. ASSUME NEW t \in Tabs, NEW want \in Wants, Begin(t, want)
      PROVE  TabTypeOK'
  BY <1>1 DEF Begin, Open
<1>2. ASSUME NEW t \in Tabs, CancelStale(t)
      PROVE  TabTypeOK'
  BY <1>2 DEF CancelStale
<1>3. ASSUME NEW t \in Tabs, tab' = [tab EXCEPT ![t] = IdleTab]
      PROVE  TabTypeOK'
  BY <1>3, RowTypes
<1>4. ASSUME tab' = tab
      PROVE  TabTypeOK'
  BY <1>4
<1>5. QED
  BY <1>1, <1>2, <1>3, <1>4
     DEF ComposedNext, Workers, vars, billingVars, Next, Billing, Customer,
         Operator, Maintenance, Create, GiveUp, Confirm, ScheduleCancel,
         UndoCancel, Approve, Reject, Discount, RequestRefund, FailRefund,
         ConfirmRefund, CancelNow, CancelAtEnd, CancelScheduled, ApplyChange,
         ExpirePaid, SweepVoid, SweepCancel, SweepDies, Renew, RivalRedeems,
         RivalLeaves, Tick

LEMMA NewLeftType ==
  ASSUME BillingTypeOK, NEW p
  PROVE  NewLeft(p) \in Int
<1>1. Month \in Int
  BY BillingAssumption
<1>2. CASE Paid
  <2>1. Current \in Payments
    BY <1>2, CurrentType DEF BillingTypeOK, Live
  <2>2. sub[Current].left \in Int
    BY <2>1 DEF BillingTypeOK, SubTypeOK, SubRow
  <2>3. QED
    BY <1>1, <2>2 DEF NewLeft
<1>3. CASE ~Paid
  BY <1>1, <1>3 DEF NewLeft
<1>4. QED
  BY <1>2, <1>3

LEMMA SubTypeStep ==
  ASSUME BillingTypeOK, [ComposedNext]_vars
  PROVE  SubTypeOK'
<1> USE DEF BillingTypeOK
<1>1. Canceled(sub) \in [Payments -> SubRow]
  BY CanceledType
<1>2. ASSUME CancelToFree
      PROVE  SubTypeOK'
  BY <1>1, <1>2 DEF CancelToFree, SubTypeOK
<1>3. ASSUME UNCHANGED <<sub, free>>
      PROVE  SubTypeOK'
  BY <1>3 DEF SubTypeOK
<1>4. ASSUME NEW p \in Payments, Approve(p)
      PROVE  SubTypeOK'
  <2>1. CASE UNCHANGED <<sub, free>>
    BY <1>3, <2>1
  <2>2. CASE Replace(p, NewLeft(p))
    <3>1. pay[p].plan \in Plans
      BY DEF PayTypeOK, PayRow
    <3>2. [status |-> "ACTIVE", plan |-> pay[p].plan, left |-> NewLeft(p)]
            \in SubRow
      BY <3>1, NewLeftType DEF SubRow
    <3>3. QED
      BY <1>1, <2>2, <3>2 DEF Replace, SubTypeOK
  <2>3. QED
    BY <1>4, <2>1, <2>2 DEF Approve
<1>5. ASSUME NEW p \in Payments, ConfirmRefund(p) \/ CancelNow(p)
      PROVE  SubTypeOK'
  BY <1>2, <1>3, <1>5 DEF ConfirmRefund, RefundEnds, CancelNow
<1>6. ASSUME ApplyChange
      PROVE  SubTypeOK'
  <2>1. CASE change.kind = "CANCEL"
    BY <1>1, <1>6, <2>1 DEF ApplyChange, SubTypeOK
  <2>2. CASE change.kind # "CANCEL"
    <3> DEFINE left == change.left + Month
               row == [status |-> IF GraceEnded(left) THEN "EXPIRED"
                                  ELSE "ACTIVE",
                       plan |-> change.plan, left |-> left]
    <3>1. left \in Int
      BY BillingAssumption DEF ChangeTypeOK, ChangeRow
    <3>2. row \in SubRow
      BY <3>1 DEF SubRow, ChangeTypeOK, ChangeRow
    <3>3. GraceEnded(left) \in BOOLEAN
      BY DEF GraceEnded
    <3>4. sub' = [Canceled(sub) EXCEPT ![change.pay] = row]
      BY <1>6, <2>2 DEF ApplyChange
    <3>5. free' = GraceEnded(left)
      BY <1>6, <2>2 DEF ApplyChange
    <3>6. sub' \in [Payments -> SubRow]
      BY <1>1, <3>2, <3>4
    <3>7. QED
      BY <3>3, <3>5, <3>6 DEF SubTypeOK
  <2>3. QED
    BY <2>1, <2>2
<1>7. ASSUME ExpirePaid
      PROVE  SubTypeOK'
  BY <1>7 DEF ExpirePaid, SubTypeOK, SubRow
<1>8. ASSUME Tick
      PROVE  SubTypeOK'
  <2>1. LongOver \in Int
    BY BillingAssumption DEF LongOver
  <2>2. \A p \in Payments : sub[p].left \in Int
    BY DEF SubTypeOK, SubRow
  <2>3. \A p \in Payments :
          (IF sub[p].status = "ACTIVE" THEN Earlier(sub[p].left, LongOver)
           ELSE 0) \in Int
    BY <2>1, <2>2 DEF Earlier
  <2>4. \A p \in Payments :
          [sub[p] EXCEPT !.left =
             IF sub[p].status = "ACTIVE" THEN Earlier(sub[p].left, LongOver)
             ELSE 0] \in SubRow
    BY <2>3 DEF SubTypeOK, SubRow
  <2>5. QED
    BY <1>8, <2>4 DEF Tick, SubTypeOK
<1>9. QED
  BY <1>3, <1>4, <1>5, <1>6, <1>7, <1>8
     DEF ComposedNext, Workers, vars, billingVars, Next, Billing, Customer,
         Operator, Maintenance, Begin, CancelStale, Create, GiveUp, Confirm,
         ScheduleCancel, UndoCancel, Reject, Discount, RequestRefund,
         FailRefund, CancelAtEnd, CancelScheduled, SweepVoid, SweepCancel,
         SweepDies, Renew, RivalRedeems, RivalLeaves

LEMMA ChangeTypeStep ==
  ASSUME BillingTypeOK, [ComposedNext]_vars
  PROVE  ChangeTypeOK'
<1> USE DEF BillingTypeOK
<1>1. ASSUME change' = NoChange
      PROVE  ChangeTypeOK'
  BY <1>1, RowTypes DEF ChangeTypeOK
<1>2. ASSUME change' = change
      PROVE  ChangeTypeOK'
  BY <1>2 DEF ChangeTypeOK
<1>3. ASSUME change' = Cancellation, Paid
      PROVE  ChangeTypeOK'
  <2>1. Current \in Payments
    BY <1>3, CurrentType DEF Live
  <2>2. QED
    BY <1>3, <2>1 DEF Cancellation, ChangeTypeOK, ChangeRow, SubTypeOK,
       SubRow, Plans
<1>4. ASSUME NEW p \in Payments, Approve(p)
      PROVE  ChangeTypeOK'
  <2>1. CASE ~Deferred(p)
    BY <1>2, <1>4, <2>1 DEF Approve
  <2>2. CASE Deferred(p)
    <3>1. Current \in Payments
      BY <2>2, CurrentType DEF Deferred, Live
    <3>2. sub[Current].left \in Int /\ pay[p].plan \in Plans
      BY <3>1 DEF SubTypeOK, SubRow, PayTypeOK, PayRow
    <3>3. change' = [kind |-> "DOWNGRADE", sub |-> Current, pay |-> p,
                     plan |-> pay[p].plan, left |-> sub[Current].left]
      BY <1>4, <2>2 DEF Approve
    <3>4. QED
      BY <3>1, <3>2, <3>3 DEF ChangeTypeOK, ChangeRow
  <2>3. QED
    BY <2>1, <2>2
<1>5. ASSUME Tick
      PROVE  ChangeTypeOK'
  <2>1. LongOver \in Int /\ change.left \in Int
    BY BillingAssumption DEF LongOver, ChangeTypeOK, ChangeRow
  <2>2. (IF change.kind = "NONE" THEN 0
         ELSE Earlier(change.left, LongOver)) \in Int
    BY <2>1 DEF Earlier
  <2>3. QED
    BY <1>5, <2>2 DEF Tick, ChangeTypeOK, ChangeRow
<1>6. ASSUME NEW p \in Payments, ConfirmRefund(p) \/ CancelNow(p)
      PROVE  ChangeTypeOK'
  BY <1>1, <1>2, <1>6 DEF ConfirmRefund, RefundEnds, CancelNow, CancelToFree
<1>7. ASSUME NEW p \in Payments, CancelAtEnd(p) \/ CancelScheduled(p)
      PROVE  ChangeTypeOK'
  BY <1>1, <1>3, <1>7 DEF CancelAtEnd, CancelScheduled, Linked
<1>8. ASSUME ScheduleCancel \/ UndoCancel \/ ApplyChange
      PROVE  ChangeTypeOK'
  BY <1>1, <1>3, <1>8 DEF ScheduleCancel, UndoCancel, ApplyChange
<1>9. QED
  BY <1>2, <1>4, <1>5, <1>6, <1>7, <1>8
     DEF ComposedNext, Workers, vars, billingVars, Next, Billing, Customer,
         Operator, Maintenance, Begin, CancelStale, Create, GiveUp, Confirm,
         Reject, Discount, RequestRefund, FailRefund, ExpirePaid, SweepVoid,
         SweepCancel, SweepDies, Renew, RivalRedeems, RivalLeaves

LEMMA BillingTypeStep ==
  ASSUME BillingTypeOK, [ComposedNext]_vars
  PROVE  BillingTypeOK'
<1>1. RefundTypeOK /\ TabTypeOK
  BY DEF BillingTypeOK
<1>2. QED
  BY <1>1, PayTypeStep, InvTypeStep, RefundTypeStep, SubTypeStep,
     ChangeTypeStep, TabTypeStep DEF BillingTypeOK

----------------------------------------------------------------------------
(* The books.                                                              *)

HasRow(e) == outbox[e].state # "NONE"
Cash(p) == pay[p].status = "APPROVED" /\ pay[p].amount # "zero"

(* The books of one payment: MoneyAgrees, and that it has an invoice.      *)
BooksAgree(p) ==
  /\ pay[p].status = "NONE" <=> inv[p].status = "NONE"
  /\ pay[p].status = "APPROVED" <=> inv[p].status \in {"PAID", "WAIVED"}
  /\ inv[p].total = pay[p].amount
  /\ inv[p].receipt <=> Cash(p)
  /\ HasRow(PaidEvent(p)) <=> Cash(p)
  /\ HasRow(RefundEvent(p)) <=> refund[p] = "SUCCEEDED"

MoneyInv ==
  BillingTypeOK /\ OutboxInv /\ \A p \in Payments : BooksAgree(p)

LEMMA MoneyInvImplies == MoneyInv => MoneyAgrees
  BY DEF MoneyInv, BooksAgree, HasRow, Cash, MoneyAgrees

LEMMA EventTypes ==
  ASSUME NEW p \in Payments, NEW q \in Payments
  PROVE  /\ PaidEvent(p) \in Events /\ RefundEvent(p) \in Events
         /\ PaidEvent(p) # RefundEvent(q)
         /\ p # q => /\ PaidEvent(p) # PaidEvent(q)
                     /\ RefundEvent(p) # RefundEvent(q)
         /\ PaidEvent(p)[1] = "payment.confirmed"
         /\ RefundEvent(p)[1] = "payment.refunded" /\ RefundEvent(p)[2] = p
  BY DEF PaidEvent, RefundEvent, Events

(* What a step must leave alone for the books of p to agree afterwards.    *)
KeepsBooks(p) ==
  /\ pay'[p].status = pay[p].status /\ pay'[p].amount = pay[p].amount
  /\ inv'[p].status = inv[p].status /\ inv'[p].total = inv[p].total
  /\ inv'[p].receipt = inv[p].receipt
  /\ refund'[p] = refund[p]
  /\ HasRow(PaidEvent(p))' <=> HasRow(PaidEvent(p))
  /\ HasRow(RefundEvent(p))' <=> HasRow(RefundEvent(p))

LEMMA KeptBooksAgree ==
  ASSUME NEW p \in Payments, BooksAgree(p), KeepsBooks(p)
  PROVE  BooksAgree(p)'
  BY DEF BooksAgree, KeepsBooks, Cash

LEMMA CaptureKeeps ==
  ASSUME OutboxTypeOK, NEW e \in Events, Capture(e)
  PROVE  /\ HasRow(e)'
         /\ \A d \in Events : d # e => (HasRow(d)' <=> HasRow(d))
  BY DEF OutboxTypeOK, OutboxRow, Capture, Due, HasRow

LEMMA VoidedKeeps ==
  ASSUME InvTypeOK, NEW S, inv' = Voided(inv, S), NEW p \in Payments
  PROVE  /\ inv'[p].total = inv[p].total
         /\ inv'[p].receipt = inv[p].receipt
         /\ \/ inv'[p].status = inv[p].status
            \/ inv[p].status = "OPEN" /\ inv'[p].status = "VOID"
         /\ p \notin S => inv'[p].status = inv[p].status
  BY DEF InvTypeOK, InvRow, Voided

(* The steps by which a request and its invoice change together.           *)
LEMMA InsertAgrees ==
  ASSUME MoneyInv, NEW p \in Payments, NEW want,
         NEW invoice \in InvRow, invoice.status = "OPEN",
         invoice.total = "full", invoice.receipt = FALSE,
         Insert(p, want, invoice), UNCHANGED <<refund, outbox>>,
         NEW q \in Payments
  PROVE  BooksAgree(q)'
<1> USE DEF MoneyInv, BillingTypeOK
<1>1. CASE q # p
  <2>1. KeepsBooks(q)
    BY <1>1 DEF Insert, KeepsBooks, HasRow, PayTypeOK, InvTypeOK
  <2>2. QED
    BY <2>1, KeptBooksAgree
<1>2. CASE q = p
  <2>1. pay[p].status = "NONE"
    BY DEF Insert
  <2>2. ~HasRow(PaidEvent(p))
    BY <2>1 DEF BooksAgree, Cash
  <2>3. pay'[p].status = "AWAITING_TRANSFER" /\ pay'[p].amount = "full"
    BY DEF Insert, NoRequest, PayTypeOK
  <2>4. inv'[p] = invoice
    BY DEF Insert, InvTypeOK
  <2>5. HasRow(RefundEvent(p)) <=> refund[p] = "SUCCEEDED"
    BY DEF BooksAgree
  <2>6. QED
    BY <1>2, <2>2, <2>3, <2>4, <2>5 DEF BooksAgree, Cash, HasRow
<1>3. QED
  BY <1>1, <1>2

(* A request that is not approved moves on, and its invoice may be void.   *)
LEMMA MoveAgrees ==
  ASSUME MoneyInv, NEW p \in Payments,
         pay[p].status \in {"AWAITING_TRANSFER", "PENDING"},
         NEW status \in {"PENDING", "REJECTED", "CANCELED"},
         pay'[p].status = status, pay'[p].amount = pay[p].amount,
         inv'[p].total = inv[p].total, inv'[p].receipt = inv[p].receipt,
         \/ inv'[p].status = inv[p].status
         \/ inv[p].status = "OPEN" /\ inv'[p].status = "VOID",
         UNCHANGED <<refund, outbox>>
  PROVE  BooksAgree(p)'
<1>1. BooksAgree(p)
  BY DEF MoneyInv
<1>2. ~Cash(p) /\ ~Cash(p)'
  BY DEF Cash
<1>3. QED
  BY <1>1, <1>2 DEF BooksAgree, HasRow

LEMMA ApproveAgrees ==
  ASSUME MoneyInv, NEW p \in Payments, Approve(p), NEW q \in Payments
  PROVE  BooksAgree(q)'
<1> USE DEF MoneyInv, BillingTypeOK
<1>1. OutboxTypeOK
  BY DEF OutboxInv
<1>2. pay[p].status = "PENDING" /\ inv[p].status # "VOID"
  BY DEF Approve, Reviewable, Settleable
<1>3. inv[p].status = "OPEN"
  BY <1>2 DEF BooksAgree, InvTypeOK, InvRow
<1>4. inv' = [inv EXCEPT ![p].status = IF inv[p].total = "zero" THEN "WAIVED"
                                       ELSE "PAID",
                         ![p].receipt = inv[p].total # "zero"]
  BY <1>3 DEF Approve, Settled
<1>5. PICK s : pay' = [pay EXCEPT ![p].status = "APPROVED", ![p].sub = s]
  BY DEF Approve
<1>6. refund' = refund
  BY DEF Approve
<1>7. IF pay[p].amount = "zero" THEN outbox' = outbox
      ELSE Capture(PaidEvent(p))
  BY DEF Approve
<1>8. CASE q # p
  <2>1. HasRow(PaidEvent(q))' <=> HasRow(PaidEvent(q))
    BY <1>1, <1>7, <1>8, EventTypes, CaptureKeeps DEF HasRow
  <2>2. HasRow(RefundEvent(q))' <=> HasRow(RefundEvent(q))
    BY <1>1, <1>7, <1>8, EventTypes, CaptureKeeps DEF HasRow
  <2>3. KeepsBooks(q)
    BY <1>4, <1>5, <1>6, <1>8, <2>1, <2>2 DEF KeepsBooks, PayTypeOK, InvTypeOK
  <2>4. QED
    BY <2>3, KeptBooksAgree
<1>9. CASE q = p
  <2>1. pay'[p].status = "APPROVED" /\ pay'[p].amount = pay[p].amount
    BY <1>5 DEF PayTypeOK, PayRow
  <2>2. /\ inv'[p].status = IF inv[p].total = "zero" THEN "WAIVED" ELSE "PAID"
        /\ inv'[p].total = inv[p].total
    BY <1>4 DEF InvTypeOK, InvRow
  <2>3. inv'[p].receipt <=> inv[p].total # "zero"
    BY <1>4 DEF InvTypeOK, InvRow
  <2>4. inv[p].total = pay[p].amount
    BY DEF BooksAgree
  <2>5. Cash(p)' <=> pay[p].amount # "zero"
    BY <2>1 DEF Cash
  <2>6. HasRow(PaidEvent(p))' <=> Cash(p)'
    <3>1. CASE pay[p].amount = "zero"
      <4>1. ~HasRow(PaidEvent(p))
        BY <1>2 DEF BooksAgree, Cash
      <4>2. outbox' = outbox
        BY <1>7, <3>1
      <4>3. QED
        BY <2>5, <3>1, <4>1, <4>2 DEF HasRow
    <3>2. CASE pay[p].amount # "zero"
      <4>1. Capture(PaidEvent(p))
        BY <1>7, <3>2
      <4>2. HasRow(PaidEvent(p))'
        BY <1>1, <4>1, EventTypes, CaptureKeeps
      <4>3. QED
        BY <2>5, <3>2, <4>2
    <3>3. QED
      BY <3>1, <3>2
  <2>7. HasRow(RefundEvent(p))' <=> HasRow(RefundEvent(p))
    BY <1>1, <1>7, EventTypes, CaptureKeeps DEF HasRow
  <2>8. HasRow(RefundEvent(p)) <=> refund[p] = "SUCCEEDED"
    BY DEF BooksAgree
  <2>9. QED
    BY <1>6, <1>9, <2>1, <2>2, <2>3, <2>4, <2>5, <2>6, <2>7, <2>8
       DEF BooksAgree
<1>10. QED
  BY <1>8, <1>9

LEMMA ConfirmRefundAgrees ==
  ASSUME MoneyInv, NEW p \in Payments, ConfirmRefund(p), NEW q \in Payments
  PROVE  BooksAgree(q)'
<1> USE DEF MoneyInv, BillingTypeOK
<1>1. OutboxTypeOK
  BY DEF OutboxInv
<1>2. Capture(RefundEvent(p)) /\ UNCHANGED <<pay, inv>>
  BY DEF ConfirmRefund
<1>3. refund' = [refund EXCEPT ![p] = "SUCCEEDED"]
  BY DEF ConfirmRefund
<1>4. HasRow(PaidEvent(q))' <=> HasRow(PaidEvent(q))
  BY <1>1, <1>2, EventTypes, CaptureKeeps
<1>5. CASE q # p
  <2>1. HasRow(RefundEvent(q))' <=> HasRow(RefundEvent(q))
    BY <1>1, <1>2, <1>5, EventTypes, CaptureKeeps
  <2>2. KeepsBooks(q)
    BY <1>2, <1>3, <1>4, <1>5, <2>1 DEF KeepsBooks, RefundTypeOK
  <2>3. QED
    BY <2>2, KeptBooksAgree
<1>6. CASE q = p
  <2>1. HasRow(RefundEvent(p))'
    BY <1>1, <1>2, EventTypes, CaptureKeeps
  <2>2. refund'[p] = "SUCCEEDED"
    BY <1>3 DEF RefundTypeOK
  <2>3. BooksAgree(p)
    OBVIOUS
  <2>4. QED
    BY <1>2, <1>4, <1>6, <2>1, <2>2, <2>3 DEF BooksAgree, Cash
<1>7. QED
  BY <1>5, <1>6

LEMMA DiscountAgrees ==
  ASSUME MoneyInv, NEW p \in Payments, NEW amount \in {"reduced", "zero"},
         Discount(p, amount), NEW q \in Payments
  PROVE  BooksAgree(q)'
<1> USE DEF MoneyInv, BillingTypeOK
<1>1. UNCHANGED <<refund, outbox>>
  BY DEF Discount, outboxVars
<1>2. inv' = [inv EXCEPT ![p].total = amount]
  BY DEF Discount
<1>3. PICK status \in {"AWAITING_TRANSFER", "PENDING"} :
        pay' = [pay EXCEPT ![p].amount = amount, ![p].status = status]
  BY DEF Discount
<1>4. CASE q # p
  <2>1. KeepsBooks(q)
    BY <1>1, <1>2, <1>3, <1>4 DEF KeepsBooks, HasRow, PayTypeOK, InvTypeOK
  <2>2. QED
    BY <2>1, KeptBooksAgree
<1>5. CASE q = p
  <2>1. pay'[p].status = status /\ pay'[p].amount = amount
    BY <1>3 DEF PayTypeOK, PayRow
  <2>2. /\ inv'[p].status = inv[p].status /\ inv'[p].total = amount
        /\ inv'[p].receipt = inv[p].receipt
    BY <1>2 DEF InvTypeOK, InvRow
  <2>3. pay[p].status = "AWAITING_TRANSFER" /\ BooksAgree(p)
    BY DEF Discount
  <2>4. ~Cash(p) /\ ~Cash(p)'
    BY <2>1, <2>3 DEF Cash
  <2>5. QED
    BY <1>1, <1>5, <2>1, <2>2, <2>3, <2>4 DEF BooksAgree, HasRow
<1>6. QED
  BY <1>4, <1>5

(* Requests that move on: one request, its invoice voided or not.          *)
LEMMA RequestMoves ==
  ASSUME MoneyInv, NEW p \in Payments, NEW q \in Payments,
         pay[p].status \in {"AWAITING_TRANSFER", "PENDING"},
         NEW status \in {"PENDING", "REJECTED", "CANCELED"},
         SetPay(p, status), inv' = Voided(inv, {p}) \/ inv' = inv,
         UNCHANGED <<refund, outbox>>
  PROVE  BooksAgree(q)'
<1> USE DEF MoneyInv, BillingTypeOK
<1>1. /\ inv'[q].total = inv[q].total /\ inv'[q].receipt = inv[q].receipt
      /\ \/ inv'[q].status = inv[q].status
         \/ inv[q].status = "OPEN" /\ inv'[q].status = "VOID"
      /\ q # p => inv'[q].status = inv[q].status
  <2>1. CASE inv' = inv
    BY <2>1
  <2>2. CASE inv' = Voided(inv, {p})
    <3> DEFINE S == {p}
    <3>1. InvTypeOK /\ inv' = Voided(inv, S)
      BY <2>2
    <3>2. q # p => q \notin S
      OBVIOUS
    <3> HIDE DEF S
    <3>3. QED
      BY <3>1, <3>2, VoidedKeeps
  <2>3. QED
    BY <2>1, <2>2
<1>2. CASE q # p
  <2>1. pay'[q] = pay[q]
    BY <1>2 DEF SetPay, PayTypeOK
  <2>2. KeepsBooks(q)
    BY <1>1, <1>2, <2>1 DEF KeepsBooks, HasRow
  <2>3. QED
    BY <2>2, KeptBooksAgree
<1>3. CASE q = p
  <2>1. pay'[p].status = status /\ pay'[p].amount = pay[p].amount
    BY DEF SetPay, PayTypeOK, PayRow
  <2>2. QED
    BY <1>1, <1>3, <2>1, MoveAgrees
<1>4. QED
  BY <1>2, <1>3

LEMMA BooksStep ==
  ASSUME MoneyInv, [ComposedNext]_vars, NEW q \in Payments
  PROVE  BooksAgree(q)'
<1> USE DEF MoneyInv, BillingTypeOK
<1>1. ASSUME NEW t \in Tabs, CancelStale(t) PROVE BooksAgree(q)'
  <2>1. UNCHANGED <<refund, outbox>>
    BY <1>1 DEF CancelStale, outboxVars
  <2>2. CASE tab[t].old \in Payments
           /\ pay[tab[t].old].status = "AWAITING_TRANSFER"
    BY <1>1, <2>1, <2>2, RequestMoves DEF CancelStale
  <2>3. CASE tab[t].old \notin Payments
    <3>1. pay' = pay
      BY <1>1, <2>3 DEF CancelStale, SetPay, PayTypeOK
    <3>2. inv'[q].status = inv[q].status /\ inv'[q].total = inv[q].total
          /\ inv'[q].receipt = inv[q].receipt
      BY <1>1, <2>3, VoidedKeeps DEF CancelStale
    <3>3. KeepsBooks(q)
      BY <2>1, <3>1, <3>2 DEF KeepsBooks, HasRow
    <3>4. QED
      BY <3>3, KeptBooksAgree
  <2>4. CASE tab[t].old \in Payments
           /\ pay[tab[t].old].status # "AWAITING_TRANSFER"
    <3>1. KeepsBooks(q)
      BY <1>1, <2>1, <2>4 DEF CancelStale, KeepsBooks, HasRow
    <3>2. QED
      BY <3>1, KeptBooksAgree
  <2>5. QED
    BY <2>2, <2>3, <2>4
<1>2. ASSUME NEW t \in Tabs, Create(t) PROVE BooksAgree(q)'
  <2>1. PICK p \in Payments : Insert(p, tab[t].want, OpenInvoice)
    BY <1>2 DEF Create
  <2>2. OpenInvoice.status = "OPEN" /\ OpenInvoice.total = "full"
        /\ OpenInvoice.receipt = FALSE
    BY DEF OpenInvoice, NoInvoice
  <2>3. UNCHANGED <<refund, outbox>>
    BY <1>2 DEF Create, outboxVars
  <2>4. QED
    BY <2>1, <2>2, <2>3, RowTypes, InsertAgrees
<1>3. ASSUME Renew PROVE BooksAgree(q)'
  <2> DEFINE want == [plan |-> CurrentPlan, coupon |-> FALSE]
             invoice == [OpenInvoice EXCEPT !.limited = TRUE,
                           !.renews = Current,
                           !.valid = sub[Current].left + Grace]
  <2>1. Current \in Payments
    BY <1>3, CurrentType DEF Renew, Live
  <2>2. sub[Current].left + Grace \in Int
    BY <2>1, BillingAssumption DEF SubTypeOK, SubRow
  <2>3. invoice \in InvRow
    BY <2>1, <2>2, RowTypes DEF InvRow
  <2>4. invoice.status = "OPEN" /\ invoice.total = "full"
        /\ invoice.receipt = FALSE
    BY DEF OpenInvoice, NoInvoice
  <2>5. PICK p \in Payments : Insert(p, want, invoice)
    BY <1>3 DEF Renew
  <2>6. UNCHANGED <<refund, outbox>>
    BY <1>3 DEF Renew, outboxVars
  <2> HIDE DEF want, invoice
  <2>7. QED
    BY <2>3, <2>4, <2>5, <2>6, InsertAgrees
<1>4. ASSUME NEW p \in Payments, Confirm(p) \/ Reject(p) PROVE BooksAgree(q)'
  BY <1>4, RequestMoves DEF Confirm, Reject, Reviewable, outboxVars
<1>5. ASSUME NEW p \in Payments, Approve(p) PROVE BooksAgree(q)'
  BY <1>5, ApproveAgrees
<1>6. ASSUME NEW p \in Payments, NEW amount \in {"reduced", "zero"},
             Discount(p, amount)
      PROVE  BooksAgree(q)'
  BY <1>6, DiscountAgrees
<1>7. ASSUME NEW p \in Payments, ConfirmRefund(p) PROVE BooksAgree(q)'
  BY <1>7, ConfirmRefundAgrees
<1>8. ASSUME NEW p \in Payments, RequestRefund(p) \/ FailRefund(p)
      PROVE  BooksAgree(q)'
  <2>1. refund'[q] = "SUCCEEDED" <=> refund[q] = "SUCCEEDED"
    BY <1>8 DEF RequestRefund, FailRefund, RefundTypeOK
  <2>2. UNCHANGED <<pay, inv, outbox>>
    BY <1>8 DEF RequestRefund, FailRefund, outboxVars
  <2>3. BooksAgree(q)
    OBVIOUS
  <2>4. QED
    BY <2>1, <2>2, <2>3 DEF BooksAgree, Cash, HasRow
<1>9. ASSUME ApplyChange PROVE BooksAgree(q)'
  <2>1. pay'[q].status = pay[q].status /\ pay'[q].amount = pay[q].amount
    <3>1. CASE pay' = pay
      BY <3>1
    <3>2. CASE pay' = [pay EXCEPT ![change.pay].sub = change.pay]
      BY <3>2 DEF PayTypeOK, PayRow
    <3>3. QED
      BY <1>9, <3>1, <3>2 DEF ApplyChange, Relink
  <2>2. UNCHANGED <<inv, refund, outbox>>
    BY <1>9 DEF ApplyChange, outboxVars
  <2>3. KeepsBooks(q)
    BY <2>1, <2>2 DEF KeepsBooks, HasRow
  <2>4. QED
    BY <2>3, KeptBooksAgree
<1>10. ASSUME SweepVoid PROVE BooksAgree(q)'
  <2> DEFINE S == {p \in Payments : Stale(p)}
  <2>1. inv' = Voided(inv, S) /\ UNCHANGED <<pay, refund, outbox>>
    BY <1>10 DEF SweepVoid, outboxVars
  <2> HIDE DEF S
  <2>2. /\ inv'[q].total = inv[q].total /\ inv'[q].receipt = inv[q].receipt
        /\ \/ inv'[q].status = inv[q].status
           \/ inv[q].status = "OPEN" /\ inv'[q].status = "VOID"
    BY <2>1, VoidedKeeps
  <2>3. BooksAgree(q)
    OBVIOUS
  <2>4. QED
    BY <2>1, <2>2, <2>3 DEF BooksAgree, Cash, HasRow
<1>11. ASSUME SweepCancel PROVE BooksAgree(q)'
  <2>1. UNCHANGED <<inv, refund, outbox>>
    BY <1>11 DEF SweepCancel, outboxVars
  <2>2. /\ pay'[q].amount = pay[q].amount
        /\ \/ pay'[q].status = pay[q].status
           \/ /\ pay[q].status = "AWAITING_TRANSFER"
              /\ pay'[q].status = "CANCELED"
    BY <1>11 DEF SweepCancel, PayTypeOK, PayRow
  <2>3. BooksAgree(q)
    OBVIOUS
  <2>4. QED
    BY <2>1, <2>2, <2>3 DEF BooksAgree, Cash, HasRow
<1>12. ASSUME Tick PROVE BooksAgree(q)'
  <2>1. UNCHANGED <<pay, refund, outbox>>
    BY <1>12 DEF Tick, outboxVars
  <2>2. /\ inv'[q].status = inv[q].status /\ inv'[q].total = inv[q].total
        /\ inv'[q].receipt = inv[q].receipt
    BY <1>12 DEF Tick, InvTypeOK, InvRow
  <2>3. KeepsBooks(q)
    BY <2>1, <2>2 DEF KeepsBooks, HasRow
  <2>4. QED
    BY <2>3, KeptBooksAgree
<1>13. ASSUME UNCHANGED <<pay, inv, refund>>,
              HasRow(PaidEvent(q))' <=> HasRow(PaidEvent(q)),
              HasRow(RefundEvent(q))' <=> HasRow(RefundEvent(q))
       PROVE  BooksAgree(q)'
  <2>1. KeepsBooks(q)
    BY <1>13 DEF KeepsBooks
  <2>2. QED
    BY <2>1, KeptBooksAgree
<1>14. ASSUME UNCHANGED <<pay, inv, refund, outbox>> PROVE BooksAgree(q)'
  BY <1>13, <1>14 DEF HasRow
<1>15. ASSUME Workers PROVE BooksAgree(q)'
  BY <1>13, <1>15, EventTypes, WorkersKeepRows
     DEF Workers, billingVars, HasRow, OutboxInv
<1>16. QED
  BY <1>1, <1>2, <1>3, <1>4, <1>5, <1>6, <1>7, <1>8, <1>9, <1>10, <1>11,
     <1>12, <1>14, <1>15
     DEF ComposedNext, vars, billingVars, outboxVars, Next, Billing, Customer,
         Operator, Maintenance, Begin, GiveUp, ScheduleCancel, UndoCancel,
         CancelNow, CancelAtEnd, CancelScheduled, ExpirePaid, SweepDies,
         RivalRedeems, RivalLeaves

----------------------------------------------------------------------------
(* Every step of billing is one that the outbox allows, or none.           *)
LEMMA CaptureStep ==
  ASSUME MoneyInv, [ComposedNext]_vars
  PROVE  [OutboxNext]_outboxVars
<1> USE DEF MoneyInv
<1>1. ASSUME NEW p \in Payments, Approve(p)
      PROVE  [OutboxNext]_outboxVars
  <2>1. UNCHANGED <<hub, poster, trouble>>
    BY <1>1 DEF Approve
  <2>2. CASE pay[p].amount = "zero"
    BY <1>1, <2>1, <2>2 DEF Approve, outboxVars
  <2>3. CASE pay[p].amount # "zero"
    <3>1. Capture(PaidEvent(p))
      BY <1>1, <2>3 DEF Approve
    <3>2. outbox[PaidEvent(p)].state = "NONE"
      BY <1>1 DEF Approve, Reviewable, BooksAgree, Cash, HasRow
    <3>3. Captured(PaidEvent(p))
      BY <2>1, <3>1, <3>2, EventTypes DEF Captured
    <3>4. QED
      BY <3>3, EventTypes DEF OutboxNext
  <2>4. QED
    BY <2>2, <2>3
<1>2. ASSUME NEW p \in Payments, ConfirmRefund(p)
      PROVE  [OutboxNext]_outboxVars
  <2>1. /\ Capture(RefundEvent(p)) /\ UNCHANGED <<hub, poster, trouble>>
        /\ outbox[PaidEvent(p)].state # "NONE" /\ refund[p] = "PENDING"
    BY <1>2 DEF ConfirmRefund
  <2>2. outbox[RefundEvent(p)].state = "NONE"
    BY <2>1 DEF BooksAgree, HasRow
  <2>3. Captured(RefundEvent(p))
    BY <2>1, <2>2, EventTypes DEF Captured
  <2>4. QED
    BY <2>3, EventTypes DEF OutboxNext
<1>3. ASSUME Workers
      PROVE  [OutboxNext]_outboxVars
  BY <1>3 DEF Workers, OutboxNext
<1>4. ASSUME UNCHANGED outboxVars
      PROVE  [OutboxNext]_outboxVars
  BY <1>4
<1>5. QED
  BY <1>1, <1>2, <1>3, <1>4
     DEF ComposedNext, vars, Next, Billing, Customer, Operator, Maintenance,
         Begin, CancelStale, Create, GiveUp, Confirm, ScheduleCancel,
         UndoCancel, Reject, Discount, RequestRefund, FailRefund, CancelNow,
         CancelAtEnd, CancelScheduled, ApplyChange, ExpirePaid, SweepVoid,
         SweepCancel, SweepDies, Renew, RivalRedeems, RivalLeaves, Tick

LEMMA BillingInitTypes == Init => BillingTypeOK
<1>1. SUFFICES ASSUME Init PROVE BillingTypeOK
  OBVIOUS
<1>2. PayTypeOK /\ InvTypeOK /\ RefundTypeOK
  BY <1>1, RowTypes DEF Init, PayTypeOK, InvTypeOK, RefundTypeOK
<1>3. SubTypeOK /\ ChangeTypeOK /\ TabTypeOK
  BY <1>1, RowTypes DEF Init, SubTypeOK, ChangeTypeOK, TabTypeOK
<1>4. QED
  BY <1>2, <1>3 DEF BillingTypeOK

LEMMA MoneyInit == Init => MoneyInv
<1>1. SUFFICES ASSUME Init PROVE MoneyInv
  OBVIOUS
<1>2. BillingTypeOK /\ OutboxInv
  BY <1>1, BillingInitTypes, OutboxInitHolds DEF Init
<1>3. ASSUME NEW p \in Payments PROVE BooksAgree(p)
  <2>1. /\ pay[p].status = "NONE" /\ pay[p].amount = "full"
        /\ inv[p].status = "NONE" /\ inv[p].total = "full"
        /\ inv[p].receipt = FALSE /\ refund[p] = "NONE"
    BY <1>1 DEF Init, NoRequest, NoInvoice
  <2>2. ~HasRow(PaidEvent(p)) /\ ~HasRow(RefundEvent(p))
    BY <1>1, EventTypes DEF Init, OutboxInit, Uncaptured, HasRow
  <2>3. QED
    BY <2>1, <2>2 DEF BooksAgree, Cash
<1>4. QED
  BY <1>2, <1>3 DEF MoneyInv

(* The invariant holds, with the workers of the outbox and without.        *)
THEOREM MoneyInvariance == ComposedSpec => []MoneyInv
<1>1. MoneyInv /\ [ComposedNext]_vars => MoneyInv'
  <2>1. SUFFICES ASSUME MoneyInv, [ComposedNext]_vars PROVE MoneyInv'
    OBVIOUS
  <2>2. BillingTypeOK'
    BY <2>1, BillingTypeStep DEF MoneyInv
  <2>3. OutboxInv'
    BY <2>1, CaptureStep, OutboxInvStep DEF MoneyInv
  <2>4. \A p \in Payments : BooksAgree(p)'
    BY <2>1, BooksStep
  <2>5. QED
    BY <2>2, <2>3, <2>4 DEF MoneyInv
<1>2. QED
  BY <1>1, MoneyInit, PTL DEF ComposedSpec

(* Without the workers is a special case of with them.                     *)
THEOREM SpecIsComposed == Spec => ComposedSpec
<1>1. [Next]_vars => [ComposedNext]_vars
  BY DEF ComposedNext
<1>2. QED
  BY <1>1, PTL DEF Spec, ComposedSpec

(* Request, invoice, receipt and financial events of every payment agree.  *)
THEOREM BooksBalance == Spec => []MoneyAgrees
<1>1. MoneyInv => MoneyAgrees
  BY MoneyInvImplies
<1>2. QED
  BY <1>1, MoneyInvariance, SpecIsComposed, PTL

(* Billing and the workers together behave as FinancialOutbox says: every  *)
(* event is captured once, and a refund after its payment.                 *)
THEOREM BillingImplementsOutbox == ComposedSpec => CapturesInOrder
<1>1. MoneyInv /\ [ComposedNext]_vars => [OutboxNext]_outboxVars
  BY CaptureStep
<1>2. Init => OutboxInit
  BY DEF Init
<1>3. QED
  BY <1>1, <1>2, MoneyInvariance, PTL DEF ComposedSpec, OutboxSpec,
     CapturesInOrder

(* So what the outbox promises of its events holds under billing: the      *)
(* Hub's books and the rows agree, and no verdict is taken back.           *)
THEOREM ComposedBooksHold ==
  ComposedSpec => []AcceptedIsBooked /\ VerdictIsFinal
<1>1. ComposedSpec => OutboxSpec
  BY BillingImplementsOutbox DEF CapturesInOrder
<1>2. QED
  BY <1>1, Booked, VerdictForGood, PTL

----------------------------------------------------------------------------
(* What a payment buys and what a refund takes back.                       *)

Served(p) == sub[p].status = "ACTIVE"
Approved(p) == pay[p].status = "APPROVED"
PaidLater(p) == change.kind = "DOWNGRADE" /\ change.pay = p

(* One subscription at a time, and FREE when there is none.                *)
OneLive == \A p, q \in Payments : Served(p) /\ Served(q) => p = q
FreeIffNone == free <=> Live = {}

(* A payment that started a subscription is approved and names it; one     *)
(* that names another waits for its change or was refunded.                *)
LinkOK(p) ==
  /\ sub[p].status # "NONE" => Approved(p) /\ pay[p].sub = p
  /\ refund[p] # "NONE" => Approved(p)
  /\ Approved(p) /\ pay[p].sub # p =>
       PaidLater(p) \/ refund[p] = "SUCCEEDED"

(* Only a downgrade is paid for.                                           *)
ChangeShape ==
  /\ change.kind = "DOWNGRADE" => change.pay \in Payments
  /\ change.kind # "DOWNGRADE" => change.pay = NoPayment

ServiceInv ==
  /\ MoneyInv /\ OneLive /\ FreeIffNone
  /\ \A p \in Payments : LinkOK(p)
  /\ ChangeShape /\ ChangeBindsCurrent /\ RefundedIsNotServed

----------------------------------------------------------------------------
LEMMA LiveMeans == \A p \in Payments : p \in Live <=> Served(p)
  BY DEF Live, Served

LEMMA PaidMeans == Paid => Current \in Payments /\ Served(Current)
  BY DEF Paid, Current, Live, Served

LEMMA CurrentIs ==
  ASSUME OneLive, NEW p \in Payments, Served(p)
  PROVE  Paid /\ Current = p
<1>1. p \in Live
  BY LiveMeans
<1>2. Paid
  BY <1>1 DEF Paid
<1>3. QED
  BY <1>2, PaidMeans DEF OneLive

(* The same statuses mean the same current subscription.                   *)
SameLive == Live' = Live /\ Current' = Current /\ (Paid' <=> Paid)

LEMMA SameStatuses ==
  ASSUME \A p \in Payments : sub'[p].status = sub[p].status
  PROVE  SameLive
<1>1. Live' = Live
  BY DEF Live
<1>2. QED
  BY <1>1 DEF SameLive, Current, Paid

(* Nobody is served: what every end of a subscription leaves behind.       *)
LEMMA NobodyServed ==
  ASSUME \A p \in Payments : ~Served(p)'
  PROVE  Live' = {} /\ OneLive' /\ ~Paid'
  BY DEF Served, Live, OneLive, Paid

LEMMA CanceledFacts ==
  ASSUME SubTypeOK, NEW p \in Payments
  PROVE  /\ Canceled(sub)[p].status # "ACTIVE"
         /\ Canceled(sub)[p].status = "NONE" <=> sub[p].status = "NONE"
  BY DEF Canceled, SubTypeOK, SubRow

----------------------------------------------------------------------------
(* Steps that only move requests which are not approved.                   *)
Quiet ==
  /\ UNCHANGED <<refund, sub, free, change>>
  /\ \A p \in Payments :
       /\ Approved(p)' <=> Approved(p)
       /\ Approved(p) => pay'[p].sub = pay[p].sub

LEMMA QuietKeeps ==
  ASSUME ServiceInv, Quiet
  PROVE  /\ OneLive' /\ FreeIffNone' /\ \A p \in Payments : LinkOK(p)'
         /\ ChangeShape' /\ ChangeBindsCurrent' /\ RefundedIsNotServed'
<1> USE DEF ServiceInv, Quiet
<1>1. SameLive
  BY SameStatuses
<1>2. OneLive' /\ FreeIffNone' /\ ChangeShape' /\ RefundedIsNotServed'
  BY <1>1 DEF SameLive, OneLive, Served, FreeIffNone, ChangeShape,
     RefundedIsNotServed
<1>3. \A p \in Payments : LinkOK(p)'
  BY DEF LinkOK, PaidLater
<1>4. ChangeBindsCurrent'
  BY <1>1 DEF SameLive, ChangeBindsCurrent, Approved, ChangeShape
<1>5. QED
  BY <1>2, <1>3, <1>4

LEMMA InsertQuiet ==
  ASSUME PayTypeOK, NEW p \in Payments, NEW want, NEW invoice,
         Insert(p, want, invoice), UNCHANGED <<refund, sub, free, change>>
  PROVE  Quiet
  BY DEF PayTypeOK, Insert, NoRequest, Quiet, Approved

LEMMA SetPayQuiet ==
  ASSUME PayTypeOK, NEW p, p \in Payments => ~Approved(p),
         NEW status \in {"PENDING", "REJECTED", "CANCELED"},
         SetPay(p, status), UNCHANGED <<refund, sub, free, change>>
  PROVE  Quiet
  BY DEF PayTypeOK, PayRow, SetPay, Quiet, Approved

LEMMA WhoIsQuiet ==
  ASSUME MoneyInv,
         \/ \E t \in Tabs : CancelStale(t) \/ Create(t) \/ GiveUp(t)
         \/ \E t \in Tabs, want \in Wants : Begin(t, want)
         \/ \E p \in Payments : Confirm(p) \/ Reject(p)
         \/ \E p \in Payments, amount \in {"reduced", "zero"} :
              Discount(p, amount)
         \/ SweepVoid \/ SweepCancel \/ SweepDies \/ Renew
         \/ RivalRedeems \/ RivalLeaves \/ Workers \/ UNCHANGED vars
  PROVE  Quiet
<1> USE DEF MoneyInv, BillingTypeOK
<1>1. ASSUME NEW t \in Tabs, CancelStale(t) PROVE Quiet
  <2>1. CASE pay' = pay
    BY <1>1, <2>1 DEF CancelStale, Quiet, Approved
  <2>2. CASE pay' # pay
    BY <1>1, <2>2, SetPayQuiet DEF CancelStale, Approved
  <2>3. QED
    BY <2>1, <2>2
<1>2. ASSUME NEW t \in Tabs, Create(t) PROVE Quiet
  BY <1>2, InsertQuiet DEF Create
<1>3. ASSUME NEW p \in Payments, Confirm(p) \/ Reject(p) PROVE Quiet
  BY <1>3, SetPayQuiet DEF Confirm, Reject, Reviewable, Approved
<1>4. ASSUME NEW p \in Payments, NEW amount \in {"reduced", "zero"},
             Discount(p, amount)
      PROVE  Quiet
  <2>1. PICK status \in {"AWAITING_TRANSFER", "PENDING"} :
          pay' = [pay EXCEPT ![p].amount = amount, ![p].status = status]
    BY <1>4 DEF Discount
  <2>2. pay[p].status = "AWAITING_TRANSFER"
        /\ UNCHANGED <<refund, sub, free, change>>
    BY <1>4 DEF Discount
  <2>3. QED
    BY <2>1, <2>2 DEF PayTypeOK, PayRow, Quiet, Approved
<1>5. ASSUME SweepCancel PROVE Quiet
  BY <1>5 DEF SweepCancel, PayTypeOK, PayRow, Quiet, Approved
<1>6. ASSUME Renew PROVE Quiet
  BY <1>6, InsertQuiet DEF Renew
<1>7. ASSUME UNCHANGED <<pay, refund, sub, free, change>> PROVE Quiet
  BY <1>7 DEF Quiet, Approved
<1>8. QED
  BY <1>1, <1>2, <1>3, <1>4, <1>5, <1>6, <1>7
     DEF GiveUp, Begin, SweepVoid, SweepDies, RivalRedeems, RivalLeaves,
         Workers, vars, billingVars

----------------------------------------------------------------------------
(* Steps that only schedule or drop a change.                              *)

LEMMA RefundNoted ==
  ASSUME ServiceInv, NEW p \in Payments, RequestRefund(p) \/ FailRefund(p)
  PROVE  /\ OneLive' /\ FreeIffNone' /\ \A q \in Payments : LinkOK(q)'
         /\ ChangeShape' /\ ChangeBindsCurrent' /\ RefundedIsNotServed'
<1> USE DEF ServiceInv, MoneyInv, BillingTypeOK
<1>1. UNCHANGED <<pay, sub, free, change>> /\ Approved(p)
  BY DEF RequestRefund, FailRefund, Refundable, Approved
<1>2. \A q \in Payments :
        /\ refund'[q] = "SUCCEEDED" <=> refund[q] = "SUCCEEDED"
        /\ refund'[q] # "NONE" => refund[q] # "NONE" \/ q = p
  BY DEF RequestRefund, FailRefund, RefundTypeOK
<1>3. SameLive
  BY <1>1, SameStatuses
<1>4. OneLive' /\ FreeIffNone' /\ ChangeShape' /\ RefundedIsNotServed'
  BY <1>1, <1>2, <1>3 DEF SameLive, OneLive, Served, FreeIffNone, ChangeShape,
     RefundedIsNotServed
<1>5. \A q \in Payments : LinkOK(q)'
  BY <1>1, <1>2 DEF LinkOK, PaidLater, Approved
<1>6. ChangeBindsCurrent'
  BY <1>1, <1>2, <1>3 DEF SameLive, ChangeBindsCurrent, ChangeShape
<1>7. QED
  BY <1>4, <1>5, <1>6

(* A cancellation is scheduled, or a change that nobody paid for dropped.  *)
LEMMA ChangeNoted ==
  ASSUME ServiceInv, UNCHANGED <<pay, refund, sub, free>>,
         change.kind # "DOWNGRADE",
         \/ change' = NoChange
         \/ change' = Cancellation /\ Paid
  PROVE  /\ OneLive' /\ FreeIffNone' /\ \A q \in Payments : LinkOK(q)'
         /\ ChangeShape' /\ ChangeBindsCurrent' /\ RefundedIsNotServed'
<1> USE DEF ServiceInv
<1>1. SameLive
  BY SameStatuses
<1>2. change'.kind # "DOWNGRADE" /\ change'.pay = NoPayment
  BY DEF NoChange, Cancellation
<1>3. OneLive' /\ FreeIffNone' /\ ChangeShape' /\ RefundedIsNotServed'
  BY <1>1, <1>2 DEF SameLive, OneLive, Served, FreeIffNone, ChangeShape,
     RefundedIsNotServed
<1>4. \A q \in Payments : LinkOK(q)'
  BY DEF LinkOK, PaidLater, Approved
<1>5. ChangeBindsCurrent'
  BY <1>1, <1>2 DEF SameLive, ChangeBindsCurrent, NoChange, Cancellation
<1>6. QED
  BY <1>3, <1>4, <1>5

LEMMA TickKeeps ==
  ASSUME ServiceInv, Tick
  PROVE  /\ OneLive' /\ FreeIffNone' /\ \A q \in Payments : LinkOK(q)'
         /\ ChangeShape' /\ ChangeBindsCurrent' /\ RefundedIsNotServed'
<1> USE DEF ServiceInv, MoneyInv, BillingTypeOK
<1>1. UNCHANGED <<pay, refund, free>>
  BY DEF Tick
<1>2. \A p \in Payments :
        /\ sub'[p].status = sub[p].status
        /\ Served(p) => sub'[p].left = Earlier(sub[p].left, LongOver)
  BY DEF Tick, Served, SubTypeOK, SubRow
<1>3. /\ change'.kind = change.kind /\ change'.pay = change.pay
      /\ change'.sub = change.sub
      /\ change.kind # "NONE" =>
           change'.left = Earlier(change.left, LongOver)
  BY DEF Tick, ChangeTypeOK, ChangeRow
<1>4. SameLive
  BY <1>2, SameStatuses
<1>5. OneLive' /\ FreeIffNone' /\ ChangeShape' /\ RefundedIsNotServed'
  BY <1>1, <1>2, <1>3, <1>4 DEF SameLive, OneLive, Served, FreeIffNone,
     ChangeShape, RefundedIsNotServed
<1>6. \A q \in Payments : LinkOK(q)'
  BY <1>1, <1>2, <1>3 DEF LinkOK, PaidLater, Approved
<1>7. ChangeBindsCurrent'
  <2>1. SUFFICES ASSUME change.kind # "NONE" PROVE ChangeBindsCurrent'
    BY <1>3 DEF ChangeBindsCurrent
  <2>2. Paid /\ change.sub = Current /\ change.left = sub[Current].left
    BY <2>1 DEF ChangeBindsCurrent
  <2>3. Current \in Payments /\ Served(Current)
    BY <2>2, PaidMeans
  <2>4. change'.left = sub'[Current].left
    BY <1>2, <1>3, <2>1, <2>2, <2>3
  <2>5. change.kind = "DOWNGRADE" =>
          /\ change.pay \in Payments /\ pay[change.pay].status = "APPROVED"
          /\ refund[change.pay] # "SUCCEEDED"
          /\ sub[change.pay].status = "NONE"
    BY DEF ChangeBindsCurrent, ChangeShape
  <2>6. QED
    BY <1>1, <1>2, <1>3, <1>4, <2>2, <2>4, <2>5 DEF SameLive,
       ChangeBindsCurrent
<1>8. QED
  BY <1>5, <1>6, <1>7

----------------------------------------------------------------------------
(* Steps that end or start a subscription.                                 *)

LEMMA EndKeeps ==
  ASSUME ServiceInv, CancelToFree, UNCHANGED <<pay>>,
         \A q \in Payments : /\ refund'[q] # "NONE" => Approved(q)
                             /\ refund[q] = "SUCCEEDED" =>
                                  refund'[q] = "SUCCEEDED"
  PROVE  /\ OneLive' /\ FreeIffNone' /\ \A q \in Payments : LinkOK(q)'
         /\ ChangeShape' /\ ChangeBindsCurrent' /\ RefundedIsNotServed'
<1> USE DEF ServiceInv, MoneyInv, BillingTypeOK
<1>1. sub' = Canceled(sub) /\ free' = TRUE /\ change' = NoChange
      /\ change.pay = NoPayment
  BY DEF CancelToFree
<1>2. \A q \in Payments : /\ ~Served(q)'
                          /\ sub'[q].status = "NONE" <=> sub[q].status = "NONE"
  BY <1>1, CanceledFacts DEF Served
<1>3. Live' = {} /\ OneLive' /\ ~Paid'
  BY <1>2, NobodyServed
<1>4. FreeIffNone' /\ ChangeShape' /\ ChangeBindsCurrent'
  BY <1>1, <1>3 DEF FreeIffNone, ChangeShape, ChangeBindsCurrent, NoChange
<1>5. RefundedIsNotServed'
  BY <1>2 DEF RefundedIsNotServed, Served
<1>6. change.kind # "DOWNGRADE"
  BY <1>1, BillingAssumption DEF ChangeShape
<1>7. \A q \in Payments : LinkOK(q)'
  BY <1>2, <1>6 DEF LinkOK, PaidLater, Approved
<1>8. QED
  BY <1>3, <1>4, <1>5, <1>7

LEMMA ConfirmRefundKeeps ==
  ASSUME ServiceInv, NEW p \in Payments, ConfirmRefund(p)
  PROVE  /\ OneLive' /\ FreeIffNone' /\ \A q \in Payments : LinkOK(q)'
         /\ ChangeShape' /\ ChangeBindsCurrent' /\ RefundedIsNotServed'
<1> USE DEF ServiceInv, MoneyInv, BillingTypeOK
<1>1. /\ refund' = [refund EXCEPT ![p] = "SUCCEEDED"]
      /\ pay' = pay /\ Approved(p) /\ refund[p] = "PENDING"
  BY DEF ConfirmRefund, Refundable, Approved
<1>2. /\ refund'[p] = "SUCCEEDED"
      /\ \A q \in Payments : q # p => refund'[q] = refund[q]
  BY <1>1 DEF RefundTypeOK
<1>3. Served(p) => /\ Paid /\ Current = p /\ Current = pay[p].sub
                   /\ ~PaidLater(p)
  BY CurrentIs DEF LinkOK, Served, PaidLater, ChangeBindsCurrent
<1>4. CASE change.kind # "NONE" /\ change.pay = p
  <2>1. change' = NoChange /\ UNCHANGED <<sub, free>>
    BY <1>4 DEF ConfirmRefund, RefundEnds
  <2>2. SameLive
    BY <2>1, SameStatuses
  <2>3. PaidLater(p)
    BY <1>4, BillingAssumption DEF ChangeShape, PaidLater
  <2>4. OneLive' /\ FreeIffNone' /\ ChangeShape' /\ ChangeBindsCurrent'
    BY <2>1, <2>2 DEF SameLive, OneLive, Served, FreeIffNone, ChangeShape,
       ChangeBindsCurrent, NoChange
  <2>5. RefundedIsNotServed'
    BY <1>2, <1>3, <2>1, <2>3 DEF RefundedIsNotServed, Served
  <2>6. \A q \in Payments : LinkOK(q)'
    BY <1>1, <1>2, <2>1, <1>4 DEF LinkOK, PaidLater, Approved
  <2>7. QED
    BY <2>4, <2>5, <2>6
<1>5. CASE ~(change.kind # "NONE" /\ change.pay = p)
           /\ Paid /\ Current = pay[p].sub
  <2>1. CancelToFree
    BY <1>5 DEF ConfirmRefund, RefundEnds
  <2>2. QED
    BY <1>1, <1>2, <2>1, EndKeeps DEF LinkOK
<1>6. CASE ~(change.kind # "NONE" /\ change.pay = p)
           /\ ~(Paid /\ Current = pay[p].sub)
  <2>1. UNCHANGED <<sub, free, change>>
    BY <1>6 DEF ConfirmRefund, RefundEnds
  <2>2. SameLive
    BY <2>1, SameStatuses
  <2>3. OneLive' /\ FreeIffNone' /\ ChangeShape'
    BY <2>1, <2>2 DEF SameLive, OneLive, Served, FreeIffNone, ChangeShape
  <2>4. ChangeBindsCurrent'
    BY <1>1, <1>2, <1>6, <2>1, <2>2 DEF SameLive, ChangeBindsCurrent,
       ChangeShape
  <2>5. RefundedIsNotServed'
    BY <1>2, <1>3, <1>6, <2>1 DEF RefundedIsNotServed, Served
  <2>6. \A q \in Payments : LinkOK(q)'
    BY <1>1, <1>2, <2>1 DEF LinkOK, PaidLater, Approved
  <2>7. QED
    BY <2>3, <2>4, <2>5, <2>6
<1>7. QED
  BY <1>4, <1>5, <1>6

LEMMA ApproveKeeps ==
  ASSUME ServiceInv, NEW p \in Payments, Approve(p)
  PROVE  /\ OneLive' /\ FreeIffNone' /\ \A q \in Payments : LinkOK(q)'
         /\ ChangeShape' /\ ChangeBindsCurrent' /\ RefundedIsNotServed'
<1> USE DEF ServiceInv, MoneyInv, BillingTypeOK
<1>1. /\ change.kind = "NONE" /\ refund' = refund
      /\ ~Approved(p) /\ sub[p].status = "NONE" /\ refund[p] = "NONE"
  BY DEF Approve, Unscheduled, Reviewable, Approved, LinkOK
<1>2. /\ Approved(p)'
      /\ pay'[p].sub = IF Deferred(p) THEN Current ELSE p
      /\ \A q \in Payments : q # p => pay'[q] = pay[q]
  BY DEF Approve, PayTypeOK, PayRow, Approved
<1>3. \A q \in Payments : Approved(q) /\ pay[q].sub # q => refund[q] = "SUCCEEDED"
  BY <1>1 DEF LinkOK, PaidLater
<1>4. CASE Deferred(p)
  <2>1. UNCHANGED <<sub, free>>
    BY <1>4 DEF Approve
  <2>2. change' = [kind |-> "DOWNGRADE", sub |-> Current, pay |-> p,
                   plan |-> pay[p].plan, left |-> sub[Current].left]
    BY <1>4 DEF Approve
  <2>3. SameLive
    BY <2>1, SameStatuses
  <2>4. OneLive' /\ FreeIffNone' /\ RefundedIsNotServed' /\ ChangeShape'
    BY <1>1, <2>1, <2>2, <2>3 DEF SameLive, OneLive, Served, FreeIffNone,
       ChangeShape, RefundedIsNotServed
  <2>5. ChangeBindsCurrent'
    BY <1>1, <1>2, <1>4, <2>1, <2>2, <2>3 DEF SameLive, ChangeBindsCurrent,
       Deferred, Approved
  <2>6. \A q \in Payments : LinkOK(q)'
    BY <1>1, <1>2, <1>3, <2>1, <2>2 DEF LinkOK, PaidLater, Approved
  <2>7. QED
    BY <2>4, <2>5, <2>6
<1>5. CASE ~Deferred(p)
  <2>1. /\ sub' = [Canceled(sub) EXCEPT ![p] =
                     [status |-> "ACTIVE", plan |-> pay[p].plan,
                      left |-> NewLeft(p)]]
        /\ free' = FALSE /\ change' = change
    BY <1>5 DEF Approve, Replace
  <2>2. /\ Served(p)'
        /\ \A q \in Payments : q # p =>
             /\ ~Served(q)'
             /\ sub'[q].status = "NONE" <=> sub[q].status = "NONE"
    <3>1. Canceled(sub) \in [Payments -> SubRow]
      BY CanceledType
    <3>2. QED
      BY <2>1, <3>1, CanceledFacts DEF Served
  <2>3. p \in Live'
    BY <2>2 DEF Live, Served
  <2>4. OneLive' /\ FreeIffNone'
    BY <2>1, <2>2, <2>3 DEF OneLive, FreeIffNone
  <2>5. ChangeShape' /\ ChangeBindsCurrent'
    BY <1>1, <2>1 DEF ChangeShape, ChangeBindsCurrent
  <2>6. RefundedIsNotServed'
    BY <1>1, <2>2 DEF RefundedIsNotServed, Served
  <2>7. \A q \in Payments : LinkOK(q)'
    BY <1>1, <1>2, <1>3, <1>5, <2>2 DEF LinkOK, Approved
  <2>8. QED
    BY <2>4, <2>5, <2>6, <2>7
<1>6. QED
  BY <1>4, <1>5

LEMMA ApplyChangeKeeps ==
  ASSUME ServiceInv, ApplyChange
  PROVE  /\ OneLive' /\ FreeIffNone' /\ \A q \in Payments : LinkOK(q)'
         /\ ChangeShape' /\ ChangeBindsCurrent' /\ RefundedIsNotServed'
<1> USE DEF ServiceInv, MoneyInv, BillingTypeOK
<1>1. refund' = refund /\ change' = NoChange /\ change.kind # "NONE"
  BY DEF ApplyChange, DueChange
<1>2. ChangeShape' /\ ChangeBindsCurrent'
  BY <1>1 DEF ChangeShape, ChangeBindsCurrent, NoChange
<1>3. CASE change.kind = "CANCEL"
  <2>1. sub' = Canceled(sub) /\ free' = TRUE /\ pay' = pay
    BY <1>3 DEF ApplyChange
  <2>2. \A q \in Payments :
          /\ ~Served(q)'
          /\ sub'[q].status = "NONE" <=> sub[q].status = "NONE"
    BY <2>1, CanceledFacts DEF Served
  <2>3. Live' = {} /\ OneLive' /\ ~Paid'
    BY <2>2, NobodyServed
  <2>4. FreeIffNone' /\ RefundedIsNotServed'
    BY <2>1, <2>2, <2>3 DEF FreeIffNone, RefundedIsNotServed, Served
  <2>5. \A q \in Payments : LinkOK(q)'
    BY <1>1, <1>3, <2>1, <2>2 DEF LinkOK, PaidLater, Approved
  <2>6. QED
    BY <1>2, <2>3, <2>4, <2>5
<1>4. CASE change.kind # "CANCEL"
  <2>1. change.kind = "DOWNGRADE"
    BY <1>1, <1>4 DEF ChangeTypeOK, ChangeRow
  <2> PICK p \in Payments : p = change.pay
    BY <2>1 DEF ChangeShape
  <2> DEFINE left == change.left + Month
             row == [status |-> IF GraceEnded(left) THEN "EXPIRED"
                                ELSE "ACTIVE",
                     plan |-> change.plan, left |-> left]
  <2>2. /\ Approved(p) /\ refund[p] # "SUCCEEDED"
        /\ sub[p].status = "NONE"
    BY <2>1 DEF ChangeShape, ChangeBindsCurrent, Approved
  <2>3. /\ sub' = [Canceled(sub) EXCEPT ![p] = row]
        /\ free' = GraceEnded(left)
        /\ pay' = [pay EXCEPT ![p].sub = p]
    BY <1>4 DEF ApplyChange, Relink
  <2>4. row.status = IF GraceEnded(left) THEN "EXPIRED" ELSE "ACTIVE"
    OBVIOUS
  <2> HIDE DEF row, left
  <2>5. /\ sub'[p] = row
        /\ \A q \in Payments : q # p =>
             /\ ~Served(q)'
             /\ sub'[q].status = "NONE" <=> sub[q].status = "NONE"
    <3>1. Canceled(sub) \in [Payments -> SubRow]
      BY CanceledType
    <3>2. QED
      BY <2>2, <2>3, <3>1, CanceledFacts DEF Served
  <2>6. Served(p)' <=> ~GraceEnded(left)
    BY <2>4, <2>5 DEF Served
  <2>7. OneLive'
    BY <2>5 DEF OneLive
  <2>8. p \in Live' <=> Served(p)'
    BY <2>2 DEF Live, Served
  <2>9. Live' \subseteq {p}
    BY <2>5 DEF Live, Served
  <2>10. FreeIffNone'
    BY <2>3, <2>6, <2>8, <2>9 DEF FreeIffNone
  <2>11. RefundedIsNotServed'
    BY <1>1, <2>2, <2>5 DEF RefundedIsNotServed, Served
  <2>12. /\ pay'[p].sub = p /\ Approved(p)'
         /\ \A q \in Payments : q # p => pay'[q] = pay[q]
    BY <2>2, <2>3 DEF PayTypeOK, PayRow, Approved
  <2>13. \A q \in Payments : LinkOK(q)'
    BY <1>1, <2>1, <2>2, <2>5, <2>12 DEF LinkOK, PaidLater, Approved
  <2>14. QED
    BY <1>2, <2>7, <2>10, <2>11, <2>13
<1>5. QED
  BY <1>3, <1>4

(* A change that was pending would have been due, and applied first.       *)
LEMMA ExpireKeeps ==
  ASSUME ServiceInv, ExpirePaid
  PROVE  /\ OneLive' /\ FreeIffNone' /\ \A q \in Payments : LinkOK(q)'
         /\ ChangeShape' /\ ChangeBindsCurrent' /\ RefundedIsNotServed'
<1> USE DEF ServiceInv, MoneyInv, BillingTypeOK
<1>1. /\ UNCHANGED <<pay, refund, change>> /\ Paid /\ free' = TRUE
      /\ sub' = [sub EXCEPT ![Current].status = "EXPIRED"]
  BY DEF ExpirePaid
<1>2. Current \in Payments /\ Served(Current)
  BY <1>1, PaidMeans
<1>3. sub[Current].left \in Int /\ Grace \in Nat
  BY <1>2, BillingAssumption DEF SubTypeOK, SubRow
<1>4. sub[Current].left <= 0
  BY <1>3 DEF ExpirePaid, GraceEnded
<1>5. change.kind = "NONE"
  BY <1>1, <1>4 DEF ExpirePaid, DueChange, ChangeBindsCurrent
<1>6. \A q \in Payments :
        /\ ~Served(q)'
        /\ sub'[q].status = "NONE" <=> sub[q].status = "NONE"
  BY <1>1, <1>2 DEF OneLive, Served, SubTypeOK, SubRow
<1>7. Live' = {} /\ OneLive' /\ ~Paid'
  BY <1>6, NobodyServed
<1>8. FreeIffNone' /\ ChangeShape' /\ ChangeBindsCurrent' /\ RefundedIsNotServed'
  BY <1>1, <1>5, <1>6, <1>7 DEF FreeIffNone, ChangeShape, ChangeBindsCurrent,
     RefundedIsNotServed, Served
<1>9. \A q \in Payments : LinkOK(q)'
  BY <1>1, <1>6 DEF LinkOK, PaidLater, Approved
<1>10. QED
  BY <1>7, <1>8, <1>9

----------------------------------------------------------------------------
LEMMA ServiceStep ==
  ASSUME ServiceInv, [ComposedNext]_vars
  PROVE  ServiceInv'
<1> DEFINE Kept == /\ OneLive' /\ FreeIffNone' /\ \A q \in Payments : LinkOK(q)'
                   /\ ChangeShape' /\ ChangeBindsCurrent' /\ RefundedIsNotServed'
<1>1. MoneyInv'
  <2>1. MoneyInv
    BY DEF ServiceInv
  <2>2. BillingTypeOK'
    BY <2>1, BillingTypeStep DEF MoneyInv
  <2>3. OutboxInv'
    BY <2>1, CaptureStep, OutboxInvStep DEF MoneyInv
  <2>4. \A p \in Payments : BooksAgree(p)'
    BY <2>1, BooksStep
  <2>5. QED
    BY <2>2, <2>3, <2>4 DEF MoneyInv
<1>2. ASSUME Quiet PROVE Kept
  BY <1>2, QuietKeeps
<1>3. ASSUME NEW p \in Payments, RequestRefund(p) \/ FailRefund(p) PROVE Kept
  BY <1>3, RefundNoted
<1>4. ASSUME NEW p \in Payments, ConfirmRefund(p) PROVE Kept
  BY <1>4, ConfirmRefundKeeps
<1>5. ASSUME NEW p \in Payments, Approve(p) PROVE Kept
  BY <1>5, ApproveKeeps
<1>6. ASSUME NEW p \in Payments, CancelNow(p) PROVE Kept
  <2>1. CancelToFree /\ UNCHANGED <<pay, refund>>
    BY <1>6 DEF CancelNow
  <2>2. \A q \in Payments : refund[q] # "NONE" => Approved(q)
    BY DEF ServiceInv, LinkOK
  <2>3. QED
    BY <2>1, <2>2, EndKeeps
<1>7. ASSUME NEW p \in Payments, CancelAtEnd(p) \/ CancelScheduled(p) PROVE Kept
  <2>1. change.kind # "DOWNGRADE"
    BY <1>7, BillingAssumption DEF CancelAtEnd, CancelScheduled, Unscheduled,
       ServiceInv, ChangeShape
  <2>2. QED
    BY <1>7, <2>1, ChangeNoted DEF CancelAtEnd, CancelScheduled, Linked
<1>8. ASSUME ScheduleCancel \/ UndoCancel PROVE Kept
  BY <1>8, ChangeNoted DEF ScheduleCancel, UndoCancel, Unscheduled
<1>9. ASSUME ApplyChange PROVE Kept
  BY <1>9, ApplyChangeKeeps
<1>10. ASSUME ExpirePaid PROVE Kept
  BY <1>10, ExpireKeeps
<1>11. ASSUME Tick PROVE Kept
  BY <1>11, TickKeeps
<1>12. ASSUME UNCHANGED vars PROVE Kept
  BY <1>2, <1>12, WhoIsQuiet DEF ServiceInv
<1>13. ASSUME Workers PROVE Kept
  BY <1>2, <1>13, WhoIsQuiet DEF ServiceInv
<1>14. ASSUME Customer PROVE Kept
  BY <1>2, <1>8, <1>14, WhoIsQuiet DEF ServiceInv, Customer
<1>15. ASSUME Operator PROVE Kept
  BY <1>2, <1>3, <1>4, <1>5, <1>6, <1>7, <1>15, WhoIsQuiet
     DEF ServiceInv, Operator
<1>16. ASSUME Maintenance PROVE Kept
  BY <1>2, <1>9, <1>10, <1>16, WhoIsQuiet DEF ServiceInv, Maintenance
<1>17. ASSUME RivalRedeems \/ RivalLeaves PROVE Kept
  BY <1>2, <1>17, WhoIsQuiet DEF ServiceInv
<1>18. Kept
  BY <1>11, <1>12, <1>13, <1>14, <1>15, <1>16, <1>17
     DEF ComposedNext, Next, Billing
<1>19. QED
  BY <1>1, <1>18 DEF ServiceInv

LEMMA ServiceInit == Init => ServiceInv
<1>1. SUFFICES ASSUME Init PROVE ServiceInv
  OBVIOUS
<1>2. MoneyInv
  BY <1>1, MoneyInit
<1>3. \A p \in Payments : /\ sub[p].status = "NONE" /\ pay[p].status = "NONE"
                          /\ refund[p] = "NONE"
  BY <1>1 DEF Init, NoSub, NoRequest
<1>4. free = TRUE /\ change.kind = "NONE" /\ change.pay = NoPayment
  BY <1>1 DEF Init, NoChange
<1>5. OneLive /\ FreeIffNone
  BY <1>3, <1>4 DEF OneLive, FreeIffNone, Live, Served
<1>6. \A p \in Payments : LinkOK(p)
  BY <1>3 DEF LinkOK, Approved
<1>7. ChangeShape /\ ChangeBindsCurrent /\ RefundedIsNotServed
  BY <1>3, <1>4 DEF ChangeShape, ChangeBindsCurrent, RefundedIsNotServed
<1>8. QED
  BY <1>2, <1>5, <1>6, <1>7 DEF ServiceInv

(* The invariant holds, with the workers of the outbox and without.        *)
THEOREM ServiceInvariance == ComposedSpec => []ServiceInv
<1>1. ServiceInv /\ [ComposedNext]_vars => ServiceInv'
  BY ServiceStep
<1>2. QED
  BY <1>1, ServiceInit, PTL DEF ComposedSpec

(* A pending change is bound to the current subscription, due at its end,  *)
(* and, when it was paid for, not refunded.                                *)
THEOREM ChangeAlwaysApplies == Spec => []ChangeBindsCurrent
<1>1. ServiceInv => ChangeBindsCurrent
  BY DEF ServiceInv
<1>2. QED
  BY <1>1, ServiceInvariance, SpecIsComposed, PTL

(* Nobody is served for a payment that was refunded.                       *)
THEOREM NoServiceAfterRefund == Spec => []RefundedIsNotServed
<1>1. ServiceInv => RefundedIsNotServed
  BY DEF ServiceInv
<1>2. QED
  BY <1>1, ServiceInvariance, SpecIsComposed, PTL

(* Exactly one subscription is current, whatever was bought, refunded,     *)
(* canceled, changed or expired.                                           *)
THEOREM OneCurrentSubscription == Spec => []OneSubscription
<1>1. ServiceInv => OneSubscription
  <2>1. SUFFICES ASSUME ServiceInv PROVE OneSubscription
    OBVIOUS
  <2>2. free \in BOOLEAN
    BY <2>1 DEF ServiceInv, MoneyInv, BillingTypeOK, SubTypeOK
  <2>3. CASE Live = {}
    <3>1. Cardinality(Live) = 0
      BY <2>3, FS_EmptySet
    <3>2. free
      BY <2>1, <2>3 DEF ServiceInv, FreeIffNone
    <3>3. QED
      BY <3>1, <3>2 DEF OneSubscription
  <2>4. CASE Live # {}
    <3>1. PICK p : Live = {p}
      BY <2>1, <2>4 DEF ServiceInv, OneLive, Live, Served
    <3>2. Cardinality(Live) = 1
      BY <3>1, FS_Singleton
    <3>3. ~free
      BY <2>1, <2>4 DEF ServiceInv, FreeIffNone
    <3>4. QED
      BY <3>2, <3>3 DEF OneSubscription
  <2>5. QED
    BY <2>3, <2>4
<1>2. QED
  BY <1>1, ServiceInvariance, SpecIsComposed, PTL

(* A refund ends nothing that another payment bought: the subscription it  *)
(* cancels is the one its own payment started.                             *)
THEOREM RefundsSpareOthers == Spec => RefundSparesOthers
<1>1. ASSUME ServiceInv, [ComposedNext]_vars,
             NEW p \in Payments, NEW q \in Payments, p # q,
             refund[p] # "SUCCEEDED", refund'[p] = "SUCCEEDED",
             sub[q].status = "ACTIVE"
      PROVE  sub'[q].status = "ACTIVE"
  <2> USE <1>1 DEF ServiceInv, MoneyInv, BillingTypeOK
  <2>1. PICK r \in Payments : ConfirmRefund(r)
    <3>1. refund' # refund
      OBVIOUS
    <3>2. \A r \in Payments : ~RequestRefund(r) /\ ~FailRefund(r)
      BY DEF RequestRefund, FailRefund, RefundTypeOK
    <3>3. ~Quiet
      BY <3>1 DEF Quiet
    <3>4. ~Workers /\ ~RivalRedeems /\ ~RivalLeaves /\ ~(UNCHANGED vars)
      BY <3>3, WhoIsQuiet
    <3>5. ~Customer
      BY <3>1, <3>3, WhoIsQuiet DEF Customer, ScheduleCancel, UndoCancel
    <3>6. ~Maintenance
      BY <3>1, <3>3, WhoIsQuiet DEF Maintenance, ApplyChange, ExpirePaid
    <3>7. ~Tick
      BY <3>1 DEF Tick
    <3>8. Operator
      BY <3>4, <3>5, <3>6, <3>7 DEF ComposedNext, Next, Billing
    <3>9. QED
      BY <3>1, <3>2, <3>3, <3>8, WhoIsQuiet DEF Operator, Approve, CancelNow,
         CancelAtEnd, CancelScheduled
  <2>2. r = p /\ Approved(p) /\ RefundEnds(p)
    BY <2>1 DEF ConfirmRefund, Refundable, Approved, RefundTypeOK
  <2>3. Paid /\ Current = q
    BY CurrentIs DEF Served
  <2>4. CASE change.kind # "NONE" /\ change.pay = p
    BY <2>2, <2>4 DEF RefundEnds
  <2>5. CASE ~(change.kind # "NONE" /\ change.pay = p)
    <3>1. ~PaidLater(p)
      BY <2>5 DEF PaidLater
    <3>2. pay[p].sub = p
      BY <2>2, <3>1 DEF LinkOK
    <3>3. QED
      BY <2>2, <2>3, <2>5, <3>2 DEF RefundEnds
  <2>6. QED
    BY <2>4, <2>5
<1>2. ServiceInv /\ [ComposedNext]_vars
        => [\A p, q \in Payments :
              /\ p # q /\ refund[p] # "SUCCEEDED" /\ refund'[p] = "SUCCEEDED"
              /\ sub[q].status = "ACTIVE"
              => sub'[q].status = "ACTIVE"]_vars
  BY <1>1
<1>3. QED
  BY <1>2, ServiceInvariance, SpecIsComposed, PTL DEF ComposedSpec,
     RefundSparesOthers

----------------------------------------------------------------------------
(* Requests and the coupon.  Two creations that have both passed their     *)
(* checks, and a renewal beside them, are stopped by the insert, which     *)
(* looks again; the coupon is counted in the same step.                    *)

OneRequest == \A p, q \in Open : p = q
OneUse == \A p, q \in Redeemed : p = q

RequestInv ==
  /\ OneRequest /\ OneUse
  /\ rivals \in Nat /\ rivals + Cardinality(Redeemed) <= MaxRedemptions

LEMMA AtMostOne ==
  ASSUME NEW S, \A p, q \in S : p = q
  PROVE  IsFiniteSet(S) /\ Cardinality(S) \in Nat /\ Cardinality(S) <= 1
<1>1. CASE S = {}
  BY <1>1, FS_EmptySet
<1>2. CASE S # {}
  <2>1. PICK p : S = {p}
    BY <1>2
  <2>2. QED
    BY <2>1, FS_Singleton
<1>3. QED
  BY <1>1, <1>2

(* Neither a new open request nor a new use of the coupon.                 *)
Narrows == Open' \subseteq Open /\ Redeemed' \subseteq Redeemed

LEMMA NarrowsKeeps ==
  ASSUME RequestInv, Narrows, rivals' = rivals
  PROVE  RequestInv'
<1>1. IsFiniteSet(Redeemed) /\ IsFiniteSet(Redeemed')
  BY AtMostOne, FS_Subset DEF RequestInv, OneUse, Narrows
<1>2. Cardinality(Redeemed') <= Cardinality(Redeemed)
  BY <1>1, FS_Subset DEF Narrows
<1>3. Cardinality(Redeemed) \in Nat /\ Cardinality(Redeemed') \in Nat
  BY <1>1, FS_CardinalityType
<1>4. rivals' + Cardinality(Redeemed') <= MaxRedemptions
  BY <1>2, <1>3, BillingAssumption DEF RequestInv
<1>5. OneRequest' /\ OneUse'
  BY DEF RequestInv, OneRequest, OneUse, Narrows
<1>6. QED
  BY <1>4, <1>5 DEF RequestInv

LEMMA SetPayNarrows ==
  ASSUME PayTypeOK, NEW p, NEW status, SetPay(p, status),
         \/ pay[p].status = "AWAITING_TRANSFER" /\ status \in {"PENDING", "CANCELED"}
         \/ pay[p].status = "PENDING" /\ status = "REJECTED"
  PROVE  Narrows
<1>1. \A q \in Payments : /\ pay'[q].coupon = pay[q].coupon
                          /\ q # p => pay'[q] = pay[q]
                          /\ q = p => pay'[q].status = status
  BY DEF PayTypeOK, PayRow, SetPay
<1>2. QED
  BY <1>1 DEF Narrows, Open, Redeemed

LEMMA InsertKeeps ==
  ASSUME BillingTypeOK, RequestInv, NEW p \in Payments, Open = {},
         NEW want \in [plan: Plans, coupon: BOOLEAN], NEW invoice,
         Insert(p, want, invoice), want.coupon => CouponAvailable, rivals' = rivals
  PROVE  RequestInv'
<1>1. /\ pay'[p].status = "AWAITING_TRANSFER" /\ pay'[p].coupon = want.coupon
      /\ \A q \in Payments : q # p => pay'[q] = pay[q]
      /\ pay[p].status = "NONE"
  BY DEF Insert, NoRequest, BillingTypeOK, PayTypeOK
<1>2. Open' = {p}
  BY <1>1 DEF Open
<1>3. OneRequest'
  BY <1>2 DEF OneRequest
<1>4. CASE want.coupon
  <2>1. Redeemed = {} /\ rivals + Cardinality(Redeemed) < MaxRedemptions
    BY <1>4 DEF CouponAvailable
  <2>2. Redeemed' = {p}
    BY <1>1, <1>4, <2>1 DEF Redeemed
  <2>3. Cardinality(Redeemed) = 0 /\ Cardinality(Redeemed') = 1
    BY <2>1, <2>2, FS_EmptySet, FS_Singleton
  <2>4. rivals' + Cardinality(Redeemed') <= MaxRedemptions
    BY <2>1, <2>3, BillingAssumption DEF RequestInv
  <2>5. QED
    BY <1>3, <2>2, <2>4 DEF RequestInv, OneUse
<1>5. CASE ~want.coupon
  <2>1. Redeemed' = Redeemed
    BY <1>1, <1>5 DEF Redeemed
  <2>2. QED
    BY <1>3, <2>1 DEF RequestInv, OneUse
<1>6. QED
  BY <1>4, <1>5

LEMMA RequestStep ==
  ASSUME BillingTypeOK, RequestInv, [ComposedNext]_vars
  PROVE  RequestInv'
<1> USE DEF BillingTypeOK
<1>1. ASSUME UNCHANGED <<pay, rivals>> PROVE RequestInv'
  BY <1>1, NarrowsKeeps DEF Narrows, Open, Redeemed
<1>2. ASSUME NEW t \in Tabs, CancelStale(t) PROVE RequestInv'
  <2>1. CASE pay[tab[t].old].status = "AWAITING_TRANSFER"
    BY <1>2, <2>1, SetPayNarrows, NarrowsKeeps DEF CancelStale
  <2>2. CASE pay[tab[t].old].status # "AWAITING_TRANSFER"
    BY <1>1, <1>2, <2>2 DEF CancelStale
  <2>3. QED
    BY <2>1, <2>2
<1>3. ASSUME NEW t \in Tabs, Create(t) PROVE RequestInv'
  <2>1. tab[t].want \in [plan: Plans, coupon: BOOLEAN]
    BY BillingAssumption DEF TabTypeOK, TabRow
  <2>2. QED
    BY <1>3, <2>1, InsertKeeps DEF Create, Occupied
<1>4. ASSUME NEW p \in Payments, Confirm(p) \/ Reject(p) PROVE RequestInv'
  BY <1>4, SetPayNarrows, NarrowsKeeps DEF Confirm, Reject, Reviewable
<1>5. ASSUME NEW p \in Payments, Approve(p) PROVE RequestInv'
  <2>1. PICK s \in Payments \union {NoPayment} :
          pay' = [pay EXCEPT ![p].status = "APPROVED", ![p].sub = s]
    BY <1>5, CurrentType DEF Approve
  <2>2. pay[p].status = "PENDING" /\ rivals' = rivals
    BY <1>5 DEF Approve, Reviewable
  <2>3. \A q \in Payments : /\ pay'[q].coupon = pay[q].coupon
                            /\ q # p => pay'[q] = pay[q]
                            /\ q = p => pay'[q].status = "APPROVED"
    BY <2>1 DEF PayTypeOK, PayRow
  <2>4. Narrows
    BY <2>2, <2>3 DEF Narrows, Open, Redeemed
  <2>5. QED
    BY <2>2, <2>4, NarrowsKeeps
<1>6. ASSUME NEW p \in Payments, NEW amount \in {"reduced", "zero"},
             Discount(p, amount)
      PROVE  RequestInv'
  <2>1. PICK status \in {"AWAITING_TRANSFER", "PENDING"} :
          pay' = [pay EXCEPT ![p].amount = amount, ![p].status = status]
    BY <1>6 DEF Discount
  <2>2. pay[p].status = "AWAITING_TRANSFER" /\ rivals' = rivals
    BY <1>6 DEF Discount
  <2>3. \A q \in Payments : /\ pay'[q].coupon = pay[q].coupon
                            /\ q # p => pay'[q] = pay[q]
    BY <2>1 DEF PayTypeOK, PayRow
  <2>4. Narrows
    BY <2>2, <2>3 DEF Narrows, Open, Redeemed
  <2>5. QED
    BY <2>2, <2>4, NarrowsKeeps
<1>7. ASSUME ApplyChange PROVE RequestInv'
  <2>1. CASE pay' = pay
    BY <1>1, <1>7, <2>1 DEF ApplyChange
  <2>2. CASE pay' # pay
    <3>1. PICK p : pay' = [pay EXCEPT ![p].sub = p]
      BY <1>7, <2>2 DEF ApplyChange, Relink
    <3>2. \A q \in Payments : /\ pay'[q].coupon = pay[q].coupon
                              /\ pay'[q].status = pay[q].status
      BY <3>1 DEF PayTypeOK, PayRow
    <3>3. Narrows /\ rivals' = rivals
      BY <1>7, <3>2 DEF Narrows, Open, Redeemed, ApplyChange
    <3>4. QED
      BY <3>3, NarrowsKeeps
  <2>3. QED
    BY <2>1, <2>2
<1>8. ASSUME SweepCancel PROVE RequestInv'
  <2>1. \A q \in Payments : /\ pay'[q].coupon = pay[q].coupon
                            /\ pay'[q].status \in {pay[q].status, "CANCELED"}
    BY <1>8 DEF SweepCancel, PayTypeOK, PayRow
  <2>2. Narrows /\ rivals' = rivals
    BY <1>8, <2>1 DEF Narrows, Open, Redeemed, SweepCancel
  <2>3. QED
    BY <2>2, NarrowsKeeps
<1>9. ASSUME Renew PROVE RequestInv'
  <2>1. [plan |-> CurrentPlan, coupon |-> FALSE] \in [plan: Plans, coupon: BOOLEAN]
    BY CurrentType
  <2>2. QED
    BY <1>9, <2>1, InsertKeeps DEF Renew
<1>10. ASSUME RivalRedeems \/ RivalLeaves PROVE RequestInv'
  <2>1. /\ Redeemed' = Redeemed /\ Open' = Open
        /\ Cardinality(Redeemed) \in Nat
    BY <1>10, AtMostOne DEF RivalRedeems, RivalLeaves, Redeemed, Open, RequestInv, OneUse
  <2>2. /\ rivals' \in Nat
        /\ rivals' + Cardinality(Redeemed) <= MaxRedemptions
    BY <1>10, <2>1, BillingAssumption DEF RivalRedeems, RivalLeaves, RequestInv
  <2>3. QED
    BY <2>1, <2>2 DEF RequestInv, OneRequest, OneUse
<1>11. ASSUME Customer PROVE RequestInv'
  BY <1>1, <1>2, <1>3, <1>4, <1>11
     DEF Customer, Begin, GiveUp, ScheduleCancel, UndoCancel
<1>12. ASSUME Operator PROVE RequestInv'
  BY <1>1, <1>4, <1>5, <1>6, <1>12
     DEF Operator, RequestRefund, FailRefund, ConfirmRefund, CancelNow, CancelAtEnd,
         CancelScheduled
<1>13. ASSUME Maintenance PROVE RequestInv'
  BY <1>1, <1>7, <1>8, <1>9, <1>13
     DEF Maintenance, ExpirePaid, SweepVoid, SweepDies
<1>14. QED
  BY <1>1, <1>10, <1>11, <1>12, <1>13
     DEF ComposedNext, Next, Billing, Tick, Workers, vars, billingVars

LEMMA RequestInit == Init => RequestInv
<1>1. SUFFICES ASSUME Init PROVE RequestInv
  OBVIOUS
<1>2. Open = {} /\ Redeemed = {} /\ rivals = 0
  BY <1>1 DEF Init, NoRequest, Open, Redeemed
<1>3. Cardinality(Redeemed) = 0
  BY <1>2, FS_EmptySet
<1>4. QED
  BY <1>2, <1>3, BillingAssumption DEF RequestInv, OneRequest, OneUse

(* The requests of a business and the uses of the coupon stay counted,     *)
(* with the outbox running beside (createManualPaymentIntent,              *)
(* quoteDiscount, the renewals of the maintenance).                        *)
THEOREM RequestInvariance == ComposedSpec => []RequestInv
<1>1. BillingTypeOK /\ RequestInv /\ [ComposedNext]_vars => RequestInv'
  BY RequestStep
<1>2. MoneyInv => BillingTypeOK
  BY DEF MoneyInv
<1>3. QED
  BY <1>1, <1>2, RequestInit, MoneyInvariance, PTL DEF ComposedSpec

(* One request is open, one subscription is current and the coupon is      *)
(* spent within its limits, for any number of concurrent creations beside  *)
(* the renewal worker and the other businesses.                            *)
THEOREM OneOfEachHolds == Spec => []OneOfEach
<1>1. RequestInv => OneOpenRequest /\ CouponCeiling
  <2>1. SUFFICES ASSUME RequestInv PROVE OneOpenRequest /\ CouponCeiling
    OBVIOUS
  <2>2. Cardinality(Open) <= 1 /\ Cardinality(Redeemed) <= 1
    BY <2>1, AtMostOne DEF RequestInv, OneRequest, OneUse
  <2>3. QED
    BY <2>1, <2>2 DEF RequestInv, OneOpenRequest, CouponCeiling
<1>2. OneOpenRequest /\ CouponCeiling /\ OneSubscription => OneOfEach
  BY DEF OneOfEach
<1>3. QED
  BY <1>1, <1>2, RequestInvariance, OneCurrentSubscription, SpecIsComposed, PTL
============================================================================
