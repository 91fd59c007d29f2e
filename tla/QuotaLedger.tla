---------------------------- MODULE QuotaLedger ----------------------------
(***************************************************************************)
(* The usage ledger of one business (src/modules/billing/entitlements.ts): *)
(* reservations, the monthly commitment counters, the plan that limits     *)
(* them, the purchased reply lots that fund AI replies beyond the plan,    *)
(* and the ceiling of the free trial.                                      *)
(*                                                                         *)
(* Each ledger call is one database transaction, so one step; the only     *)
(* thing a reserve call carries into its transaction is the calendar month *)
(* it computed beforehand.  Calls of several workers, retries of the same  *)
(* key, plan changes, the end of a month and the expiry of a lot interleave*)
(* freely.  Every quantity reserved is 1, as every caller in src/ does.    *)
(***************************************************************************)
EXTENDS Naturals, FiniteSets

CONSTANTS
  Workers,        \* callers of reserveQuota
  AiKeys,         \* "ai-reply:<job>" keys, event AI_REPLY_GENERATED
  WaKeys,         \* "wa-outbound:<job>" keys, event WHATSAPP_OUTBOUND_MESSAGE
  Plans,          \* rows of TblPlan that are ACTIVE
  Free,           \* the FREE plan
  NoPlan,         \* no subscription that assertCanAct accepts
  Limit,          \* Limit[p][e]: monthly limit of plan p for event e
  Unlimited,      \* a NULL limit
  NumLots,        \* lots of replies that may be bought, in expiry order
  LotSize,        \* GrantedQuantity of a lot
  TrialCap,       \* 30 in the code
  LastMonth,      \* bound: months the model runs through
  MaxPlanChanges, \* bound: subscription changes
  AddonFlags      \* values of DRVO_PRICING_V1_ADDON_CONSUMPTION in the fleet

Keys   == AiKeys \union WaKeys
Events == {"ai", "wa"}
Months == 0 .. LastMonth
Lots   == 1 .. NumLots
NoCall == [key |-> "none"]
NoLot  == [lot |-> 0, state |-> "none"]

ASSUME LedgerAssumption ==
  /\ AiKeys \intersect WaKeys = {}
  /\ Free \in Plans /\ NoPlan \notin Plans
  /\ Limit \in [Plans -> [Events -> Nat \union {Unlimited}]]
  /\ {NumLots, LotSize, TrialCap, LastMonth, MaxPlanChanges} \subseteq Nat
  /\ AddonFlags \subseteq BOOLEAN

VARIABLES
  resv,       \* TblUsageReservation.State, "NONE" when the row is absent
  booked,     \* TblUsageReservation.PeriodStartUtc
  events,     \* keys with a TblUsageEvent row
  counter,    \* TblUsagePeriodCounter.Quantity
  lots,       \* TblPricingAddonEntitlement
  alloc,      \* TblPricingAddonReplyAllocation of each AI key
  plan,       \* plan of the current subscription, or NoPlan
  lapsed,     \* its paid period is over and nobody has settled that yet
  month,      \* the calendar month
  enrolled,   \* the business has a TblPricingFreeTrial row
  trialOver,  \* seven days have passed since FirstActivatedAtUtc
  call,       \* reserve calls that have computed their month
  changes,    \* subscription changes so far
  held        \* history: plans the business has been on

vars == <<resv, booked, events, counter, lots, alloc, plan, lapsed, month,
          enrolled, trialOver, call, changes, held>>

R == INSTANCE Reservation WITH Keys <- Keys, resv <- resv

EventOf(k) == IF k \in AiKeys THEN "ai" ELSE "wa"

(* Faulty variant of Held: an uncertain row commits nothing.               *)
HeldUnlessUncertain(k) == resv[k] \in {"RESERVED", "CONSUMED"}

(* The row keeps a unit of quota committed.                                *)
Held(k) == resv[k] \in {"RESERVED", "CONSUMED", "UNCERTAIN"}

(* Commitments of event e, in one month and in all of them.                *)
CommittedIn(e, m) == {k \in Keys : EventOf(k) = e /\ Held(k) /\ booked[k] = m}
EverCommitted(e)  == {k \in Keys : EventOf(k) = e /\ Held(k)}

ActiveOn(l) == {k \in AiKeys : alloc[k] = [lot |-> l, state |-> "ACTIVE"]}

(* A committed row of month m that no lot pays for counts on the plan.     *)
PlanFunded(m) ==
  {k \in CommittedIn("ai", m) : alloc[k].state # "ACTIVE"}

Within(n, lim) == lim # Unlimited => n <= lim

(* The subscription a ledger transaction sees: an over-due paid period is  *)
(* replaced by FREE inside the same transaction.                           *)
EffectivePlan == IF lapsed THEN Free ELSE plan

CanAct == EffectivePlan # NoPlan

(* Faulty variants of TrialAllows: the ceiling counts one month only, or   *)
(* looks at the plan as it is stored.                                      *)
TrialCountsTheMonth(k) ==
  (k \in AiKeys /\ EffectivePlan = Free /\ enrolled)
    => /\ ~trialOver
       /\ Cardinality(CommittedIn("ai", month)) + 1 <= TrialCap

TrialByStoredPlan(k) ==
  (k \in AiKeys /\ plan = Free /\ enrolled)
    => /\ ~trialOver
       /\ Cardinality(EverCommitted("ai")) + 1 <= TrialCap

(* The lifetime ceiling, for tenants enrolled in the trial and on FREE;    *)
(* DRVO_PRICING_V1_FREE_TRIAL is on in the whole fleet for an enrolled     *)
(* business.                                                               *)
TrialAllows(k) ==
  (k \in AiKeys /\ EffectivePlan = Free /\ enrolled)
    => /\ ~trialOver
       /\ Cardinality(EverCommitted("ai")) + 1 <= TrialCap

(* Faulty variant of PlanHasRoom: the counter of the month at commit time. *)
PlanHasRoomThisMonth(k, m) ==
  Within(counter[EventOf(k)][month] + 1, Limit[EffectivePlan][EventOf(k)])

PlanHasRoom(k, m) ==
  Within(counter[EventOf(k)][m] + 1, Limit[EffectivePlan][EventOf(k)])

Spendable == {l \in Lots : lots[l].status = "live" /\ lots[l].remaining > 0}

(* Only an AI reply may overflow onto a lot, with the flag on; inserting   *)
(* an allocation fails on the primary key while an ACTIVE one exists.      *)
LotHasRoom(k, flag) ==
  flag /\ k \in AiKeys /\ Spendable # {} /\ alloc[k].state # "ACTIVE"

----------------------------------------------------------------------------
Init ==
  /\ resv = [k \in Keys |-> "NONE"]
  /\ booked = [k \in Keys |-> 0]
  /\ events = {}
  /\ counter = [e \in Events |-> [m \in Months |-> 0]]
  /\ lots = [l \in Lots |-> [remaining |-> 0, status |-> "none"]]
  /\ alloc = [k \in AiKeys |-> NoLot]
  /\ plan = Free /\ lapsed = FALSE
  /\ month = 0
  /\ enrolled \in BOOLEAN /\ trialOver = FALSE
  /\ call = [w \in Workers |-> NoCall]
  /\ changes = 0
  /\ held = {Free}

(* The month is computed before the transaction opens.                     *)
BeginReserve(w, k) ==
  /\ call[w] = NoCall
  /\ call' = [call EXCEPT ![w] = [key |-> k, month |-> month]]
  /\ UNCHANGED <<resv, booked, events, counter, lots, alloc, plan, lapsed,
                 month, enrolled, trialOver, changes, held>>

Return(w) == call' = [call EXCEPT ![w] = NoCall]

(* What every transaction that commits does to the subscription.           *)
SettleSubscription ==
  /\ plan' = EffectivePlan
  /\ lapsed' = FALSE
  /\ held' = held \union {EffectivePlan}

(* A key that is already committed is answered from its row.               *)
ReserveAgain(w) ==
  /\ call[w] # NoCall /\ CanAct /\ Held(call[w].key)
  /\ SettleSubscription
  /\ Return(w)
  /\ UNCHANGED <<resv, booked, events, counter, lots, alloc, month, enrolled,
                 trialOver, changes>>

(* Count the commitment and write the row, new or released before.         *)
Commit(k, m) ==
  /\ resv' = [resv EXCEPT ![k] = "RESERVED"]
  /\ booked' = [booked EXCEPT ![k] = m]
  /\ counter' = [counter EXCEPT ![EventOf(k)][m] = @ + 1]

ReserveOnPlan(w) ==
  LET k == call[w].key
      m == call[w].month
  IN /\ call[w] # NoCall /\ CanAct /\ ~Held(k)
     /\ TrialAllows(k) /\ PlanHasRoom(k, m)
     /\ Commit(k, m)
     /\ SettleSubscription
     /\ Return(w)
     /\ UNCHANGED <<events, lots, alloc, month, enrolled, trialOver, changes>>

(* The lot that expires first pays.  It is chosen by a SELECT and charged  *)
(* by an UPDATE that tests the expiry again and whose row count is not     *)
(* looked at: a lot that expires in between is allocated but not charged.  *)
ChargeLot(l, expires) ==
  lots' = IF expires THEN [lots EXCEPT ![l].status = "expired"]
                     ELSE [lots EXCEPT ![l].remaining = @ - 1]

ReserveOnLot(w) ==
  LET k == call[w].key
      m == call[w].month
  IN /\ call[w] # NoCall /\ CanAct /\ ~Held(k)
     /\ TrialAllows(k) /\ ~PlanHasRoom(k, m)
     /\ \E flag \in AddonFlags : LotHasRoom(k, flag)
     /\ \E l \in Spendable, expires \in BOOLEAN :
           /\ \A i \in Spendable : l <= i
           /\ expires => \A i \in Lots : i < l => lots[i].status # "live"
           /\ ChargeLot(l, expires)
           /\ alloc' = [alloc EXCEPT ![k] = [lot |-> l, state |-> "ACTIVE"]]
     /\ Commit(k, m)
     /\ SettleSubscription
     /\ Return(w)
     /\ UNCHANGED <<events, month, enrolled, trialOver, changes>>

(* Any refusal throws, and the transaction is rolled back.                 *)
ReserveRefused(w) ==
  LET k == call[w].key
      m == call[w].month
  IN /\ call[w] # NoCall
     /\ \/ ~CanAct
        \/ CanAct /\ ~Held(k) /\ ~TrialAllows(k)
        \/ /\ CanAct /\ ~Held(k) /\ ~PlanHasRoom(k, m)
           /\ \E flag \in AddonFlags : ~LotHasRoom(k, flag)
     /\ Return(w)
     /\ UNCHANGED <<resv, booked, events, counter, lots, alloc, plan, lapsed,
                    month, enrolled, trialOver, changes, held>>

Consume(k) ==
  /\ Held(k)
  /\ resv' = [resv EXCEPT ![k] = "CONSUMED"]
  /\ events' = events \union {k}
  /\ UNCHANGED <<booked, counter, lots, alloc, plan, lapsed, month, enrolled,
                 trialOver, call, changes, held>>

MarkUncertain(k) ==
  /\ resv[k] \in {"RESERVED", "UNCERTAIN"}
  /\ resv' = [resv EXCEPT ![k] = "UNCERTAIN"]
  /\ UNCHANGED <<booked, events, counter, lots, alloc, plan, lapsed, month,
                 enrolled, trialOver, call, changes, held>>

(* Faulty variant of RestoreLot: two units come back.                      *)
RestoreTwice(k) ==
  /\ alloc' = [alloc EXCEPT ![k].state = "RELEASED"]
  /\ lots'  = [lots EXCEPT ![alloc[k].lot].remaining = @ + 2]

(* The unit goes back to the lot that paid for it.                         *)
RestoreLot(k) ==
  LET l == alloc[k].lot
  IN /\ alloc' = [alloc EXCEPT ![k].state = "RELEASED"]
     /\ lots'  = [lots EXCEPT ![l].remaining = @ + 1]

(* Faulty variant of Uncount: the month of the release is uncounted.       *)
UncountThisMonth(k) ==
  counter' = [counter EXCEPT ![EventOf(k)][month] = IF @ >= 1 THEN @ - 1 ELSE 0]

(* The commitment is taken off the month it was booked to.                 *)
Uncount(k) ==
  counter' = [counter EXCEPT ![EventOf(k)][booked[k]] = IF @ >= 1 THEN @ - 1 ELSE 0]

(* Only a RESERVED row is released.                                        *)
Release(k) ==
  /\ resv[k] = "RESERVED"
  /\ resv' = [resv EXCEPT ![k] = "RELEASED"]
  /\ \E flag \in AddonFlags :
        IF flag /\ k \in AiKeys /\ alloc[k].state = "ACTIVE"
          THEN RestoreLot(k)
          ELSE UNCHANGED <<alloc, lots>>
  /\ Uncount(k)
  /\ UNCHANGED <<booked, events, plan, lapsed, month, enrolled, trialOver,
                 call, changes, held>>

----------------------------------------------------------------------------
(* The rest of the billing code, as the ledger sees it.                    *)

(* An upgrade, a scheduled change, a suspension or a renewal.              *)
ChangeSubscription(p) ==
  /\ changes < MaxPlanChanges /\ changes' = changes + 1
  /\ plan' = p /\ lapsed' = FALSE
  /\ held' = held \union {p}
  /\ UNCHANGED <<resv, booked, events, counter, lots, alloc, month, enrolled,
                 trialOver, call>>

(* The paid period and its grace are over; the row still says ACTIVE.      *)
PaidPeriodEnds ==
  /\ plan \in Plans \ {Free} /\ ~lapsed
  /\ lapsed' = TRUE
  /\ UNCHANGED <<resv, booked, events, counter, lots, alloc, plan, month,
                 enrolled, trialOver, call, changes, held>>

(* Another reader of the entitlements settles the lapse.                   *)
SettleLapse ==
  /\ lapsed
  /\ SettleSubscription
  /\ UNCHANGED <<resv, booked, events, counter, lots, alloc, month, enrolled,
                 trialOver, call, changes>>

(* An approved transfer inserts a full lot.                                *)
GrantLot(l) ==
  /\ lots[l].status = "none"
  /\ \A i \in Lots : i > l => lots[i].status # "expired"
  /\ lots' = [lots EXCEPT ![l] = [remaining |-> LotSize, status |-> "live"]]
  /\ UNCHANGED <<resv, booked, events, counter, alloc, plan, lapsed, month,
                 enrolled, trialOver, call, changes, held>>

LotExpires(l) ==
  /\ lots[l].status = "live"
  /\ \A i \in Lots : i < l => lots[i].status # "live"
  /\ lots' = [lots EXCEPT ![l].status = "expired"]
  /\ UNCHANGED <<resv, booked, events, counter, alloc, plan, lapsed, month,
                 enrolled, trialOver, call, changes, held>>

MonthEnds ==
  /\ month < LastMonth
  /\ month' = month + 1
  /\ UNCHANGED <<resv, booked, events, counter, lots, alloc, plan, lapsed,
                 enrolled, trialOver, call, changes, held>>

TrialEnds ==
  /\ enrolled /\ ~trialOver
  /\ trialOver' = TRUE
  /\ UNCHANGED <<resv, booked, events, counter, lots, alloc, plan, lapsed,
                 month, enrolled, call, changes, held>>

----------------------------------------------------------------------------
Next ==
  \/ \E w \in Workers :
       \/ \E k \in Keys : BeginReserve(w, k)
       \/ ReserveAgain(w)
       \/ ReserveOnPlan(w)
       \/ ReserveOnLot(w)
       \/ ReserveRefused(w)
  \/ \E k \in Keys : Consume(k) \/ MarkUncertain(k) \/ Release(k)
  \/ \E p \in Plans \union {NoPlan} : ChangeSubscription(p)
  \/ \E l \in Lots : GrantLot(l) \/ LotExpires(l)
  \/ PaidPeriodEnds
  \/ SettleLapse
  \/ MonthEnds
  \/ TrialEnds

Spec == Init /\ [][Next]_vars

----------------------------------------------------------------------------
(* Types: the shape of the tables and of the calls in flight.              *)
TypeOK ==
  /\ resv \in [Keys -> R!ReservationStates]
  /\ booked \in [Keys -> Months]
  /\ events \subseteq Keys
  /\ counter \in [Events -> [Months -> Nat]]
  /\ lots \in [Lots -> [remaining : Nat, status : {"none", "live", "expired"}]]
  /\ alloc \in [AiKeys -> {NoLot} \union [lot : Lots, state : {"ACTIVE", "RELEASED"}]]
  /\ plan \in Plans \union {NoPlan}
  /\ lapsed \in BOOLEAN /\ enrolled \in BOOLEAN /\ trialOver \in BOOLEAN
  /\ month \in Months
  /\ call \in [Workers -> {NoCall} \union [key : Keys, month : Months]]
  /\ changes \in 0 .. MaxPlanChanges
  /\ held \subseteq Plans \union {NoPlan}

(* Migration 010 says of the counter: "Quantity = RESERVED+CONSUMED+       *)
(* UNCERTAIN commitments".  It stays so for every month, whatever retries, *)
(* releases after the month has ended, or re-reservations of a released    *)
(* key in a later month do; the floor at zero in the release never hides a *)
(* difference.                                                             *)
CounterIsCommitments ==
  \A e \in Events, m \in Months :
     counter[e][m] = Cardinality(CommittedIn(e, m))

(* A lot that can still be spent has lost exactly the units of the replies *)
(* it is paying for: a unit is neither lost nor restored twice by retries, *)
(* by releases or by re-reserving a released key from another lot.         *)
LotConservation ==
  /\ \A l \in Lots : lots[l].status = "live" =>
       lots[l].remaining + Cardinality(ActiveOn(l)) = LotSize
  /\ \A k \in AiKeys : alloc[k].state = "ACTIVE" => Held(k)

(* In no month do the replies that no lot pays for exceed the largest      *)
(* limit of the plans the business has been on: neither concurrent         *)
(* reservations around a limit or the end of a month, nor a downgrade, nor *)
(* lots that come and go let a reply through unfunded.                     *)
OverflowIsFunded ==
  \A m \in Months : \E p \in held \ {NoPlan} :
     Within(Cardinality(PlanFunded(m)), Limit[p]["ai"])

(* A business that has never left FREE has at most the trial's ceiling of  *)
(* AI replies committed over its whole life, lots and months included.     *)
TrialCeiling ==
  (enrolled /\ held \subseteq {Free, NoPlan})
     => Cardinality(EverCommitted("ai")) <= TrialCap

(* Once the seven days are over nothing commits another AI reply on FREE,  *)
(* not even the step that discovers that a paid period has lapsed.         *)
TrialStaysOver ==
  [][(enrolled /\ trialOver /\ plan' = Free)
       => EverCommitted("ai")' \subseteq EverCommitted("ai")]_vars

(* The row of each key lives as the abstract reservation prescribes: in    *)
(* particular a consumed or uncertain row is never released or reserved    *)
(* again.                                                                  *)
ReservationLife == R!Spec
============================================================================
