------------------------- MODULE QuotaLedger_proofs -------------------------
(***************************************************************************)
(* What holds of the usage ledger for any number of callers, keys, plans,  *)
(* lots, months and subscription changes, and for every limit.             *)
(*                                                                         *)
(* The rows are the truth and the counters only follow them.  A row that   *)
(* is committed is counted in the one month it is booked to, so a counter  *)
(* is the number of its rows, a release never meets a counter at zero, and *)
(* the tests that read counters and row counts in one transaction are      *)
(* tests of the sets that the properties speak of.  The sets are finite    *)
(* because only finitely many keys were ever used.                         *)
(***************************************************************************)
EXTENDS QuotaLedger, FiniteSetTheorems, TLAPS

Used   == {k \in Keys : resv[k] # "NONE"}
Active == {k \in AiKeys : alloc[k].state = "ACTIVE"}

(* All processes run with the same add-on flag.                            *)
FlagsAgree == ~(BOOLEAN \subseteq AddonFlags)

(* A live lot is short of the units of the replies it pays for, and a lot  *)
(* that pays was bought.                                                   *)
LotsBalance ==
  /\ IsFiniteSet(Active)
  /\ \A k \in Active : lots[alloc[k].lot].status # "none"
  /\ \A l \in Lots : lots[l].status = "live" =>
       lots[l].remaining + Cardinality(ActiveOn(l)) = LotSize

(* Lots pay for committed rows, as long as one flag decides on both ends.  *)
LotsPayHeld ==
  /\ TRUE \notin AddonFlags => Active = {}
  /\ FlagsAgree => \A k \in Active : Held(k)

LedgerInv ==
  /\ TypeOK /\ IsFiniteSet(Used)
  /\ CounterIsCommitments /\ OverflowIsFunded /\ TrialCeiling
  /\ LotsBalance /\ LotsPayHeld

----------------------------------------------------------------------------
(* Sets of committed rows.                                                 *)

LEMMA EventsOfKeys ==
  ASSUME NEW k \in Keys
  PROVE  EventOf(k) \in Events /\ (EventOf(k) = "ai" <=> k \in AiKeys)
BY DEF EventOf, Events, Keys

LEMMA CommittedFinite ==
  ASSUME IsFiniteSet(Used), NEW e, NEW m
  PROVE  /\ CommittedIn(e, m) \subseteq Used /\ EverCommitted(e) \subseteq Used
         /\ IsFiniteSet(CommittedIn(e, m)) /\ IsFiniteSet(EverCommitted(e))
         /\ Cardinality(CommittedIn(e, m)) \in Nat
         /\ Cardinality(EverCommitted(e)) \in Nat
         /\ PlanFunded(m) \subseteq CommittedIn("ai", m)
<1>1. CommittedIn(e, m) \subseteq Used /\ EverCommitted(e) \subseteq Used
  BY DEF CommittedIn, EverCommitted, Used, Held
<1>2. IsFiniteSet(CommittedIn(e, m)) /\ IsFiniteSet(EverCommitted(e))
  BY <1>1, FS_Subset
<1>3. PlanFunded(m) \subseteq CommittedIn("ai", m)
  BY DEF PlanFunded
<1>4. QED
  BY <1>1, <1>2, <1>3, FS_CardinalityType

(* A smaller set keeps within a limit.                                     *)
LEMMA WithinSmaller ==
  ASSUME NEW S, NEW T, IsFiniteSet(T), S \subseteq T,
         NEW lim \in Nat \union {Unlimited}, Within(Cardinality(T), lim)
  PROVE  Within(Cardinality(S), lim)
<1>1. Cardinality(S) <= Cardinality(T) /\ IsFiniteSet(S)
  BY FS_Subset
<1>2. Cardinality(S) \in Nat /\ Cardinality(T) \in Nat
  BY <1>1, FS_CardinalityType
<1>3. QED
  BY <1>1, <1>2 DEF Within

(* A commitment adds its row to one month, and counts it there.            *)
LEMMA CommitAdds ==
  ASSUME TypeOK, NEW k \in Keys, NEW m \in Months, ~Held(k), Commit(k, m)
  PROVE  /\ resv' \in [Keys -> R!ReservationStates] /\ booked' \in [Keys -> Months]
         /\ counter' \in [Events -> [Months -> Nat]]
         /\ Used' = Used \union {k}
         /\ \A i \in Keys : Held(i)' <=> (Held(i) \/ i = k)
         /\ \A e \in Events, n \in Months :
              /\ CommittedIn(e, n)' = IF e = EventOf(k) /\ n = m
                                        THEN CommittedIn(e, n) \union {k}
                                        ELSE CommittedIn(e, n)
              /\ counter'[e][n] = IF e = EventOf(k) /\ n = m
                                    THEN counter[e][n] + 1 ELSE counter[e][n]
              /\ EverCommitted(e)' = IF e = EventOf(k) THEN EverCommitted(e) \union {k}
                                       ELSE EverCommitted(e)
              /\ k \notin CommittedIn(e, n) /\ k \notin EverCommitted(e)
<1>1. /\ resv' = [resv EXCEPT ![k] = "RESERVED"] /\ booked' = [booked EXCEPT ![k] = m]
      /\ counter' = [counter EXCEPT ![EventOf(k)][m] = @ + 1]
  BY DEF Commit
<1>2. /\ resv' \in [Keys -> R!ReservationStates] /\ booked' \in [Keys -> Months]
      /\ \A i \in Keys \ {k} : resv'[i] = resv[i] /\ booked'[i] = booked[i]
      /\ resv'[k] = "RESERVED" /\ booked'[k] = m
  BY <1>1 DEF TypeOK, R!ReservationStates
<1>3. /\ counter' \in [Events -> [Months -> Nat]]
      /\ \A e \in Events, n \in Months :
           counter'[e][n] = IF e = EventOf(k) /\ n = m THEN counter[e][n] + 1
                            ELSE counter[e][n]
  BY <1>1, EventsOfKeys DEF TypeOK
<1>4. \A i \in Keys : Held(i)' <=> (Held(i) \/ i = k)
  BY <1>2 DEF Held
<1>5. Used' = Used \union {k}
  BY <1>2 DEF Used
<1>6. ASSUME NEW e \in Events, NEW n \in Months
      PROVE  /\ CommittedIn(e, n)' = IF e = EventOf(k) /\ n = m
                                       THEN CommittedIn(e, n) \union {k}
                                       ELSE CommittedIn(e, n)
             /\ EverCommitted(e)' = IF e = EventOf(k) THEN EverCommitted(e) \union {k}
                                      ELSE EverCommitted(e)
             /\ k \notin CommittedIn(e, n) /\ k \notin EverCommitted(e)
  BY <1>2, <1>4 DEF CommittedIn, EverCommitted
<1>7. QED
  BY <1>2, <1>3, <1>4, <1>5, <1>6

(* A release takes its row out of the month it is booked to.               *)
LEMMA ReleaseRemoves ==
  ASSUME TypeOK, IsFiniteSet(Used), CounterIsCommitments, NEW k \in Keys, Release(k)
  PROVE  /\ resv' \in [Keys -> R!ReservationStates]
         /\ counter' \in [Events -> [Months -> Nat]]
         /\ Used' = Used /\ CounterIsCommitments'
         /\ \A i \in Keys : Held(i)' <=> (Held(i) /\ i # k)
<1>1. /\ resv[k] = "RESERVED" /\ resv' = [resv EXCEPT ![k] = "RELEASED"] /\ booked' = booked
      /\ counter' = [counter EXCEPT ![EventOf(k)][booked[k]] = IF @ >= 1 THEN @ - 1 ELSE 0]
  BY DEF Release, Uncount
<1>2. /\ resv' \in [Keys -> R!ReservationStates]
      /\ \A i \in Keys \ {k} : resv'[i] = resv[i]
      /\ resv'[k] = "RELEASED"
  BY <1>1 DEF TypeOK, R!ReservationStates
<1>3. \A i \in Keys : Held(i)' <=> (Held(i) /\ i # k)
  BY <1>2 DEF Held
<1>4. Used' = Used
  BY <1>1, <1>2 DEF Used
<1>5. PICK m \in Months : m = booked[k]
  BY DEF TypeOK
<1>6. /\ k \in CommittedIn(EventOf(k), m)
      /\ \A e \in Events, n \in Months :
           CommittedIn(e, n)' = IF e = EventOf(k) /\ n = m THEN CommittedIn(e, n) \ {k}
                                ELSE CommittedIn(e, n)
  BY <1>1, <1>3, <1>5 DEF CommittedIn, Held
<1>7. Cardinality(CommittedIn(EventOf(k), m) \ {k}) = Cardinality(CommittedIn(EventOf(k), m)) - 1
  BY <1>6, CommittedFinite, FS_RemoveElement
<1>8. /\ IsFiniteSet(CommittedIn(EventOf(k), m) \ {k})
      /\ Cardinality(CommittedIn(EventOf(k), m) \ {k}) \in Nat
      /\ Cardinality(CommittedIn(EventOf(k), m)) \in Nat
  BY CommittedFinite, FS_Subset, FS_CardinalityType
<1>9. counter[EventOf(k)][m] = Cardinality(CommittedIn(EventOf(k), m))
  BY EventsOfKeys DEF CounterIsCommitments
<1>10. /\ counter' \in [Events -> [Months -> Nat]]
       /\ \A e \in Events, n \in Months :
            counter'[e][n] = IF e = EventOf(k) /\ n = m THEN counter[e][n] - 1
                             ELSE counter[e][n]
  <2>1. counter[EventOf(k)][m] >= 1 /\ counter[EventOf(k)][m] - 1 \in Nat
    BY <1>7, <1>8, <1>9
  <2>2. counter' = [counter EXCEPT ![EventOf(k)] =
                      [counter[EventOf(k)] EXCEPT ![m] = counter[EventOf(k)][m] - 1]]
    BY <1>1, <1>5, <2>1
  <2>3. QED
    BY <2>1, <2>2, EventsOfKeys DEF TypeOK
<1>11. CounterIsCommitments'
  BY <1>6, <1>7, <1>10 DEF CounterIsCommitments
<1>12. QED
  BY <1>2, <1>3, <1>4, <1>10, <1>11

----------------------------------------------------------------------------
(* What the properties of the rows need from a step that commits nothing.  *)
RowsInv == /\ IsFiniteSet(Used)
           /\ CounterIsCommitments /\ OverflowIsFunded /\ TrialCeiling

LEMMA RowsFrame ==
  ASSUME LedgerInv, Used' = Used, \A k \in Keys : Held(k)' <=> Held(k),
         UNCHANGED <<booked, counter, alloc, enrolled>>, held \subseteq held'
  PROVE  RowsInv'
<1>1. /\ \A e, m : CommittedIn(e, m)' = CommittedIn(e, m)
      /\ \A e : EverCommitted(e)' = EverCommitted(e)
  BY DEF CommittedIn, EverCommitted
<1>2. \A m : PlanFunded(m)' = PlanFunded(m)
  BY <1>1 DEF PlanFunded
<1>3. IsFiniteSet(Used)' /\ CounterIsCommitments'
  BY <1>1 DEF LedgerInv, CounterIsCommitments
<1>4. OverflowIsFunded'
  BY <1>2 DEF LedgerInv, OverflowIsFunded
<1>5. TrialCeiling'
  BY <1>1 DEF LedgerInv, TrialCeiling
<1>6. QED
  BY <1>3, <1>4, <1>5 DEF RowsInv

LEMMA LotsFrame ==
  ASSUME LedgerInv, UNCHANGED <<lots, alloc>>, \A k \in Keys : Held(k) => Held(k)'
  PROVE  LotsBalance' /\ LotsPayHeld'
<1>1. Active' = Active /\ \A l : ActiveOn(l)' = ActiveOn(l)
  BY DEF Active, ActiveOn
<1>2. LotsBalance'
  BY <1>1 DEF LedgerInv, LotsBalance
<1>3. LotsPayHeld'
  BY <1>1 DEF LedgerInv, LotsPayHeld, FlagsAgree, Active, Keys
<1>4. QED
  BY <1>2, <1>3

LEMMA CallTyped ==
  ASSUME TypeOK, NEW w \in Workers, call[w] # NoCall
  PROVE  call[w].key \in Keys /\ call[w].month \in Months
BY DEF TypeOK

(* The plan that decides is one of the plans the business has been on.     *)
LEMMA PlanDecides ==
  ASSUME TypeOK, CanAct, SettleSubscription
  PROVE  /\ EffectivePlan \in Plans /\ EffectivePlan \in held' /\ EffectivePlan # NoPlan
         /\ held \subseteq held' /\ held' \subseteq Plans \union {NoPlan}
         /\ plan' = EffectivePlan /\ lapsed' = FALSE
         /\ \A e \in Events : Limit[EffectivePlan][e] \in Nat \union {Unlimited}
BY LedgerAssumption DEF TypeOK, CanAct, EffectivePlan, SettleSubscription

(* A row that is committed within the trial is counted, and stays within   *)
(* the ceiling, whoever pays for it.                                       *)
LEMMA CommitKeeps ==
  ASSUME LedgerInv, NEW k \in Keys, NEW m \in Months, ~Held(k), CanAct, TrialAllows(k),
         Commit(k, m), SettleSubscription, enrolled' = enrolled
  PROVE  IsFiniteSet(Used)' /\ CounterIsCommitments' /\ TrialCeiling'
<1>1. TypeOK /\ IsFiniteSet(Used) /\ CounterIsCommitments /\ TrialCeiling
  BY DEF LedgerInv
<1>2. IsFiniteSet(Used)'
  BY <1>1, CommitAdds, FS_AddElement
<1>3. CounterIsCommitments'
  <2>1. ASSUME NEW e \in Events, NEW n \in Months
        PROVE  counter'[e][n] = Cardinality(CommittedIn(e, n)')
    <3>1. /\ IsFiniteSet(CommittedIn(e, n)) /\ k \notin CommittedIn(e, n)
          /\ counter[e][n] = Cardinality(CommittedIn(e, n))
      BY <1>1, CommittedFinite, CommitAdds DEF CounterIsCommitments
    <3>2. Cardinality(CommittedIn(e, n) \union {k}) = Cardinality(CommittedIn(e, n)) + 1
      BY <3>1, FS_AddElement
    <3>3. QED
      BY <1>1, <3>1, <3>2, CommitAdds
  <2>2. QED
    BY <2>1 DEF CounterIsCommitments
<1>4. TrialCeiling'
  <2>1. SUFFICES ASSUME enrolled, held' \subseteq {Free, NoPlan}
                 PROVE  Cardinality(EverCommitted("ai")') <= TrialCap
    BY DEF TrialCeiling
  <2>2. EffectivePlan = Free /\ Cardinality(EverCommitted("ai")) <= TrialCap
    BY <1>1, <2>1, PlanDecides DEF TrialCeiling
  <2>3. "ai" \in Events /\ 0 \in Months /\ IsFiniteSet(EverCommitted("ai"))
    BY <1>1, CommittedFinite, LedgerAssumption DEF Events, Months
  <2>4. CASE k \in AiKeys
    <3>1. Cardinality(EverCommitted("ai")) + 1 <= TrialCap
      BY <2>1, <2>2, <2>4 DEF TrialAllows
    <3>2. /\ EverCommitted("ai")' = EverCommitted("ai") \union {k}
          /\ k \notin EverCommitted("ai")
      BY <1>1, <2>3, <2>4, CommitAdds, EventsOfKeys
    <3>3. QED
      BY <2>3, <3>1, <3>2, FS_AddElement
  <2>5. CASE k \notin AiKeys
    <3>1. EverCommitted("ai")' = EverCommitted("ai")
      BY <1>1, <2>3, <2>5, CommitAdds, EventsOfKeys
    <3>2. QED
      BY <2>2, <3>1
  <2>6. QED
    BY <2>4, <2>5
<1>5. QED
  BY <1>2, <1>3, <1>4

(* A reply is charged to the plan only when its month has room for it.     *)
LEMMA PlanReserveKeeps ==
  ASSUME LedgerInv, NEW w \in Workers, ReserveOnPlan(w)
  PROVE  LedgerInv'
<1>1. PICK k \in Keys, m \in Months : k = call[w].key /\ m = call[w].month
  BY CallTyped DEF LedgerInv, ReserveOnPlan
<1>2. /\ CanAct /\ ~Held(k) /\ TrialAllows(k) /\ PlanHasRoom(k, m)
      /\ Commit(k, m) /\ SettleSubscription /\ Return(w)
      /\ UNCHANGED <<events, lots, alloc, month, enrolled, trialOver, changes>>
  BY <1>1 DEF ReserveOnPlan
<1>3. TypeOK /\ IsFiniteSet(Used) /\ CounterIsCommitments /\ OverflowIsFunded
  BY DEF LedgerInv
<1>4. TypeOK'
  BY <1>2, <1>3, CommitAdds, PlanDecides DEF TypeOK, Return
<1>5. IsFiniteSet(Used)' /\ CounterIsCommitments' /\ TrialCeiling'
  BY <1>2, CommitKeeps
<1>6. \A i \in Keys : Held(i)' <=> (Held(i) \/ i = k)
  BY <1>2, <1>3, CommitAdds
<1>7. LotsBalance' /\ LotsPayHeld'
  BY <1>2, <1>6, LotsFrame
<1>8. OverflowIsFunded'
  <2>1. SUFFICES ASSUME NEW n \in Months
                 PROVE  \E p \in held' \ {NoPlan} :
                          Within(Cardinality(PlanFunded(n)'), Limit[p]["ai"])
    BY DEF OverflowIsFunded
  <2>2. "ai" \in Events /\ IsFiniteSet(CommittedIn("ai", n))
    BY <1>3, CommittedFinite DEF Events
  <2>3. CASE EventOf(k) = "ai" /\ n = m
    <3>1. /\ CommittedIn("ai", n)' = CommittedIn("ai", n) \union {k}
          /\ k \notin CommittedIn("ai", n)
      BY <1>2, <1>3, <2>2, <2>3, CommitAdds
    <3>2. /\ IsFiniteSet(CommittedIn("ai", n)')
          /\ Cardinality(CommittedIn("ai", n)') = Cardinality(CommittedIn("ai", n)) + 1
      BY <2>2, <3>1, FS_AddElement
    <3>3. counter["ai"][n] = Cardinality(CommittedIn("ai", n))
      BY <1>3, <2>2 DEF CounterIsCommitments
    <3>4. Within(Cardinality(CommittedIn("ai", n)'), Limit[EffectivePlan]["ai"])
      BY <1>2, <2>3, <3>2, <3>3 DEF PlanHasRoom
    <3>5. PlanFunded(n)' \subseteq CommittedIn("ai", n)'
      BY DEF PlanFunded
    <3>6. Limit[EffectivePlan]["ai"] \in Nat \union {Unlimited}
      BY <1>2, <1>3, <2>2, PlanDecides
    <3>7. Within(Cardinality(PlanFunded(n)'), Limit[EffectivePlan]["ai"])
      BY <3>2, <3>4, <3>5, <3>6, WithinSmaller
    <3>8. QED
      BY <1>2, <1>3, <3>7, PlanDecides
  <2>4. CASE ~(EventOf(k) = "ai" /\ n = m)
    <3>1. CommittedIn("ai", n)' = CommittedIn("ai", n)
      BY <1>2, <1>3, <2>2, <2>4, CommitAdds
    <3>2. PlanFunded(n)' = PlanFunded(n)
      BY <1>2, <3>1 DEF PlanFunded
    <3>3. held \subseteq held'
      BY <1>2, <1>3, PlanDecides
    <3>4. QED
      BY <1>3, <3>2, <3>3 DEF OverflowIsFunded
  <2>5. QED
    BY <2>3, <2>4
<1>9. QED
  BY <1>4, <1>5, <1>7, <1>8 DEF LedgerInv

(* A lot pays for a reply with one of its units, or expires in the act.    *)
LEMMA LotReserveKeeps ==
  ASSUME LedgerInv, NEW w \in Workers, ReserveOnLot(w)
  PROVE  LedgerInv'
<1>1. PICK k \in Keys, m \in Months : k = call[w].key /\ m = call[w].month
  BY CallTyped DEF LedgerInv, ReserveOnLot
<1>2. /\ CanAct /\ ~Held(k) /\ TrialAllows(k)
      /\ k \in AiKeys /\ alloc[k].state # "ACTIVE" /\ TRUE \in AddonFlags
      /\ Commit(k, m) /\ SettleSubscription /\ Return(w)
      /\ UNCHANGED <<events, month, enrolled, trialOver, changes>>
  BY <1>1 DEF ReserveOnLot, LotHasRoom
<1>3. PICK l \in Spendable, expires \in BOOLEAN :
           /\ ChargeLot(l, expires)
           /\ alloc' = [alloc EXCEPT ![k] = [lot |-> l, state |-> "ACTIVE"]]
  BY <1>1 DEF ReserveOnLot
<1>4. TypeOK /\ IsFiniteSet(Used) /\ OverflowIsFunded /\ LotsBalance /\ LotsPayHeld
  BY DEF LedgerInv
<1>5. /\ l \in Lots /\ lots[l].status = "live" /\ lots[l].remaining > 0
      /\ lots[l] \in [remaining : Nat, status : {"none", "live", "expired"}]
  BY <1>4 DEF Spendable, TypeOK
<1>6. PICK u \in [remaining : Nat, status : {"live", "expired"}] :
           /\ lots' = [lots EXCEPT ![l] = u]
           /\ u.status = "live" => u.remaining = lots[l].remaining - 1
  <2>1. CASE expires
    <3>1. LET u == [lots[l] EXCEPT !.status = "expired"]
          IN  /\ u \in [remaining : Nat, status : {"live", "expired"}]
              /\ u.status = "expired" /\ lots' = [lots EXCEPT ![l] = u]
      BY <1>3, <1>5, <2>1 DEF ChargeLot
    <3>2. QED
      BY <3>1
  <2>2. CASE ~expires
    <3>1. PICK n \in Nat : n = lots[l].remaining - 1
      BY <1>5
    <3>2. lots' = [lots EXCEPT ![l] = [lots[l] EXCEPT !.remaining = n]]
      BY <1>3, <2>2, <3>1 DEF ChargeLot
    <3>3. LET u == [lots[l] EXCEPT !.remaining = n]
          IN  /\ u \in [remaining : Nat, status : {"live", "expired"}]
              /\ u.remaining = n
      BY <1>5
    <3>4. QED
      BY <3>1, <3>2, <3>3
  <2>3. QED
    BY <2>1, <2>2
<1>7. /\ lots' \in [Lots -> [remaining : Nat, status : {"none", "live", "expired"}]]
      /\ lots'[l] = u /\ \A i \in Lots \ {l} : lots'[i] = lots[i]
  BY <1>4, <1>5, <1>6 DEF TypeOK
<1>8. /\ alloc' \in [AiKeys -> {NoLot} \union [lot : Lots, state : {"ACTIVE", "RELEASED"}]]
      /\ alloc'[k] = [lot |-> l, state |-> "ACTIVE"]
      /\ \A i \in AiKeys \ {k} : alloc'[i] = alloc[i]
  BY <1>2, <1>3, <1>4, <1>5 DEF TypeOK
<1>9. TypeOK'
  BY <1>2, <1>4, <1>7, <1>8, CommitAdds, PlanDecides DEF TypeOK, Return
<1>10. IsFiniteSet(Used)' /\ CounterIsCommitments' /\ TrialCeiling'
  BY <1>2, CommitKeeps
<1>11. \A i \in Keys : Held(i)' <=> (Held(i) \/ i = k)
  BY <1>2, <1>4, CommitAdds
<1>12. OverflowIsFunded'
  <2>1. ASSUME NEW n \in Months
        PROVE  PlanFunded(n)' = PlanFunded(n)
    <3>1. "ai" \in Events
      BY DEF Events
    <3>2. /\ CommittedIn("ai", n)' = IF EventOf(k) = "ai" /\ n = m
                                       THEN CommittedIn("ai", n) \union {k}
                                       ELSE CommittedIn("ai", n)
          /\ k \notin CommittedIn("ai", n)
      BY <1>2, <1>4, <3>1, CommitAdds
    <3>3. CommittedIn("ai", n) \subseteq AiKeys
      BY DEF CommittedIn, EventOf
    <3>4. QED
      BY <1>8, <3>2, <3>3 DEF PlanFunded
  <2>2. held \subseteq held'
    BY <1>2, <1>4, PlanDecides
  <2>3. QED
    BY <1>4, <2>1, <2>2 DEF OverflowIsFunded
<1>13. Active' = Active \union {k} /\ k \notin Active
  BY <1>2, <1>8 DEF Active
<1>14. LotsPayHeld'
  BY <1>2, <1>4, <1>11, <1>13 DEF LotsPayHeld, FlagsAgree, Active, Keys
<1>15. LotsBalance'
  <2>1. IsFiniteSet(Active)'
    BY <1>4, <1>13, FS_AddElement DEF LotsBalance
  <2>2. \A i \in Active' : lots'[alloc'[i].lot].status # "none"
    <3>1. ASSUME NEW i \in Active, i # k
          PROVE  alloc'[i] = alloc[i] /\ alloc[i].lot \in Lots /\ lots[alloc[i].lot].status # "none"
      BY <1>4, <1>8, <3>1 DEF Active, LotsBalance, TypeOK, NoLot
    <3>2. QED
      BY <1>5, <1>6, <1>7, <1>8, <1>13, <3>1
  <2>3. ASSUME NEW i \in Lots, lots'[i].status = "live"
        PROVE  lots'[i].remaining + Cardinality(ActiveOn(i)') = LotSize
    <3>1. IsFiniteSet(ActiveOn(i)) /\ Cardinality(ActiveOn(i)) \in Nat
      <4>1. ActiveOn(i) \subseteq Active
        BY DEF ActiveOn, Active
      <4>2. QED
        BY <1>4, <4>1, FS_Subset, FS_CardinalityType DEF LotsBalance
    <3>2. CASE i = l
      <4>1. ActiveOn(i)' = ActiveOn(i) \union {k} /\ k \notin ActiveOn(i)
        BY <1>2, <1>8, <3>2 DEF ActiveOn
      <4>2. Cardinality(ActiveOn(i)') = Cardinality(ActiveOn(i)) + 1
        BY <3>1, <4>1, FS_AddElement
      <4>3. lots[i].remaining + Cardinality(ActiveOn(i)) = LotSize
        BY <1>4, <1>5, <3>2 DEF LotsBalance
      <4>4. QED
        BY <1>5, <1>6, <1>7, <2>3, <3>1, <3>2, <4>2, <4>3
    <3>3. CASE i # l
      <4>1. ActiveOn(i)' = ActiveOn(i)
        BY <1>2, <1>8, <3>3 DEF ActiveOn
      <4>2. QED
        BY <1>4, <1>7, <2>3, <3>3, <4>1 DEF LotsBalance
    <3>4. QED
      BY <3>2, <3>3
  <2>4. QED
    BY <2>1, <2>2, <2>3 DEF LotsBalance
<1>16. QED
  BY <1>9, <1>10, <1>12, <1>14, <1>15 DEF LedgerInv

(* A release gives a unit back to the lot that paid, if one did.           *)
LEMMA ReleaseKeeps ==
  ASSUME LedgerInv, NEW k \in Keys, Release(k)
  PROVE  LedgerInv'
<1>1. TypeOK /\ IsFiniteSet(Used) /\ CounterIsCommitments
  BY DEF LedgerInv
<1>2. /\ resv' \in [Keys -> R!ReservationStates]
      /\ counter' \in [Events -> [Months -> Nat]]
      /\ Used' = Used /\ CounterIsCommitments'
      /\ \A i \in Keys : Held(i)' <=> (Held(i) /\ i # k)
  BY <1>1, ReleaseRemoves
<1>3. UNCHANGED <<booked, events, plan, lapsed, month, enrolled, trialOver, call,
                  changes, held>>
  BY DEF Release
<1>4. TrialCeiling'
  <2>1. EverCommitted("ai")' \subseteq EverCommitted("ai")
    BY <1>2 DEF EverCommitted
  <2>2. Cardinality(EverCommitted("ai")') <= Cardinality(EverCommitted("ai"))
    BY <1>1, <2>1, CommittedFinite, FS_Subset
  <2>3. EverCommitted("ai")' \subseteq Used
    BY <1>2 DEF EverCommitted, Used, Held
  <2>4. /\ Cardinality(EverCommitted("ai")') \in Nat
        /\ Cardinality(EverCommitted("ai")) \in Nat
    BY <1>1, <2>3, CommittedFinite, FS_Subset, FS_CardinalityType
  <2>5. QED
    BY <1>3, <2>2, <2>4, LedgerAssumption DEF LedgerInv, TrialCeiling
<1>5. ASSUME \A i \in AiKeys \ {k} : alloc'[i].state = "ACTIVE" <=> alloc[i].state = "ACTIVE"
      PROVE  OverflowIsFunded'
  <2>1. SUFFICES ASSUME NEW n \in Months
                 PROVE  \E p \in held \ {NoPlan} :
                          Within(Cardinality(PlanFunded(n)'), Limit[p]["ai"])
    BY <1>3 DEF OverflowIsFunded
  <2>2. PICK p \in held \ {NoPlan} : Within(Cardinality(PlanFunded(n)), Limit[p]["ai"])
    BY DEF LedgerInv, OverflowIsFunded
  <2>3. PlanFunded(n)' \subseteq PlanFunded(n)
    BY <1>2, <1>3, <1>5 DEF PlanFunded, CommittedIn, EventOf
  <2>4. IsFiniteSet(PlanFunded(n))
    BY <1>1, CommittedFinite, FS_Subset
  <2>5. Limit[p]["ai"] \in Nat \union {Unlimited}
    BY <1>1, LedgerAssumption DEF TypeOK, Events
  <2>6. QED
    BY <2>2, <2>3, <2>4, <2>5, WithinSmaller
<1>6. PICK flag \in AddonFlags :
        IF flag /\ k \in AiKeys /\ alloc[k].state = "ACTIVE" THEN RestoreLot(k)
        ELSE UNCHANGED <<alloc, lots>>
  BY DEF Release
<1>7. CASE ~(flag /\ k \in AiKeys /\ alloc[k].state = "ACTIVE")
  <2>1. UNCHANGED <<alloc, lots>>
    BY <1>6, <1>7
  <2>2. TypeOK'
    BY <1>1, <1>2, <1>3, <2>1 DEF TypeOK
  <2>3. Active' = Active /\ \A l : ActiveOn(l)' = ActiveOn(l)
    BY <2>1 DEF Active, ActiveOn
  <2>4. LotsBalance'
    BY <2>1, <2>3 DEF LedgerInv, LotsBalance
  <2>5. ASSUME FlagsAgree
        PROVE  k \notin Active
    <3>1. CASE flag
      BY <1>7, <3>1 DEF Active
    <3>2. CASE ~flag
      <4>1. TRUE \notin AddonFlags
        BY <1>6, <2>5, <3>2, LedgerAssumption DEF FlagsAgree
      <4>2. QED
        BY <4>1 DEF LedgerInv, LotsPayHeld
    <3>3. QED
      BY <3>1, <3>2
  <2>6. LotsPayHeld'
    BY <1>2, <2>3, <2>5 DEF LedgerInv, LotsPayHeld, FlagsAgree, Active, Keys
  <2>7. QED
    BY <1>1, <1>2, <1>4, <1>5, <2>1, <2>2, <2>4, <2>6 DEF LedgerInv
<1>8. CASE flag /\ k \in AiKeys /\ alloc[k].state = "ACTIVE"
  <2>1. k \in AiKeys /\ alloc[k].state = "ACTIVE" /\ RestoreLot(k)
    BY <1>6, <1>8
  <2>2. PICK l \in Lots : l = alloc[k].lot /\ alloc[k] = [lot |-> l, state |-> "ACTIVE"]
    BY <1>1, <2>1 DEF TypeOK, NoLot
  <2>3. /\ alloc' = [alloc EXCEPT ![k].state = "RELEASED"]
        /\ lots' = [lots EXCEPT ![l].remaining = @ + 1]
    BY <2>1, <2>2 DEF RestoreLot
  <2>4. /\ alloc' \in [AiKeys -> {NoLot} \union [lot : Lots, state : {"ACTIVE", "RELEASED"}]]
        /\ alloc'[k].state = "RELEASED"
        /\ \A i \in AiKeys \ {k} : alloc'[i] = alloc[i]
    <3>1. LET u == [alloc[k] EXCEPT !.state = "RELEASED"]
          IN  /\ u \in [lot : Lots, state : {"ACTIVE", "RELEASED"}]
              /\ u.state = "RELEASED" /\ alloc' = [alloc EXCEPT ![k] = u]
      BY <1>1, <2>2, <2>3 DEF TypeOK
    <3>2. QED
      BY <1>1, <2>1, <3>1 DEF TypeOK
  <2>5. /\ lots' \in [Lots -> [remaining : Nat, status : {"none", "live", "expired"}]]
        /\ lots'[l].remaining = lots[l].remaining + 1
        /\ \A i \in Lots : lots'[i].status = lots[i].status
        /\ \A i \in Lots \ {l} : lots'[i] = lots[i]
    <3>1. PICK n \in Nat : n = lots[l].remaining + 1
      BY <1>1 DEF TypeOK
    <3>2. LET u == [lots[l] EXCEPT !.remaining = n]
          IN  /\ u \in [remaining : Nat, status : {"none", "live", "expired"}]
              /\ u.remaining = n /\ u.status = lots[l].status
              /\ lots' = [lots EXCEPT ![l] = u]
      BY <1>1, <2>3, <3>1 DEF TypeOK
    <3>3. QED
      BY <1>1, <3>1, <3>2 DEF TypeOK
  <2>6. TypeOK'
    BY <1>1, <1>2, <1>3, <2>4, <2>5 DEF TypeOK
  <2>7. Active' = Active \ {k} /\ k \in Active
    BY <2>1, <2>4 DEF Active
  <2>8. LotsPayHeld'
    BY <1>2, <2>7 DEF LedgerInv, LotsPayHeld, FlagsAgree, Active, Keys
  <2>9. ASSUME NEW i \in Lots, lots'[i].status = "live"
        PROVE  lots'[i].remaining + Cardinality(ActiveOn(i)') = LotSize
    <3>1. IsFiniteSet(ActiveOn(i)) /\ Cardinality(ActiveOn(i)) \in Nat
      <4>1. ActiveOn(i) \subseteq Active
        BY DEF ActiveOn, Active
      <4>2. QED
        BY <4>1, FS_Subset, FS_CardinalityType DEF LedgerInv, LotsBalance
    <3>2. lots[i].remaining + Cardinality(ActiveOn(i)) = LotSize
      BY <2>5, <2>9 DEF LedgerInv, LotsBalance
    <3>3. CASE i = l
      <4>1. ActiveOn(i)' = ActiveOn(i) \ {k} /\ k \in ActiveOn(i)
        BY <2>1, <2>2, <2>4, <3>3 DEF ActiveOn
      <4>2. Cardinality(ActiveOn(i)') = Cardinality(ActiveOn(i)) - 1
        BY <3>1, <4>1, FS_RemoveElement
      <4>3. lots[i].remaining \in Nat
        BY <1>1 DEF TypeOK
      <4>4. QED
        BY <2>5, <3>1, <3>2, <3>3, <4>2, <4>3
    <3>4. CASE i # l
      <4>1. ActiveOn(i)' = ActiveOn(i)
        BY <2>2, <2>4, <3>4 DEF ActiveOn
      <4>2. QED
        BY <2>5, <3>2, <3>4, <4>1
    <3>5. QED
      BY <3>3, <3>4
  <2>10. LotsBalance'
    <3>1. IsFiniteSet(Active)'
      BY <2>7, FS_Subset DEF LedgerInv, LotsBalance
    <3>2. ASSUME NEW i \in Active'
          PROVE  lots'[alloc'[i].lot].status # "none"
      <4>1. i \in Active /\ i # k /\ alloc'[i] = alloc[i] /\ alloc[i].lot \in Lots
        BY <1>1, <2>4, <2>7, <3>2 DEF Active, TypeOK, NoLot
      <4>2. QED
        BY <2>5, <4>1 DEF LedgerInv, LotsBalance
    <3>3. QED
      BY <2>9, <3>1, <3>2 DEF LotsBalance
  <2>11. QED
    BY <1>2, <1>4, <1>5, <1>1, <2>4, <2>6, <2>8, <2>10 DEF LedgerInv
<1>9. QED
  BY <1>7, <1>8

----------------------------------------------------------------------------
(* The steps that commit nothing and free nothing.                         *)

LEMMA ReadsKeep ==
  ASSUME LedgerInv,
         \/ \E w \in Workers : \/ \E k \in Keys : BeginReserve(w, k)
                               \/ ReserveAgain(w)
                               \/ ReserveRefused(w)
         \/ \E p \in Plans \union {NoPlan} : ChangeSubscription(p)
         \/ PaidPeriodEnds \/ SettleLapse \/ MonthEnds \/ TrialEnds
         \/ UNCHANGED vars
  PROVE  LedgerInv'
<1>1. TypeOK /\ EffectivePlan \in Plans \union {NoPlan}
  BY LedgerAssumption DEF LedgerInv, TypeOK, EffectivePlan
<1>2. UNCHANGED <<resv, booked, events, counter, lots, alloc, enrolled>>
  BY DEF BeginReserve, ReserveAgain, ReserveRefused, ChangeSubscription,
         PaidPeriodEnds, SettleLapse, MonthEnds, TrialEnds, vars
<1>3. held \subseteq held'
  BY DEF BeginReserve, ReserveAgain, ReserveRefused, ChangeSubscription,
         SettleSubscription, PaidPeriodEnds, SettleLapse, MonthEnds, TrialEnds, vars
<1>4. TypeOK'
  <2>1. ASSUME NEW w \in Workers, NEW k \in Keys, BeginReserve(w, k)
        PROVE  TypeOK'
    BY <1>1, <2>1 DEF TypeOK, BeginReserve
  <2>2. ASSUME NEW w \in Workers, ReserveAgain(w) \/ ReserveRefused(w)
        PROVE  TypeOK'
    BY <1>1, <2>2 DEF TypeOK, ReserveAgain, ReserveRefused, Return, SettleSubscription
  <2>3. ASSUME NEW p \in Plans \union {NoPlan}, ChangeSubscription(p)
        PROVE  TypeOK'
    <3>1. changes' \in 0 .. MaxPlanChanges
      BY <1>1, <2>3, LedgerAssumption DEF TypeOK, ChangeSubscription
    <3>2. QED
      BY <1>1, <2>3, <3>1 DEF TypeOK, ChangeSubscription
  <2>4. CASE PaidPeriodEnds \/ SettleLapse \/ TrialEnds
    BY <1>1, <2>4 DEF TypeOK, PaidPeriodEnds, SettleLapse, SettleSubscription, TrialEnds
  <2>5. CASE MonthEnds
    <3>1. month' \in Months
      BY <1>1, <2>5, LedgerAssumption DEF TypeOK, MonthEnds, Months
    <3>2. QED
      BY <1>1, <2>5, <3>1 DEF TypeOK, MonthEnds
  <2>6. CASE UNCHANGED vars
    BY <1>1, <2>6 DEF TypeOK, vars
  <2>7. QED
    BY <2>1, <2>2, <2>3, <2>4, <2>5, <2>6
<1>5. RowsInv'
  <2>1. Used' = Used /\ \A k \in Keys : Held(k)' <=> Held(k)
    BY <1>2 DEF Used, Held
  <2>2. QED
    BY <1>2, <1>3, <2>1, RowsFrame
<1>6. LotsBalance' /\ LotsPayHeld'
  <2>1. \A k \in Keys : Held(k) => Held(k)'
    BY <1>2 DEF Held
  <2>2. QED
    BY <1>2, <2>1, LotsFrame
<1>7. QED
  BY <1>4, <1>5, <1>6 DEF LedgerInv, RowsInv

LEMMA SettlementKeeps ==
  ASSUME LedgerInv, NEW k \in Keys, Consume(k) \/ MarkUncertain(k)
  PROVE  LedgerInv'
<1>1. PICK s \in {"CONSUMED", "UNCERTAIN"} : resv' = [resv EXCEPT ![k] = s]
  BY DEF Consume, MarkUncertain
<1>2. /\ Held(k) /\ events' \subseteq Keys
      /\ UNCHANGED <<booked, counter, lots, alloc, plan, lapsed, month, enrolled,
                     trialOver, call, changes, held>>
  BY DEF Consume, MarkUncertain, Held, LedgerInv, TypeOK
<1>3. /\ resv' \in [Keys -> R!ReservationStates]
      /\ resv'[k] = s /\ \A i \in Keys \ {k} : resv'[i] = resv[i]
  BY <1>1 DEF LedgerInv, TypeOK, R!ReservationStates
<1>4. TypeOK'
  BY <1>2, <1>3 DEF LedgerInv, TypeOK
<1>5. Used' = Used /\ \A i \in Keys : Held(i)' <=> Held(i)
  BY <1>2, <1>3 DEF Used, Held
<1>6. RowsInv'
  BY <1>2, <1>5, RowsFrame
<1>7. LotsBalance' /\ LotsPayHeld'
  BY <1>2, <1>5, LotsFrame
<1>8. QED
  BY <1>4, <1>6, <1>7 DEF LedgerInv, RowsInv

LEMMA LotStepKeeps ==
  ASSUME LedgerInv, NEW l \in Lots, GrantLot(l) \/ LotExpires(l)
  PROVE  LedgerInv'
<1>1. UNCHANGED <<resv, booked, events, counter, alloc, plan, lapsed, month,
                  enrolled, trialOver, call, changes, held>>
  BY DEF GrantLot, LotExpires
<1>2. PICK u \in [remaining : Nat, status : {"live", "expired"}] :
        /\ lots' = [lots EXCEPT ![l] = u]
        /\ u.status = "live" => (lots[l].status = "none" /\ u.remaining = LotSize)
  <2>1. CASE GrantLot(l)
    <3>1. LET u == [remaining |-> LotSize, status |-> "live"]
          IN  /\ u \in [remaining : Nat, status : {"live", "expired"}]
              /\ u.remaining = LotSize /\ lots[l].status = "none"
              /\ lots' = [lots EXCEPT ![l] = u]
      BY <2>1, LedgerAssumption DEF GrantLot
    <3>2. QED
      BY <3>1
  <2>2. CASE LotExpires(l)
    <3>1. LET u == [lots[l] EXCEPT !.status = "expired"]
          IN  /\ u \in [remaining : Nat, status : {"live", "expired"}]
              /\ u.status = "expired" /\ lots' = [lots EXCEPT ![l] = u]
      BY <2>2 DEF LotExpires, LedgerInv, TypeOK
    <3>2. QED
      BY <3>1
  <2>3. QED
    BY <2>1, <2>2
<1>3. /\ lots' \in [Lots -> [remaining : Nat, status : {"none", "live", "expired"}]]
      /\ lots'[l] = u /\ \A i \in Lots \ {l} : lots'[i] = lots[i]
  BY <1>2 DEF LedgerInv, TypeOK
<1>4. TypeOK'
  BY <1>1, <1>3 DEF LedgerInv, TypeOK
<1>5. Used' = Used /\ \A k \in Keys : Held(k)' <=> Held(k)
  BY <1>1 DEF Used, Held
<1>6. RowsInv'
  BY <1>1, <1>5, RowsFrame
<1>7. Active' = Active /\ \A i : ActiveOn(i)' = ActiveOn(i)
  BY <1>1 DEF Active, ActiveOn
<1>8. LotsPayHeld'
  BY <1>5, <1>7 DEF LedgerInv, LotsPayHeld, FlagsAgree, Active, Keys
<1>9. \A k \in Active : /\ alloc[k] \in [lot : Lots, state : {"ACTIVE", "RELEASED"}]
                        /\ alloc[k].lot \in Lots /\ lots[alloc[k].lot].status # "none"
  BY DEF LedgerInv, LotsBalance, Active, TypeOK, NoLot
<1>10. \A k \in Active' : lots'[alloc'[k].lot].status # "none"
  BY <1>1, <1>2, <1>3, <1>7, <1>9
<1>11. ASSUME NEW i \in Lots, lots'[i].status = "live"
       PROVE  lots'[i].remaining + Cardinality(ActiveOn(i)') = LotSize
  <2>1. CASE i = l
    <3>1. lots[l].status = "none" /\ lots'[l].remaining = LotSize
      BY <1>2, <1>3, <1>11, <2>1
    <3>2. ActiveOn(i) = {}
      BY <1>9, <2>1, <3>1 DEF ActiveOn, Active
    <3>3. Cardinality(ActiveOn(i)') = 0
      BY <1>7, <3>2, FS_EmptySet
    <3>4. lots'[i].remaining + 0 = LotSize
      BY <2>1, <3>1, LedgerAssumption
    <3>5. QED
      BY <3>3, <3>4
  <2>2. CASE i # l
    BY <1>3, <1>7, <1>11, <2>2 DEF LedgerInv, LotsBalance
  <2>3. QED
    BY <2>1, <2>2
<1>12. LotsBalance'
  BY <1>7, <1>10, <1>11 DEF LedgerInv, LotsBalance
<1>13. QED
  BY <1>4, <1>6, <1>8, <1>12 DEF LedgerInv, RowsInv

----------------------------------------------------------------------------
LEMMA LedgerStarts == Init => LedgerInv
<1>1. SUFFICES ASSUME Init PROVE LedgerInv
  OBVIOUS
<1>2. TypeOK
  <2>1. 0 \in Months /\ 0 \in 0 .. MaxPlanChanges
    BY LedgerAssumption DEF Months
  <2>2. /\ resv \in [Keys -> R!ReservationStates] /\ booked \in [Keys -> Months]
        /\ counter \in [Events -> [Months -> Nat]]
    BY <1>1, <2>1 DEF Init, R!ReservationStates
  <2>3. lots \in [Lots -> [remaining : Nat, status : {"none", "live", "expired"}]]
    BY <1>1 DEF Init
  <2>4. QED
    BY <1>1, <2>1, <2>2, <2>3, LedgerAssumption DEF Init, TypeOK
<1>3. /\ Used = {} /\ Active = {} /\ \A e, m : CommittedIn(e, m) = {}
      /\ \A e : EverCommitted(e) = {} /\ \A m : PlanFunded(m) = {}
  <2>1. \A k \in Keys : resv[k] = "NONE" /\ ~Held(k)
    BY <1>1 DEF Init, Held
  <2>2. Active = {}
    BY <1>1 DEF Active, Init, NoLot
  <2>3. QED
    BY <2>1, <2>2 DEF Used, CommittedIn, EverCommitted, PlanFunded
<1>4. IsFiniteSet({}) /\ Cardinality({}) = 0
  BY FS_EmptySet
<1>5. CounterIsCommitments
  BY <1>1, <1>3, <1>4 DEF CounterIsCommitments, Init
<1>6. OverflowIsFunded
  <2>1. Limit[Free]["ai"] \in Nat \union {Unlimited} /\ Free # NoPlan
    BY LedgerAssumption DEF Events
  <2>2. Within(0, Limit[Free]["ai"])
    BY <2>1 DEF Within
  <2>3. held = {Free}
    BY <1>1 DEF Init
  <2>4. QED
    BY <1>3, <1>4, <2>1, <2>2, <2>3 DEF OverflowIsFunded
<1>7. TrialCeiling
  <2>1. 0 <= TrialCap
    BY LedgerAssumption
  <2>2. QED
    BY <1>3, <1>4, <2>1 DEF TrialCeiling
<1>8. LotsBalance /\ LotsPayHeld
  BY <1>1, <1>3, <1>4 DEF LotsBalance, LotsPayHeld, Init
<1>9. QED
  BY <1>2, <1>3, <1>4, <1>5, <1>6, <1>7, <1>8 DEF LedgerInv

LEMMA LedgerSteps == LedgerInv /\ [Next]_vars => LedgerInv'
<1>1. SUFFICES ASSUME LedgerInv, [Next]_vars PROVE LedgerInv'
  OBVIOUS
<1>2. ASSUME NEW w \in Workers, ReserveOnPlan(w) PROVE LedgerInv'
  BY <1>1, <1>2, PlanReserveKeeps
<1>3. ASSUME NEW w \in Workers, ReserveOnLot(w) PROVE LedgerInv'
  BY <1>1, <1>3, LotReserveKeeps
<1>4. ASSUME NEW k \in Keys, Consume(k) \/ MarkUncertain(k) PROVE LedgerInv'
  BY <1>1, <1>4, SettlementKeeps
<1>5. ASSUME NEW k \in Keys, Release(k) PROVE LedgerInv'
  BY <1>1, <1>5, ReleaseKeeps
<1>6. ASSUME NEW l \in Lots, GrantLot(l) \/ LotExpires(l) PROVE LedgerInv'
  BY <1>1, <1>6, LotStepKeeps
<1>7. ASSUME \/ \E w \in Workers : \/ \E k \in Keys : BeginReserve(w, k)
                                   \/ ReserveAgain(w)
                                   \/ ReserveRefused(w)
             \/ \E p \in Plans \union {NoPlan} : ChangeSubscription(p)
             \/ PaidPeriodEnds \/ SettleLapse \/ MonthEnds \/ TrialEnds
             \/ UNCHANGED vars
      PROVE  LedgerInv'
  BY <1>1, <1>7, ReadsKeep
<1>8. QED
  BY <1>1, <1>2, <1>3, <1>4, <1>5, <1>6, <1>7 DEF Next

(* The inductive invariant holds throughout: rows, counters, lots and the  *)
(* trial, with the finiteness that counting them needs                     *)
(* (billing/entitlements.ts, all ledger transactions).                     *)
THEOREM LedgerInvariance == Spec => []LedgerInv
BY LedgerStarts, LedgerSteps, PTL DEF Spec

(* The tables keep their shape: no counter goes below zero, no lot is      *)
(* overdrawn, no row is booked to a month that never was                   *)
(* (billing/entitlements.ts, reserveQuota and releaseQuotaReservation).    *)
THEOREM LedgerTyped == Spec => []TypeOK
BY LedgerInvariance, PTL DEF LedgerInv

(* What migration 010 says of TblUsagePeriodCounter.Quantity stays true of *)
(* every month and event, for any number of workers, keys and retries.     *)
THEOREM CountersAreExact == Spec => []CounterIsCommitments
BY LedgerInvariance, PTL DEF LedgerInv

(* No month of any business has more replies that no lot pays for than the *)
(* largest limit of the plans it has been on (reserveQuota).               *)
THEOREM OverflowIsPaid == Spec => []OverflowIsFunded
BY LedgerInvariance, PTL DEF LedgerInv

(* A business that has never left FREE never has more AI replies committed *)
(* than the ceiling of its trial (assertFreeTrialAllowsAiReply).           *)
THEOREM TrialIsCapped == Spec => []TrialCeiling
BY LedgerInvariance, PTL DEF LedgerInv

(* When all processes run with the same add-on flag, a live lot has lost   *)
(* exactly the units of the committed replies it pays for                  *)
(* (tryConsumeAddonReplyInTransaction and the restoration on release).     *)
THEOREM LotsAreConserved == FlagsAgree /\ Spec => []LotConservation
<1>1. LedgerInv /\ FlagsAgree => LotConservation
  BY DEF LedgerInv, LotsBalance, LotsPayHeld, LotConservation, Active
<1>2. Spec => []LedgerInv
  BY LedgerInvariance
<1>3. CASE FlagsAgree
  <2>1. LedgerInv => LotConservation
    BY <1>1, <1>3
  <2>2. QED
    BY <1>2, <2>1, PTL
<1>4. CASE ~FlagsAgree
  BY <1>4
<1>5. QED
  BY <1>3, <1>4

----------------------------------------------------------------------------
(* What a step may do to the rows.                                         *)

LEMMA OtherStepsCommitNothing ==
  ASSUME TypeOK, [Next]_vars,
         ~ \E w \in Workers : ReserveOnPlan(w) \/ ReserveOnLot(w)
  PROVE  EverCommitted("ai")' \subseteq EverCommitted("ai")
<1>1. \A k \in Keys : Held(k)' => Held(k)
  <2>1. ASSUME NEW i \in Keys, Consume(i) \/ MarkUncertain(i) \/ Release(i)
        PROVE  \A k \in Keys : Held(k)' => Held(k)
    <3>1. PICK s \in {"CONSUMED", "UNCERTAIN", "RELEASED"} : resv' = [resv EXCEPT ![i] = s]
      BY <2>1 DEF Consume, MarkUncertain, Release
    <3>2. Held(i) /\ \A k \in Keys \ {i} : resv'[k] = resv[k]
      BY <2>1, <3>1 DEF Consume, MarkUncertain, Release, Held, TypeOK
    <3>3. QED
      BY <3>2 DEF Held
  <2>2. CASE \A i \in Keys : ~(Consume(i) \/ MarkUncertain(i) \/ Release(i))
    <3>1. resv' = resv
      BY <2>2 DEF Next, BeginReserve, ReserveAgain, ReserveRefused, ChangeSubscription,
                  GrantLot, LotExpires, PaidPeriodEnds, SettleLapse, MonthEnds,
                  TrialEnds, vars
    <3>2. QED
      BY <3>1 DEF Held
  <2>3. QED
    BY <2>1, <2>2
<1>2. QED
  BY <1>1 DEF EverCommitted

(* After its seven days a business whose plan is FREE, or turns out to be  *)
(* FREE in the very step, commits no further AI reply: not from a lot, not *)
(* in a new month, not in the transaction that settles a lapsed period     *)
(* (reserveQuota, applyDueSubscriptionChange).                             *)
THEOREM TrialDoesNotReopen == Spec => TrialStaysOver
<1>1. ASSUME LedgerInv, [Next]_vars, enrolled, trialOver, plan' = Free
      PROVE  EverCommitted("ai")' \subseteq EverCommitted("ai")
  <2>1. TypeOK
    BY <1>1 DEF LedgerInv
  <2>2. ASSUME NEW w \in Workers, ReserveOnPlan(w) \/ ReserveOnLot(w)
        PROVE  EverCommitted("ai")' \subseteq EverCommitted("ai")
    <3>1. PICK k \in Keys, m \in Months : k = call[w].key /\ m = call[w].month
      BY <2>1, <2>2, CallTyped DEF ReserveOnPlan, ReserveOnLot
    <3>2. /\ ~Held(k) /\ TrialAllows(k) /\ Commit(k, m)
          /\ plan' = EffectivePlan
      BY <2>2, <3>1 DEF ReserveOnPlan, ReserveOnLot, SettleSubscription
    <3>3. EventOf(k) # "ai"
      BY <1>1, <3>2, EventsOfKeys DEF TrialAllows
    <3>4. "ai" \in Events /\ m \in Months
      BY DEF Events
    <3>5. EverCommitted("ai")' = EverCommitted("ai")
      BY <2>1, <3>2, <3>3, <3>4, CommitAdds
    <3>6. QED
      BY <3>5
  <2>3. CASE ~ \E w \in Workers : ReserveOnPlan(w) \/ ReserveOnLot(w)
    BY <1>1, <2>1, <2>3, OtherStepsCommitNothing
  <2>4. QED
    BY <2>2, <2>3
<1>2. LedgerInv /\ [Next]_vars
        => [(enrolled /\ trialOver /\ plan' = Free)
              => EverCommitted("ai")' \subseteq EverCommitted("ai")]_vars
  BY <1>1
<1>3. QED
  BY <1>2, LedgerInvariance, PTL DEF Spec, TrialStaysOver

(* Each key's row lives as the abstract reservation prescribes, which the  *)
(* reply pipeline, the campaigns and the escalations build on: a consumed  *)
(* or uncertain row is never given back or reserved again.                 *)
THEOREM RowsLiveAsReservations == Spec => ReservationLife
<1>1. Init => R!Init
  BY DEF Init, R!Init
<1>2. ASSUME TypeOK, [Next]_vars PROVE [R!Next]_resv
  <2>1. ASSUME NEW w \in Workers, ReserveOnPlan(w) \/ ReserveOnLot(w)
        PROVE  R!Next
    <3>1. PICK k \in Keys, m \in Months : k = call[w].key /\ m = call[w].month
      BY <1>2, <2>1, CallTyped DEF ReserveOnPlan, ReserveOnLot
    <3>2. ~Held(k) /\ resv' = [resv EXCEPT ![k] = "RESERVED"]
      BY <2>1, <3>1 DEF ReserveOnPlan, ReserveOnLot, Commit
    <3>3. R!Set(k, R!AfterReserve(resv[k]))
      BY <3>2 DEF Held, R!Set, R!AfterReserve, R!Committed
    <3>4. QED
      BY <3>3 DEF R!Next
  <2>2. ASSUME NEW k \in Keys, Consume(k) \/ MarkUncertain(k) \/ Release(k)
        PROVE  R!Next
    <3>1. \/ R!Consumable(resv[k]) /\ R!Set(k, "CONSUMED")
          \/ R!Set(k, R!AfterUncertain(resv[k]))
          \/ R!Set(k, R!AfterRelease(resv[k]))
      BY <2>2 DEF Consume, MarkUncertain, Release, Held, R!Set, R!Consumable, R!Committed,
                  R!AfterUncertain, R!AfterRelease
    <3>2. QED
      BY <3>1 DEF R!Next
  <2>3. CASE /\ \A w \in Workers : ~(ReserveOnPlan(w) \/ ReserveOnLot(w))
             /\ \A k \in Keys : ~(Consume(k) \/ MarkUncertain(k) \/ Release(k))
    <3>1. resv' = resv
      BY <1>2, <2>3 DEF Next, BeginReserve, ReserveAgain, ReserveRefused,
           ChangeSubscription, GrantLot, LotExpires, PaidPeriodEnds, SettleLapse,
           MonthEnds, TrialEnds, vars
    <3>2. QED
      BY <3>1
  <2>4. QED
    BY <2>1, <2>2, <2>3
<1>3. QED
  BY <1>1, <1>2, LedgerTyped, PTL DEF Spec, R!Spec, ReservationLife
=============================================================================
