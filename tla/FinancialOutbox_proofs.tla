----------------------- MODULE FinancialOutbox_proofs -----------------------
(***************************************************************************)
(* What holds of the outbox for every set of payments and workers and      *)
(* every number of troubles, with no assumption on the constants.          *)
(*                                                                         *)
(* AcceptedIsBooked is not inductive: a worker about to settle must have   *)
(* heard an acknowledgement for an event the Hub has booked, also when its *)
(* lease is gone, and an event in the Hub must have a row.  VerdictIsFinal *)
(* needs that only a leased row has a live lease.                          *)
(***************************************************************************)
EXTENDS FinancialOutbox, TLAPS

RowStates == {"NONE", "PENDING", "LEASED", "ACCEPTED", "DEAD"}
OutboxRow == [state: RowStates, owner: Posters \union {Nobody}, live: BOOLEAN]
PosterLocal == [pc: {"rest", "post", "settle"},
                event: Events \union {NoEvent},
                answer: {"none", "accepted", "retry", "review"}]

OutboxTypeOK ==
  /\ outbox \in [Events -> OutboxRow]
  /\ hub \subseteq Events
  /\ poster \in [Posters -> PosterLocal]

(* A worker at work has an event that has a row.                           *)
BusyOnRow ==
  \A w \in Posters :
    poster[w].pc # "rest" => /\ poster[w].event \in Events
                             /\ outbox[poster[w].event].state # "NONE"

(* What a worker is about to settle as accepted is booked.                 *)
AckIsBooked ==
  \A w \in Posters :
    poster[w].pc = "settle" /\ poster[w].answer = "accepted"
      => poster[w].event \in hub

(* Only leased rows have a live lease.                                     *)
LiveIsLeased == \A e \in Events : outbox[e].live => outbox[e].state = "LEASED"

OutboxInv ==
  OutboxTypeOK /\ BusyOnRow /\ AckIsBooked /\ LiveIsLeased /\ AcceptedIsBooked

----------------------------------------------------------------------------
LEMMA OutboxInitHolds == OutboxInit => OutboxInv
<1>1. SUFFICES ASSUME OutboxInit PROVE OutboxInv
  OBVIOUS
<1>2. OutboxTypeOK
  BY <1>1 DEF OutboxInit, OutboxTypeOK, OutboxRow, RowStates, PosterLocal,
     Uncaptured, Resting
<1>3. BusyOnRow /\ AckIsBooked
  BY <1>1 DEF OutboxInit, BusyOnRow, AckIsBooked, Resting
<1>4. LiveIsLeased /\ AcceptedIsBooked
  BY <1>1 DEF OutboxInit, LiveIsLeased, AcceptedIsBooked, Uncaptured
<1>5. QED
  BY <1>2, <1>3, <1>4 DEF OutboxInv

(* An answer heard leaves the worker a worker about to settle.             *)
LEMMA HearsTyped ==
  ASSUME poster \in [Posters -> PosterLocal], NEW w \in Posters,
         NEW answer \in {"accepted", "retry", "review"}, Hears(w, answer)
  PROVE  poster' \in [Posters -> PosterLocal]
<1>1. [poster[w] EXCEPT !.pc = "settle", !.answer = answer] \in PosterLocal
  BY DEF PosterLocal
<1>2. poster' = [poster EXCEPT ![w] =
                   [poster[w] EXCEPT !.pc = "settle", !.answer = answer]]
  BY DEF Hears
<1>3. QED
  BY <1>1, <1>2

LEMMA TypeStep ==
  OutboxTypeOK /\ BusyOnRow /\ [OutboxNext]_outboxVars => OutboxTypeOK'
<1>1. SUFFICES ASSUME OutboxTypeOK, BusyOnRow, [OutboxNext]_outboxVars
               PROVE  OutboxTypeOK'
  OBVIOUS
<1> USE DEF OutboxTypeOK
<1>0. Resting \in PosterLocal
  BY DEF Resting, PosterLocal
<1>2. ASSUME NEW w \in Posters, NEW e \in Events, Claim(w, e)
      PROVE  OutboxTypeOK'
  <2>1. [state |-> "LEASED", owner |-> w, live |-> TRUE] \in OutboxRow
    BY DEF OutboxRow, RowStates
  <2>2. [pc |-> "post", event |-> e, answer |-> "none"] \in PosterLocal
    BY DEF PosterLocal
  <2>3. QED
    BY <1>1, <1>2, <2>1, <2>2 DEF Claim
<1>3. ASSUME NEW w \in Posters, PostAccepted(w) PROVE OutboxTypeOK'
  <2>1. poster[w].event \in Events
    BY <1>1, <1>3 DEF PostAccepted, BusyOnRow
  <2>2. QED
    BY <1>1, <1>3, <2>1, HearsTyped DEF PostAccepted
<1>4. ASSUME NEW w \in Posters, PostTooEarly(w) PROVE OutboxTypeOK'
  BY <1>1, <1>4, HearsTyped DEF PostTooEarly
<1>5. ASSUME NEW w \in Posters, PostUncertain(w) PROVE OutboxTypeOK'
  <2>1. poster[w].event \in Events
    BY <1>1, <1>5 DEF PostUncertain, BusyOnRow
  <2>2. QED
    BY <1>1, <1>5, <2>1, HearsTyped DEF PostUncertain, MayBook
<1>6. ASSUME NEW w \in Posters, PostRefused(w) PROVE OutboxTypeOK'
  <2>1. poster[w].event \in Events
    BY <1>1, <1>6 DEF PostRefused, BusyOnRow
  <2>2. QED
    BY <1>1, <1>6, <2>1, HearsTyped DEF PostRefused, MayBook
<1>7. ASSUME NEW w \in Posters, Settle(w) PROVE OutboxTypeOK'
  <2>1. [state |-> Verdict(poster[w].answer), owner |-> Nobody,
         live |-> FALSE] \in OutboxRow
    BY DEF Verdict, OutboxRow, RowStates
  <2>2. QED
    BY <1>0, <1>1, <1>7, <2>1 DEF Settle
<1>8. ASSUME NEW w \in Posters, PosterDies(w) PROVE OutboxTypeOK'
  BY <1>0, <1>1, <1>8 DEF PosterDies
<1>9. ASSUME NEW e \in Events, LeaseRunsOut(e) \/ LeaseLost(e)
      PROVE  OutboxTypeOK'
  <2>1. [outbox[e] EXCEPT !.live = FALSE] \in OutboxRow
    BY <1>1 DEF OutboxRow
  <2>2. QED
    BY <1>1, <1>9, <2>1 DEF LeaseRunsOut, LeaseLost
<1>10. ASSUME NEW e \in Events, Captured(e) PROVE OutboxTypeOK'
  <2>1. Due \in OutboxRow
    BY DEF Due, OutboxRow, RowStates
  <2>2. QED
    BY <1>1, <1>10, <2>1 DEF Captured, Capture
<1>11. CASE UNCHANGED outboxVars
  BY <1>1, <1>11 DEF outboxVars
<1>12. QED
  BY <1>1, <1>2, <1>3, <1>4, <1>5, <1>6, <1>7, <1>8, <1>9, <1>10, <1>11
     DEF OutboxNext, OutboxStep, PosterStep

(* No step takes a row away.                                               *)
LEMMA RowsStay ==
  ASSUME OutboxTypeOK, [OutboxNext]_outboxVars,
         NEW e \in Events, outbox[e].state # "NONE"
  PROVE  outbox'[e].state # "NONE"
<1> USE DEF OutboxTypeOK, OutboxRow, RowStates
<1>1. ASSUME NEW w \in Posters, NEW d \in Events, Claim(w, d)
      PROVE  outbox'[e].state # "NONE"
  BY <1>1 DEF Claim
<1>2. ASSUME NEW w \in Posters, Settle(w)
      PROVE  outbox'[e].state # "NONE"
  BY <1>2 DEF Settle, Verdict
<1>3. ASSUME NEW d \in Events, LeaseRunsOut(d) \/ LeaseLost(d)
      PROVE  outbox'[e].state # "NONE"
  BY <1>3 DEF LeaseRunsOut, LeaseLost
<1>4. ASSUME NEW d \in Events, Captured(d)
      PROVE  outbox'[e].state # "NONE"
  BY <1>4 DEF Captured, Capture, Due
<1>5. ASSUME outbox' = outbox
      PROVE  outbox'[e].state # "NONE"
  BY <1>5
<1>6. QED
  BY <1>1, <1>2, <1>3, <1>4, <1>5
     DEF OutboxNext, OutboxStep, PosterStep, PostAccepted, PostTooEarly,
         PostUncertain, PostRefused, PosterDies, outboxVars

(* The Hub forgets nothing.                                                *)
LEMMA HubGrows == [OutboxNext]_outboxVars => hub \subseteq hub'
  BY DEF OutboxNext, OutboxStep, PosterStep, Claim, PostAccepted, PostTooEarly,
         PostUncertain, PostRefused, MayBook, Settle, PosterDies, LeaseRunsOut,
         LeaseLost, Captured, outboxVars

(* What a worker holds after a step: its event from before, or one it has  *)
(* just claimed; and an acknowledgement only for a booked event.           *)
LEMMA PosterStepKeeps ==
  ASSUME OutboxInv, [OutboxNext]_outboxVars
  PROVE  BusyOnRow' /\ AckIsBooked'
<1> USE DEF OutboxInv, OutboxTypeOK, PosterLocal, BusyOnRow, AckIsBooked
<1>1. hub \subseteq hub'
  BY HubGrows
<1>2. \A d \in Events : outbox[d].state # "NONE" => outbox'[d].state # "NONE"
  BY RowsStay
<1>3. ASSUME poster' = poster PROVE BusyOnRow' /\ AckIsBooked'
  BY <1>1, <1>2, <1>3
<1>4. ASSUME NEW w \in Posters, NEW e \in Events, Claim(w, e)
      PROVE  BusyOnRow' /\ AckIsBooked'
  <2>1. outbox'[e].state # "NONE"
    BY <1>4 DEF Claim
  <2>2. QED
    BY <1>1, <1>2, <1>4, <2>1 DEF Claim
<1>5. ASSUME NEW w \in Posters, NEW answer \in {"accepted", "retry", "review"},
             poster[w].pc = "post", Hears(w, answer),
             answer = "accepted" => poster[w].event \in hub'
      PROVE  BusyOnRow' /\ AckIsBooked'
  <2>1. \A v \in Posters : poster'[v].event = poster[v].event
    BY <1>5 DEF Hears
  <2>2. \A v \in Posters : poster'[v].pc # "rest" => poster[v].pc # "rest"
    BY <1>5 DEF Hears
  <2>3. \A v \in Posters : v # w => poster'[v] = poster[v]
    BY <1>5 DEF Hears
  <2>4. poster'[w].answer = answer
    BY <1>5 DEF Hears
  <2>5. BusyOnRow'
    BY <1>2, <2>1, <2>2
  <2>6. AckIsBooked'
    BY <1>1, <1>5, <2>1, <2>3, <2>4
  <2>7. QED
    BY <2>5, <2>6
<1>6. ASSUME NEW w \in Posters, poster' = [poster EXCEPT ![w] = Resting]
      PROVE  BusyOnRow' /\ AckIsBooked'
  BY <1>1, <1>2, <1>6 DEF Resting
<1>7. ASSUME NEW w \in Posters, PostAccepted(w)
      PROVE  BusyOnRow' /\ AckIsBooked'
  BY <1>5, <1>7 DEF PostAccepted
<1>8. ASSUME NEW w \in Posters,
             PostTooEarly(w) \/ PostUncertain(w) \/ PostRefused(w)
      PROVE  BusyOnRow' /\ AckIsBooked'
  BY <1>5, <1>8 DEF PostTooEarly, PostUncertain, PostRefused
<1>9. QED
  BY <1>3, <1>4, <1>6, <1>7, <1>8
     DEF OutboxNext, OutboxStep, PosterStep, Settle, PosterDies, LeaseRunsOut,
         LeaseLost, Captured, outboxVars

LEMMA LiveStep ==
  ASSUME OutboxTypeOK, LiveIsLeased, [OutboxNext]_outboxVars
  PROVE  LiveIsLeased'
<1> USE DEF OutboxTypeOK, OutboxRow, RowStates, LiveIsLeased
<1>1. ASSUME NEW w \in Posters, NEW d \in Events, Claim(w, d)
      PROVE  LiveIsLeased'
  BY <1>1 DEF Claim
<1>2. ASSUME NEW w \in Posters, Settle(w)
      PROVE  LiveIsLeased'
  BY <1>2 DEF Settle
<1>3. ASSUME NEW d \in Events, LeaseRunsOut(d) \/ LeaseLost(d)
      PROVE  LiveIsLeased'
  BY <1>3 DEF LeaseRunsOut, LeaseLost
<1>4. ASSUME NEW d \in Events, Captured(d)
      PROVE  LiveIsLeased'
  BY <1>4 DEF Captured, Capture, Due
<1>5. ASSUME outbox' = outbox
      PROVE  LiveIsLeased'
  BY <1>5
<1>6. QED
  BY <1>1, <1>2, <1>3, <1>4, <1>5
     DEF OutboxNext, OutboxStep, PosterStep, PostAccepted, PostTooEarly,
         PostUncertain, PostRefused, PosterDies, outboxVars

(* A row becomes ACCEPTED by a worker that has heard so, and the Hub books *)
(* what a worker posts, which has a row.                                   *)
LEMMA BookedStep ==
  ASSUME OutboxInv, [OutboxNext]_outboxVars
  PROVE  AcceptedIsBooked'
<1> USE DEF OutboxInv, OutboxTypeOK, OutboxRow, RowStates, AcceptedIsBooked
<1>1. hub \subseteq hub'
  BY HubGrows
<1>2. \A d \in Events : outbox[d].state # "NONE" => outbox'[d].state # "NONE"
  BY RowsStay
<1>3. ASSUME NEW d \in Events, outbox'[d].state = "ACCEPTED",
             outbox[d].state # "ACCEPTED"
      PROVE  d \in hub
  <2>1. ASSUME NEW w \in Posters, Settle(w) PROVE d \in hub
    <3>1. d = poster[w].event /\ Verdict(poster[w].answer) = "ACCEPTED"
      BY <1>3, <2>1 DEF Settle
    <3>2. poster[w].answer = "accepted"
      BY <3>1 DEF Verdict
    <3>3. QED
      BY <2>1, <3>1, <3>2 DEF Settle, AckIsBooked
  <2>2. \A w \in Posters, e \in Events : ~Claim(w, e)
    BY <1>3 DEF Claim
  <2>3. \A e \in Events : ~LeaseRunsOut(e) /\ ~LeaseLost(e)
    BY <1>3 DEF LeaseRunsOut, LeaseLost
  <2>4. \A e \in Events : ~Captured(e)
    BY <1>3 DEF Captured, Capture, Due
  <2>5. outbox' # outbox
    BY <1>3
  <2>6. QED
    BY <2>1, <2>2, <2>3, <2>4, <2>5
       DEF OutboxNext, OutboxStep, PosterStep, PostAccepted, PostTooEarly,
           PostUncertain, PostRefused, PosterDies, outboxVars
<1>4. ASSUME NEW d \in Events, d \in hub', d \notin hub
      PROVE  outbox[d].state # "NONE"
  <2>1. PICK w \in Posters : PostAccepted(w) \/ PostUncertain(w) \/ PostRefused(w)
    BY <1>4 DEF OutboxNext, OutboxStep, PosterStep, Claim, PostTooEarly, Settle,
         PosterDies, LeaseRunsOut, LeaseLost, Captured, outboxVars
  <2>2. d = poster[w].event /\ poster[w].pc = "post"
    BY <1>4, <2>1 DEF PostAccepted, PostUncertain, PostRefused, MayBook
  <2>3. QED
    BY <2>2 DEF BusyOnRow
<1>5. QED
  BY <1>1, <1>2, <1>3, <1>4

LEMMA OutboxInvStep ==
  ASSUME OutboxInv, [OutboxNext]_outboxVars
  PROVE  OutboxInv'
<1>1. OutboxTypeOK /\ BusyOnRow /\ LiveIsLeased
  BY DEF OutboxInv
<1>2. OutboxTypeOK'
  BY <1>1, TypeStep
<1>3. BusyOnRow' /\ AckIsBooked'
  BY PosterStepKeeps
<1>4. LiveIsLeased'
  BY <1>1, LiveStep
<1>5. AcceptedIsBooked'
  BY BookedStep
<1>6. QED
  BY <1>2, <1>3, <1>4, <1>5 DEF OutboxInv

(* Workers neither make rows nor remove them: nobody who looks only at     *)
(* which events have a row can tell that they are there.                   *)
LEMMA WorkersKeepRows ==
  ASSUME OutboxTypeOK, OutboxStep, NEW e \in Events
  PROVE  outbox'[e].state = "NONE" <=> outbox[e].state = "NONE"
<1> USE DEF OutboxTypeOK, OutboxRow, RowStates
<1>1. ASSUME NEW w \in Posters, NEW d \in Events, Claim(w, d)
      PROVE  outbox'[e].state = "NONE" <=> outbox[e].state = "NONE"
  BY <1>1 DEF Claim, Claimable
<1>2. ASSUME NEW w \in Posters, Settle(w)
      PROVE  outbox'[e].state = "NONE" <=> outbox[e].state = "NONE"
  BY <1>2 DEF Settle, Holds, Verdict
<1>3. ASSUME NEW d \in Events, LeaseRunsOut(d) \/ LeaseLost(d)
      PROVE  outbox'[e].state = "NONE" <=> outbox[e].state = "NONE"
  BY <1>3 DEF LeaseRunsOut, LeaseLost
<1>4. ASSUME outbox' = outbox
      PROVE  outbox'[e].state = "NONE" <=> outbox[e].state = "NONE"
  BY <1>4
<1>5. QED
  BY <1>1, <1>2, <1>3, <1>4
     DEF OutboxStep, PosterStep, PostAccepted, PostTooEarly, PostUncertain,
         PostRefused, PosterDies

----------------------------------------------------------------------------
(* The invariant holds in every reachable state.                           *)
THEOREM OutboxInvariance == OutboxSpec => []OutboxInv
<1>1. OutboxInv /\ [OutboxNext]_outboxVars => OutboxInv'
  BY OutboxInvStep
<1>2. QED
  BY <1>1, OutboxInitHolds, PTL DEF OutboxSpec

(* A row that says ACCEPTED is in the Hub's books, and the Hub has booked  *)
(* nothing that was not captured.                                          *)
THEOREM Booked == OutboxSpec => []AcceptedIsBooked
<1>1. OutboxInv => AcceptedIsBooked
  BY DEF OutboxInv
<1>2. QED
  BY <1>1, OutboxInvariance, PTL

(* No worker, whatever became of its lease, changes a row that has its     *)
(* verdict.                                                                *)
THEOREM VerdictForGood == OutboxSpec => VerdictIsFinal
<1>1. ASSUME OutboxInv, [OutboxNext]_outboxVars, NEW e \in Events,
             outbox[e].state \in {"ACCEPTED", "DEAD"}
      PROVE  outbox'[e] = outbox[e]
  <2> USE DEF OutboxInv, OutboxTypeOK, OutboxRow
  <2>1. ASSUME NEW w \in Posters, NEW d \in Events, Claim(w, d)
        PROVE  outbox'[e] = outbox[e]
    BY <1>1, <2>1 DEF Claim, Claimable
  <2>2. ASSUME NEW w \in Posters, Settle(w)
        PROVE  outbox'[e] = outbox[e]
    BY <1>1, <2>2 DEF Settle, Holds
  <2>3. ASSUME NEW d \in Events, LeaseRunsOut(d) \/ LeaseLost(d)
        PROVE  outbox'[e] = outbox[e]
    BY <1>1, <2>3 DEF LeaseRunsOut, LeaseLost, LiveIsLeased
  <2>4. ASSUME NEW d \in Events, Captured(d)
        PROVE  outbox'[e] = outbox[e]
    BY <1>1, <2>4 DEF Captured, Capture
  <2>5. ASSUME outbox' = outbox
        PROVE  outbox'[e] = outbox[e]
    BY <2>5
  <2>6. QED
    BY <1>1, <2>1, <2>2, <2>3, <2>4, <2>5
       DEF OutboxNext, OutboxStep, PosterStep, PostAccepted, PostTooEarly,
           PostUncertain, PostRefused, PosterDies, outboxVars
<1>2. OutboxInv /\ [OutboxNext]_outboxVars
        => [\A e \in Events : outbox[e].state \in {"ACCEPTED", "DEAD"} =>
                                 outbox'[e] = outbox[e]]_outboxVars
  BY <1>1
<1>3. QED
  BY <1>2, OutboxInvariance, PTL DEF OutboxSpec, VerdictIsFinal

============================================================================
