------------------------- MODULE CampaignDelivery -------------------------
(***************************************************************************)
(* Label campaigns of one WhatsApp account: the owner launches, pauses,    *)
(* resumes and cancels runs (src/modules/messaging/campaign-launch.ts),    *)
(* contacts opt in and say STOP (campaign-permission.ts,                   *)
(* campaign-optout.ts), and every worker process ticks                     *)
(* processNextCampaignDelivery (campaign-delivery-worker.ts), which takes  *)
(* one recipient at a time through a chain of separate SQL statements.     *)
(*                                                                         *)
(* A worker has one tick at a time (the campaignsBusy flag of              *)
(* scripts/ai-worker.ts), and a token leaves a row before its tick ends or *)
(* stays on a row that nobody claims again, so the worker names the        *)
(* ClaimToken.  "Within 24 hours" is "today": a day passes at once for     *)
(* all, which keeps every distance on one day below 24 hours and every     *)
(* distance across days above.                                             *)
(***************************************************************************)
EXTENDS Naturals, FiniteSets

CONSTANTS
  Runs,        \* campaign runs, one per audience preflight
  Phones,      \* PhoneNormalized of the recipients
  Workers,     \* processes of scripts/ai-worker.ts
  DailyCap,    \* CAMPAIGN_MAX_ATTEMPTS_PER_24H
  MaxDays,     \* bound: days that pass
  MaxFaults,   \* bound: crashes, SQL errors, a full or failing ledger
  MaxOwner,    \* bound: owner commands after the launches
  MaxWords     \* bound: opt-ins and STOPs that arrive

Nobody == "nobody"

ASSUME CampaignAssumption ==
  /\ {DailyCap, MaxDays, MaxFaults, MaxOwner, MaxWords} \subseteq Nat
  /\ Nobody \notin Workers

VARIABLES
  run,       \* TblWhatsAppCampaignRun.Status, "NONE" before the launch
  current,   \* draft still COPY_APPROVED with the run's text, label not deleted
  item,      \* TblWhatsAppCampaignRunItem
  quota,     \* TblUsageReservation.State under "campaign:<run>:<phone>"
  consent,   \* permission and opt-out rows of a phone
  channel,   \* TblChannelConnection is ACTIVE
  throttle,  \* NextAttemptAtUtc of the account's throttle row has come
  tick,      \* where the tick of each worker is
  heard,     \* what a contact's phone got: messages per run, today, since STOP
  calls,     \* send requests the runtime got today
  day, faults, owner, words

vars == <<run, current, item, quota, consent, channel, throttle, tick, heard,
          calls, day, faults, owner, words>>

NoItem == <<>>
Items  == Runs \X Phones

(* claimed, done: ClaimedAtUtc and CompletedAtUtc lie within 24 hours;     *)
(* overdue: ClaimedAtUtc is five minutes old.  The token and the age of a  *)
(* row are kept while it is IN_FLIGHT, the only time they are read.        *)
Absent  == [status |-> "NONE", token |-> Nobody, claimed |-> FALSE,
            done |-> FALSE, overdue |-> FALSE]
Pending == [Absent EXCEPT !.status = "PENDING"]
Asleep  == [pc |-> "asleep", item |-> NoItem, outcome |-> "NONE",
            reserved |-> FALSE, stale |-> {}]

Fault == faults < MaxFaults /\ faults' = faults + 1
Owner == owner < MaxOwner /\ owner' = owner + 1

----------------------------------------------------------------------------
(* The conditions that discardNotAllowed, claimNext and stillAllowed spell *)
(* out in SQL.                                                             *)

Live(r) == run[r] \in {"QUEUED", "RUNNING"}

(* Faulty variant of Receptive: the opt-out rows are not joined.           *)
Permitted(p) == consent[p] # "none"

Receptive(p) == consent[p] = "in"

(* oldItem: this phone got, may have got or is getting a campaign today.   *)
Touched(s) == \/ s.status \in {"SENT", "UNKNOWN"} /\ s.done
              \/ s.status = "IN_FLIGHT" /\ s.claimed

RecentlyMessaged(p) == \E r \in Runs : Touched(item[r, p])

MayReceive(r, p) == Receptive(p) /\ current[r] /\ ~RecentlyMessaged(p)

(* Faulty variant of AttemptsToday: failed attempts do not count.          *)
SentToday ==
  Cardinality({i \in Items : item[i].claimed /\ item[i].status # "FAILED"})

AttemptsToday == Cardinality({i \in Items : item[i].claimed})

Owns(w) == LET i == tick[w].item
           IN item[i].status = "IN_FLIGHT" /\ item[i].token = w

StillAllowed(w) == LET i == tick[w].item
                   IN /\ Owns(w) /\ run[i[1]] = "RUNNING" /\ channel
                      /\ Receptive(i[2]) /\ current[i[1]]

(* The state of the ledger row after each call, as billing/entitlements.ts *)
(* leaves it; Reserve of a row that is held gives it back as it is.        *)
Reserved(q)  == IF q \in {"NONE", "RELEASED"} THEN "RESERVED" ELSE q
Consumed(q)  == IF q \in {"RESERVED", "UNCERTAIN"} THEN "CONSUMED" ELSE q
Released(q)  == IF q = "RESERVED" THEN "RELEASED" ELSE q
Uncertain(q) == IF q = "RESERVED" THEN "UNCERTAIN" ELSE q

----------------------------------------------------------------------------
(* The owner.                                                              *)

Launch(r) ==
  LET eligible == {p \in Phones : Receptive(p) /\ ~RecentlyMessaged(p)}
  IN /\ run[r] = "NONE" /\ current[r] /\ channel /\ eligible # {}
     /\ run' = [run EXCEPT ![r] = "QUEUED"]
     /\ item' = [i \in Items |-> IF i[1] = r /\ i[2] \in eligible
                                 THEN Pending ELSE item[i]]
     /\ UNCHANGED <<current, quota, consent, channel, throttle, tick, heard,
                    calls, day, faults, owner, words>>

ChangeRun(r) ==
  /\ Owner
  /\ \/ Live(r) /\ run' = [run EXCEPT ![r] = "PAUSED"]
     \/ /\ run[r] = "PAUSED" /\ current[r] /\ channel
        /\ run' = [run EXCEPT ![r] = "QUEUED"]
     \/ /\ Live(r) \/ run[r] = "PAUSED"
        /\ run' = [run EXCEPT ![r] = "CANCELLED"]
  /\ UNCHANGED <<current, item, quota, consent, channel, throttle, tick, heard,
                 calls, day, faults, words>>

(* Editing the draft withdraws its approval, approving the same text again *)
(* restores it; the account is disconnected and comes back.                *)
EditDraft(r) ==
  /\ Owner
  /\ current' = [current EXCEPT ![r] = ~@]
  /\ UNCHANGED <<run, item, quota, consent, channel, throttle, tick, heard,
                 calls, day, faults, words>>

SwitchChannel ==
  /\ Owner
  /\ channel' = ~channel
  /\ UNCHANGED <<run, current, item, quota, consent, throttle, tick, heard,
                 calls, day, faults, words>>

----------------------------------------------------------------------------
(* The contact: each in the transaction that stores the inbound message.   *)

Word == words < MaxWords /\ words' = words + 1

OptIn(p) ==
  /\ Word
  /\ consent' = [consent EXCEPT ![p] = "in"]
  /\ heard' = [heard EXCEPT ![p].afterStop = 0]
  /\ UNCHANGED <<run, current, item, quota, channel, throttle, tick, calls,
                 day, faults, owner>>

Stop(p) ==
  /\ Word
  /\ consent' = [consent EXCEPT ![p] = "stopped"]
  /\ UNCHANGED <<run, current, item, quota, channel, throttle, tick, heard,
                 calls, day, faults, owner>>

----------------------------------------------------------------------------
(* Time.                                                                   *)

(* 60 seconds after an attempt, or 60 minutes after the cap was met.       *)
SpacingPasses ==
  /\ ~throttle /\ throttle' = TRUE
  /\ UNCHANGED <<run, current, item, quota, consent, channel, tick, heard,
                 calls, day, faults, owner, words>>

(* Five minutes after the claim: the tick has died, or only stalled.       *)
GetsOverdue(i) ==
  /\ item[i].status = "IN_FLIGHT" /\ ~item[i].overdue
  /\ item' = [item EXCEPT ![i].overdue = TRUE]
  /\ UNCHANGED <<run, current, quota, consent, channel, throttle, tick, heard,
                 calls, day, faults, owner, words>>

(* Bound: no tick stalls for a whole day.                                  *)
DayPasses ==
  /\ day < MaxDays /\ \A w \in Workers : tick[w] = Asleep
  /\ day' = day + 1
  /\ item' = [i \in Items |-> [item[i] EXCEPT
                 !.claimed = FALSE, !.done = FALSE,
                 !.overdue = item[i].status = "IN_FLIGHT"]]
  /\ heard' = [p \in Phones |-> [heard[p] EXCEPT !.today = 0]]
  /\ calls' = 0
  /\ UNCHANGED <<run, current, quota, consent, channel, throttle, tick, faults,
                 owner, words>>

----------------------------------------------------------------------------
(* A tick, one SQL transaction or external call per step.                  *)

At(w, pc) == tick[w].pc = pc
Go(w, pc) == tick' = [tick EXCEPT ![w].pc = pc]

(* CompletedAtUtc is read of messages that left or may have left.          *)
Verdict(s, status) ==
  [s EXCEPT !.status = status, !.done = status \in {"SENT", "UNKNOWN"},
            !.token = Nobody, !.overdue = FALSE]

(* Faulty variants of the two definitions that follow.                     *)
StaleInLiveRun(i) ==
  item[i].status = "IN_FLIGHT" /\ item[i].overdue /\ Live(i[1])
ExpiredAsFailed(s) == Verdict(s, "FAILED")
ExpiredRequeued(s) == Verdict(s, "PENDING")

(* An attempt that nobody settled in time.                                 *)
Stale(i) == item[i].status = "IN_FLIGHT" /\ item[i].overdue
Expired(s) == Verdict(s, "UNKNOWN")

MarkExpiredUnknown(w) ==
  LET stale == {i \in Items : Stale(i)}
  IN /\ At(w, "asleep")
     /\ item' = [i \in Items |-> IF i \in stale THEN Expired(item[i])
                                 ELSE item[i]]
     /\ tick' = [tick EXCEPT ![w].pc = "fence", ![w].stale = stale]
     /\ UNCHANGED <<run, current, quota, consent, channel, throttle, heard,
                    calls, day, faults, owner, words>>

(* One transaction per expired row, errors swallowed; then on.             *)
FenceStaleQuota(w) ==
  /\ At(w, "fence")
  /\ \/ \E i \in tick[w].stale :
          /\ tick' = [tick EXCEPT ![w].stale = @ \ {i}]
          /\ \/ quota' = [quota EXCEPT ![i] = Uncertain(@)] /\ UNCHANGED faults
             \/ Fault /\ UNCHANGED quota
     \/ tick[w].stale = {} /\ Go(w, "discard") /\ UNCHANGED <<quota, faults>>
  /\ UNCHANGED <<run, current, item, consent, channel, throttle, heard, calls,
                 day, owner, words>>

DiscardNotAllowed(w) ==
  /\ At(w, "discard") /\ Go(w, "complete")
  /\ item' = [i \in Items |->
                IF /\ item[i].status = "PENDING" /\ Live(i[1])
                   /\ ~MayReceive(i[1], i[2])
                THEN Verdict(item[i], "SKIPPED")
                ELSE item[i]]
  /\ UNCHANGED <<run, current, quota, consent, channel, throttle, heard, calls,
                 day, faults, owner, words>>

Completed ==
  [r \in Runs |->
     IF /\ Live(r)
        /\ \A p \in Phones : item[r, p].status \notin {"PENDING", "IN_FLIGHT"}
     THEN "COMPLETED" ELSE run[r]]

FinishCompletedRuns(w) ==
  /\ At(w, "complete") /\ Go(w, "claim")
  /\ run' = Completed
  /\ UNCHANGED <<current, item, quota, consent, channel, throttle, heard,
                 calls, day, faults, owner, words>>

Claimable(i) == /\ item[i].status = "PENDING" /\ Live(i[1])
                /\ channel /\ MayReceive(i[1], i[2])

(* Under the lock of the account's throttle row.                           *)
ClaimNext(w) ==
  /\ At(w, "claim") /\ throttle /\ AttemptsToday < DailyCap
  /\ throttle' = FALSE
  /\ \E i \in Items :
       /\ Claimable(i)
       /\ item' = [item EXCEPT ![i].status = "IN_FLIGHT", ![i].token = w,
                               ![i].claimed = TRUE]
       /\ run' = [run EXCEPT ![i[1]] = "RUNNING"]
       /\ tick' = [tick EXCEPT ![w].pc = "status", ![w].item = i]
  /\ UNCHANGED <<current, quota, consent, channel, heard, calls, day, faults,
                 owner, words>>

NothingToClaim(w) ==
  LET capMet == /\ throttle /\ AttemptsToday >= DailyCap
                /\ \E i \in Items : item[i].status = "PENDING" /\ Live(i[1])
  IN /\ At(w, "claim")
     /\ throttle /\ AttemptsToday < DailyCap => \A i \in Items : ~Claimable(i)
     /\ throttle' = (throttle /\ ~capMet)
     /\ tick' = [tick EXCEPT ![w] = Asleep]
     /\ UNCHANGED <<run, current, item, quota, consent, channel, heard, calls,
                    day, faults, owner, words>>

(* getStatus: the account can be read as READY at any moment.              *)
AccountReady(w) == /\ At(w, "status") /\ Go(w, "check")
                   /\ UNCHANGED <<run, current, item, quota, consent, channel,
                                  throttle, heard, calls, day, faults, owner,
                                  words>>

Unclaimed(w) == IF Owns(w)
                THEN [item EXCEPT ![tick[w].item] =
                        [@ EXCEPT !.status = "PENDING", !.token = Nobody,
                                  !.claimed = FALSE, !.overdue = FALSE]]
                ELSE item

Unclaim(w) ==
  /\ \/ At(w, "status")
     \/ At(w, "backoff")
  /\ item' = Unclaimed(w)
  /\ tick' = [tick EXCEPT ![w] = Asleep]
  /\ UNCHANGED <<run, current, quota, consent, channel, throttle, heard, calls,
                 day, faults, owner, words>>

(* stillAllowed, before and after the quota is reserved.                   *)
Recheck(w) ==
  /\ \/ At(w, "check")
     \/ At(w, "recheck")
  /\ IF StillAllowed(w)
     THEN Go(w, IF At(w, "check") THEN "reserve" ELSE "send")
     ELSE tick' = [tick EXCEPT ![w].pc = "finish", ![w].outcome = "SKIPPED"]
  /\ UNCHANGED <<run, current, item, quota, consent, channel, throttle, heard,
                 calls, day, faults, owner, words>>

Reserve(w) ==
  /\ At(w, "reserve")
  /\ quota' = [quota EXCEPT ![tick[w].item] = Reserved(@)]
  /\ tick' = [tick EXCEPT ![w].pc = "recheck", ![w].reserved = TRUE]
  /\ UNCHANGED <<run, current, item, consent, channel, throttle, heard, calls,
                 day, faults, owner, words>>

(* The plan is used up, or the answer of the ledger was lost.              *)
ReserveFails(w) ==
  LET i == tick[w].item
  IN /\ At(w, "reserve") /\ Fault /\ Go(w, "backoff")
     /\ quota' \in {quota, [quota EXCEPT ![i] = Reserved(@)]}
     /\ run' = IF run[i[1]] = "RUNNING" THEN [run EXCEPT ![i[1]] = "PAUSED"]
               ELSE run
     /\ UNCHANGED <<current, item, consent, channel, throttle, heard, calls,
                    day, owner, words>>

(* External: the runtime hands the text to WhatsApp.                       *)
OnTheWire(i) ==
  LET ear == heard[i[2]]
  IN heard' = [heard EXCEPT ![i[2]] =
       [from |-> [ear.from EXCEPT ![i[1]] = @ + 1],
        today |-> ear.today + 1,
        afterStop |-> IF consent[i[2]] = "stopped" THEN ear.afterStop + 1
                      ELSE ear.afterStop]]

(* classifyReply: an acknowledged message is SENT, three codes promise     *)
(* that nothing left, and everything else may or may not have left.        *)
Send(w) ==
  /\ At(w, "send")
  /\ calls' = calls + 1
  /\ \E outcome \in {"SENT", "FAILED", "UNKNOWN"} :
       /\ tick' = [tick EXCEPT ![w].pc = "finish", ![w].outcome = outcome]
       /\ \/ outcome \in {"SENT", "UNKNOWN"} /\ OnTheWire(tick[w].item)
          \/ outcome \in {"FAILED", "UNKNOWN"} /\ UNCHANGED heard
  /\ UNCHANGED <<run, current, item, quota, consent, channel, throttle, day,
                 faults, owner, words>>

AfterFinish(w) ==
  IF tick[w].outcome \in {"FAILED", "UNKNOWN"} THEN "pause"
  ELSE IF tick[w].reserved THEN "settle" ELSE "tidy"

Finish(w) ==
  /\ At(w, "finish") /\ Go(w, AfterFinish(w))
  /\ item' = IF Owns(w)
             THEN [item EXCEPT ![tick[w].item] = Verdict(@, tick[w].outcome)]
             ELSE item
  /\ UNCHANGED <<run, current, quota, consent, channel, throttle, heard, calls,
                 day, faults, owner, words>>

(* The circuit breaker.                                                    *)
PauseRun(w) ==
  /\ At(w, "pause") /\ Go(w, "settle")
  /\ LET r == tick[w].item[1]
     IN run' = IF Live(r) THEN [run EXCEPT ![r] = "PAUSED"] ELSE run
  /\ UNCHANGED <<current, item, quota, consent, channel, throttle, heard,
                 calls, day, faults, owner, words>>

(* Faulty variant of Settled: only what was acknowledged is paid for.      *)
SettledIfSent(outcome, q) ==
  IF outcome = "SENT" THEN Consumed(q) ELSE Released(q)

Settled(outcome, q) == IF outcome = "SENT" THEN Consumed(q)
                       ELSE IF outcome = "UNKNOWN" THEN Uncertain(q)
                       ELSE Released(q)

(* A settlement that fails is logged and forgotten.                        *)
SettleQuota(w) ==
  /\ At(w, "settle") /\ Go(w, "tidy")
  /\ \/ /\ quota' = [quota EXCEPT ![tick[w].item] = Settled(tick[w].outcome, @)]
        /\ UNCHANGED faults
     \/ Fault /\ UNCHANGED quota
  /\ UNCHANGED <<run, current, item, consent, channel, throttle, heard, calls,
                 day, owner, words>>

Tidy(w) ==
  /\ At(w, "tidy")
  /\ run' = Completed
  /\ tick' = [tick EXCEPT ![w] = Asleep]
  /\ UNCHANGED <<current, item, quota, consent, channel, throttle, heard,
                 calls, day, faults, owner, words>>

(* The process dies, or a statement throws out of the tick.                *)
Dies(w) ==
  /\ ~At(w, "asleep") /\ Fault
  /\ tick' = [tick EXCEPT ![w] = Asleep]
  /\ UNCHANGED <<run, current, item, quota, consent, channel, throttle, heard,
                 calls, day, owner, words>>

----------------------------------------------------------------------------
Init ==
  /\ run = [r \in Runs |-> "NONE"]
  /\ current = [r \in Runs |-> TRUE]
  /\ item = [i \in Items |-> Absent]
  /\ quota = [i \in Items |-> "NONE"]
  /\ consent \in [Phones -> {"none", "in"}]
  /\ channel = TRUE
  /\ throttle = TRUE
  /\ tick = [w \in Workers |-> Asleep]
  /\ heard = [p \in Phones |-> [from |-> [r \in Runs |-> 0],
                                today |-> 0, afterStop |-> 0]]
  /\ calls = 0 /\ day = 1 /\ faults = 0 /\ owner = 0 /\ words = 0

Step(w) ==
  \/ MarkExpiredUnknown(w) \/ FenceStaleQuota(w) \/ DiscardNotAllowed(w)
  \/ FinishCompletedRuns(w) \/ ClaimNext(w) \/ NothingToClaim(w)
  \/ AccountReady(w) \/ Unclaim(w) \/ Recheck(w) \/ Reserve(w)
  \/ ReserveFails(w) \/ Send(w) \/ Finish(w) \/ PauseRun(w) \/ SettleQuota(w)
  \/ Tidy(w)

Next ==
  \/ \E r \in Runs : Launch(r) \/ ChangeRun(r) \/ EditDraft(r)
  \/ \E p \in Phones : OptIn(p) \/ Stop(p)
  \/ SwitchChannel \/ SpacingPasses \/ DayPasses
  \/ \E i \in Items : GetsOverdue(i)
  \/ \E w \in Workers : Step(w) \/ Dies(w)

Spec == Init /\ [][Next]_vars

(* setInterval starts a tick every ten seconds, awaits return, and the     *)
(* clock goes on.                                                          *)
Fairness ==
  /\ \A w \in Workers : WF_vars(Step(w))
  /\ \A i \in Items : WF_vars(GetsOverdue(i))

FairSpec == Spec /\ Fairness

----------------------------------------------------------------------------
(* Every field stays in the range of its column.                           *)
TypeOK ==
  /\ run \in [Runs -> {"NONE", "QUEUED", "RUNNING", "PAUSED", "COMPLETED",
                       "CANCELLED"}]
  /\ current \in [Runs -> BOOLEAN]
  /\ item \in [Items -> [status : {"NONE", "PENDING", "IN_FLIGHT", "SENT",
                                   "FAILED", "UNKNOWN", "SKIPPED"},
                         token : Workers \union {Nobody},
                         claimed : BOOLEAN, done : BOOLEAN,
                         overdue : BOOLEAN]]
  /\ \A i \in Items : item[i].status = "IN_FLIGHT" <=> item[i].token # Nobody
  /\ quota \in [Items -> {"NONE", "RESERVED", "CONSUMED", "RELEASED",
                          "UNCERTAIN"}]
  /\ consent \in [Phones -> {"none", "in", "stopped"}]
  /\ channel \in BOOLEAN /\ throttle \in BOOLEAN
  /\ \A w \in Workers :
       /\ tick[w].item \in Items \union {NoItem}
       /\ tick[w].stale \subseteq Items
       /\ tick[w].outcome \in {"NONE", "SENT", "FAILED", "UNKNOWN", "SKIPPED"}
  /\ heard \in [Phones -> [from : [Runs -> Nat], today : Nat, afterStop : Nat]]
  /\ calls \in Nat

(* A recipient of a run gets its message at most once, and nobody gets two *)
(* campaign messages within a day, from the same run or from different     *)
(* ones: whatever ticks die, stall past the five minutes or run beside     *)
(* each other, and however often a run is paused and resumed.              *)
HeardOnce ==
  \A p \in Phones : (\A r \in Runs : heard[p].from[r] <= 1) /\ heard[p].today <= 1

(* The runtime gets no more send requests a day than the cap, although the *)
(* cap counts claims, claims are taken back, attempts fail, and a tick can *)
(* stall between its claim and its send.                                   *)
AccountStaysUnderCap == calls <= DailyCap

(* After a STOP at most the one message gets out whose tick had already    *)
(* made its last check, and no other run or day brings a second one.       *)
StopIsHonoured == \A p \in Phones : heard[p].afterStop <= 1

(* The verdict shown to the owner is true of the phone: a message that may *)
(* have left is never reported as failed, excluded or still waiting, and   *)
(* one reported as sent did leave.                                         *)
VerdictIsTrue ==
  \A r \in Runs, p \in Phones :
    /\ heard[p].from[r] > 0 =>
         item[r, p].status \in {"IN_FLIGHT", "SENT", "UNKNOWN"}
    /\ item[r, p].status = "SENT" => heard[p].from[r] > 0

(* A message that left is paid for: its quota row is held, never given     *)
(* back, although the tick and the sweep that expires it settle the same   *)
(* row without seeing each other.                                          *)
DeliveryIsMetered ==
  \A r \in Runs, p \in Phones :
    heard[p].from[r] > 0 =>
      quota[r, p] \in {"RESERVED", "CONSUMED", "UNCERTAIN"}

(* No recipient stays in flight for ever, even after a crash or when the   *)
(* run was paused or cancelled under it.                                   *)
ItemsSettle ==
  \A i \in Items : item[i].status = "IN_FLIGHT" ~> item[i].status # "IN_FLIGHT"

(* What ErrorCode RECIPIENT_SUPPRESSED says of a row that a tick gave up:  *)
(* its recipient is not to be written to.  A paused run keeps the others   *)
(* for the owner to resume.                                                *)
SkippedIsSuppressed ==
  \A r \in Runs, p \in Phones :
    item[r, p].status = "SKIPPED" =>
      ~Receptive(p) \/ ~current[r] \/ ~channel \/ run[r] = "CANCELLED"

============================================================================
