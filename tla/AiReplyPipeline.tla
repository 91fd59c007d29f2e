-------------------------- MODULE AiReplyPipeline --------------------------
(***************************************************************************)
(* The AI reply pipeline: rows of TblAiReplyJob, the tasks that worker     *)
(* processes run on them under a lease (processAiReplyJob), the two quota  *)
(* reservations of each job, the WhatsApp runtime's idempotency ledger and *)
(* the people who pause, resume and disable the assistant meanwhile.       *)
(*                                                                         *)
(* A slot is one entry of a worker's task table; a task in a slot holds    *)
(* the lease token of its claim, so the slot's name is the token.  Time is *)
(* abstracted to one fact per row, whether its LeaseUntilUtc has passed,   *)
(* and the two activation watermarks to the set of jobs created before     *)
(* them.                                                                   *)
(***************************************************************************)
EXTENDS Naturals, FiniteSets

CONSTANTS
  Jobs,            \* rows of TblAiReplyJob that may be created
  Conversations,
  ConvOf,          \* the conversation of each job
  Slots,           \* task slots over all worker processes
  Texts,           \* reply texts a generation may return
  MaxUnknown,      \* MAX_SEND_RESOLUTION_ATTEMPTS, 3 in the code
  MaxStalls,       \* bound: leases that expire under a running task
  MaxAborts,       \* bound: tasks that die (crash, database error)
  MaxMoves         \* bound: interventions by people

CONSTANTS NoText, NoJob, NoToken, Orphan

ASSUME ConstantsAssumption ==
  /\ ConvOf \in [Jobs -> Conversations]
  /\ MaxUnknown \in Nat \ {0}
  /\ MaxStalls \in Nat /\ MaxAborts \in Nat /\ MaxMoves \in Nat
  /\ NoText \notin Texts
  /\ NoJob \notin Jobs
  /\ NoToken \notin Slots /\ Orphan \notin Slots /\ NoToken # Orphan

VARIABLES
  job,         \* job[j]: the row's Status, LeaseToken, lease, OutboundUnknownCount, GeneratedReplyText
  task,        \* task[s]: the local variables of the processAiReplyJob running in slot s
  aiResv,      \* State of the AI_REPLY reservation of each job
  waResv,      \* State of the WHATSAPP_OUTBOUND reservation of each job
  wire,        \* wire[j]: text delivered to the customer under the key ai:<job>
  late,        \* late[j]: texts of requests that timed out and may still be executed
  recorded,    \* jobs whose OUTBOUND message row is inserted
  acked,       \* jobs some task of which received a delivery acknowledgement
  enabled,     \* AutoReplyEnabled of the channel
  mode,        \* mode[c]: Mode of the conversation's AI state
  escalated,   \* conversations with an unresolved escalation
  preEnable,   \* jobs created before EnabledAtUtc
  preResume,   \* jobs created before their conversation's ResumedAtUtc
  stalls, aborts, moves

jobVars == <<job, task>>
quotaVars == <<aiResv, waResv>>
wireVars == <<wire, late, recorded, acked>>
ownerVars == <<enabled, mode, escalated, preEnable, preResume>>
boundVars == <<stalls, aborts, moves>>
vars == <<job, task, aiResv, waResv, wire, late, recorded, acked, enabled, mode,
          escalated, preEnable, preResume, stalls, aborts, moves>>

Ai == INSTANCE Reservation WITH Keys <- Jobs, resv <- aiResv
Wa == INSTANCE Reservation WITH Keys <- Jobs, resv <- waResv

----------------------------------------------------------------------------
Terminal == {"SENT", "SKIPPED", "FAILED"}
Statuses == {"NONE", "PENDING", "PROCESSING"} \cup Terminal
Modes == {"AUTO", "HUMAN_PAUSED", "SAFETY_PAUSED"}

(* Program points of processAiReplyJob, in the order of the code.          *)
BeforeText == {"settings", "reserveAi", "generate", "generating"}
WithText == {"gateSetting", "gateConv", "preSend", "reserveWa", "send",
             "keepAi", "keepWa", "ambiguous", "finalize"}
Anywhere == {"releaseWa", "releaseAi", "finish", "escalate"}
ProgramPoints == {"idle", "persist"} \cup BeforeText \cup WithText \cup Anywhere

(* What an attempt knows of a reservation: "held" while it is a live       *)
(* commitment (aiHeld), "fresh" when this attempt made it and may release  *)
(* it (aiReleaseEligible).                                                 *)
Grips == {"none", "held", "fresh"}

(* Faulty variant of GripOn: a commitment found in the ledger counts as    *)
(* this attempt's own.                                                     *)
GripOnReused(st) == IF st = "CONSUMED" THEN "none" ELSE "fresh"

GripOn(st) == IF st \notin Ai!Committed THEN "fresh"
              ELSE IF st = "CONSUMED" THEN "none" ELSE "held"

Row == [status: Statuses, token: Slots \cup {NoToken, Orphan},
        lease: {"none", "live", "expired"}, unknown: 0..MaxUnknown,
        text: Texts \cup {NoText}]
Local == [pc: ProgramPoints, job: Jobs \cup {NoJob}, text: Texts \cup {NoText},
          ai: Grips, wa: Grips,
          fin: {"SKIPPED", "FAILED", "UNKNOWN"}, alert: BOOLEAN]

NoRow == [status |-> "NONE", token |-> NoToken, lease |-> "none", unknown |-> 0,
          text |-> NoText]
Idle == [pc |-> "idle", job |-> NoJob, text |-> NoText, ai |-> "none", wa |-> "none",
         fin |-> "SKIPPED", alert |-> FALSE]

JobsOf(c) == {j \in Jobs : ConvOf[j] = c}
Existing == {j \in Jobs : job[j].status # "NONE"}
WithStatus(c, st) == {j \in JobsOf(c) : job[j].status = st}

(* Faulty variants of Owns: the fence compares no token, or is not there.  *)
OwnsAnyToken(s) == LET j == task[s].job IN
                     job[j].status = "PROCESSING" /\ job[j].lease = "live"

OwnsUnfenced(s) == task[s].job \in Jobs

(* LIVE_LEASE_FENCE for the token held by slot s.                          *)
Owns(s) == LET j == task[s].job IN
             /\ job[j].status = "PROCESSING"
             /\ job[j].token = s
             /\ job[j].lease = "live"

(* The row of j with its claim cleared and status st.                      *)
Closed(j, st) == [job[j] EXCEPT !.status = st, !.token = NoToken, !.lease = "none"]

(* Faulty variants of Pausable: every pause overwrites the mode, or only   *)
(* AUTO is overwritten.                                                    *)
PausableAlways(c, m) == TRUE
PausableFromAuto(c, m) == mode[c] = "AUTO"

(* pauseConversationAi: SAFETY_PAUSED is never weakened, and a pause       *)
(* clears the resume watermark.                                            *)
Pausable(c, m) == m = "SAFETY_PAUSED" \/ mode[c] # "SAFETY_PAUSED"
Pause(c, m) ==
  IF Pausable(c, m)
    THEN /\ mode' = [mode EXCEPT ![c] = m]
         /\ preResume' = preResume \ JobsOf(c)
    ELSE UNCHANGED <<mode, preResume>>

----------------------------------------------------------------------------
(* Scheduling, by the webhook that stores an inbound message.              *)

Admits(c) == enabled /\ mode[c] = "AUTO" /\ c \notin escalated

(* maybeScheduleAiReplyAfterInbound with no PENDING row in the             *)
(* conversation; with one, the message coalesces onto it and nothing here  *)
(* changes.                                                                *)
Schedule(j) ==
  /\ job[j].status = "NONE"
  /\ Admits(ConvOf[j])
  /\ WithStatus(ConvOf[j], "PENDING") = {}
  /\ job' = [job EXCEPT ![j].status = "PENDING"]
  /\ UNCHANGED <<task, quotaVars, wireVars, ownerVars, boundVars>>

----------------------------------------------------------------------------
(* Claiming, leases and the ways a task ends.                              *)

Reclaimable(j) == job[j].status = "PROCESSING" /\ job[j].lease = "expired"

(* Faulty variants of Claimable: the claim ignores the conversation's job  *)
(* in progress, or never takes an expired lease over.                      *)
ClaimableBesideAnother(j) ==
  Reclaimable(j) \/ (job[j].status = "PENDING" /\ \A i \in Jobs : ~Reclaimable(i))

ClaimableOnce(j) ==
  job[j].status = "PENDING" /\ WithStatus(ConvOf[j], "PROCESSING") = {}

Claimable(j) ==
  \/ Reclaimable(j)
  \/ /\ job[j].status = "PENDING"
     /\ WithStatus(ConvOf[j], "PROCESSING") = {}
     /\ \A i \in Jobs : ~Reclaimable(i)      \* ORDER BY: PROCESSING first

(* claimNextJob: a new token and a live lease; the task works from the     *)
(* row as this statement returned it.                                      *)
Claim(s, j) ==
  /\ task[s].pc = "idle"
  /\ Claimable(j)
  /\ job' = [job EXCEPT ![j].status = "PROCESSING", ![j].token = s, ![j].lease = "live"]
  /\ task' = [task EXCEPT ![s] = [Idle EXCEPT !.pc = "settings", !.job = j,
                                             !.text = job[j].text]]
  /\ UNCHANGED <<quotaVars, wireVars, ownerVars, boundVars>>

(* LeaseUntilUtc passes.  Under a running task this takes a stall that     *)
(* outlasts the heartbeats, which are bounded; a relinquished or orphaned  *)
(* lease always runs out.                                                  *)
LeaseExpires(j) ==
  /\ job[j].lease = "live"
  /\ job' = [job EXCEPT ![j].lease = "expired"]
  /\ IF job[j].token \in Slots
       THEN stalls < MaxStalls /\ stalls' = stalls + 1
       ELSE UNCHANGED stalls
  /\ UNCHANGED <<task, quotaVars, wireVars, ownerVars, aborts, moves>>

(* The slot becomes free; a token left in a row has no holder any more.    *)
Leave(s) ==
  /\ task' = [task EXCEPT ![s] = Idle]
  /\ job' = [j \in Jobs |-> IF job[j].token = s
                             THEN [job[j] EXCEPT !.token = Orphan] ELSE job[j]]

(* Every fenced statement and requireLiveLease: without the live lease the *)
(* task returns LEASE_LOST and writes nothing.                             *)
FencedPoints == {"generate", "persist", "preSend", "ambiguous", "finalize", "finish"}
LeaseLost(s) ==
  /\ task[s].pc \in FencedPoints
  /\ ~Owns(s)
  /\ Leave(s)
  /\ UNCHANGED <<quotaVars, wireVars, ownerVars, boundVars>>

(* The process dies, or a statement throws out of processAiReplyJob, or    *)
(* the heartbeat marked the task lost although its lease is live.          *)
Abort(s) ==
  /\ task[s].pc # "idle"
  /\ aborts < MaxAborts /\ aborts' = aborts + 1
  /\ Leave(s)
  /\ UNCHANGED <<quotaVars, wireVars, ownerVars, stalls, moves>>

----------------------------------------------------------------------------
(* Steps of processAiReplyJob in slot s.                                   *)

At(s, l) == task[s].pc = l
Goto(s, l) == task' = [task EXCEPT ![s].pc = l]

(* Go to l, to close the job as st later; alert when finishTerminal also   *)
(* opens an escalation for the reason.                                     *)
Stop(s, l, st, alert) ==
  task' = [task EXCEPT ![s].pc = l, ![s].fin = st, ![s].alert = alert]

(* Settings, agent, destination and account are read; a missing one ends   *)
(* the job before any quota is taken.                                      *)
CheckSettings(s) ==
  /\ At(s, "settings")
  /\ \/ enabled /\ Goto(s, "reserveAi")
     \/ ~enabled /\ Stop(s, "finish", "SKIPPED", FALSE)
     \/ enabled /\ \E st \in {"SKIPPED", "FAILED"} : Stop(s, "finish", st, TRUE)
  /\ UNCHANGED <<job, quotaVars, wireVars, ownerVars, boundVars>>

(* Faulty variant of AfterAiQuota: a reservation that was already there is *)
(* taken as proof of a reply text.                                         *)
AfterAiQuotaHeld(s) ==
  IF aiResv[task[s].job] \in Ai!Committed THEN "gateSetting" ELSE "generate"

AfterAiQuota(s) == IF task[s].text = NoText THEN "generate" ELSE "gateSetting"

ReserveAi(s) ==
  LET j == task[s].job IN
  /\ At(s, "reserveAi")
  /\ aiResv' = [aiResv EXCEPT ![j] = Ai!AfterReserve(@)]
  /\ task' = [task EXCEPT ![s].pc = AfterAiQuota(s), ![s].ai = GripOn(aiResv[j])]
  /\ UNCHANGED <<job, waResv, wireVars, ownerVars, boundVars>>

(* A plan error: quota exhausted, or the subscription is not usable.  A    *)
(* committed row needs no quota, but the subscription is checked first.    *)
AiQuotaDenied(s) ==
  /\ At(s, "reserveAi")
  /\ Stop(s, "finish", "SKIPPED", TRUE)
  /\ UNCHANGED <<job, quotaVars, wireVars, ownerVars, boundVars>>

BeginGeneration(s) ==
  /\ At(s, "generate") /\ Owns(s)
  /\ Goto(s, "generating")
  /\ UNCHANGED <<job, quotaVars, wireVars, ownerVars, boundVars>>

Generated(s) ==
  /\ At(s, "generating")
  /\ \E t \in Texts : task' = [task EXCEPT ![s].pc = "persist", ![s].text = t]
  /\ UNCHANGED <<job, quotaVars, wireVars, ownerVars, boundVars>>

GenerationFailed(s) ==
  /\ At(s, "generating")
  /\ Stop(s, "releaseAi", "FAILED", TRUE)
  /\ UNCHANGED <<job, quotaVars, wireVars, ownerVars, boundVars>>

(* persistGeneratedReply keeps a text the row already has; the task goes   *)
(* on with its own.                                                        *)
PersistReply(s) ==
  LET j == task[s].job IN
  /\ At(s, "persist") /\ Owns(s)
  /\ job' = [job EXCEPT ![j].text = IF job[j].text = NoText THEN task[s].text
                                                          ELSE job[j].text]
  /\ Goto(s, "gateSetting")
  /\ UNCHANGED <<quotaVars, wireVars, ownerVars, boundVars>>

GateSetting(s) ==
  /\ At(s, "gateSetting")
  /\ IF enabled /\ task[s].job \notin preEnable
       THEN Goto(s, "gateConv")
       ELSE Stop(s, "releaseAi", "SKIPPED", FALSE)
  /\ UNCHANGED <<job, quotaVars, wireVars, ownerVars, boundVars>>

SendAllowed(j) == /\ mode[ConvOf[j]] = "AUTO"
                  /\ j \notin preResume
                  /\ ConvOf[j] \notin escalated

(* evaluateConversationAiSendGate, then the loop guard, whose history of   *)
(* recent replies is not modelled: it may object or not.                   *)
GateConversation(s) ==
  /\ At(s, "gateConv")
  /\ \/ SendAllowed(task[s].job) /\ Goto(s, "preSend")
     \/ SendAllowed(task[s].job) /\ Stop(s, "releaseAi", "SKIPPED", TRUE)
     \/ ~SendAllowed(task[s].job) /\ Stop(s, "releaseAi", "SKIPPED", FALSE)
  /\ UNCHANGED <<job, quotaVars, wireVars, ownerVars, boundVars>>

FinalCheck(s) ==
  /\ At(s, "preSend") /\ Owns(s)
  /\ Goto(s, "reserveWa")
  /\ UNCHANGED <<job, quotaVars, wireVars, ownerVars, boundVars>>

ReserveWa(s) ==
  LET j == task[s].job IN
  /\ At(s, "reserveWa")
  /\ waResv' = [waResv EXCEPT ![j] = Wa!AfterReserve(@)]
  /\ task' = [task EXCEPT ![s].pc = "send", ![s].wa = GripOn(waResv[j])]
  /\ UNCHANGED <<job, aiResv, wireVars, ownerVars, boundVars>>

WaQuotaDenied(s) ==
  /\ At(s, "reserveWa")
  /\ Stop(s, "releaseAi", "SKIPPED", TRUE)
  /\ UNCHANGED <<job, quotaVars, wireVars, ownerVars, boundVars>>

----------------------------------------------------------------------------
(* The runtime call.  The runtime delivers at most one text per key.       *)

Delivers(j, t) == wire' = [wire EXCEPT ![j] = t]
MayDeliver(j, t) == wire[j] \in {NoText, t}

(* "sent", or "duplicate" for a text delivered before.                     *)
SendAcked(s) ==
  LET j == task[s].job IN
  /\ At(s, "send")
  /\ MayDeliver(j, task[s].text) /\ Delivers(j, task[s].text)
  /\ acked' = acked \cup {j}
  /\ Goto(s, "finalize")
  /\ UNCHANGED <<job, quotaVars, late, recorded, ownerVars, boundVars>>

(* Timeout, unavailable or OUTBOUND_RESULT_UNKNOWN: the request may have   *)
(* been executed, lost, or still be executed later.                        *)
SendUnknown(s) ==
  LET j == task[s].job IN
  /\ At(s, "send")
  /\ \/ MayDeliver(j, task[s].text) /\ Delivers(j, task[s].text) /\ UNCHANGED late
     \/ UNCHANGED <<wire, late>>
     \/ late' = [late EXCEPT ![j] = @ \cup {task[s].text}] /\ UNCHANGED wire
  /\ Stop(s, "keepAi", "UNKNOWN", FALSE)
  /\ UNCHANGED <<job, quotaVars, recorded, acked, ownerVars, boundVars>>

(* IDEMPOTENCY_CONFLICT: the runtime knows the key with another payload,   *)
(* a different text or a destination that changed since.                   *)
SendConflict(s) ==
  /\ At(s, "send")
  /\ wire[task[s].job] # NoText
  /\ Stop(s, "keepAi", "FAILED", FALSE)
  /\ UNCHANGED <<job, quotaVars, wireVars, ownerVars, boundVars>>

(* NOT_READY, LOGGED_OUT, NOT_STARTED, a 409, or no message id: this call  *)
(* delivered nothing.                                                      *)
SendRefused(s) ==
  /\ At(s, "send")
  /\ \E alert \in BOOLEAN : Stop(s, "releaseWa", "FAILED", alert)
  /\ UNCHANGED <<job, quotaVars, wireVars, ownerVars, boundVars>>

LateDelivery(j) ==
  /\ wire[j] = NoText
  /\ \E t \in late[j] : Delivers(j, t)
  /\ UNCHANGED <<job, task, quotaVars, late, recorded, acked, ownerVars, boundVars>>

----------------------------------------------------------------------------
(* After the call: commitments are kept or given back, the job is closed.  *)

(* keepQuotasUncertain, two transactions; no release follows.              *)
KeepAi(s) ==
  LET j == task[s].job IN
  /\ At(s, "keepAi")
  /\ aiResv' = [aiResv EXCEPT ![j] = IF task[s].ai = "none" THEN @ ELSE Ai!AfterUncertain(@)]
  /\ Goto(s, "keepWa")
  /\ UNCHANGED <<job, waResv, wireVars, ownerVars, boundVars>>

KeepWa(s) ==
  LET j == task[s].job IN
  /\ At(s, "keepWa")
  /\ waResv' = [waResv EXCEPT ![j] = IF task[s].wa = "none" THEN @ ELSE Wa!AfterUncertain(@)]
  /\ Goto(s, IF task[s].fin = "UNKNOWN" THEN "ambiguous" ELSE "finish")
  /\ UNCHANGED <<job, aiResv, wireVars, ownerVars, boundVars>>

(* recordAmbiguousOutbound below the limit: the count grows and the lease  *)
(* is relinquished, to run out after a short delay.                        *)
DeferUnknown(s) ==
  LET j == task[s].job IN
  /\ At(s, "ambiguous") /\ Owns(s)
  /\ job[j].unknown + 1 < MaxUnknown
  /\ job' = [job EXCEPT ![j].unknown = @ + 1, ![j].token = NoToken]
  /\ task' = [task EXCEPT ![s] = Idle]
  /\ UNCHANGED <<quotaVars, wireVars, ownerVars, boundVars>>

(* At the limit: the job fails and the conversation is paused for safety,  *)
(* in the same transaction.                                                *)
GiveUpUnknown(s) ==
  LET j == task[s].job IN
  /\ At(s, "ambiguous") /\ Owns(s)
  /\ job[j].unknown + 1 >= MaxUnknown
  /\ job' = [job EXCEPT ![j] = [Closed(j, "FAILED") EXCEPT !.unknown = @ + 1]]
  /\ task' = [task EXCEPT ![s] = Idle]
  /\ Pause(ConvOf[j], "SAFETY_PAUSED")
  /\ UNCHANGED <<quotaVars, wireVars, enabled, escalated, preEnable, boundVars>>

(* releaseWaQuota and releaseAiQuota: only what this task reserved itself. *)
(* Neither statement is fenced by the lease.                               *)
ReleaseWa(s) ==
  LET j == task[s].job IN
  /\ At(s, "releaseWa")
  /\ waResv' = [waResv EXCEPT ![j] = IF task[s].wa = "fresh" THEN Wa!AfterRelease(@) ELSE @]
  /\ Goto(s, "releaseAi")
  /\ UNCHANGED <<job, aiResv, wireVars, ownerVars, boundVars>>

ReleaseAi(s) ==
  LET j == task[s].job IN
  /\ At(s, "releaseAi")
  /\ aiResv' = [aiResv EXCEPT ![j] = IF task[s].ai = "fresh" THEN Ai!AfterRelease(@) ELSE @]
  /\ Goto(s, "finish")
  /\ UNCHANGED <<job, waResv, wireVars, ownerVars, boundVars>>

(* finishTerminal: the fenced completeJob, then an escalation if the       *)
(* reason asks for one.                                                    *)
Finish(s) ==
  LET j == task[s].job IN
  /\ At(s, "finish") /\ Owns(s)
  /\ job' = [job EXCEPT ![j] = Closed(j, task[s].fin)]
  /\ task' = [task EXCEPT ![s] = IF task[s].alert THEN [Idle EXCEPT !.pc = "escalate", !.job = j]
                                                  ELSE Idle]
  /\ UNCHANGED <<quotaVars, wireVars, ownerVars, boundVars>>

(* createEscalation with pauseAi: nothing happens on a conversation that   *)
(* has an unresolved one.                                                  *)
Escalate(s) ==
  LET c == ConvOf[task[s].job] IN
  /\ At(s, "escalate")
  /\ task' = [task EXCEPT ![s] = Idle]
  /\ IF c \in escalated
       THEN UNCHANGED <<mode, escalated, preResume>>
       ELSE escalated' = escalated \cup {c} /\ Pause(c, "HUMAN_PAUSED")
  /\ UNCHANGED <<job, quotaVars, wireVars, enabled, preEnable, boundVars>>

(* The SENT transaction: ownership, message row, completion and both       *)
(* consumptions commit together.                                           *)
FinalizeSent(s) ==
  LET j == task[s].job IN
  /\ At(s, "finalize") /\ Owns(s)
  /\ Ai!Consumable(aiResv[j]) /\ Wa!Consumable(waResv[j])
  /\ job' = [job EXCEPT ![j] = Closed(j, "SENT")]
  /\ recorded' = recorded \cup {j}
  /\ aiResv' = [aiResv EXCEPT ![j] = "CONSUMED"]
  /\ waResv' = [waResv EXCEPT ![j] = "CONSUMED"]
  /\ task' = [task EXCEPT ![s] = Idle]
  /\ UNCHANGED <<wire, late, acked, ownerVars, boundVars>>

(* A released reservation cannot be consumed: the transaction rolls back,  *)
(* the error leaves the task, and the row waits for its lease to run out.  *)
FinalizeThrows(s) ==
  LET j == task[s].job IN
  /\ At(s, "finalize") /\ Owns(s)
  /\ ~(Ai!Consumable(aiResv[j]) /\ Wa!Consumable(waResv[j]))
  /\ Leave(s)
  /\ UNCHANGED <<quotaVars, wireVars, ownerVars, boundVars>>

----------------------------------------------------------------------------
(* People: the owner's settings page, the inbox, the owner's own phone.    *)

Intervene == moves < MaxMoves /\ moves' = moves + 1

(* A person's own message is observed: pause, and pending jobs are         *)
(* skipped unless the conversation is paused for safety.                   *)
HumanTakeover(c) ==
  /\ Intervene
  /\ Pause(c, "HUMAN_PAUSED")
  /\ job' = IF mode'[c] = "HUMAN_PAUSED"
              THEN [j \in Jobs |-> IF j \in WithStatus(c, "PENDING")
                                     THEN Closed(j, "SKIPPED") ELSE job[j]]
              ELSE job
  /\ UNCHANGED <<task, quotaVars, wireVars, enabled, escalated, preEnable, stalls, aborts>>

(* pauseInboxConversationAi leaves pending jobs to the send gate.          *)
ManualPause(c) ==
  /\ Intervene
  /\ Pause(c, "HUMAN_PAUSED")
  /\ UNCHANGED <<job, task, quotaVars, wireVars, enabled, escalated, preEnable, stalls, aborts>>

Resumed(c) ==
  /\ mode' = [mode EXCEPT ![c] = "AUTO"]
  /\ preResume' = preResume \cup (Existing \cap JobsOf(c))

(* resumeInboxConversationAiWithCatchUp without a customer tail to answer. *)
Resume(c) ==
  /\ Intervene
  /\ mode[c] # "AUTO"
  /\ Resumed(c)
  /\ UNCHANGED <<job, task, quotaVars, wireVars, enabled, escalated, preEnable, stalls, aborts>>

(* With one: stale pending jobs are retired and a fresh job answers it,    *)
(* unless a reply may be on the wire.                                      *)
ResumeCatchUp(c, j) ==
  /\ Intervene
  /\ mode[c] = "HUMAN_PAUSED" /\ enabled
  /\ j \in JobsOf(c) /\ job[j].status = "NONE"
  /\ WithStatus(c, "PROCESSING") = {}
  /\ Resumed(c)
  /\ job' = [i \in Jobs |-> IF i = j THEN [job[i] EXCEPT !.status = "PENDING"]
                            ELSE IF i \in WithStatus(c, "PENDING")
                              THEN [job[i] EXCEPT !.status = "SKIPPED"] ELSE job[i]]
  /\ UNCHANGED <<task, quotaVars, wireVars, enabled, escalated, preEnable, stalls, aborts>>

(* updateEscalationStatus to RESOLVED: the AI mode stays as it is.         *)
ResolveEscalation(c) ==
  /\ Intervene
  /\ c \in escalated
  /\ escalated' = escalated \ {c}
  /\ UNCHANGED <<job, task, quotaVars, wireVars, enabled, mode, preEnable, preResume,
                 stalls, aborts>>

(* upsertChannelAiSetting: switching on sets the activation watermark.     *)
SwitchAutoReply ==
  /\ Intervene
  /\ enabled' = ~enabled
  /\ preEnable' = IF enabled THEN preEnable ELSE Existing
  /\ UNCHANGED <<job, task, quotaVars, wireVars, mode, escalated, preResume, stalls, aborts>>

----------------------------------------------------------------------------
Init ==
  /\ job = [j \in Jobs |-> NoRow]
  /\ task = [s \in Slots |-> Idle]
  /\ Ai!Init /\ Wa!Init
  /\ wire = [j \in Jobs |-> NoText]
  /\ late = [j \in Jobs |-> {}]
  /\ recorded = {} /\ acked = {}
  /\ enabled = TRUE
  /\ mode = [c \in Conversations |-> "AUTO"]
  /\ escalated = {} /\ preEnable = {} /\ preResume = {}
  /\ stalls = 0 /\ aborts = 0 /\ moves = 0

(* What the event loop does for a task without outside help.               *)
TaskStep(s) ==
  \/ LeaseLost(s)
  \/ CheckSettings(s) \/ ReserveAi(s) \/ AiQuotaDenied(s)
  \/ BeginGeneration(s) \/ Generated(s) \/ GenerationFailed(s) \/ PersistReply(s)
  \/ GateSetting(s) \/ GateConversation(s) \/ FinalCheck(s)
  \/ ReserveWa(s) \/ WaQuotaDenied(s)
  \/ SendAcked(s) \/ SendUnknown(s) \/ SendConflict(s) \/ SendRefused(s)
  \/ KeepAi(s) \/ KeepWa(s) \/ DeferUnknown(s) \/ GiveUpUnknown(s)
  \/ ReleaseWa(s) \/ ReleaseAi(s) \/ Finish(s) \/ Escalate(s)
  \/ FinalizeSent(s) \/ FinalizeThrows(s)

People(c) ==
  \/ HumanTakeover(c) \/ ManualPause(c) \/ Resume(c) \/ ResolveEscalation(c)
  \/ \E j \in Jobs : ResumeCatchUp(c, j)

Next ==
  \/ \E j \in Jobs : Schedule(j) \/ LeaseExpires(j) \/ LateDelivery(j)
  \/ \E s \in Slots, j \in Jobs : Claim(s, j)
  \/ \E s \in Slots : TaskStep(s) \/ Abort(s)
  \/ \E c \in Conversations : People(c)
  \/ SwitchAutoReply

Spec == Init /\ [][Next]_vars

(* The worker's poll loop claims whatever is claimable, tasks run to their *)
(* end, and time passes over leases nobody extends.                        *)
Fairness ==
  /\ \A s \in Slots : WF_vars(TaskStep(s))
  /\ \A j \in Jobs : WF_vars(\E s \in Slots : Claim(s, j))
  /\ \A j \in Jobs : WF_vars(job[j].token \notin Slots /\ LeaseExpires(j))

FairSpec == Spec /\ Fairness

----------------------------------------------------------------------------
(* Properties.                                                             *)

(* The variables have their types.                                         *)
TypeOK ==
  /\ job \in [Jobs -> Row]
  /\ task \in [Slots -> Local]
  /\ aiResv \in [Jobs -> Ai!ReservationStates]
  /\ waResv \in [Jobs -> Wa!ReservationStates]
  /\ wire \in [Jobs -> Texts \cup {NoText}]
  /\ late \in [Jobs -> SUBSET Texts]
  /\ recorded \subseteq Jobs /\ acked \subseteq Jobs
  /\ enabled \in BOOLEAN
  /\ mode \in [Conversations -> Modes]
  /\ escalated \subseteq Conversations
  /\ preEnable \subseteq Jobs /\ preResume \subseteq Jobs
  /\ stalls \in Nat /\ aborts \in Nat /\ moves \in Nat

(* Whatever tasks of a job lost their lease, died or were retried, the     *)
(* customer receives no other text than the one durable in the job's row   *)
(* (persistGeneratedReply and the claim's snapshot), and no request still  *)
(* under way carries another one.                                          *)
WireIsDurableText ==
  \A j \in Jobs : {wire[j]} \cup late[j] \subseteq {NoText, job[j].text}

(* SENT, the message row and both consumed reservations stand or fall      *)
(* together, and behind them is a delivered text: nothing of the final     *)
(* transaction is left behind by a task that lost its lease.               *)
SentIsBacked ==
  \A j \in Jobs :
    /\ job[j].status = "SENT" <=> j \in recorded
    /\ job[j].status = "SENT" <=> aiResv[j] = "CONSUMED"
    /\ job[j].status = "SENT" <=> waResv[j] = "CONSUMED"
    /\ job[j].status = "SENT" => wire[j] # NoText

(* A conversation has at most one job waiting and one being processed, so  *)
(* two tasks never answer one conversation as owners.                      *)
OneJobAtATime ==
  \A c \in Conversations, st \in {"PENDING", "PROCESSING"} :
    \A i, j \in WithStatus(c, st) : i = j

(* A closed job never changes again: neither a stale task nor a takeover   *)
(* reopens or rewrites it.                                                 *)
ClosedIsFinal ==
  [][\A j \in Jobs : job[j].status \in Terminal => job'[j] = job[j]]_vars

(* The third ambiguous outcome closes the job as FAILED and pauses the     *)
(* conversation for safety in the same step; no later attempt is made.     *)
UnknownIsBounded ==
  [][\A j \in Jobs :
       job'[j].unknown # job[j].unknown =>
         /\ job'[j].unknown = job[j].unknown + 1
         /\ job'[j].unknown = MaxUnknown =>
              job'[j].status = "FAILED" /\ mode'[ConvOf[j]] = "SAFETY_PAUSED"
         /\ job'[j].unknown < MaxUnknown => job'[j].status = "PROCESSING"]_vars

(* A safety pause is lifted only by a person resuming the conversation,    *)
(* never weakened to a human pause by a takeover or an escalation.         *)
SafetyPauseHolds ==
  [][\A c \in Conversations :
       mode[c] = "SAFETY_PAUSED" /\ mode'[c] # "SAFETY_PAUSED" =>
         mode'[c] = "AUTO" /\ moves' = moves + 1]_vars

(* The pipeline implements ReplyDelivery: one text per job, delivered at   *)
(* most once, and the job closed once, as answered only after delivery.    *)
Delivery == INSTANCE ReplyDelivery WITH
  chosen <- [j \in Jobs |-> job[j].text],
  delivered <- wire,
  outcome <- [j \in Jobs |-> CASE job[j].status = "SENT" -> "answered"
                              [] job[j].status \in {"SKIPPED", "FAILED"} -> "closed"
                              [] OTHER -> "open"]
ImplementsDelivery == Delivery!Spec

(* A scheduled reply is not left behind: whatever bounded number of tasks  *)
(* stall or die, its job is eventually closed.                             *)
EveryJobSettles ==
  \A j \in Jobs : job[j].status = "PENDING" ~> job[j].status \in Terminal

(* The recovery runbook's claim for a task that loses its lease after the  *)
(* acknowledged send: the new owner retries the same key and the message   *)
(* and its usage land once.                                                *)
AcknowledgedLands ==
  \A j \in acked : job[j].status \in Terminal => job[j].status = "SENT"

(* A text the customer has, or may still get, and both units of quota that *)
(* pay for it committed.                                                   *)
Requested(j) == wire[j] # NoText \/ late[j] # {}
Metered(j) == aiResv[j] \in Ai!Committed /\ waResv[j] \in Wa!Committed

(* As long as no lease ran out under a running task, nothing is delivered  *)
(* for free: whatever attempts of a job crashed after the send, timed out  *)
(* or were refused on a retry, the commitments an earlier attempt made for *)
(* a request that reached the runtime are not given back by a later one    *)
(* (aiReleaseEligible and waReleaseEligible, orchestrator.ts 296-324).     *)
DeliveryIsMetered == stalls = 0 => \A j \in Jobs : Requested(j) => Metered(j)

(* A stale worker contributes nothing to usage: the quota commitments of   *)
(* an acknowledged delivery stay committed until they are consumed.        *)
AcknowledgedIsMetered == \A j \in acked : Metered(j)

----------------------------------------------------------------------------
(* The inductive invariant, in the terms of the lease protocol.            *)

(* A lease exists only while the job is processed, an open job has an      *)
(* ambiguous outcome to spare, and a token in a row is that of a slot      *)
(* still working on this job.                                              *)
LeaseDiscipline ==
  /\ \A j \in Jobs : job[j].status # "PROCESSING" =>
                       job[j].token = NoToken /\ job[j].lease = "none"
  /\ \A j \in Jobs : job[j].status \notin Terminal => job[j].unknown < MaxUnknown
  /\ \A s \in Slots : task[s].pc # "idle" => task[s].job \in Jobs
  /\ \A s \in Slots, j \in Jobs :
       job[j].token = s => task[s].pc \notin {"idle", "escalate"} /\ task[s].job = j

(* A task that works from the claim's snapshot knows the row's text as     *)
(* long as it holds the token; one that generates found the row without.   *)
SnapshotIsCurrent ==
  \A s \in Slots :
    LET j == task[s].job IN
    /\ task[s].pc \in {"settings", "reserveAi"} =>
         /\ task[s].text \in {NoText, job[j].text}
         /\ job[j].token = s => task[s].text = job[j].text
    /\ task[s].pc \in {"generate", "generating", "persist"} /\ job[j].token = s =>
         job[j].text = NoText
    /\ task[s].pc = "persist" => task[s].text \in Texts

(* From the send gate on, a task carries the durable text; after the       *)
(* acknowledgement, that text has been delivered.                          *)
TextIsDurable ==
  \A s \in Slots :
    LET j == task[s].job IN
    /\ task[s].pc \in WithText => task[s].text = job[j].text /\ job[j].text # NoText
    /\ task[s].pc = "finalize" => wire[j] # NoText

(* A task on its way to close the job knows as what.                       *)
ClosingIsDecided ==
  \A s \in Slots : task[s].pc \in {"releaseWa", "releaseAi", "finish"} =>
                    task[s].fin # "UNKNOWN"

(* While no lease ran out under a task, a task at work owns its job; it    *)
(* holds the AI commitment from the reservation to the send, and the       *)
(* outbound one at the send; and a commitment it may give back pays for    *)
(* nothing yet.                                                            *)
ToSend == {"generate", "generating", "persist", "gateSetting", "gateConv", "preSend",
           "reserveWa", "send"}
MayRelease == {"settings", "reserveAi", "releaseWa", "releaseAi"} \cup ToSend

NoOutlivedLease ==
  stalls = 0 => \A s \in Slots : task[s].pc \notin {"idle", "escalate"} => Owns(s)

CommitmentsKept ==
  stalls = 0 => \A s \in Slots :
    LET j == task[s].job IN
    /\ task[s].pc \in ToSend => aiResv[j] \in Ai!Committed
    /\ task[s].pc = "send" => waResv[j] \in Wa!Committed
    /\ task[s].pc \in MayRelease /\ "fresh" \in {task[s].ai, task[s].wa} => ~Requested(j)

MeterInv == NoOutlivedLease /\ CommitmentsKept /\ DeliveryIsMetered

IInv == /\ TypeOK /\ LeaseDiscipline /\ ClosingIsDecided
        /\ SnapshotIsCurrent /\ TextIsDurable /\ WireIsDurableText /\ SentIsBacked /\ OneJobAtATime
============================================================================
