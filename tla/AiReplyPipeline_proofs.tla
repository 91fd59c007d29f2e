----------------------- MODULE AiReplyPipeline_proofs -----------------------
(***************************************************************************)
(* Proofs about AiReplyPipeline, for every number of jobs, conversations,  *)
(* task slots and texts and every bound.  The inductive invariant IInv of  *)
(* that module is proved conjunct by conjunct, with one step per action;   *)
(* the properties follow.                                                  *)
(***************************************************************************)
EXTENDS AiReplyPipeline, TLAPS

----------------------------------------------------------------------------
(* Types of the record updates the actions make.                           *)

(* A free slot is a record of local variables.                             *)
LEMMA IdleType == Idle \in Local
  BY DEF Local, Idle, Grips, ProgramPoints

(* A row whose claim is cleared is a row.                                  *)
LEMMA ClosedType ==
  ASSUME NEW j \in Jobs, job[j] \in Row, NEW st \in Statuses
  PROVE  Closed(j, st) \in Row
  BY DEF Closed, Row

(* Assigning one of the other local variables on the way keeps the type.   *)
LEMMA UpdateType ==
  ASSUME NEW r \in Local, NEW l \in ProgramPoints
  PROVE  /\ \A t \in Texts : [r EXCEPT !.pc = l, !.text = t] \in Local
         /\ \A g \in Grips : [r EXCEPT !.pc = l, !.ai = g] \in Local
         /\ \A g \in Grips : [r EXCEPT !.pc = l, !.wa = g] \in Local
  BY DEF Local

(* Moving a task to a program point keeps its type.                        *)
LEMMA GotoType ==
  ASSUME TypeOK, NEW s \in Slots, NEW l \in ProgramPoints, Goto(s, l)
  PROVE  task' \in [Slots -> Local]
<1>1. [task[s] EXCEPT !.pc = l] \in Local
  BY DEF TypeOK, Local
<1>2. QED  BY <1>1 DEF TypeOK, Goto

(* So does deciding how its job will be closed.                            *)
LEMMA StopType ==
  ASSUME TypeOK, NEW s \in Slots, NEW l \in ProgramPoints,
         NEW st \in {"SKIPPED", "FAILED", "UNKNOWN"}, NEW alert \in BOOLEAN,
         Stop(s, l, st, alert)
  PROVE  task' \in [Slots -> Local]
<1>1. [task[s] EXCEPT !.pc = l, !.fin = st, !.alert = alert] \in Local
  BY DEF TypeOK, Local
<1>2. QED  BY <1>1 DEF TypeOK, Stop

(* A slot left by its task is free, and its token is orphaned in the rows. *)
LEMMA LeaveType ==
  ASSUME TypeOK, NEW s \in Slots, Leave(s)
  PROVE  job' \in [Jobs -> Row] /\ task' \in [Slots -> Local]
<1>1. \A j \in Jobs : [job[j] EXCEPT !.token = Orphan] \in Row
  BY DEF TypeOK, Row
<1>2. QED  BY <1>1, IdleType DEF TypeOK, Leave

(* A pause leaves a mode in every conversation and the watermark a set of  *)
(* jobs.                                                                   *)
LEMMA PauseType ==
  ASSUME TypeOK, NEW c \in Conversations, NEW m \in Modes, Pause(c, m)
  PROVE  mode' \in [Conversations -> Modes] /\ preResume' \subseteq Jobs
  BY DEF TypeOK, Pause

(* The ledger's answers are states of a reservation.                       *)
LEMMA ReservationType ==
  ASSUME NEW st \in Ai!ReservationStates
  PROVE  /\ Ai!AfterReserve(st) \in Ai!ReservationStates
         /\ Ai!AfterRelease(st) \in Ai!ReservationStates
         /\ Ai!AfterUncertain(st) \in Ai!ReservationStates
         /\ Wa!AfterReserve(st) \in Ai!ReservationStates
         /\ Wa!AfterRelease(st) \in Ai!ReservationStates
         /\ Wa!AfterUncertain(st) \in Ai!ReservationStates
         /\ "CONSUMED" \in Ai!ReservationStates
         /\ Wa!ReservationStates = Ai!ReservationStates
         /\ GripOn(st) \in Grips
  BY DEF Ai!AfterReserve, Ai!AfterRelease, Ai!AfterUncertain, Ai!ReservationStates,
         Wa!AfterReserve, Wa!AfterRelease, Wa!AfterUncertain, Wa!ReservationStates,
         GripOn, Grips

----------------------------------------------------------------------------
(* The steps of a task, by what they touch: only the task's own variables, *)
(* a reservation, the wire, or the row that it gives up.                   *)
LocalStep(s) ==
  \/ CheckSettings(s) \/ AiQuotaDenied(s) \/ BeginGeneration(s) \/ Generated(s)
  \/ GenerationFailed(s) \/ GateSetting(s) \/ GateConversation(s) \/ FinalCheck(s)
  \/ WaQuotaDenied(s) \/ SendConflict(s) \/ SendRefused(s)
QuotaStep(s) ==
  \/ ReserveAi(s) \/ ReserveWa(s) \/ KeepAi(s) \/ KeepWa(s) \/ ReleaseWa(s) \/ ReleaseAi(s)
SendStep(s) == SendAcked(s) \/ SendUnknown(s)
LeaveStep(s) == LeaseLost(s) \/ Abort(s) \/ FinalizeThrows(s)

----------------------------------------------------------------------------
(* The type invariant, action by action.                                   *)

(* The steps of a task that leave the rows alone: their type is the type   *)
(* of the task's new record.                                               *)
LEMMA LocalStepType ==
  ASSUME TypeOK, NEW s \in Slots, LocalStep(s)
  PROVE  TypeOK'
<1> USE DEF ProgramPoints, BeforeText, WithText, Anywhere
<1>1. task' \in [Slots -> Local]
  <2>1. CASE CheckSettings(s)     BY <2>1, GotoType, StopType DEF CheckSettings
  <2>2. CASE AiQuotaDenied(s)     BY <2>2, StopType DEF AiQuotaDenied
  <2>3. CASE BeginGeneration(s)   BY <2>3, GotoType DEF BeginGeneration
  <2>4. CASE Generated(s)
    <3>1. PICK t \in Texts : task' = [task EXCEPT ![s].pc = "persist", ![s].text = t]
      BY <2>4 DEF Generated
    <3>2. [task[s] EXCEPT !.pc = "persist", !.text = t] \in Local
      BY UpdateType DEF TypeOK
    <3>3. QED  BY <3>1, <3>2 DEF TypeOK
  <2>5. CASE GenerationFailed(s)  BY <2>5, StopType DEF GenerationFailed
  <2>6. CASE GateSetting(s)       BY <2>6, GotoType, StopType DEF GateSetting
  <2>7. CASE GateConversation(s)  BY <2>7, GotoType, StopType DEF GateConversation
  <2>8. CASE FinalCheck(s)        BY <2>8, GotoType DEF FinalCheck
  <2>9. CASE WaQuotaDenied(s)     BY <2>9, StopType DEF WaQuotaDenied
  <2>10. CASE SendConflict(s)     BY <2>10, StopType DEF SendConflict
  <2>11. CASE SendRefused(s)      BY <2>11, StopType DEF SendRefused
  <2>12. QED  BY <2>1, <2>2, <2>3, <2>4, <2>5, <2>6, <2>7, <2>8, <2>9, <2>10, <2>11
         DEF LocalStep
<1>2. UNCHANGED <<job, quotaVars, wireVars, ownerVars, boundVars>>
  BY DEF LocalStep, CheckSettings, AiQuotaDenied, BeginGeneration, Generated, GenerationFailed,
         GateSetting, GateConversation, FinalCheck, WaQuotaDenied, SendConflict, SendRefused
<1>3. QED  BY <1>1, <1>2 DEF TypeOK, quotaVars, wireVars, ownerVars, boundVars

(* The steps that change a reservation.                                    *)
LEMMA QuotaStepType ==
  ASSUME TypeOK, LeaseDiscipline, NEW s \in Slots, QuotaStep(s)
  PROVE  TypeOK'
<1> USE DEF ProgramPoints, BeforeText, WithText, Anywhere
<1> DEFINE j == task[s].job
<1>1. j \in Jobs
  BY DEF LeaseDiscipline, QuotaStep, ReserveAi, ReserveWa, KeepAi, KeepWa, ReleaseWa,
         ReleaseAi, At
<1>2. aiResv[j] \in Ai!ReservationStates /\ waResv[j] \in Ai!ReservationStates
  BY <1>1, ReservationType DEF TypeOK
<1>3. task' \in [Slots -> Local]
  <2>1. CASE ReserveAi(s)
    <3>1. [task[s] EXCEPT !.pc = AfterAiQuota(s), !.ai = GripOn(aiResv[j])] \in Local
      BY <1>2, UpdateType, ReservationType DEF TypeOK, AfterAiQuota
    <3>2. QED  BY <2>1, <3>1 DEF TypeOK, ReserveAi
  <2>2. CASE ReserveWa(s)
    <3>1. [task[s] EXCEPT !.pc = "send", !.wa = GripOn(waResv[j])] \in Local
      BY <1>2, UpdateType, ReservationType DEF TypeOK
    <3>2. QED  BY <2>2, <3>1 DEF TypeOK, ReserveWa
  <2>3. CASE KeepAi(s)     BY <2>3, GotoType DEF KeepAi
  <2>4. CASE KeepWa(s)
    <3>1. (IF task[s].fin = "UNKNOWN" THEN "ambiguous" ELSE "finish") \in ProgramPoints
      OBVIOUS
    <3>2. QED  BY <2>4, <3>1, GotoType DEF KeepWa
  <2>5. CASE ReleaseWa(s)  BY <2>5, GotoType DEF ReleaseWa
  <2>6. CASE ReleaseAi(s)  BY <2>6, GotoType DEF ReleaseAi
  <2>7. QED  BY <2>1, <2>2, <2>3, <2>4, <2>5, <2>6 DEF QuotaStep
<1>4. aiResv' \in [Jobs -> Ai!ReservationStates] /\ waResv' \in [Jobs -> Wa!ReservationStates]
  <2>1. CASE ReserveAi(s)  BY <1>1, <1>2, <2>1, ReservationType DEF TypeOK, ReserveAi
  <2>2. CASE ReserveWa(s)  BY <1>1, <1>2, <2>2, ReservationType DEF TypeOK, ReserveWa
  <2>3. CASE KeepAi(s)     BY <1>1, <1>2, <2>3, ReservationType DEF TypeOK, KeepAi
  <2>4. CASE KeepWa(s)     BY <1>1, <1>2, <2>4, ReservationType DEF TypeOK, KeepWa
  <2>5. CASE ReleaseWa(s)  BY <1>1, <1>2, <2>5, ReservationType DEF TypeOK, ReleaseWa
  <2>6. CASE ReleaseAi(s)  BY <1>1, <1>2, <2>6, ReservationType DEF TypeOK, ReleaseAi
  <2>7. QED  BY <2>1, <2>2, <2>3, <2>4, <2>5, <2>6 DEF QuotaStep
<1>5. UNCHANGED <<job, wireVars, ownerVars, boundVars>>
  BY DEF QuotaStep, ReserveAi, ReserveWa, KeepAi, KeepWa, ReleaseWa, ReleaseAi
<1>6. QED  BY <1>3, <1>4, <1>5 DEF TypeOK, wireVars, ownerVars, boundVars

(* The runtime call and the late execution of a request.                   *)
LEMMA SendStepType ==
  ASSUME TypeOK, LeaseDiscipline, TextIsDurable, NEW s \in Slots, SendStep(s)
  PROVE  TypeOK'
<1> USE DEF ProgramPoints, BeforeText, WithText, Anywhere
<1> DEFINE j == task[s].job
<1>1. j \in Jobs /\ task[s].text \in Texts
  BY DEF TypeOK, LeaseDiscipline, TextIsDurable, SendStep, SendAcked, SendUnknown, At, Row
<1>2. CASE SendAcked(s)
  <2>1. task' \in [Slots -> Local]  BY <1>2, GotoType DEF SendAcked
  <2>2. wire' \in [Jobs -> Texts \cup {NoText}] /\ acked' \subseteq Jobs
    BY <1>1, <1>2 DEF TypeOK, SendAcked, Delivers
  <2>3. QED  BY <1>2, <2>1, <2>2 DEF TypeOK, SendAcked, quotaVars, ownerVars, boundVars
<1>3. CASE SendUnknown(s)
  <2>1. task' \in [Slots -> Local]  BY <1>3, StopType DEF SendUnknown
  <2>2. wire' \in [Jobs -> Texts \cup {NoText}] /\ late' \in [Jobs -> SUBSET Texts]
    BY <1>1, <1>3 DEF TypeOK, SendUnknown, Delivers
  <2>3. QED  BY <1>3, <2>1, <2>2 DEF TypeOK, SendUnknown, quotaVars, ownerVars, boundVars
<1>4. QED  BY <1>2, <1>3 DEF SendStep

(* A task that leaves its slot.                                            *)
LEMMA LeaveStepType ==
  ASSUME TypeOK, NEW s \in Slots, LeaveStep(s)
  PROVE  TypeOK'
<1>1. Leave(s)
  BY DEF LeaveStep, LeaseLost, Abort, FinalizeThrows
<1>2. UNCHANGED <<quotaVars, wireVars, ownerVars, stalls, moves>> /\ aborts' \in Nat
  BY DEF LeaveStep, LeaseLost, Abort, FinalizeThrows, TypeOK, boundVars
<1>3. QED  BY <1>1, <1>2, LeaveType DEF TypeOK, quotaVars, wireVars, ownerVars

(* A task that writes its row: each fenced write, and the escalation that  *)
(* follows the close.                                                      *)
LEMMA RowStepType ==
  ASSUME TypeOK, LeaseDiscipline, ClosingIsDecided, NEW s \in Slots,
         \/ PersistReply(s) \/ DeferUnknown(s) \/ GiveUpUnknown(s) \/ Finish(s)
         \/ Escalate(s) \/ FinalizeSent(s)
  PROVE  TypeOK'
<1> DEFINE j == task[s].job
<1>1. j \in Jobs /\ job[j] \in Row /\ ConvOf[j] \in Conversations
  BY ConstantsAssumption
  DEF TypeOK, LeaseDiscipline, PersistReply, DeferUnknown, GiveUpUnknown, Finish,
      Escalate, FinalizeSent, At
<1>2. [task EXCEPT ![s] = Idle] \in [Slots -> Local]
  BY IdleType DEF TypeOK
<1>3. CASE PersistReply(s)
  <2>1. "gateSetting" \in ProgramPoints  BY DEF ProgramPoints, WithText
  <2>2. [job[j] EXCEPT !.text = IF job[j].text = NoText THEN task[s].text ELSE job[j].text]
          \in Row
    BY <1>1 DEF TypeOK, Row, Local
  <2>3. QED
    BY <1>3, <2>1, <2>2, GotoType
    DEF PersistReply, TypeOK, quotaVars, wireVars, ownerVars, boundVars
<1>4. CASE DeferUnknown(s)
  <2>1. job[j].unknown + 1 \in 0..MaxUnknown
    BY <1>1, <1>4, ConstantsAssumption DEF DeferUnknown, Row
  <2>2. [job[j] EXCEPT !.unknown = job[j].unknown + 1, !.token = NoToken] \in Row
    BY <1>1, <2>1 DEF Row
  <2>3. QED
    BY <1>2, <1>4, <2>2 DEF DeferUnknown, TypeOK, quotaVars, wireVars, ownerVars, boundVars
<1>5. CASE GiveUpUnknown(s)
  <2>1. job[j].unknown + 1 \in 0..MaxUnknown
    BY <1>1, <1>5, ConstantsAssumption
    DEF GiveUpUnknown, Owns, LeaseDiscipline, Terminal, Row
  <2>2. [Closed(j, "FAILED") EXCEPT !.unknown = @ + 1] \in Row
    BY <1>1, <2>1 DEF Closed, Row, Statuses, Terminal
  <2>3. mode' \in [Conversations -> Modes] /\ preResume' \subseteq Jobs
    BY <1>1, <1>5, PauseType DEF GiveUpUnknown, Modes
  <2>4. QED
    BY <1>2, <1>5, <2>2, <2>3 DEF GiveUpUnknown, TypeOK, quotaVars, wireVars, boundVars
<1>6. CASE Finish(s)
  <2>1. job' \in [Jobs -> Row]
    <3>1. task[s].fin \in {"SKIPPED", "FAILED"}
      BY <1>6 DEF Finish, At, ClosingIsDecided, TypeOK, Local
    <3>2. QED  BY <1>1, <1>6, <3>1, ClosedType DEF Finish, TypeOK, Statuses, Terminal
  <2>2. task' \in [Slots -> Local]
    <3>1. [Idle EXCEPT !.pc = "escalate", !.job = j] \in Local
      BY <1>1, IdleType DEF Local, ProgramPoints, Anywhere
    <3>2. QED  BY <1>2, <1>6, <3>1 DEF Finish, TypeOK
  <2>3. QED
    BY <1>6, <2>1, <2>2 DEF Finish, TypeOK, quotaVars, wireVars, ownerVars, boundVars
<1>7. CASE Escalate(s)
  <2>1. mode' \in [Conversations -> Modes] /\ preResume' \subseteq Jobs
    BY <1>1, <1>7, PauseType DEF Escalate, Modes, TypeOK
  <2>2. QED
    BY <1>1, <1>2, <1>7, <2>1 DEF Escalate, TypeOK, quotaVars, wireVars, boundVars
<1>8. CASE FinalizeSent(s)
  <2>1. Closed(j, "SENT") \in Row
    BY <1>1, ClosedType DEF Statuses, Terminal
  <2>2. aiResv' \in [Jobs -> Ai!ReservationStates] /\ waResv' \in [Jobs -> Wa!ReservationStates]
    BY <1>8, ReservationType DEF FinalizeSent, TypeOK, Ai!ReservationStates
  <2>3. QED
    BY <1>1, <1>2, <1>8, <2>1, <2>2 DEF FinalizeSent, TypeOK, ownerVars, boundVars
<1>9. QED  BY <1>3, <1>4, <1>5, <1>6, <1>7, <1>8

(* The steps that belong to no task: the webhook, the clock, the runtime,  *)
(* the poll loop and the people.                                           *)
OuterStep ==
  \/ \E j \in Jobs : Schedule(j) \/ LeaseExpires(j) \/ LateDelivery(j)
  \/ \E s \in Slots, j \in Jobs : Claim(s, j)
  \/ \E c \in Conversations : People(c)
  \/ SwitchAutoReply

LEMMA OuterStepType ==
  ASSUME TypeOK, OuterStep
  PROVE  TypeOK'
<1> USE DEF TypeOK, quotaVars, wireVars, ownerVars, boundVars
<1>1. ASSUME NEW j \in Jobs, Schedule(j) PROVE TypeOK'
  <2>1. [job[j] EXCEPT !.status = "PENDING"] \in Row
    BY DEF Row, Statuses
  <2>2. QED  BY <1>1, <2>1 DEF Schedule
<1>2. ASSUME NEW j \in Jobs, LeaseExpires(j) PROVE TypeOK'
  <2>1. [job[j] EXCEPT !.lease = "expired"] \in Row
    BY DEF Row
  <2>2. stalls' \in Nat
    BY <1>2, ConstantsAssumption DEF LeaseExpires
  <2>3. QED  BY <1>2, <2>1, <2>2 DEF LeaseExpires
<1>3. ASSUME NEW j \in Jobs, LateDelivery(j) PROVE TypeOK'
  BY <1>3 DEF LateDelivery, Delivers
<1>4. ASSUME NEW s \in Slots, NEW j \in Jobs, Claim(s, j) PROVE TypeOK'
  <2>1. [job[j] EXCEPT !.status = "PROCESSING", !.token = s, !.lease = "live"] \in Row
    BY DEF Row, Statuses
  <2>2. [Idle EXCEPT !.pc = "settings", !.job = j, !.text = job[j].text] \in Local
    BY IdleType DEF Local, Row, ProgramPoints, BeforeText
  <2>3. QED  BY <1>4, <2>1, <2>2 DEF Claim
<1>5. ASSUME NEW c \in Conversations, People(c) PROVE TypeOK'
  <2>1. \A j \in Jobs : Closed(j, "SKIPPED") \in Row
    BY ClosedType DEF Statuses, Terminal
  <2>2. \A j \in Jobs, st \in {"PENDING", "SKIPPED"} : [job[j] EXCEPT !.status = st] \in Row
    BY DEF Row, Statuses, Terminal
  <2>3. moves' \in Nat
    BY <1>5 DEF People, HumanTakeover, ManualPause, Resume, ResolveEscalation,
                ResumeCatchUp, Intervene
  <2>4. "HUMAN_PAUSED" \in Modes /\ "AUTO" \in Modes
    BY DEF Modes
  <2>5. CASE HumanTakeover(c)
    <3>1. job' \in [Jobs -> Row]  BY <2>1, <2>5 DEF HumanTakeover
    <3>2. QED  BY <2>3, <2>4, <2>5, <3>1, PauseType DEF HumanTakeover
  <2>6. CASE ManualPause(c)
    BY <2>3, <2>4, <2>6, PauseType DEF ManualPause
  <2>7. CASE Resume(c)
    BY <2>3, <2>4, <2>7 DEF Resume, Resumed, JobsOf
  <2>8. CASE ResolveEscalation(c)
    BY <2>3, <2>8 DEF ResolveEscalation
  <2>9. ASSUME NEW j \in Jobs, ResumeCatchUp(c, j) PROVE TypeOK'
    <3>1. job' \in [Jobs -> Row]  BY <2>2, <2>9 DEF ResumeCatchUp
    <3>2. mode' \in [Conversations -> Modes] /\ preResume' \subseteq Jobs
      BY <2>4, <2>9 DEF ResumeCatchUp, Resumed, JobsOf
    <3>3. QED  BY <2>3, <2>9, <3>1, <3>2 DEF ResumeCatchUp
  <2>10. QED  BY <1>5, <2>5, <2>6, <2>7, <2>8, <2>9 DEF People
<1>6. ASSUME SwitchAutoReply PROVE TypeOK'
  BY <1>6 DEF SwitchAutoReply, Intervene, Existing
<1>7. QED  BY <1>1, <1>2, <1>3, <1>4, <1>5, <1>6 DEF OuterStep

(* Every step is one of these.                                             *)
RowStep(s) ==
  \/ PersistReply(s) \/ DeferUnknown(s) \/ GiveUpUnknown(s) \/ Finish(s)
  \/ Escalate(s) \/ FinalizeSent(s)

LEMMA NextCases ==
  ASSUME Next
  PROVE  \/ OuterStep
         \/ \E s \in Slots : \/ LocalStep(s) \/ QuotaStep(s) \/ SendStep(s)
                             \/ LeaveStep(s) \/ RowStep(s)
  BY DEF Next, TaskStep, OuterStep, LocalStep, QuotaStep, SendStep, LeaveStep, RowStep

(* The type invariant is preserved, given the lease discipline and what    *)
(* the text carried to the send point is.                                  *)
LEMMA TypeStep ==
  ASSUME IInv, [Next]_vars
  PROVE  TypeOK'
<1>1. CASE Next
  BY <1>1, NextCases, OuterStepType, LocalStepType, QuotaStepType, SendStepType,
     LeaveStepType, RowStepType DEF IInv, RowStep
<1>2. CASE UNCHANGED vars
  BY <1>2 DEF IInv, TypeOK, vars
<1>3. QED  BY <1>1, <1>2

----------------------------------------------------------------------------
(* Leases and tokens.                                                      *)

(* A step that leaves the rows alone moves one task on, on the same job.   *)
LEMMA TaskMovesOn ==
  ASSUME TypeOK, NEW s \in Slots, LocalStep(s) \/ QuotaStep(s) \/ SendStep(s)
  PROVE  /\ UNCHANGED <<job, recorded, ownerVars>>
         /\ task[s].pc \notin {"idle", "escalate"}
         /\ task'[s].pc \notin {"idle", "escalate"} /\ task'[s].job = task[s].job
         /\ \A r \in Slots \ {s} : task'[r] = task[r]
<1> DEFINE Moves == /\ task'[s].pc \notin {"idle", "escalate"}
                    /\ task'[s].job = task[s].job
                    /\ \A r \in Slots \ {s} : task'[r] = task[r]
<1>1. UNCHANGED <<job, recorded, ownerVars>>
  BY DEF LocalStep, CheckSettings, AiQuotaDenied, BeginGeneration, Generated,
     GenerationFailed, GateSetting, GateConversation, FinalCheck, WaQuotaDenied,
     SendConflict, SendRefused, QuotaStep, ReserveAi, ReserveWa, KeepAi, KeepWa,
     ReleaseWa, ReleaseAi, SendStep, SendAcked, SendUnknown, wireVars
<1>2. task[s].pc \notin {"idle", "escalate"}
  BY DEF LocalStep, CheckSettings, AiQuotaDenied, BeginGeneration, Generated,
     GenerationFailed, GateSetting, GateConversation, FinalCheck, WaQuotaDenied,
     SendConflict, SendRefused, QuotaStep, ReserveAi, ReserveWa, KeepAi, KeepWa,
     ReleaseWa, ReleaseAi, SendStep, SendAcked, SendUnknown, At
<1>3. \A l \in ProgramPoints \ {"idle", "escalate"} : Goto(s, l) => Moves
  BY DEF TypeOK, Goto, Local
<1>4. \A l \in ProgramPoints \ {"idle", "escalate"}, st \in {"SKIPPED", "FAILED", "UNKNOWN"},
         alert \in BOOLEAN : Stop(s, l, st, alert) => Moves
  BY DEF TypeOK, Stop, Local
<1>5. ASSUME LocalStep(s) PROVE Moves
  <2> USE DEF ProgramPoints, BeforeText, WithText, Anywhere
  <2>1. CASE CheckSettings(s)     BY <2>1, <1>3, <1>4 DEF CheckSettings
  <2>2. CASE AiQuotaDenied(s)     BY <2>2, <1>4 DEF AiQuotaDenied
  <2>3. CASE BeginGeneration(s)   BY <2>3, <1>3 DEF BeginGeneration
  <2>4. CASE Generated(s)         BY <2>4 DEF Generated, TypeOK, Local
  <2>5. CASE GenerationFailed(s)  BY <2>5, <1>4 DEF GenerationFailed
  <2>6. CASE GateSetting(s)       BY <2>6, <1>3, <1>4 DEF GateSetting
  <2>7. CASE GateConversation(s)  BY <2>7, <1>3, <1>4 DEF GateConversation
  <2>8. CASE FinalCheck(s)        BY <2>8, <1>3 DEF FinalCheck
  <2>9. CASE WaQuotaDenied(s)     BY <2>9, <1>4 DEF WaQuotaDenied
  <2>10. CASE SendConflict(s)     BY <2>10, <1>4 DEF SendConflict
  <2>11. CASE SendRefused(s)      BY <2>11, <1>4 DEF SendRefused
  <2>12. QED
    BY <1>5, <2>1, <2>2, <2>3, <2>4, <2>5, <2>6, <2>7, <2>8, <2>9, <2>10, <2>11
    DEF LocalStep
<1>6. ASSUME QuotaStep(s) PROVE Moves
  <2> USE DEF ProgramPoints, WithText, Anywhere
  <2>1. CASE ReserveAi(s)  BY <2>1 DEF ReserveAi, AfterAiQuota, TypeOK, Local
  <2>2. CASE ReserveWa(s)  BY <2>2 DEF ReserveWa, TypeOK, Local
  <2>3. CASE KeepAi(s)     BY <2>3, <1>3 DEF KeepAi
  <2>4. CASE KeepWa(s)
    <3>1. (IF task[s].fin = "UNKNOWN" THEN "ambiguous" ELSE "finish")
            \in ProgramPoints \ {"idle", "escalate"}
      OBVIOUS
    <3>2. QED  BY <2>4, <3>1, <1>3 DEF KeepWa
  <2>5. CASE ReleaseWa(s)  BY <2>5, <1>3 DEF ReleaseWa
  <2>6. CASE ReleaseAi(s)  BY <2>6, <1>3 DEF ReleaseAi
  <2>7. QED  BY <1>6, <2>1, <2>2, <2>3, <2>4, <2>5, <2>6 DEF QuotaStep
<1>7. ASSUME SendStep(s) PROVE Moves
  <2> USE DEF ProgramPoints, WithText
  <2>1. CASE SendAcked(s)    BY <2>1, <1>3 DEF SendAcked
  <2>2. CASE SendUnknown(s)  BY <2>2, <1>4 DEF SendUnknown
  <2>3. QED  BY <1>7, <2>1, <2>2 DEF SendStep
<1>8. QED  BY <1>1, <1>2, <1>5, <1>6, <1>7

(* The lease discipline is preserved.                                      *)
LEMMA LeaseStep ==
  ASSUME IInv, [Next]_vars
  PROVE  LeaseDiscipline'
<1> USE ConstantsAssumption DEF IInv
<1>1. ASSUME NEW s \in Slots, LocalStep(s) \/ QuotaStep(s) \/ SendStep(s)
      PROVE  LeaseDiscipline'
  BY <1>1, TaskMovesOn DEF LeaseDiscipline
<1>2. ASSUME NEW s \in Slots, LeaveStep(s)
      PROVE  LeaseDiscipline'
  <2>1. Leave(s)  BY <1>2 DEF LeaveStep, LeaseLost, Abort, FinalizeThrows
  <2>2. QED  BY <2>1 DEF Leave, LeaseDiscipline, TypeOK, Row, Idle
<1>3. ASSUME NEW s \in Slots, RowStep(s)
      PROVE  LeaseDiscipline'
  <2> USE DEF LeaseDiscipline, TypeOK, At, Owns, Idle, Row, Terminal, Closed
  <2>1. CASE PersistReply(s)   BY <1>3, <2>1 DEF PersistReply, Goto
  <2>2. CASE DeferUnknown(s)   BY <1>3, <2>2 DEF DeferUnknown
  <2>3. CASE GiveUpUnknown(s)  BY <1>3, <2>3 DEF GiveUpUnknown
  <2>4. CASE Finish(s)         BY <1>3, <2>4 DEF Finish, ClosingIsDecided, Local
  <2>5. CASE Escalate(s)       BY <1>3, <2>5 DEF Escalate
  <2>6. CASE FinalizeSent(s)   BY <1>3, <2>6 DEF FinalizeSent
  <2>7. QED  BY <1>3, <2>1, <2>2, <2>3, <2>4, <2>5, <2>6 DEF RowStep
<1>4. ASSUME OuterStep
      PROVE  LeaseDiscipline'
  <2> USE DEF LeaseDiscipline, TypeOK, Row, Terminal
  <2>1. ASSUME NEW j \in Jobs, Schedule(j) PROVE LeaseDiscipline'
    BY <2>1 DEF Schedule
  <2>2. ASSUME NEW j \in Jobs, LeaseExpires(j) PROVE LeaseDiscipline'
    BY <2>2 DEF LeaseExpires
  <2>3. ASSUME NEW j \in Jobs, LateDelivery(j) PROVE LeaseDiscipline'
    BY <2>3 DEF LateDelivery
  <2>4. ASSUME NEW s \in Slots, NEW j \in Jobs, Claim(s, j) PROVE LeaseDiscipline'
    BY <2>4 DEF Claim, Claimable, Reclaimable, Idle
  <2>5. ASSUME NEW c \in Conversations, People(c) PROVE LeaseDiscipline'
    <3>1. CASE HumanTakeover(c)
      <4>1. \A j \in Jobs : \/ job'[j] = job[j]
                            \/ job'[j] = Closed(j, "SKIPPED")
        BY <3>1 DEF HumanTakeover
      <4>2. UNCHANGED task
        BY <3>1 DEF HumanTakeover
      <4>3. \A j \in Jobs : /\ Closed(j, "SKIPPED").token = NoToken
                            /\ Closed(j, "SKIPPED").lease = "none"
                            /\ Closed(j, "SKIPPED").status = "SKIPPED"
        BY DEF Closed
      <4>4. \A j \in Jobs : \/ job'[j] = job[j]
                            \/ /\ job'[j].token = NoToken
                               /\ job'[j].lease = "none"
                               /\ job'[j].status = "SKIPPED"
        BY <4>1, <4>3
      <4>5. QED
        <5> HIDE DEF TypeOK, Row
        <5>1. QED  BY <4>2, <4>4
    <3>2. CASE ManualPause(c) \/ Resume(c) \/ ResolveEscalation(c)
      BY <3>2 DEF ManualPause, Resume, ResolveEscalation
    <3>3. ASSUME NEW j \in Jobs, ResumeCatchUp(c, j) PROVE LeaseDiscipline'
      BY <3>3 DEF ResumeCatchUp, WithStatus, JobsOf
    <3>4. QED  BY <2>5, <3>1, <3>2, <3>3 DEF People
  <2>6. ASSUME SwitchAutoReply PROVE LeaseDiscipline'
    BY <2>6 DEF SwitchAutoReply
  <2>7. QED  BY <1>4, <2>1, <2>2, <2>3, <2>4, <2>5, <2>6 DEF OuterStep
<1>5. CASE UNCHANGED vars
  BY <1>5 DEF LeaseDiscipline, vars
<1>6. QED  BY <1>1, <1>2, <1>3, <1>4, <1>5, NextCases

----------------------------------------------------------------------------
(* What a task knows about its job.                                        *)

(* The conjuncts of IInv that speak of one slot.                           *)
SlotFacts(s) ==
  LET j == task[s].job IN
  /\ task[s].pc \in {"releaseWa", "releaseAi", "finish"} => task[s].fin # "UNKNOWN"
  /\ task[s].pc \in {"settings", "reserveAi"} =>
       /\ task[s].text \in {NoText, job[j].text}
       /\ job[j].token = s => task[s].text = job[j].text
  /\ task[s].pc \in {"generate", "generating", "persist"} /\ job[j].token = s =>
       job[j].text = NoText
  /\ task[s].pc = "persist" => task[s].text \in Texts
  /\ task[s].pc \in WithText => task[s].text = job[j].text /\ job[j].text # NoText
  /\ task[s].pc = "finalize" => wire[j] # NoText

LEMMA SlotFactsAreInvariants ==
  ClosingIsDecided /\ SnapshotIsCurrent /\ TextIsDurable
    <=> \A s \in Slots : SlotFacts(s)
  BY DEF ClosingIsDecided, SnapshotIsCurrent, TextIsDurable, SlotFacts

(* They survive the steps of others: a row's text is written only once and *)
(* only by the holder of its token, a token is acquired only by a claim    *)
(* for one's own slot, and what was delivered stays delivered.             *)
LEMMA FactsSurvive ==
  ASSUME IInv, NEW r \in Slots, task'[r] = task[r],
         \A j \in Jobs : job'[j].text # job[j].text =>
            job[j].text = NoText /\ job[j].token # r,
         \A j \in Jobs : job'[j].token = r => job[j].token = r,
         \A j \in Jobs : wire[j] # NoText => wire'[j] # NoText
  PROVE  SlotFacts(r)'
<1>1. SlotFacts(r)
  BY SlotFactsAreInvariants DEF IInv
<1>2. CASE task[r].pc = "idle"
  BY <1>2 DEF SlotFacts, WithText
<1>3. CASE task[r].pc # "idle"
  <2>1. task[r].job \in Jobs
    BY <1>3 DEF IInv, LeaseDiscipline
  <2>2. QED  BY <1>1, <2>1 DEF SlotFacts
<1>4. QED  BY <1>2, <1>3

(* A task's steps that leave the rows alone.                               *)
LEMMA LocalStepFacts ==
  ASSUME IInv, NEW s \in Slots, LocalStep(s)
  PROVE  SlotFacts(s)'
<1>1. SlotFacts(s) /\ UNCHANGED <<job, wire>>
  BY SlotFactsAreInvariants
  DEF IInv, LocalStep, CheckSettings, AiQuotaDenied, BeginGeneration, Generated,
      GenerationFailed, GateSetting, GateConversation, FinalCheck, WaQuotaDenied,
      SendConflict, SendRefused, wireVars
<1> USE <1>1 DEF SlotFacts, At, Goto, Stop, WithText, IInv, TypeOK, Local
<1>2. CASE CheckSettings(s)     BY <1>2 DEF CheckSettings
<1>3. CASE AiQuotaDenied(s)     BY <1>3 DEF AiQuotaDenied
<1>4. CASE BeginGeneration(s)   BY <1>4 DEF BeginGeneration
<1>5. CASE Generated(s)         BY <1>5 DEF Generated
<1>6. CASE GenerationFailed(s)  BY <1>6 DEF GenerationFailed
<1>7. CASE GateSetting(s)       BY <1>7 DEF GateSetting
<1>8. CASE GateConversation(s)  BY <1>8 DEF GateConversation
<1>9. CASE FinalCheck(s)        BY <1>9 DEF FinalCheck
<1>10. CASE WaQuotaDenied(s)    BY <1>10 DEF WaQuotaDenied
<1>11. CASE SendConflict(s)     BY <1>11 DEF SendConflict
<1>12. CASE SendRefused(s)      BY <1>12 DEF SendRefused
<1>13. QED
  BY <1>2, <1>3, <1>4, <1>5, <1>6, <1>7, <1>8, <1>9, <1>10, <1>11, <1>12 DEF LocalStep

(* Its steps on the ledger.                                                *)
LEMMA QuotaStepFacts ==
  ASSUME IInv, NEW s \in Slots, QuotaStep(s)
  PROVE  SlotFacts(s)'
<1>1. SlotFacts(s) /\ UNCHANGED <<job, wire>>
  BY SlotFactsAreInvariants
  DEF IInv, QuotaStep, ReserveAi, ReserveWa, KeepAi, KeepWa, ReleaseWa, ReleaseAi, wireVars
<1> USE <1>1 DEF SlotFacts, At, Goto, WithText, IInv, TypeOK, Local
<1>2. CASE ReserveAi(s)  BY <1>2 DEF ReserveAi, AfterAiQuota
<1>3. CASE ReserveWa(s)  BY <1>3 DEF ReserveWa
<1>4. CASE KeepAi(s)     BY <1>4 DEF KeepAi
<1>5. CASE KeepWa(s)     BY <1>5 DEF KeepWa
<1>6. CASE ReleaseWa(s)  BY <1>6 DEF ReleaseWa
<1>7. CASE ReleaseAi(s)  BY <1>7 DEF ReleaseAi
<1>8. QED  BY <1>2, <1>3, <1>4, <1>5, <1>6, <1>7 DEF QuotaStep

(* The runtime call: on an acknowledgement the durable text is delivered.  *)
LEMMA SendStepFacts ==
  ASSUME IInv, NEW s \in Slots, SendStep(s)
  PROVE  /\ SlotFacts(s)'
         /\ WireIsDurableText'
         /\ \A j \in Jobs : wire[j] # NoText => wire'[j] = wire[j]
<1> DEFINE j == task[s].job
<1>1. SlotFacts(s) /\ UNCHANGED job /\ task[s].pc = "send"
  BY SlotFactsAreInvariants DEF IInv, SendStep, SendAcked, SendUnknown, At
<1>2. j \in Jobs /\ task[s].text = job[j].text /\ job[j].text # NoText
  BY <1>1 DEF SlotFacts, WithText, IInv, LeaseDiscipline
<1>3. CASE SendAcked(s)
  BY <1>1, <1>2, <1>3
  DEF SendAcked, MayDeliver, Delivers, Goto, SlotFacts, WithText, IInv, TypeOK,
      Local, WireIsDurableText
<1>4. CASE SendUnknown(s)
  <2>1. /\ task'[s].pc = "keepAi"
        /\ task'[s].job = j /\ task'[s].text = task[s].text
    BY <1>4 DEF SendUnknown, Stop, IInv, TypeOK, Local
  <2>2. SlotFacts(s)'
    BY <1>1, <1>2, <2>1 DEF SlotFacts, WithText
  <2>3. WireIsDurableText' /\ \A i \in Jobs : wire[i] # NoText => wire'[i] = wire[i]
    <3> USE <1>1, <1>2 DEF WireIsDurableText, IInv, TypeOK
    <3>1. CASE MayDeliver(j, task[s].text) /\ Delivers(j, task[s].text) /\ UNCHANGED late
      BY <3>1 DEF MayDeliver, Delivers
    <3>2. CASE UNCHANGED <<wire, late>>
      BY <3>2
    <3>3. CASE late' = [late EXCEPT ![j] = @ \cup {task[s].text}] /\ UNCHANGED wire
      BY <3>3
    <3>4. QED  BY <1>4, <3>1, <3>2, <3>3 DEF SendUnknown
  <2>4. QED  BY <2>2, <2>3
<1>5. QED  BY <1>3, <1>4 DEF SendStep

(* Its writes to the row.                                                  *)
LEMMA RowStepFacts ==
  ASSUME IInv, NEW s \in Slots, RowStep(s)
  PROVE  SlotFacts(s)'
<1>1. SlotFacts(s)
  BY SlotFactsAreInvariants DEF IInv
<1>2. CASE PersistReply(s)
  <2>1. task[s].job \in Jobs /\ task[s].text \in Texts /\ job[task[s].job].text = NoText
    BY <1>1, <1>2 DEF PersistReply, At, Owns, SlotFacts, IInv, LeaseDiscipline
  <2>2. /\ task'[s].pc = "gateSetting"
        /\ task'[s].job = task[s].job /\ task'[s].text = task[s].text
    BY <1>2 DEF PersistReply, Goto, IInv, TypeOK, Local
  <2>3. job'[task[s].job].text = task[s].text
    BY <1>2, <2>1 DEF PersistReply, IInv, TypeOK, Row
  <2>4. /\ task'[s].text = job'[task'[s].job].text
        /\ job'[task'[s].job].text # NoText
    BY <2>1, <2>2, <2>3, ConstantsAssumption
  <2>5. QED  BY <2>2, <2>4 DEF SlotFacts
<1>3. CASE DeferUnknown(s) \/ GiveUpUnknown(s) \/ Finish(s) \/ Escalate(s) \/ FinalizeSent(s)
  <2>1. task'[s].pc \in {"idle", "escalate"}
    <3>1. \/ task' = [task EXCEPT ![s] = Idle]
          \/ task' = [task EXCEPT ![s] = [Idle EXCEPT !.pc = "escalate", !.job = task[s].job]]
      BY <1>3 DEF DeferUnknown, GiveUpUnknown, Finish, Escalate, FinalizeSent
    <3>2. Idle.pc = "idle"
      BY DEF Idle
    <3>3. [Idle EXCEPT !.pc = "escalate", !.job = task[s].job].pc = "escalate"
      BY DEF Idle
    <3>4. QED  BY <3>1, <3>2, <3>3 DEF IInv, TypeOK
  <2>2. QED  BY <2>1 DEF SlotFacts, WithText
<1>4. QED  BY <1>2, <1>3 DEF RowStep

(* What a step of slot s may do to the rows: their texts are written once, *)
(* tokens only go away, and no other slot changes.                         *)
LEMMA TaskStepFrame ==
  ASSUME IInv, NEW s \in Slots,
         LocalStep(s) \/ QuotaStep(s) \/ LeaveStep(s) \/ RowStep(s)
  PROVE  /\ UNCHANGED <<wire, late>>
         /\ \A r \in Slots \ {s} : task'[r] = task[r]
         /\ \A j \in Jobs : job'[j].text # job[j].text =>
               job[j].text = NoText /\ job[j].token = s
         /\ \A j \in Jobs, r \in Slots : job'[j].token = r => job[j].token = r
<1>0. TypeOK
  BY DEF IInv
<1>1. CASE LocalStep(s)
  <2>1. UNCHANGED <<wire, late>>
    BY <1>1 DEF LocalStep, CheckSettings, AiQuotaDenied, BeginGeneration, Generated,
       GenerationFailed, GateSetting, GateConversation, FinalCheck, WaQuotaDenied,
       SendConflict, SendRefused, wireVars
  <2>2. QED  BY <1>0, <1>1, <2>1, TaskMovesOn
<1>2. CASE QuotaStep(s)
  <2>1. UNCHANGED <<wire, late>>
    BY <1>2 DEF QuotaStep, ReserveAi, ReserveWa, KeepAi, KeepWa, ReleaseWa, ReleaseAi,
       wireVars
  <2>2. QED  BY <1>0, <1>2, <2>1, TaskMovesOn
<1>3. CASE LeaveStep(s)
  <2>1. Leave(s) /\ UNCHANGED <<wire, late>>
    BY <1>3 DEF LeaveStep, LeaseLost, Abort, FinalizeThrows, wireVars
  <2>2. QED  BY <1>0, <2>1, ConstantsAssumption DEF Leave, TypeOK, Row
<1>4. CASE RowStep(s)
  <2>1. UNCHANGED <<wire, late>>
    BY <1>4 DEF RowStep, PersistReply, DeferUnknown, GiveUpUnknown, Finish, Escalate,
       FinalizeSent, wireVars
  <2> DEFINE P == /\ \A r \in Slots \ {s} : task'[r] = task[r]
                  /\ \A j \in Jobs : job'[j].text # job[j].text =>
                        job[j].text = NoText /\ job[j].token = s
                  /\ \A j \in Jobs, r \in Slots : job'[j].token = r => job[j].token = r
  <2> USE <1>0, ConstantsAssumption DEF Closed, Row, TypeOK
  <2>2. ASSUME PersistReply(s) PROVE P
    <3>1. task[s].job \in Jobs  BY <2>2 DEF PersistReply, At, IInv, LeaseDiscipline
    <3>2. QED  BY <2>2, <3>1 DEF PersistReply, Owns, Goto
  <2>3. ASSUME DeferUnknown(s) PROVE P
    BY <2>3 DEF DeferUnknown
  <2>4. ASSUME GiveUpUnknown(s) PROVE P
    BY <2>4 DEF GiveUpUnknown
  <2>5. ASSUME Finish(s) PROVE P
    BY <2>5 DEF Finish
  <2>6. ASSUME Escalate(s) PROVE P
    BY <2>6 DEF Escalate
  <2>7. ASSUME FinalizeSent(s) PROVE P
    BY <2>7 DEF FinalizeSent
  <2>8. QED  BY <1>4, <2>1, <2>2, <2>3, <2>4, <2>5, <2>6, <2>7 DEF RowStep
<1>5. QED  BY <1>1, <1>2, <1>3, <1>4

(* What the steps outside the tasks may do.                                *)
LEMMA OuterStepFrame ==
  ASSUME IInv, OuterStep
  PROVE  /\ \A j \in Jobs : job'[j].text = job[j].text
         /\ UNCHANGED late /\ (UNCHANGED wire \/ \E j \in Jobs : LateDelivery(j))
         /\ \/ UNCHANGED task /\ \A j \in Jobs, r \in Slots : job'[j].token = r => job[j].token = r
            \/ \E s \in Slots, j \in Jobs : Claim(s, j)
<1> DEFINE P == /\ \A j \in Jobs : job'[j].text = job[j].text
                /\ UNCHANGED <<wire, late>>
                /\ UNCHANGED task
                /\ \A j \in Jobs, r \in Slots : job'[j].token = r => job[j].token = r
<1> USE ConstantsAssumption DEF IInv, TypeOK, Row, wireVars
<1>1. ASSUME NEW j \in Jobs, Schedule(j) PROVE P
  BY <1>1 DEF Schedule
<1>2. ASSUME NEW j \in Jobs, LeaseExpires(j) PROVE P
  BY <1>2 DEF LeaseExpires
<1>3. ASSUME NEW c \in Conversations, People(c) PROVE P
  <2>1. CASE HumanTakeover(c)
    <3>1. \A j \in Jobs : job'[j] = job[j] \/ job'[j] = Closed(j, "SKIPPED")
      BY <2>1 DEF HumanTakeover
    <3>2. \A j \in Jobs : /\ Closed(j, "SKIPPED").text = job[j].text
                          /\ Closed(j, "SKIPPED").token = NoToken
      BY DEF Closed
    <3>3. UNCHANGED <<task, wire, late>>
      BY <2>1 DEF HumanTakeover
    <3>4. QED  BY <3>1, <3>2, <3>3
  <2>2. CASE ManualPause(c) \/ Resume(c) \/ ResolveEscalation(c)
    BY <2>2 DEF ManualPause, Resume, ResolveEscalation
  <2>3. ASSUME NEW j \in Jobs, ResumeCatchUp(c, j) PROVE P
    BY <2>3 DEF ResumeCatchUp
  <2>4. QED  BY <1>3, <2>1, <2>2, <2>3 DEF People
<1>4. ASSUME SwitchAutoReply PROVE P
  BY <1>4 DEF SwitchAutoReply
<1>5. ASSUME NEW s \in Slots, NEW j \in Jobs, Claim(s, j)
      PROVE  UNCHANGED <<wire, late>> /\ \A i \in Jobs : job'[i].text = job[i].text
  BY <1>5 DEF Claim
<1>6. ASSUME NEW j \in Jobs, LateDelivery(j)
      PROVE  UNCHANGED <<job, task, late>>
  BY <1>6 DEF LateDelivery
<1>7. QED  BY <1>1, <1>2, <1>3, <1>4, <1>5, <1>6 DEF OuterStep

(* What every task knows stays true.                                       *)
LEMMA FactsStep ==
  ASSUME IInv, [Next]_vars
  PROVE  (ClosingIsDecided /\ SnapshotIsCurrent /\ TextIsDurable)'
<1>1. SUFFICES ASSUME NEW r \in Slots PROVE SlotFacts(r)'
  BY DEF ClosingIsDecided, SnapshotIsCurrent, TextIsDurable, SlotFacts
<1>2. ASSUME NEW s \in Slots,
             LocalStep(s) \/ QuotaStep(s) \/ LeaveStep(s) \/ RowStep(s)
      PROVE  SlotFacts(r)'
  <2>1. CASE r # s
    BY <1>2, <2>1, TaskStepFrame, FactsSurvive
  <2>2. CASE r = s
    <3>1. ASSUME LeaveStep(s) PROVE SlotFacts(s)'
      <4>1. task'[s].pc = "idle"
        <5>1. Idle.pc = "idle"  BY DEF Idle
        <5>2. task' = [task EXCEPT ![s] = Idle]
          BY <3>1 DEF LeaveStep, LeaseLost, Abort, FinalizeThrows, Leave
        <5>3. QED  BY <5>1, <5>2 DEF IInv, TypeOK
      <4>2. QED  BY <4>1 DEF SlotFacts, WithText
    <3>2. QED  BY <1>2, <2>2, <3>1, LocalStepFacts, QuotaStepFacts, RowStepFacts
  <2>3. QED  BY <2>1, <2>2
<1>3. ASSUME NEW s \in Slots, SendStep(s)
      PROVE  SlotFacts(r)'
  <2>1. CASE r # s
    <3>1. task'[r] = task[r] /\ UNCHANGED job
      BY <1>3, <2>1, TaskMovesOn DEF IInv
    <3>2. QED  BY <1>3, <3>1, SendStepFacts, FactsSurvive
  <2>2. CASE r = s
    BY <1>3, <2>2, SendStepFacts
  <2>3. QED  BY <2>1, <2>2
<1>4. ASSUME OuterStep
      PROVE  SlotFacts(r)'
  <2>1. \A j \in Jobs : wire[j] # NoText => wire'[j] # NoText
    <3>1. CASE UNCHANGED wire
      BY <3>1
    <3>2. ASSUME NEW j \in Jobs, LateDelivery(j)
          PROVE  \A i \in Jobs : wire[i] # NoText => wire'[i] = wire[i]
      BY <3>2 DEF LateDelivery, Delivers, IInv, TypeOK
    <3>3. QED  BY <1>4, <3>1, <3>2, OuterStepFrame
  <2>2. CASE UNCHANGED task /\ \A j \in Jobs, i \in Slots : job'[j].token = i => job[j].token = i
    BY <1>4, <2>1, <2>2, OuterStepFrame, FactsSurvive
  <2>3. ASSUME NEW s \in Slots, NEW j \in Jobs, Claim(s, j)
        PROVE  SlotFacts(r)'
    <3>1. CASE r # s
      <4>1. task'[r] = task[r] /\ \A i \in Jobs : job'[i].token = r => job[i].token = r
        BY <2>3, <3>1 DEF Claim, IInv, TypeOK, Row
      <4>2. QED  BY <1>4, <2>1, <4>1, OuterStepFrame, FactsSurvive
    <3>2. CASE r = s
      <4>1. task'[s].pc = "settings" /\ task'[s].job = j /\ task'[s].text = job[j].text
        <5>1. task' = [task EXCEPT ![s] = [Idle EXCEPT !.pc = "settings", !.job = j,
                                                       !.text = job[j].text]]
          BY <2>3 DEF Claim
        <5>2. QED  BY <5>1 DEF Idle, IInv, TypeOK
      <4>2. job'[j].text = job[j].text
        BY <1>4, OuterStepFrame
      <4>3. QED  BY <3>2, <4>1, <4>2 DEF SlotFacts, WithText
    <3>3. QED  BY <3>1, <3>2
  <2>4. QED  BY <1>4, <2>2, <2>3, OuterStepFrame
<1>5. CASE UNCHANGED vars
  BY <1>5, SlotFactsAreInvariants DEF vars, IInv, SlotFacts
<1>6. QED  BY <1>2, <1>3, <1>4, <1>5, NextCases

----------------------------------------------------------------------------
(* The properties.                                                         *)

(* What is on the wire, or may still get there, stays the durable text.    *)
LEMMA WireStep ==
  ASSUME IInv, [Next]_vars
  PROVE  WireIsDurableText'
<1> USE DEF WireIsDurableText, IInv
<1>1. ASSUME NEW s \in Slots,
             LocalStep(s) \/ QuotaStep(s) \/ LeaveStep(s) \/ RowStep(s)
      PROVE  WireIsDurableText'
  BY <1>1, TaskStepFrame
<1>2. ASSUME NEW s \in Slots, SendStep(s)
      PROVE  WireIsDurableText'
  BY <1>2, SendStepFacts
<1>3. ASSUME OuterStep
      PROVE  WireIsDurableText'
  <2>1. CASE UNCHANGED wire
    BY <1>3, <2>1, OuterStepFrame
  <2>2. ASSUME NEW j \in Jobs, LateDelivery(j) PROVE WireIsDurableText'
    BY <2>2 DEF LateDelivery, Delivers, TypeOK
  <2>3. QED  BY <1>3, <2>1, <2>2, OuterStepFrame
<1>4. CASE UNCHANGED vars
  BY <1>4 DEF vars
<1>5. QED  BY <1>1, <1>2, <1>3, <1>4, NextCases

(* The ways a row's Status changes outside the tasks.                      *)
LEMMA StatusOutside ==
  ASSUME IInv, OuterStep
  PROVE  \A j \in Jobs : job'[j].status = "SENT" <=> job[j].status = "SENT"
<1> USE DEF IInv, TypeOK, Row
<1>1. ASSUME NEW j \in Jobs, Schedule(j)
      PROVE  \A i \in Jobs : job'[i].status = "SENT" <=> job[i].status = "SENT"
  BY <1>1 DEF Schedule
<1>2. ASSUME NEW j \in Jobs, LeaseExpires(j) \/ LateDelivery(j)
      PROVE  \A i \in Jobs : job'[i].status = job[i].status
  BY <1>2 DEF LeaseExpires, LateDelivery
<1>3. ASSUME NEW s \in Slots, NEW j \in Jobs, Claim(s, j)
      PROVE  \A i \in Jobs : job'[i].status = "SENT" <=> job[i].status = "SENT"
  BY <1>3 DEF Claim, Claimable, Reclaimable
<1>4. ASSUME NEW c \in Conversations, People(c)
      PROVE  \A i \in Jobs : job'[i].status = "SENT" <=> job[i].status = "SENT"
  <2>1. CASE HumanTakeover(c)
    BY <2>1 DEF HumanTakeover, Closed, WithStatus
  <2>2. CASE ManualPause(c) \/ Resume(c) \/ ResolveEscalation(c)
    BY <2>2 DEF ManualPause, Resume, ResolveEscalation
  <2>3. ASSUME NEW j \in Jobs, ResumeCatchUp(c, j)
        PROVE  \A i \in Jobs : job'[i].status = "SENT" <=> job[i].status = "SENT"
    BY <2>3 DEF ResumeCatchUp, WithStatus
  <2>4. QED  BY <1>4, <2>1, <2>2, <2>3 DEF People
<1>5. CASE SwitchAutoReply
  BY <1>5 DEF SwitchAutoReply
<1>6. QED  BY <1>1, <1>2, <1>3, <1>4, <1>5 DEF OuterStep

(* The ledger never enters or leaves CONSUMED on a task's quota steps.     *)
LEMMA ConsumedIsFixed ==
  ASSUME TypeOK, NEW s \in Slots, QuotaStep(s)
  PROVE  \A j \in Jobs : /\ aiResv'[j] = "CONSUMED" <=> aiResv[j] = "CONSUMED"
                         /\ waResv'[j] = "CONSUMED" <=> waResv[j] = "CONSUMED"
<1> USE DEF TypeOK, Ai!AfterReserve, Ai!AfterRelease, Ai!AfterUncertain,
            Wa!AfterReserve, Wa!AfterRelease, Wa!AfterUncertain,
            Ai!Committed, Wa!Committed
<1>1. CASE ReserveAi(s)  BY <1>1 DEF ReserveAi
<1>2. CASE ReserveWa(s)  BY <1>2 DEF ReserveWa
<1>3. CASE KeepAi(s)     BY <1>3 DEF KeepAi
<1>4. CASE KeepWa(s)     BY <1>4 DEF KeepWa
<1>5. CASE ReleaseWa(s)  BY <1>5 DEF ReleaseWa
<1>6. CASE ReleaseAi(s)  BY <1>6 DEF ReleaseAi
<1>7. QED  BY <1>1, <1>2, <1>3, <1>4, <1>5, <1>6 DEF QuotaStep

(* SENT, the message row and the consumed reservations move together.      *)
LEMMA SentStep ==
  ASSUME IInv, [Next]_vars
  PROVE  SentIsBacked'
<1> DEFINE SameStatus == \A j \in Jobs : job'[j].status = "SENT" <=> job[j].status = "SENT"
           Kept == \A j \in Jobs : wire[j] # NoText => wire'[j] # NoText
<1>0. TypeOK /\ SentIsBacked
  BY DEF IInv
<1>1. ASSUME SameStatus, Kept, UNCHANGED <<recorded, aiResv, waResv>>
      PROVE  SentIsBacked'
  BY <1>0, <1>1 DEF SentIsBacked
<1>2. ASSUME NEW s \in Slots, QuotaStep(s)
      PROVE  SentIsBacked'
  <2>1. UNCHANGED <<job, recorded, wire>>
    BY <1>2 DEF QuotaStep, ReserveAi, ReserveWa, KeepAi, KeepWa, ReleaseWa, ReleaseAi,
       wireVars
  <2>2. QED  BY <1>0, <1>2, <2>1, ConsumedIsFixed DEF SentIsBacked
<1>3. ASSUME NEW s \in Slots, LocalStep(s) \/ SendStep(s)
      PROVE  SentIsBacked'
  <2>1. UNCHANGED <<job, recorded>>
    BY <1>0, <1>3, TaskMovesOn
  <2>2. UNCHANGED <<aiResv, waResv>>
    BY <1>3 DEF LocalStep, CheckSettings, AiQuotaDenied, BeginGeneration, Generated,
       GenerationFailed, GateSetting, GateConversation, FinalCheck, WaQuotaDenied,
       SendConflict, SendRefused, SendStep, SendAcked, SendUnknown, quotaVars
  <2>3. Kept
    BY <1>3, TaskStepFrame, SendStepFacts
  <2>4. QED  BY <1>1, <2>1, <2>2, <2>3
<1>4. ASSUME NEW s \in Slots, LeaveStep(s)
      PROVE  SentIsBacked'
  <2>1. Leave(s) /\ UNCHANGED <<quotaVars, wireVars>>
    BY <1>4 DEF LeaveStep, LeaseLost, Abort, FinalizeThrows
  <2>2. SameStatus
    BY <1>0, <2>1 DEF Leave, TypeOK, Row
  <2>3. QED  BY <1>1, <2>1, <2>2 DEF quotaVars, wireVars
<1>5. ASSUME NEW s \in Slots, RowStep(s)
      PROVE  SentIsBacked'
  <2> DEFINE j == task[s].job
  <2>1. j \in Jobs
    BY <1>5 DEF RowStep, PersistReply, DeferUnknown, GiveUpUnknown, Finish, Escalate,
       FinalizeSent, At, IInv, LeaseDiscipline
  <2>2. CASE PersistReply(s) \/ DeferUnknown(s) \/ Escalate(s)
    <3>1. SameStatus
      BY <1>0, <2>2 DEF PersistReply, DeferUnknown, Escalate, TypeOK, Row
    <3>2. UNCHANGED <<recorded, wire, aiResv, waResv>>
      BY <2>2 DEF PersistReply, DeferUnknown, Escalate, quotaVars, wireVars
    <3>3. QED  BY <1>1, <3>1, <3>2
  <2>3. CASE GiveUpUnknown(s) \/ Finish(s)
    <3>1. job[j].status = "PROCESSING"
      BY <2>3 DEF GiveUpUnknown, Finish, Owns
    <3>2. task[s].pc = "finish" => task[s].fin \in {"SKIPPED", "FAILED"}
      BY <1>0 DEF IInv, ClosingIsDecided, TypeOK, Local
    <3>3. job'[j].status # "SENT" /\ \A i \in Jobs \ {j} : job'[i] = job[i]
      <4>1. CASE GiveUpUnknown(s)
        BY <1>0, <2>1, <4>1 DEF GiveUpUnknown, Closed, TypeOK, Row
      <4>2. CASE Finish(s)
        BY <1>0, <2>1, <3>2, <4>2 DEF Finish, At, Closed, TypeOK, Row
      <4>3. QED  BY <2>3, <4>1, <4>2
    <3>4. UNCHANGED <<recorded, wire, aiResv, waResv>>
      BY <2>3 DEF GiveUpUnknown, Finish, quotaVars, wireVars
    <3>5. QED  BY <1>1, <3>1, <3>3, <3>4
  <2>4. CASE FinalizeSent(s)
    <3>1. wire[j] # NoText
      BY <2>4 DEF FinalizeSent, At, IInv, TextIsDurable
    <3>2. job'[j].status = "SENT" /\ \A i \in Jobs \ {j} : job'[i] = job[i]
      BY <1>0, <2>1, <2>4 DEF FinalizeSent, Closed, TypeOK, Row
    <3>3. /\ aiResv'[j] = "CONSUMED" /\ waResv'[j] = "CONSUMED" /\ j \in recorded'
          /\ \A i \in Jobs \ {j} : /\ aiResv'[i] = aiResv[i] /\ waResv'[i] = waResv[i]
                                   /\ i \in recorded' <=> i \in recorded
      BY <1>0, <2>1, <2>4 DEF FinalizeSent, TypeOK
    <3>4. UNCHANGED wire
      BY <2>4 DEF FinalizeSent
    <3>5. QED  BY <1>0, <3>1, <3>2, <3>3, <3>4 DEF SentIsBacked
  <2>5. QED  BY <1>5, <2>2, <2>3, <2>4 DEF RowStep
<1>6. ASSUME OuterStep
      PROVE  SentIsBacked'
  <2>1. UNCHANGED <<recorded, aiResv, waResv>>
    BY <1>6 DEF OuterStep, Schedule, LeaseExpires, LateDelivery, Claim, People,
       HumanTakeover, ManualPause, Resume, ResolveEscalation, ResumeCatchUp,
       SwitchAutoReply, quotaVars, wireVars
  <2>2. Kept
    <3>1. ASSUME NEW j \in Jobs, LateDelivery(j)
          PROVE  \A i \in Jobs : wire[i] # NoText => wire'[i] = wire[i]
      BY <1>0, <3>1 DEF LateDelivery, Delivers, TypeOK
    <3>2. QED  BY <1>6, <3>1, OuterStepFrame
  <2>3. SameStatus
    BY <1>6, StatusOutside
  <2>4. QED  BY <1>1, <2>1, <2>2, <2>3
<1>7. CASE UNCHANGED vars
  BY <1>1, <1>7 DEF vars
<1>8. QED  BY <1>2, <1>3, <1>4, <1>5, <1>6, <1>7, NextCases

(* A conversation keeps at most one pending and one processed job.         *)
LEMMA OneJobStep ==
  ASSUME IInv, [Next]_vars
  PROVE  OneJobAtATime'
<1> DEFINE Fewer == \A j \in Jobs, st \in {"PENDING", "PROCESSING"} :
                      job'[j].status = st => job[j].status = st
<1> DEFINE Alone == \A st \in {"PENDING", "PROCESSING"} : \A i, k \in Jobs :
                      /\ job'[i].status = st /\ job'[k].status = st
                      /\ ConvOf[i] = ConvOf[k]
                      => i = k
<1>0. TypeOK /\ OneJobAtATime /\ ConvOf \in [Jobs -> Conversations]
  BY ConstantsAssumption DEF IInv
<1>01. \A st \in {"PENDING", "PROCESSING"} : \A i, k \in Jobs :
         /\ job[i].status = st /\ job[k].status = st /\ ConvOf[i] = ConvOf[k]
         => i = k
  BY <1>0 DEF OneJobAtATime, WithStatus, JobsOf
<1>02. ASSUME Alone PROVE OneJobAtATime'
  BY <1>02 DEF OneJobAtATime, WithStatus, JobsOf
<1>1. ASSUME Fewer PROVE OneJobAtATime'
  BY <1>0, <1>1 DEF OneJobAtATime, WithStatus, JobsOf
<1>2. ASSUME NEW s \in Slots, LocalStep(s) \/ QuotaStep(s) \/ SendStep(s)
      PROVE  OneJobAtATime'
  <2>1. UNCHANGED job  BY <1>0, <1>2, TaskMovesOn
  <2>2. QED  BY <1>1, <2>1
<1>3. ASSUME NEW s \in Slots, LeaveStep(s)
      PROVE  OneJobAtATime'
  <2>1. Leave(s)  BY <1>3 DEF LeaveStep, LeaseLost, Abort, FinalizeThrows
  <2>2. Fewer     BY <1>0, <2>1 DEF Leave, TypeOK, Row
  <2>3. QED  BY <1>1, <2>2
<1>4. ASSUME NEW s \in Slots, RowStep(s)
      PROVE  OneJobAtATime'
  <2> USE <1>0 DEF TypeOK, Row
  <2>1. ASSUME PersistReply(s) \/ DeferUnknown(s) \/ Escalate(s) PROVE Fewer
    BY <2>1 DEF PersistReply, DeferUnknown, Escalate
  <2>2. ASSUME GiveUpUnknown(s) PROVE Fewer
    BY <2>2 DEF GiveUpUnknown, Closed
  <2>3. ASSUME Finish(s) PROVE Fewer
    <3>1. task[s].fin \in {"SKIPPED", "FAILED"}
      BY <2>3 DEF Finish, At, IInv, ClosingIsDecided, Local
    <3>2. QED  BY <2>3, <3>1 DEF Finish, Closed
  <2>4. ASSUME FinalizeSent(s) PROVE Fewer
    BY <2>4 DEF FinalizeSent, Closed
  <2>5. QED  BY <1>1, <1>4, <2>1, <2>2, <2>3, <2>4 DEF RowStep
<1>5. ASSUME OuterStep
      PROVE  OneJobAtATime'
  <2> USE <1>0 DEF TypeOK, Row
  <2>1. ASSUME NEW j \in Jobs, Schedule(j) PROVE OneJobAtATime'
    <3>1. \A i \in Jobs : job'[i].status = IF i = j THEN "PENDING" ELSE job[i].status
      BY <2>1 DEF Schedule
    <3>2. \A i \in Jobs : ConvOf[i] = ConvOf[j] => job[i].status # "PENDING"
      BY <2>1 DEF Schedule, WithStatus, JobsOf
    <3>3. Alone
      BY <1>01, <3>1, <3>2
    <3>4. QED  BY <1>02, <3>3
  <2>2. ASSUME NEW j \in Jobs, LeaseExpires(j) \/ LateDelivery(j) PROVE Fewer
    BY <2>2 DEF LeaseExpires, LateDelivery
  <2>3. ASSUME NEW s \in Slots, NEW j \in Jobs, Claim(s, j) PROVE OneJobAtATime'
    <3>1. \A i \in Jobs : job'[i].status = IF i = j THEN "PROCESSING" ELSE job[i].status
      BY <2>3 DEF Claim
    <3>2. \/ job[j].status = "PROCESSING"
          \/ \A i \in Jobs : ConvOf[i] = ConvOf[j] => job[i].status # "PROCESSING"
      BY <2>3 DEF Claim, Claimable, Reclaimable, WithStatus, JobsOf
    <3>3. Alone
      BY <1>01, <3>1, <3>2
    <3>4. QED  BY <1>02, <3>3
  <2>4. ASSUME NEW c \in Conversations, People(c) PROVE OneJobAtATime'
    <3>1. ASSUME HumanTakeover(c) PROVE Fewer
      <4>1. \A i \in Jobs : job'[i] = job[i] \/ job'[i] = Closed(i, "SKIPPED")
        BY <3>1 DEF HumanTakeover
      <4>2. \A i \in Jobs : Closed(i, "SKIPPED").status = "SKIPPED"
        BY DEF Closed
      <4>3. QED  BY <4>1, <4>2
    <3>2. ASSUME ManualPause(c) \/ Resume(c) \/ ResolveEscalation(c) PROVE Fewer
      BY <3>2 DEF ManualPause, Resume, ResolveEscalation
    <3>3. ASSUME NEW j \in Jobs, ResumeCatchUp(c, j) PROVE OneJobAtATime'
      <4>1. ConvOf[j] = c /\ job'[j].status = "PENDING"
        BY <3>3 DEF ResumeCatchUp, JobsOf
      <4>2. \A i \in Jobs \ {j} :
              /\ job'[i].status = "PENDING" => job[i].status = "PENDING" /\ ConvOf[i] # c
              /\ job'[i].status = "PROCESSING" => job[i].status = "PROCESSING"
        BY <3>3 DEF ResumeCatchUp, WithStatus, JobsOf
      <4>3. Alone
        BY <1>01, <4>1, <4>2
      <4>4. QED  BY <1>02, <4>3
    <3>4. QED  BY <1>1, <2>4, <3>1, <3>2, <3>3 DEF People
  <2>5. ASSUME SwitchAutoReply PROVE Fewer
    BY <2>5 DEF SwitchAutoReply
  <2>6. QED  BY <1>1, <1>5, <2>1, <2>2, <2>3, <2>4, <2>5 DEF OuterStep
<1>6. CASE UNCHANGED vars
  BY <1>1, <1>6 DEF vars
<1>7. QED  BY <1>2, <1>3, <1>4, <1>5, <1>6, NextCases

(* A closed row is not written again: every statement that writes a row    *)
(* asks for PENDING, for PROCESSING, for a token or for a lease in it, and *)
(* a closed row has none of these.                                         *)
LEMMA ClosedStep ==
  ASSUME IInv, [Next]_vars
  PROVE  \A j \in Jobs : job[j].status \in Terminal => job'[j] = job[j]
<1> DEFINE Untouched == \A j \in Jobs : job[j].status \in Terminal => job'[j] = job[j]
<1>0. TypeOK
  BY DEF IInv
<1>1. \A j \in Jobs : job[j].status \in Terminal =>
        /\ job[j].status \notin {"NONE", "PENDING", "PROCESSING"}
        /\ job[j].token = NoToken /\ job[j].lease = "none"
  BY DEF IInv, LeaseDiscipline, Terminal
<1>2. ASSUME NEW s \in Slots, LocalStep(s) \/ QuotaStep(s) \/ SendStep(s)
      PROVE  Untouched
  BY <1>0, <1>2, TaskMovesOn
<1>3. ASSUME NEW s \in Slots, LeaveStep(s)
      PROVE  Untouched
  <2>1. Leave(s)
    BY <1>3 DEF LeaveStep, LeaseLost, Abort, FinalizeThrows
  <2>2. s # NoToken
    BY ConstantsAssumption
  <2>3. QED  BY <1>1, <2>1, <2>2 DEF Leave
<1>4. ASSUME NEW s \in Slots, RowStep(s)
      PROVE  Untouched
  <2> DEFINE j == task[s].job
  <2>1. CASE Escalate(s)
    BY <2>1 DEF Escalate
  <2>2. CASE PersistReply(s) \/ DeferUnknown(s) \/ GiveUpUnknown(s) \/ Finish(s) \/ FinalizeSent(s)
    <3>1. job[j].status = "PROCESSING"
      BY <2>2 DEF PersistReply, DeferUnknown, GiveUpUnknown, Finish, FinalizeSent, Owns
    <3>2. \A i \in Jobs \ {j} : job'[i] = job[i]
      BY <1>0, <2>2 DEF PersistReply, DeferUnknown, GiveUpUnknown, Finish, FinalizeSent, TypeOK
    <3>3. QED  BY <1>1, <3>1, <3>2
  <2>3. QED  BY <1>4, <2>1, <2>2 DEF RowStep
<1>5. ASSUME OuterStep
      PROVE  Untouched
  <2>1. ASSUME NEW i \in Jobs, Schedule(i) \/ LeaseExpires(i) \/ LateDelivery(i)
        PROVE  Untouched
    BY <1>0, <1>1, <2>1 DEF Schedule, LeaseExpires, LateDelivery, TypeOK
  <2>2. ASSUME NEW s \in Slots, NEW i \in Jobs, Claim(s, i)
        PROVE  Untouched
    BY <1>0, <1>1, <2>2 DEF Claim, Claimable, Reclaimable, TypeOK
  <2>3. ASSUME NEW c \in Conversations, People(c)
        PROVE  Untouched
    <3>1. CASE HumanTakeover(c)
      BY <1>1, <3>1 DEF HumanTakeover, WithStatus
    <3>2. CASE ManualPause(c) \/ Resume(c) \/ ResolveEscalation(c)
      BY <3>2 DEF ManualPause, Resume, ResolveEscalation
    <3>3. ASSUME NEW i \in Jobs, ResumeCatchUp(c, i)
          PROVE  Untouched
      BY <1>1, <3>3 DEF ResumeCatchUp, WithStatus
    <3>4. QED  BY <2>3, <3>1, <3>2, <3>3 DEF People
  <2>4. CASE SwitchAutoReply
    BY <2>4 DEF SwitchAutoReply
  <2>5. QED  BY <1>5, <2>1, <2>2, <2>3, <2>4 DEF OuterStep
<1>6. CASE UNCHANGED vars
  BY <1>6 DEF vars
<1>7. QED  BY <1>2, <1>3, <1>4, <1>5, <1>6, NextCases

----------------------------------------------------------------------------
(* Steps that properties speak about: the count of unknown outcomes, the   *)
(* mode of a conversation, the reservations.                               *)

(* Only recordAmbiguousOutbound counts, one at a time, and at the limit it *)
(* closes the job and pauses its conversation.                             *)
LEMMA UnknownStep ==
  ASSUME IInv, [Next]_vars, NEW j \in Jobs, job'[j].unknown # job[j].unknown
  PROVE  /\ job'[j].unknown = job[j].unknown + 1
         /\ job'[j].unknown = MaxUnknown =>
              job'[j].status = "FAILED" /\ mode'[ConvOf[j]] = "SAFETY_PAUSED"
         /\ job'[j].unknown < MaxUnknown => job'[j].status = "PROCESSING"
<1> DEFINE Counted == /\ job'[j].unknown = job[j].unknown + 1
                      /\ job'[j].unknown = MaxUnknown =>
                           job'[j].status = "FAILED" /\ mode'[ConvOf[j]] = "SAFETY_PAUSED"
                      /\ job'[j].unknown < MaxUnknown => job'[j].status = "PROCESSING"
<1>0. TypeOK /\ LeaseDiscipline /\ job[j] \in Row /\ ConvOf[j] \in Conversations
  BY ConstantsAssumption DEF IInv, TypeOK
<1>1. ASSUME NEW s \in Slots, LocalStep(s) \/ QuotaStep(s) \/ SendStep(s) PROVE FALSE
  BY <1>0, <1>1, TaskMovesOn
<1>2. ASSUME NEW s \in Slots, LeaveStep(s) PROVE FALSE
  <2>1. Leave(s)
    BY <1>2 DEF LeaveStep, LeaseLost, Abort, FinalizeThrows
  <2>2. QED  BY <1>0, <2>1 DEF Leave, Row
<1>3. ASSUME NEW s \in Slots, RowStep(s) PROVE Counted
  <2>1. CASE PersistReply(s) \/ Finish(s) \/ Escalate(s) \/ FinalizeSent(s)
    <3>1. \/ job' = job
          \/ \E t \in Texts \cup {NoText} :
               job' = [job EXCEPT ![task[s].job] = [@ EXCEPT !.text = t]]
          \/ \E st \in Statuses \cup {"UNKNOWN"} :
               job' = [job EXCEPT ![task[s].job] = Closed(task[s].job, st)]
      <4>1. CASE PersistReply(s)
        <5>1. task[s].job \in Jobs /\ task[s].text \in Texts \cup {NoText}
          BY <1>0, <4>1 DEF PersistReply, At, LeaseDiscipline, TypeOK, Local
        <5>2. job[task[s].job].text \in Texts \cup {NoText}
          BY <1>0, <5>1 DEF TypeOK, Row
        <5>3. QED  BY <4>1, <5>1, <5>2 DEF PersistReply
      <4>2. CASE Finish(s) \/ FinalizeSent(s)
        BY <1>0, <4>2 DEF Finish, FinalizeSent, TypeOK, Local, Statuses, Terminal
      <4>3. CASE Escalate(s)
        BY <4>3 DEF Escalate
      <4>4. QED  BY <2>1, <4>1, <4>2, <4>3
    <3>2. \A st \in Statuses \cup {"UNKNOWN"} : Closed(j, st).unknown = job[j].unknown
      BY <1>0 DEF Closed, Row
    <3>3. CASE task[s].job = j
      <4>1. \A t \in Texts \cup {NoText} : [job[j] EXCEPT !.text = t].unknown = job[j].unknown
        BY <1>0 DEF Row
      <4>2. PICK r : job' = [job EXCEPT ![j] = r] /\ r.unknown = job[j].unknown
        <5>1. job' = job => job' = [job EXCEPT ![j] = job[j]]
          BY <1>0 DEF TypeOK
        <5>2. QED  BY <3>1, <3>2, <3>3, <4>1, <5>1
      <4>3. QED  BY <1>0, <4>2 DEF TypeOK
    <3>4. CASE task[s].job # j
      BY <1>0, <3>1, <3>4 DEF TypeOK
    <3>5. QED  BY <3>3, <3>4
  <2>2. CASE DeferUnknown(s)
    <3>1. j = task[s].job
      BY <1>0, <2>2 DEF DeferUnknown, TypeOK
    <3>2. /\ job[j].unknown + 1 < MaxUnknown /\ job[j].status = "PROCESSING"
          /\ job' = [job EXCEPT ![j] = [job[j] EXCEPT !.unknown = job[j].unknown + 1,
                                                    !.token = NoToken]]
      BY <2>2, <3>1 DEF DeferUnknown, Owns
    <3>3. job'[j].unknown = job[j].unknown + 1 /\ job'[j].status = "PROCESSING"
      BY <1>0, <3>2 DEF TypeOK, Row
    <3>4. QED  BY <1>0, <3>2, <3>3, ConstantsAssumption DEF Row
  <2>3. CASE GiveUpUnknown(s)
    <3>1. j = task[s].job
      BY <1>0, <2>3 DEF GiveUpUnknown, TypeOK
    <3>2. /\ job[j].unknown + 1 >= MaxUnknown /\ job[j].status = "PROCESSING"
          /\ job' = [job EXCEPT ![j] = [Closed(j, "FAILED") EXCEPT !.unknown = @ + 1]]
          /\ Pause(ConvOf[j], "SAFETY_PAUSED")
      BY <2>3, <3>1 DEF GiveUpUnknown, Owns
    <3>3. job[j].unknown < MaxUnknown
      BY <1>0, <3>2 DEF LeaseDiscipline, Terminal
    <3>4. job'[j].unknown = job[j].unknown + 1 /\ job'[j].status = "FAILED"
      BY <1>0, <3>2 DEF Closed, TypeOK, Row
    <3>5. mode'[ConvOf[j]] = "SAFETY_PAUSED"
      BY <1>0, <3>2 DEF Pause, Pausable, TypeOK
    <3>6. QED  BY <1>0, <3>2, <3>3, <3>4, <3>5, ConstantsAssumption DEF Row
  <2>4. QED  BY <1>3, <2>1, <2>2, <2>3 DEF RowStep
<1>4. ASSUME OuterStep PROVE FALSE
  <2> USE <1>0 DEF TypeOK, Row
  <2>1. ASSUME NEW i \in Jobs, Schedule(i) \/ LeaseExpires(i) \/ LateDelivery(i) PROVE FALSE
    BY <2>1 DEF Schedule, LeaseExpires, LateDelivery
  <2>2. ASSUME NEW s \in Slots, NEW i \in Jobs, Claim(s, i) PROVE FALSE
    BY <2>2 DEF Claim
  <2>3. ASSUME NEW c \in Conversations, People(c) PROVE FALSE
    <3>1. CASE HumanTakeover(c)
      <4>1. job'[j] = job[j] \/ job'[j] = Closed(j, "SKIPPED")
        BY <3>1 DEF HumanTakeover
      <4>2. Closed(j, "SKIPPED").unknown = job[j].unknown
        BY DEF Closed
      <4>3. QED  BY <4>1, <4>2
    <3>2. CASE ManualPause(c) \/ Resume(c) \/ ResolveEscalation(c)
      BY <3>2 DEF ManualPause, Resume, ResolveEscalation
    <3>3. ASSUME NEW i \in Jobs, ResumeCatchUp(c, i) PROVE FALSE
      BY <3>3 DEF ResumeCatchUp
    <3>4. QED  BY <2>3, <3>1, <3>2, <3>3 DEF People
  <2>4. CASE SwitchAutoReply
    BY <2>4 DEF SwitchAutoReply
  <2>5. QED  BY <1>4, <2>1, <2>2, <2>3, <2>4 DEF OuterStep
<1>5. CASE UNCHANGED vars
  BY <1>5 DEF vars
<1>6. QED  BY <1>1, <1>2, <1>3, <1>4, <1>5, NextCases

(* pauseConversationAi never weakens a safety pause; only a resume, one of *)
(* the moves of people, leaves it.                                         *)
LEMMA ModeStep ==
  ASSUME IInv, [Next]_vars, NEW c \in Conversations,
         mode[c] = "SAFETY_PAUSED", mode'[c] # "SAFETY_PAUSED"
  PROVE  mode'[c] = "AUTO" /\ moves' = moves + 1
<1>0. mode \in [Conversations -> Modes]
  BY DEF IInv, TypeOK
<1>1. ASSUME NEW d \in Conversations, NEW m \in Modes, Pause(d, m) PROVE FALSE
  BY <1>0, <1>1 DEF Pause, Pausable
<1>2. ASSUME NEW s \in Slots,
             \/ LocalStep(s) \/ QuotaStep(s) \/ SendStep(s)
      PROVE  FALSE
  BY <1>2, TaskMovesOn DEF IInv, ownerVars
<1>3. ASSUME NEW s \in Slots, LeaveStep(s) PROVE FALSE
  BY <1>3 DEF LeaveStep, LeaseLost, Abort, FinalizeThrows, ownerVars
<1>4. ASSUME NEW s \in Slots, RowStep(s) PROVE FALSE
  <2>1. CASE PersistReply(s) \/ DeferUnknown(s) \/ Finish(s) \/ FinalizeSent(s)
    BY <2>1 DEF PersistReply, DeferUnknown, Finish, FinalizeSent, ownerVars
  <2>2. CASE GiveUpUnknown(s)
    <3>1. task[s].job \in Jobs /\ ConvOf[task[s].job] \in Conversations
      BY <2>2, ConstantsAssumption DEF GiveUpUnknown, At, IInv, LeaseDiscipline
    <3>2. QED  BY <1>1, <2>2, <3>1 DEF GiveUpUnknown, Modes
  <2>3. CASE Escalate(s)
    <3>1. task[s].job \in Jobs /\ ConvOf[task[s].job] \in Conversations
      BY <2>3, ConstantsAssumption DEF Escalate, At, IInv, LeaseDiscipline
    <3>2. QED  BY <1>1, <2>3, <3>1 DEF Escalate, Modes
  <2>4. QED  BY <1>4, <2>1, <2>2, <2>3 DEF RowStep
<1>5. CASE OuterStep
  <2>1. ASSUME NEW j \in Jobs, Schedule(j) \/ LeaseExpires(j) \/ LateDelivery(j) PROVE FALSE
    BY <2>1 DEF Schedule, LeaseExpires, LateDelivery, ownerVars
  <2>2. ASSUME NEW s \in Slots, NEW j \in Jobs, Claim(s, j) PROVE FALSE
    BY <2>2 DEF Claim, ownerVars
  <2>3. ASSUME NEW d \in Conversations, People(d)
        PROVE  mode'[c] = "AUTO" /\ moves' = moves + 1
    <3>1. CASE HumanTakeover(d) \/ ManualPause(d)
      BY <1>1, <3>1 DEF HumanTakeover, ManualPause, Modes
    <3>2. CASE Resume(d)
      BY <1>0, <3>2 DEF Resume, Resumed, Intervene
    <3>3. CASE ResolveEscalation(d)
      BY <3>3 DEF ResolveEscalation
    <3>4. ASSUME NEW j \in Jobs, ResumeCatchUp(d, j) PROVE FALSE
      BY <1>0, <3>4 DEF ResumeCatchUp, Resumed
    <3>5. QED  BY <2>3, <3>1, <3>2, <3>3, <3>4 DEF People
  <2>4. CASE SwitchAutoReply
    BY <2>4 DEF SwitchAutoReply
  <2>5. QED  BY <1>5, <2>1, <2>2, <2>3, <2>4 DEF OuterStep
<1>6. CASE UNCHANGED vars
  BY <1>6 DEF vars
<1>7. QED  BY <1>2, <1>3, <1>4, <1>5, <1>6, NextCases

----------------------------------------------------------------------------
(* Quota: while no lease ran out under a task, what was requested is paid. *)

Working(s) == task[s].pc \notin {"idle", "escalate"}

(* The conjunct of CommitmentsKept for one slot.                           *)
Keeping(s) ==
  LET j == task[s].job IN
  /\ task[s].pc \in ToSend => aiResv[j] \in Ai!Committed
  /\ task[s].pc = "send" => waResv[j] \in Wa!Committed
  /\ task[s].pc \in MayRelease /\ "fresh" \in {task[s].ai, task[s].wa} => ~Requested(j)

(* No lease that ran out under a task is forgotten.                        *)
LEMMA StallsGrow ==
  ASSUME IInv, [Next]_vars, stalls' = 0
  PROVE  stalls = 0
<1>0. stalls \in Nat
  BY DEF IInv, TypeOK
<1>1. UNCHANGED stalls \/ stalls' = stalls + 1
  <2>1. ASSUME NEW s \in Slots, TaskStep(s) \/ Abort(s) PROVE UNCHANGED stalls
    BY <2>1 DEF TaskStep, LeaseLost, CheckSettings, ReserveAi, AiQuotaDenied, BeginGeneration,
       Generated, GenerationFailed, PersistReply, GateSetting, GateConversation, FinalCheck,
       ReserveWa, WaQuotaDenied, SendAcked, SendUnknown, SendConflict, SendRefused, KeepAi,
       KeepWa, DeferUnknown, GiveUpUnknown, ReleaseWa, ReleaseAi, Finish, Escalate,
       FinalizeSent, FinalizeThrows, Abort, boundVars
  <2>2. ASSUME NEW j \in Jobs, LeaseExpires(j) PROVE UNCHANGED stalls \/ stalls' = stalls + 1
    BY <2>2 DEF LeaseExpires
  <2>3. ASSUME NEW j \in Jobs, Schedule(j) \/ LateDelivery(j) PROVE UNCHANGED stalls
    BY <2>3 DEF Schedule, LateDelivery, boundVars
  <2>4. ASSUME NEW s \in Slots, NEW j \in Jobs, Claim(s, j) PROVE UNCHANGED stalls
    BY <2>4 DEF Claim, boundVars
  <2>5. ASSUME NEW c \in Conversations, People(c) PROVE UNCHANGED stalls
    BY <2>5 DEF People, HumanTakeover, ManualPause, Resume, ResolveEscalation, ResumeCatchUp
  <2>6. CASE SwitchAutoReply  BY <2>6 DEF SwitchAutoReply
  <2>7. CASE UNCHANGED vars   BY <2>7 DEF vars
  <2>8. QED  BY <2>1, <2>2, <2>3, <2>4, <2>5, <2>6, <2>7 DEF Next
<1>2. QED  BY <1>0, <1>1

(* Two tasks at work have different jobs.                                  *)
LEMMA OneTaskPerJob ==
  ASSUME NoOutlivedLease, stalls = 0, NEW r \in Slots, NEW s \in Slots, r # s,
         Working(r), Working(s)
  PROVE  task[r].job # task[s].job
  BY DEF NoOutlivedLease, Working, Owns

(* A task at work still owns its job after a step of another one, and      *)
(* after its own.                                                          *)
LEMMA OwnStep ==
  ASSUME IInv, NoOutlivedLease, [Next]_vars
  PROVE  NoOutlivedLease'
<1> SUFFICES ASSUME stalls' = 0, NEW r \in Slots, Working(r)'
             PROVE  Owns(r)'
  BY DEF NoOutlivedLease, Working
<1>0. TypeOK /\ stalls = 0
  BY StallsGrow DEF IInv
<1>1. Working(r) => /\ Owns(r)
                    /\ task[r].job \in Jobs
  BY <1>0 DEF NoOutlivedLease, Working, IInv, LeaseDiscipline
<1>2. ASSUME NEW s \in Slots, LocalStep(s) \/ QuotaStep(s) \/ SendStep(s)
      PROVE  Owns(r)'
  BY <1>0, <1>1, <1>2, TaskMovesOn DEF Working, Owns
<1>3. ASSUME NEW s \in Slots, LeaveStep(s)
      PROVE  Owns(r)'
  <2>1. Leave(s)  BY <1>3 DEF LeaveStep, LeaseLost, Abort, FinalizeThrows
  <2>2. r # s /\ task'[r] = task[r]  BY <1>0, <2>1 DEF Leave, Working, Idle, TypeOK
  <2>3. Working(r)  BY <2>2 DEF Working
  <2>4. job'[task[r].job] = job[task[r].job]
    BY <1>1, <2>1, <2>2, <2>3 DEF Leave, Owns
  <2>5. QED  BY <1>1, <2>2, <2>3, <2>4 DEF Owns
<1>4. ASSUME NEW s \in Slots, RowStep(s)
      PROVE  Owns(r)'
  <2> DEFINE j == task[s].job
  <2>1. task[s].pc # "idle"
    BY <1>4 DEF RowStep, PersistReply, DeferUnknown, GiveUpUnknown, Finish, Escalate,
       FinalizeSent, At
  <2>2. j \in Jobs
    BY <2>1 DEF IInv, LeaseDiscipline
  <2>3. /\ \A i \in Jobs \ {j} : job'[i] = job[i]
        /\ \A q \in Slots \ {s} : task'[q] = task[q]
    BY <1>0, <1>4, <2>2 DEF RowStep, PersistReply, DeferUnknown, GiveUpUnknown, Finish, Escalate,
       FinalizeSent, Goto, TypeOK
  <2>4. CASE r # s
    <3>1. Working(r) /\ task'[r] = task[r]
      BY <2>3, <2>4 DEF Working
    <3>2. CASE Working(s)
      BY <1>0, <1>1, <2>3, <2>4, <3>1, <3>2, OneTaskPerJob DEF Owns
    <3>3. CASE ~Working(s)
      <4>1. Escalate(s)
        BY <1>4, <3>3 DEF RowStep, PersistReply, DeferUnknown, GiveUpUnknown, Finish,
           FinalizeSent, At, Working
      <4>2. QED  BY <1>1, <3>1, <4>1 DEF Escalate, Owns
    <3>4. QED  BY <3>2, <3>3
  <2>5. CASE r = s
    <3>0. task'[s].pc \notin {"idle", "escalate"}
      BY <2>5 DEF Working
    <3>1. PersistReply(s)
      <4> USE <1>0, <3>0 DEF Idle, TypeOK
      <4>1. ~DeferUnknown(s)   BY DEF DeferUnknown
      <4>2. ~GiveUpUnknown(s)  BY DEF GiveUpUnknown
      <4>3. ~Finish(s)
        <5>1. Finish(s) => task'[s].pc \in {"idle", "escalate"}  BY DEF Finish
        <5>2. QED  BY <5>1
      <4>4. ~Escalate(s)
        <5>1. Escalate(s) => task' = [task EXCEPT ![s] = Idle]  BY DEF Escalate
        <5>2. QED  BY <5>1
      <4>5. ~FinalizeSent(s)   BY DEF FinalizeSent
      <4>6. QED  BY <1>4, <4>1, <4>2, <4>3, <4>4, <4>5 DEF RowStep
    <3>2. /\ Owns(s)
          /\ task'[s].job = j
          /\ job'[j].status = job[j].status /\ job'[j].token = job[j].token
          /\ job'[j].lease = job[j].lease
      BY <1>0, <2>2, <3>1 DEF PersistReply, Goto, TypeOK, Row, Local
    <3>3. QED  BY <2>5, <3>2 DEF Owns
  <2>6. QED  BY <2>4, <2>5
<1>5. ASSUME OuterStep
      PROVE  Owns(r)'
  <2> DEFINE Safe == /\ UNCHANGED task
                     /\ \A i \in Jobs : job[i].status = "PROCESSING" /\ job[i].token \in Slots
                          => job'[i] = job[i]
  <2>0. ASSUME Safe PROVE Owns(r)'
    <3>1. Working(r)  BY <2>0 DEF Working
    <3>2. QED  BY <1>1, <2>0, <3>1 DEF Owns
  <2>1. ASSUME NEW j \in Jobs, Schedule(j) PROVE Safe
    BY <1>0, <2>1 DEF Schedule, TypeOK
  <2>2. ASSUME NEW j \in Jobs, LeaseExpires(j) PROVE Safe
    BY <1>0, <2>2 DEF LeaseExpires, TypeOK
  <2>3. ASSUME NEW j \in Jobs, LateDelivery(j) PROVE Safe
    BY <2>3 DEF LateDelivery
  <2>4. ASSUME NEW s \in Slots, NEW j \in Jobs, Claim(s, j) PROVE Owns(r)'
    <3>1. ~(job[j].status = "PROCESSING" /\ job[j].lease = "live")
      BY <2>4 DEF Claim, Claimable, Reclaimable
    <3>2. CASE r = s
      BY <1>0, <2>4, <3>2 DEF Claim, Owns, Idle, TypeOK, Row
    <3>3. CASE r # s
      <4>1. task'[r] = task[r] /\ Working(r)
        BY <1>0, <2>4, <3>3 DEF Claim, TypeOK, Working
      <4>2. task[r].job # j
        BY <1>1, <3>1, <4>1 DEF Owns
      <4>3. QED  BY <1>0, <1>1, <2>4, <4>1, <4>2 DEF Claim, Owns, TypeOK
    <3>4. QED  BY <3>2, <3>3
  <2>5. ASSUME NEW c \in Conversations, People(c) PROVE Safe
    BY <2>5 DEF People, HumanTakeover, ManualPause, Resume, ResolveEscalation, ResumeCatchUp,
       WithStatus
  <2>6. ASSUME SwitchAutoReply PROVE Safe
    BY <2>6 DEF SwitchAutoReply
  <2>7. QED  BY <1>5, <2>0, <2>1, <2>2, <2>3, <2>4, <2>5, <2>6 DEF OuterStep
<1>6. CASE UNCHANGED vars
  BY <1>1, <1>6 DEF vars, Working, Owns
<1>7. QED  BY <1>2, <1>3, <1>4, <1>5, <1>6, NextCases

(* What the steps do to the ledger and to the requests.                    *)
Ledger(j) == <<aiResv[j], waResv[j], wire[j], late[j]>>

(* A step that leaves the ledger and the requests of all jobs but that of  *)
(* the task in slot s alone: the other tasks keep what they hold.          *)
LEMMA OthersKeep ==
  ASSUME IInv, MeterInv, stalls = 0, NEW s \in Slots, Working(s),
         NEW r \in Slots \ {s}, task'[r] = task[r],
         \A i \in Jobs \ {task[s].job} : Ledger(i)' = Ledger(i)
  PROVE  Keeping(r)'
<1>1. CASE ~Working(r)
  BY <1>1 DEF Working, Keeping, ToSend, MayRelease
<1>2. CASE Working(r)
  <2>1. task[r].job \in Jobs /\ task[r].job # task[s].job
    BY <1>2, OneTaskPerJob DEF Working, IInv, LeaseDiscipline, MeterInv
  <2>2. Ledger(task[r].job)' = Ledger(task[r].job)
    BY <2>1
  <2>3. Keeping(r)
    BY DEF MeterInv, CommitmentsKept, Keeping
  <2>4. QED  BY <2>1, <2>2, <2>3 DEF Ledger, Keeping, Requested
<1>3. QED  BY <1>1, <1>2

(* A step that changes no ledger row and no request.                       *)
LEMMA QuietKeeps ==
  ASSUME IInv, MeterInv, stalls = 0, UNCHANGED <<quotaVars, wire, late>>
  PROVE  /\ \A r \in Slots : task'[r] = task[r] \/ ~Working(r)' => Keeping(r)'
         /\ DeliveryIsMetered'
<1> USE DEF quotaVars
<1>1. ASSUME NEW r \in Slots, task'[r] = task[r] PROVE Keeping(r)'
  <2>1. Keeping(r)  BY DEF MeterInv, CommitmentsKept, Keeping
  <2>2. QED  BY <1>1, <2>1 DEF Keeping, Requested
<1>2. ASSUME NEW r \in Slots, ~Working(r)' PROVE Keeping(r)'
  BY <1>2 DEF Working, Keeping, ToSend, MayRelease
<1>3. DeliveryIsMetered'
  <2>1. \A j \in Jobs : Requested(j) => Metered(j)
    BY DEF MeterInv, DeliveryIsMetered
  <2>2. \A j \in Jobs : (Requested(j)' <=> Requested(j)) /\ (Metered(j)' <=> Metered(j))
    BY DEF Requested, Metered
  <2>3. QED  BY <2>1, <2>2 DEF DeliveryIsMetered
<1>4. QED  BY <1>1, <1>2, <1>3

(* The steps of a task that touch neither: it moves on holding the same,   *)
(* and not to the send.                                                    *)
LEMMA LocalKeeps ==
  ASSUME IInv, MeterInv, stalls = 0, NEW s \in Slots, LocalStep(s)
  PROVE  (\A r \in Slots : Keeping(r)') /\ DeliveryIsMetered'
<1> DEFINE Moves == /\ task'[s].job = task[s].job
                    /\ task'[s].ai = task[s].ai /\ task'[s].wa = task[s].wa
                    /\ task'[s].pc \in ToSend => task[s].pc \in ToSend
                    /\ task'[s].pc # "send"
                    /\ task'[s].pc \in MayRelease => task[s].pc \in MayRelease
                    /\ \A r \in Slots \ {s} : task'[r] = task[r]
<1>0. TypeOK
  BY DEF IInv
<1>1. UNCHANGED <<quotaVars, wire, late>>
  BY DEF LocalStep, CheckSettings, AiQuotaDenied, BeginGeneration, Generated, GenerationFailed,
     GateSetting, GateConversation, FinalCheck, WaQuotaDenied, SendConflict, SendRefused,
     wireVars
<1>2. Moves
  <2> USE <1>0 DEF TypeOK, Local, At, Goto, Stop, ToSend, MayRelease
  <2>1. CASE CheckSettings(s)     BY <2>1 DEF CheckSettings
  <2>2. CASE AiQuotaDenied(s)     BY <2>2 DEF AiQuotaDenied
  <2>3. CASE BeginGeneration(s)   BY <2>3 DEF BeginGeneration
  <2>4. CASE Generated(s)         BY <2>4 DEF Generated
  <2>5. CASE GenerationFailed(s)  BY <2>5 DEF GenerationFailed
  <2>6. CASE GateSetting(s)       BY <2>6 DEF GateSetting
  <2>7. CASE GateConversation(s)  BY <2>7 DEF GateConversation
  <2>8. CASE FinalCheck(s)        BY <2>8 DEF FinalCheck
  <2>9. CASE WaQuotaDenied(s)     BY <2>9 DEF WaQuotaDenied
  <2>10. CASE SendConflict(s)     BY <2>10 DEF SendConflict
  <2>11. CASE SendRefused(s)      BY <2>11 DEF SendRefused
  <2>12. QED
    BY <2>1, <2>2, <2>3, <2>4, <2>5, <2>6, <2>7, <2>8, <2>9, <2>10, <2>11 DEF LocalStep
<1>3. Keeping(s)'
  <2>1. Keeping(s)  BY DEF MeterInv, CommitmentsKept, Keeping
  <2>2. QED  BY <1>1, <1>2, <2>1 DEF Keeping, Requested, quotaVars
<1>4. QED  BY <1>1, <1>2, <1>3, QuietKeeps

(* The steps on the ledger and on the wire.                                *)
LEMMA LedgerKeeps ==
  ASSUME IInv, MeterInv, stalls = 0, NEW s \in Slots, QuotaStep(s) \/ SendStep(s)
  PROVE  (\A r \in Slots : Keeping(r)') /\ DeliveryIsMetered'
<1>a. /\ TypeOK /\ Working(s) /\ task'[s].job = task[s].job
      /\ \A r \in Slots \ {s} : task'[r] = task[r]
  BY TaskMovesOn DEF IInv, Working
<1>1. PICK j \in Jobs : j = task[s].job
  BY <1>a DEF Working, IInv, LeaseDiscipline
<1>0. TypeOK /\ Working(s) /\ task'[s].job = j /\ \A r \in Slots \ {s} : task'[r] = task[r]
  BY <1>a, <1>1
<1>2. /\ aiResv \in [Jobs -> Ai!ReservationStates] /\ waResv \in [Jobs -> Ai!ReservationStates]
      /\ task[s] \in Local /\ task \in [Slots -> Local]
      /\ wire \in [Jobs -> Texts \cup {NoText}] /\ late \in [Jobs -> SUBSET Texts]
  BY <1>0, ReservationType DEF TypeOK
<1>3. /\ task[s].pc \in ToSend => aiResv[j] \in Ai!Committed
      /\ task[s].pc = "send" => waResv[j] \in Wa!Committed
      /\ task[s].pc \in MayRelease /\ "fresh" \in {task[s].ai, task[s].wa} => ~Requested(j)
      /\ Requested(j) => Metered(j)
  BY <1>1 DEF MeterInv, CommitmentsKept, DeliveryIsMetered
<1>4. \A i \in Jobs \ {j} : Ledger(i)' = Ledger(i)
  <2> DEFINE Alone == \A i \in Jobs \ {j} : /\ aiResv'[i] = aiResv[i] /\ waResv'[i] = waResv[i]
                                            /\ wire'[i] = wire[i] /\ late'[i] = late[i]
  <2> USE <1>1, <1>2 DEF wireVars, quotaVars
  <2>1. ASSUME ReserveAi(s) \/ KeepAi(s) \/ ReleaseAi(s) PROVE Alone
    BY <2>1 DEF ReserveAi, KeepAi, ReleaseAi
  <2>2. ASSUME ReserveWa(s) \/ KeepWa(s) \/ ReleaseWa(s) PROVE Alone
    BY <2>2 DEF ReserveWa, KeepWa, ReleaseWa
  <2>3. ASSUME SendAcked(s) PROVE Alone
    BY <2>3 DEF SendAcked, Delivers
  <2>4. ASSUME SendUnknown(s) PROVE Alone
    BY <2>4 DEF SendUnknown, Delivers
  <2>5. Alone
    BY <2>1, <2>2, <2>3, <2>4 DEF QuotaStep, SendStep
  <2>6. QED  BY <2>5 DEF Ledger
<1>5. Keeping(s)' /\ (Requested(j) => Metered(j))'
  <2> DEFINE Good == Keeping(s)' /\ (Requested(j)' => Metered(j)')
  <2> USE <1>0, <1>1, <1>2, <1>3
      DEF Keeping, Requested, Metered, At, ToSend, MayRelease, Ai!Committed, Wa!Committed, Local
  <2>1. ASSUME ReserveAi(s) PROVE Good
    BY <2>1 DEF ReserveAi, AfterAiQuota, GripOn, Ai!AfterReserve, wireVars
  <2>2. ASSUME ReserveWa(s) PROVE Good
    BY <2>2 DEF ReserveWa, GripOn, Wa!AfterReserve, wireVars
  <2>3. ASSUME KeepAi(s) PROVE Good
    BY <2>3 DEF KeepAi, Ai!AfterUncertain, Goto, wireVars
  <2>4. ASSUME KeepWa(s) PROVE Good
    BY <2>4 DEF KeepWa, Wa!AfterUncertain, Goto, wireVars
  <2>5. ASSUME ReleaseWa(s) PROVE Good
    BY <2>5 DEF ReleaseWa, Wa!AfterRelease, Goto, wireVars
  <2>6. ASSUME ReleaseAi(s) PROVE Good
    BY <2>6 DEF ReleaseAi, Ai!AfterRelease, Goto, wireVars
  <2>7. ASSUME SendAcked(s) PROVE Good
    BY <2>7 DEF SendAcked, Goto, Delivers, quotaVars
  <2>8. ASSUME SendUnknown(s) PROVE Good
    BY <2>8 DEF SendUnknown, Stop, Delivers, quotaVars
  <2>9. QED
    BY <2>1, <2>2, <2>3, <2>4, <2>5, <2>6, <2>7, <2>8 DEF QuotaStep, SendStep
<1>6. DeliveryIsMetered'
  <2>1. \A i \in Jobs \ {j} : (Requested(i) => Metered(i))'
    <3>1. \A i \in Jobs : Requested(i) => Metered(i)
      BY DEF MeterInv, DeliveryIsMetered
    <3>2. \A i \in Jobs \ {j} : /\ aiResv'[i] = aiResv[i] /\ waResv'[i] = waResv[i]
                                /\ wire'[i] = wire[i] /\ late'[i] = late[i]
      BY <1>4 DEF Ledger
    <3>3. QED  BY <3>1, <3>2 DEF Requested, Metered
  <2>2. QED  BY <1>5, <2>1 DEF DeliveryIsMetered
<1>7. \A r \in Slots \ {s} : Keeping(r)'
  BY <1>0, <1>1, <1>4, OthersKeep
<1>8. QED  BY <1>5, <1>6, <1>7

(* The steps that end a task or write its row.                             *)
LEMMA EndingKeeps ==
  ASSUME IInv, MeterInv, stalls = 0, NEW s \in Slots, LeaveStep(s) \/ RowStep(s)
  PROVE  (\A r \in Slots : Keeping(r)') /\ DeliveryIsMetered'
<1>0. TypeOK
  BY DEF IInv
<1>1. UNCHANGED <<wire, late>> /\ \A r \in Slots \ {s} : task'[r] = task[r]
  BY TaskStepFrame
<1>2. CASE FinalizeSent(s)
  <2>0. Working(s) /\ task[s].job \in Jobs
    BY <1>2 DEF FinalizeSent, At, Working, IInv, LeaseDiscipline
  <2>1. PICK j \in Jobs : j = task[s].job
    BY <2>0
  <2>2. \A i \in Jobs \ {j} : Ledger(i)' = Ledger(i)
    BY <1>0, <1>1, <1>2, <2>1 DEF FinalizeSent, Ledger, TypeOK
  <2>3. Metered(j)'
    BY <1>0, <1>2, <2>1 DEF FinalizeSent, Metered, TypeOK, Ai!Committed, Wa!Committed
  <2>4. DeliveryIsMetered'
    <3>1. \A i \in Jobs \ {j} : (Requested(i) => Metered(i))'
      <4>1. \A i \in Jobs : Requested(i) => Metered(i)
        BY DEF MeterInv, DeliveryIsMetered
      <4>2. \A i \in Jobs \ {j} : /\ aiResv'[i] = aiResv[i] /\ waResv'[i] = waResv[i]
                                  /\ wire'[i] = wire[i] /\ late'[i] = late[i]
        BY <2>2 DEF Ledger
      <4>3. QED  BY <4>1, <4>2 DEF Requested, Metered
    <3>2. QED  BY <2>3, <3>1 DEF DeliveryIsMetered
  <2>5. Keeping(s)'
    BY <1>0, <1>2 DEF FinalizeSent, Keeping, Idle, ToSend, MayRelease, TypeOK
  <2>6. QED  BY <1>1, <2>0, <2>1, <2>2, <2>4, <2>5, OthersKeep
<1>3. CASE ~FinalizeSent(s)
  <2>1. UNCHANGED <<quotaVars, wire, late>>
    BY <1>1, <1>3 DEF LeaveStep, LeaseLost, Abort, FinalizeThrows, RowStep, PersistReply,
       DeferUnknown, GiveUpUnknown, Finish, Escalate
  <2>2. Keeping(s)'
    <3>1. CASE PersistReply(s)
      <4>1. Keeping(s)  BY DEF MeterInv, CommitmentsKept, Keeping
      <4>2. /\ task[s].pc = "persist" /\ task'[s].pc = "gateSetting"
            /\ task'[s].job = task[s].job
            /\ task'[s].ai = task[s].ai /\ task'[s].wa = task[s].wa
        BY <1>0, <3>1 DEF PersistReply, At, Goto, TypeOK, Local
      <4>3. QED
        BY <2>1, <4>1, <4>2 DEF Keeping, Requested, ToSend, MayRelease, quotaVars
    <3>2. CASE ~PersistReply(s)
      <4>1. task'[s].pc \in {"idle", "escalate"}
        <5> USE <1>0 DEF TypeOK, Idle
        <5>1. ASSUME LeaveStep(s) PROVE task'[s].pc = "idle"
          BY <5>1 DEF LeaveStep, LeaseLost, Abort, FinalizeThrows, Leave
        <5>2. ASSUME DeferUnknown(s) PROVE task'[s].pc = "idle"  BY <5>2 DEF DeferUnknown
        <5>3. ASSUME GiveUpUnknown(s) PROVE task'[s].pc = "idle"  BY <5>3 DEF GiveUpUnknown
        <5>4. ASSUME Finish(s) PROVE task'[s].pc \in {"idle", "escalate"}  BY <5>4 DEF Finish
        <5>5. ASSUME Escalate(s) PROVE task'[s].pc = "idle"  BY <5>5 DEF Escalate
        <5>6. QED  BY <1>3, <3>2, <5>1, <5>2, <5>3, <5>4, <5>5 DEF RowStep
      <4>2. QED  BY <4>1 DEF Keeping, ToSend, MayRelease
    <3>3. QED  BY <3>1, <3>2
  <2>3. QED  BY <1>1, <2>1, <2>2, QuietKeeps
<1>4. QED  BY <1>2, <1>3

(* The steps outside the tasks: a late execution delivers what was         *)
(* requested, a claim starts holding nothing.                              *)
LEMMA OuterKeeps ==
  ASSUME IInv, MeterInv, stalls = 0, OuterStep
  PROVE  (\A r \in Slots : Keeping(r)') /\ DeliveryIsMetered'
<1>0. TypeOK
  BY DEF IInv
<1>1. UNCHANGED quotaVars
  BY DEF OuterStep, Schedule, LeaseExpires, LateDelivery, Claim, People, HumanTakeover,
     ManualPause, Resume, ResolveEscalation, ResumeCatchUp, SwitchAutoReply
<1>2. ASSUME NEW j \in Jobs, LateDelivery(j)
      PROVE  (\A r \in Slots : Keeping(r)') /\ DeliveryIsMetered'
  <2>1. UNCHANGED <<task, late>> /\ late[j] # {}
    BY <1>2 DEF LateDelivery
  <2>2. \A i \in Jobs : Requested(i)' => Requested(i)
    BY <1>0, <1>2, <2>1 DEF LateDelivery, Delivers, Requested, TypeOK
  <2>3. \A r \in Slots : task[r].pc \in MayRelease => task[r].job \in Jobs
    BY DEF IInv, LeaseDiscipline, MayRelease, ToSend
  <2>4. \A r \in Slots : Keeping(r)'
    BY <1>1, <2>1, <2>2, <2>3 DEF Keeping, MeterInv, CommitmentsKept, quotaVars
  <2>5. QED  BY <1>1, <2>2, <2>4 DEF DeliveryIsMetered, MeterInv, Metered, quotaVars
<1>3. ASSUME NEW s \in Slots, NEW j \in Jobs, Claim(s, j)
      PROVE  (\A r \in Slots : Keeping(r)') /\ DeliveryIsMetered'
  <2>1. UNCHANGED <<wire, late>> /\ \A r \in Slots \ {s} : task'[r] = task[r]
    BY <1>0, <1>3 DEF Claim, TypeOK, wireVars
  <2>2. task'[s].pc = "settings" /\ task'[s].ai = "none" /\ task'[s].wa = "none"
    BY <1>0, <1>3 DEF Claim, TypeOK, Idle
  <2>3. Keeping(s)'
    BY <2>2 DEF Keeping, ToSend
  <2>4. QED  BY <1>1, <2>1, <2>3, QuietKeeps
<1>4. CASE (~\E j \in Jobs : LateDelivery(j)) /\ ~\E s \in Slots, j \in Jobs : Claim(s, j)
  <2>1. UNCHANGED <<task, wire, late>>
    BY <1>4, OuterStepFrame
  <2>2. QED  BY <1>1, <2>1, QuietKeeps
<1>5. QED  BY <1>2, <1>3, <1>4

(* The metering invariant is preserved.                                    *)
LEMMA MeterStep ==
  ASSUME IInv, MeterInv, [Next]_vars
  PROVE  MeterInv'
<1>1. NoOutlivedLease'
  BY OwnStep DEF MeterInv
<1>2. ASSUME stalls = 0 PROVE (\A r \in Slots : Keeping(r)') /\ DeliveryIsMetered'
  <2>1. CASE UNCHANGED vars
    BY <1>2, <2>1, QuietKeeps DEF vars, quotaVars
  <2>2. CASE Next
    BY <1>2, <2>2, NextCases, LocalKeeps, LedgerKeeps, EndingKeeps, OuterKeeps
  <2>3. QED  BY <2>1, <2>2
<1>3. CommitmentsKept' /\ DeliveryIsMetered'
  <2>1. CASE stalls' = 0
    BY <1>2, <2>1, StallsGrow DEF CommitmentsKept, Keeping
  <2>2. CASE stalls' # 0
    BY <2>2 DEF CommitmentsKept, DeliveryIsMetered
  <2>3. QED  BY <2>1, <2>2
<1>4. QED  BY <1>1, <1>3 DEF MeterInv

----------------------------------------------------------------------------
(* The pipeline implements ReplyDelivery.                                  *)

OutcomeOf(st) == CASE st = "SENT" -> "answered"
                 [] st \in {"SKIPPED", "FAILED"} -> "closed"
                 [] OTHER -> "open"
Chosen  == [j \in Jobs |-> job[j].text]
Outcome == [j \in Jobs |-> OutcomeOf(job[j].status)]

(* What a step may do to the promise.                                      *)
Keeps     == UNCHANGED <<Chosen, wire, Outcome>>
Chooses   == \E j \in Jobs, t \in Texts :
               /\ Outcome[j] = "open" /\ Chosen[j] = NoText
               /\ Chosen' = [Chosen EXCEPT ![j] = t]
               /\ UNCHANGED <<wire, Outcome>>
DeliversIt == \E j \in Jobs :
               /\ Chosen[j] # NoText /\ wire[j] = NoText
               /\ wire' = [wire EXCEPT ![j] = Chosen[j]]
               /\ UNCHANGED <<Chosen, Outcome>>
Answers   == \E j \in Jobs :
               /\ Outcome[j] = "open" /\ wire[j] # NoText
               /\ Outcome' = [Outcome EXCEPT ![j] = "answered"]
               /\ UNCHANGED <<Chosen, wire>>
Closes    == \E j \in Jobs :
               /\ Outcome[j] = "open"
               /\ Outcome' = [Outcome EXCEPT ![j] = "closed"]
               /\ UNCHANGED <<Chosen, wire>>
Promised == Keeps \/ Chooses \/ DeliversIt \/ Answers \/ Closes

(* The rows alone decide what was chosen and how the job ended.            *)
LEMMA RowsKeep ==
  ASSUME \A j \in Jobs : job'[j].text = job[j].text
  PROVE  /\ Chosen' = Chosen
         /\ (\A j \in Jobs : OutcomeOf(job'[j].status) = OutcomeOf(job[j].status))
              => Outcome' = Outcome
         /\ \A i \in Jobs, o \in {"answered", "closed"} :
              /\ OutcomeOf(job'[i].status) = o
              /\ \A j \in Jobs \ {i} : OutcomeOf(job'[j].status) = OutcomeOf(job[j].status)
              => Outcome' = [Outcome EXCEPT ![i] = o]
<1>1. Chosen' = Chosen
  BY DEF Chosen
<1>2. /\ Outcome = [j \in Jobs |-> OutcomeOf(job[j].status)]
      /\ Outcome' = [j \in Jobs |-> OutcomeOf(job'[j].status)]
  BY DEF Outcome
<1>3. QED  BY <1>1, <1>2

(* The fenced writes of a task.                                            *)
LEMMA RowStepPromised ==
  ASSUME IInv, NEW s \in Slots, RowStep(s)
  PROVE  Promised
<1> DEFINE j == task[s].job
<1>0. /\ TypeOK /\ UNCHANGED wire
      /\ j \in Jobs /\ job[j] \in Row
  BY DEF IInv, TypeOK, LeaseDiscipline, RowStep, PersistReply, DeferUnknown, GiveUpUnknown,
     Finish, Escalate, FinalizeSent, At, wireVars
<1>1. CASE PersistReply(s)
  <2>1. /\ job[j].text = NoText /\ task[s].text \in Texts
        /\ job[j].status = "PROCESSING"
    BY <1>1 DEF PersistReply, At, Owns, IInv, SnapshotIsCurrent
  <2>2. job' = [job EXCEPT ![j].text = task[s].text]
    BY <1>1, <2>1 DEF PersistReply
  <2>3. /\ \A i \in Jobs \ {j} : job'[i] = job[i]
        /\ job'[j].text = task[s].text /\ job'[j].status = job[j].status
    BY <1>0, <2>2 DEF TypeOK, Row
  <2>4. Outcome' = Outcome /\ Outcome[j] = "open"
    <3>1. \A i \in Jobs : job'[i].status = job[i].status
      BY <2>3
    <3>2. OutcomeOf("PROCESSING") = "open"
      BY DEF OutcomeOf
    <3>3. QED  BY <1>0, <2>1, <3>1, <3>2 DEF Outcome
  <2>5. Chosen' = [Chosen EXCEPT ![j] = task[s].text] /\ Chosen[j] = NoText
    BY <1>0, <2>1, <2>3 DEF Chosen
  <2>6. QED  BY <1>0, <2>1, <2>4, <2>5 DEF Promised, Chooses
<1>2. CASE DeferUnknown(s) \/ Escalate(s)
  <2>1. \A i \in Jobs : job'[i].text = job[i].text /\ job'[i].status = job[i].status
    <3>1. CASE DeferUnknown(s)
      BY <1>0, <3>1 DEF DeferUnknown, TypeOK, Row
    <3>2. CASE Escalate(s)
      BY <3>2 DEF Escalate
    <3>3. QED  BY <1>2, <3>1, <3>2
  <2>2. QED  BY <1>0, <2>1, RowsKeep DEF Promised, Keeps
<1>3. CASE GiveUpUnknown(s) \/ Finish(s) \/ FinalizeSent(s)
  <2>1. job[j].status = "PROCESSING" /\ Outcome[j] = "open"
    <3>1. job[j].status = "PROCESSING"
      BY <1>3 DEF GiveUpUnknown, Finish, FinalizeSent, Owns
    <3>2. QED  BY <1>0, <3>1 DEF Outcome, OutcomeOf
  <2>2. PICK st \in {"SKIPPED", "FAILED", "SENT"} :
          /\ job'[j].status = st /\ job'[j].text = job[j].text
          /\ st = "SENT" => wire[j] # NoText
          /\ \A i \in Jobs \ {j} : job'[i] = job[i]
    <3>1. CASE GiveUpUnknown(s)
      BY <1>0, <3>1 DEF GiveUpUnknown, Closed, TypeOK, Row
    <3>2. CASE Finish(s)
      <4>1. task[s].fin \in {"SKIPPED", "FAILED"}
        BY <3>2 DEF Finish, At, IInv, ClosingIsDecided, TypeOK, Local
      <4>2. QED  BY <1>0, <3>2, <4>1 DEF Finish, Closed, TypeOK, Row
    <3>3. CASE FinalizeSent(s)
      <4>1. wire[j] # NoText
        BY <3>3 DEF FinalizeSent, At, IInv, TextIsDurable
      <4>2. QED  BY <1>0, <3>3, <4>1 DEF FinalizeSent, Closed, TypeOK, Row
    <3>4. QED  BY <1>3, <3>1, <3>2, <3>3
  <2>3. \A i \in Jobs : job'[i].text = job[i].text
    BY <2>2
  <2>4. CASE st = "SENT"
    <3>1. OutcomeOf(job'[j].status) = "answered"
      BY <2>2, <2>4 DEF OutcomeOf
    <3>2. Chosen' = Chosen /\ Outcome' = [Outcome EXCEPT ![j] = "answered"]
      BY <1>0, <2>2, <2>3, <3>1, RowsKeep
    <3>3. QED  BY <1>0, <2>1, <2>2, <2>4, <3>2 DEF Promised, Answers
  <2>5. CASE st # "SENT"
    <3>1. OutcomeOf(job'[j].status) = "closed"
      BY <2>2, <2>5 DEF OutcomeOf
    <3>2. Chosen' = Chosen /\ Outcome' = [Outcome EXCEPT ![j] = "closed"]
      BY <1>0, <2>2, <2>3, <3>1, RowsKeep
    <3>3. QED  BY <1>0, <2>1, <3>2 DEF Promised, Closes
  <2>6. QED  BY <2>4, <2>5
<1>4. QED  BY <1>1, <1>2, <1>3 DEF RowStep

(* The runtime, at once or late: what it delivers is the chosen text.      *)
LEMMA WirePromised ==
  ASSUME IInv, UNCHANGED job, NEW j \in Jobs,
         \/ \E s \in Slots : SendStep(s) /\ task[s].job = j
         \/ LateDelivery(j)
  PROVE  Promised
<1>0. wire \in [Jobs -> Texts \cup {NoText}] /\ Chosen[j] = job[j].text
  BY DEF IInv, TypeOK, Chosen
<1>1. UNCHANGED <<Chosen, Outcome>>
  BY DEF Chosen, Outcome
<1>2. \/ wire' = wire
      \/ /\ job[j].text # NoText /\ wire' = [wire EXCEPT ![j] = job[j].text]
         /\ wire[j] \in {NoText, job[j].text}
  <2>1. ASSUME NEW s \in Slots, SendStep(s), task[s].job = j
        PROVE  \/ wire' = wire
               \/ /\ job[j].text # NoText /\ wire' = [wire EXCEPT ![j] = job[j].text]
                  /\ wire[j] \in {NoText, job[j].text}
    <3>1. task[s].text = job[j].text /\ job[j].text # NoText
      BY <2>1 DEF SendStep, SendAcked, SendUnknown, At, IInv, TextIsDurable, WithText
    <3>2. QED  BY <2>1, <3>1 DEF SendStep, SendAcked, SendUnknown, MayDeliver, Delivers
  <2>2. ASSUME LateDelivery(j)
        PROVE  /\ job[j].text # NoText /\ wire' = [wire EXCEPT ![j] = job[j].text]
               /\ wire[j] = NoText
    <3>1. PICK t \in late[j] : wire' = [wire EXCEPT ![j] = t]
      BY <2>2 DEF LateDelivery, Delivers
    <3>2. t \in Texts /\ t # NoText
      BY <3>1, ConstantsAssumption DEF IInv, TypeOK
    <3>3. t = job[j].text
      BY <3>1, <3>2 DEF IInv, WireIsDurableText
    <3>4. QED  BY <2>2, <3>1, <3>2, <3>3 DEF LateDelivery
  <2>3. QED  BY <2>1, <2>2
<1>3. CASE wire' = wire
  BY <1>1, <1>3 DEF Promised, Keeps
<1>4. CASE /\ job[j].text # NoText /\ wire' = [wire EXCEPT ![j] = job[j].text]
           /\ wire[j] = job[j].text
  <2>1. wire' = wire
    BY <1>0, <1>4
  <2>2. QED  BY <1>1, <2>1 DEF Promised, Keeps
<1>5. CASE /\ job[j].text # NoText /\ wire' = [wire EXCEPT ![j] = job[j].text]
           /\ wire[j] = NoText
  BY <1>0, <1>1, <1>5 DEF Promised, DeliversIt
<1>6. QED  BY <1>2, <1>3, <1>4, <1>5

(* What is retired from outside is the one pending job of a conversation.  *)
LEMMA OuterStepPromised ==
  ASSUME IInv, OuterStep
  PROVE  Promised
<1> DEFINE Same == \A i \in Jobs : OutcomeOf(job'[i].status) = OutcomeOf(job[i].status)
<1>0. TypeOK /\ \A i \in Jobs : job'[i].text = job[i].text
  BY OuterStepFrame DEF IInv
<1>1. ASSUME Same, UNCHANGED wire PROVE Promised
  BY <1>0, <1>1, RowsKeep DEF Promised, Keeps
<1>2. /\ OutcomeOf("NONE") = "open" /\ OutcomeOf("PENDING") = "open"
      /\ OutcomeOf("PROCESSING") = "open" /\ OutcomeOf("SKIPPED") = "closed"
  BY DEF OutcomeOf
<1>3. ASSUME NEW j \in Jobs, Schedule(j) PROVE Promised
  <2>1. \A i \in Jobs : \/ job'[i].status = job[i].status
                       \/ (job[i].status = "NONE" /\ job'[i].status = "PENDING")
    BY <1>0, <1>3 DEF Schedule, TypeOK, Row
  <2>2. QED  BY <1>1, <1>2, <1>3, <2>1 DEF Schedule, wireVars
<1>4. ASSUME NEW j \in Jobs, LeaseExpires(j) PROVE Promised
  <2>1. \A i \in Jobs : job'[i].status = job[i].status
    BY <1>0, <1>4 DEF LeaseExpires, TypeOK, Row
  <2>2. QED  BY <1>1, <1>4, <2>1 DEF LeaseExpires, wireVars
<1>5. ASSUME NEW j \in Jobs, LateDelivery(j) PROVE Promised
  BY <1>5, WirePromised DEF LateDelivery
<1>6. ASSUME NEW s \in Slots, NEW j \in Jobs, Claim(s, j) PROVE Promised
  <2>1. \A i \in Jobs : \/ job'[i].status = job[i].status
                       \/ /\ job[i].status \in {"PENDING", "PROCESSING"}
                          /\ job'[i].status = "PROCESSING"
    BY <1>0, <1>6 DEF Claim, Claimable, Reclaimable, TypeOK, Row
  <2>2. QED  BY <1>1, <1>2, <1>6, <2>1 DEF Claim, wireVars
<1>7. ASSUME NEW c \in Conversations, UNCHANGED wire,
             \A i \in Jobs : \/ job'[i].status = job[i].status
                            \/ (job[i].status = "NONE" /\ job'[i].status = "PENDING")
                            \/ (i \in WithStatus(c, "PENDING") /\ job'[i].status = "SKIPPED")
      PROVE  Promised
  <2>1. CASE \A i \in Jobs : OutcomeOf(job'[i].status) = OutcomeOf(job[i].status)
    BY <1>1, <1>7, <2>1
  <2>2. ASSUME NEW i \in Jobs, OutcomeOf(job'[i].status) # OutcomeOf(job[i].status)
        PROVE  Promised
    <3>1. i \in WithStatus(c, "PENDING") /\ job'[i].status = "SKIPPED"
      BY <1>2, <1>7, <2>2
    <3>2. job[i].status = "PENDING"
      BY <3>1 DEF WithStatus
    <3>3. \A k \in Jobs \ {i} : k \notin WithStatus(c, "PENDING")
      BY <3>1 DEF IInv, OneJobAtATime
    <3>4. \A k \in Jobs \ {i} : OutcomeOf(job'[k].status) = OutcomeOf(job[k].status)
      BY <1>2, <1>7, <3>3
    <3>5. OutcomeOf(job'[i].status) = "closed"
      BY <1>2, <3>1
    <3>6. Chosen' = Chosen /\ Outcome' = [Outcome EXCEPT ![i] = "closed"]
      BY <1>0, <3>4, <3>5, RowsKeep
    <3>7. Outcome[i] = "open"
      BY <1>2, <3>2 DEF Outcome
    <3>8. QED  BY <1>7, <3>6, <3>7 DEF Promised, Closes
  <2>3. QED  BY <2>1, <2>2
<1>8. ASSUME NEW c \in Conversations, People(c) PROVE Promised
  <2>1. CASE HumanTakeover(c)
    <3>1. \A i \in Jobs : \/ job'[i] = job[i]
                         \/ (i \in WithStatus(c, "PENDING") /\ job'[i] = Closed(i, "SKIPPED"))
      BY <2>1 DEF HumanTakeover
    <3>2. \A i \in Jobs : Closed(i, "SKIPPED").status = "SKIPPED"
      BY <1>0 DEF Closed, TypeOK, Row
    <3>3. UNCHANGED wire
      BY <2>1 DEF HumanTakeover, wireVars
    <3>4. \A i \in Jobs : \/ job'[i].status = job[i].status
                         \/ (job[i].status = "NONE" /\ job'[i].status = "PENDING")
                         \/ (i \in WithStatus(c, "PENDING") /\ job'[i].status = "SKIPPED")
      BY <3>1, <3>2
    <3>5. QED  BY <1>7, <3>3, <3>4
  <2>2. CASE ManualPause(c) \/ Resume(c) \/ ResolveEscalation(c)
    <3>1. UNCHANGED <<job, wire>>
      BY <2>2 DEF ManualPause, Resume, ResolveEscalation, wireVars
    <3>2. QED  BY <1>1, <3>1
  <2>3. ASSUME NEW j \in Jobs, ResumeCatchUp(c, j) PROVE Promised
    <3>1. UNCHANGED wire
      BY <2>3 DEF ResumeCatchUp, wireVars
    <3>2. \A i \in Jobs : \/ job'[i].status = job[i].status
                         \/ (job[i].status = "NONE" /\ job'[i].status = "PENDING")
                         \/ (i \in WithStatus(c, "PENDING") /\ job'[i].status = "SKIPPED")
      BY <1>0, <2>3 DEF ResumeCatchUp, TypeOK, Row
    <3>3. QED  BY <1>7, <3>1, <3>2
  <2>4. QED  BY <1>8, <2>1, <2>2, <2>3 DEF People
<1>9. CASE SwitchAutoReply
  <2>1. UNCHANGED <<job, wire>>
    BY <1>9 DEF SwitchAutoReply, wireVars
  <2>2. QED  BY <1>1, <2>1
<1>10. QED  BY <1>3, <1>4, <1>5, <1>6, <1>8, <1>9 DEF OuterStep

LEMMA StepPromised ==
  ASSUME IInv, [Next]_vars
  PROVE  Promised
<1>1. ASSUME NEW s \in Slots, LocalStep(s) \/ QuotaStep(s) PROVE Promised
  <2>1. UNCHANGED <<job, wire>>
    BY <1>1, TaskMovesOn, TaskStepFrame DEF IInv
  <2>2. QED  BY <2>1 DEF Promised, Keeps, Chosen, Outcome
<1>2. ASSUME NEW s \in Slots, SendStep(s) PROVE Promised
  <2>1. UNCHANGED job /\ task[s].job \in Jobs
    BY <1>2, TaskMovesOn DEF IInv, LeaseDiscipline
  <2>2. QED  BY <1>2, <2>1, WirePromised
<1>3. ASSUME NEW s \in Slots, LeaveStep(s) PROVE Promised
  <2>1. Leave(s) /\ UNCHANGED wire
    BY <1>3 DEF LeaveStep, LeaseLost, Abort, FinalizeThrows, wireVars
  <2>2. \A j \in Jobs : job'[j].text = job[j].text /\ job'[j].status = job[j].status
    BY <2>1 DEF Leave, IInv, TypeOK, Row
  <2>3. QED  BY <2>1, <2>2, RowsKeep DEF Promised, Keeps
<1>4. CASE UNCHANGED vars
  BY <1>4 DEF vars, Promised, Keeps, Chosen, Outcome
<1>5. QED  BY <1>1, <1>2, <1>3, <1>4, NextCases, RowStepPromised, OuterStepPromised

----------------------------------------------------------------------------
(* The theorems.                                                           *)

LEMMA InvInit == Init => IInv
<1> SUFFICES ASSUME Init PROVE IInv
  OBVIOUS
<1> USE ConstantsAssumption DEF Init, Idle, NoRow
<1>1. TypeOK
  <2>1. NoRow \in Row
    BY DEF Row, Statuses
  <2>2. aiResv \in [Jobs -> Ai!ReservationStates] /\ waResv \in [Jobs -> Wa!ReservationStates]
    BY DEF Ai!Init, Wa!Init, Ai!ReservationStates, Wa!ReservationStates
  <2>3. QED  BY <2>1, <2>2, IdleType DEF TypeOK, Modes
<1>2. LeaseDiscipline
  BY DEF LeaseDiscipline
<1>3. ClosingIsDecided /\ SnapshotIsCurrent /\ TextIsDurable
  BY DEF ClosingIsDecided, SnapshotIsCurrent, TextIsDurable, WithText
<1>4. WireIsDurableText
  BY DEF WireIsDurableText
<1>5. SentIsBacked
  BY DEF SentIsBacked, Ai!Init, Wa!Init
<1>6. OneJobAtATime
  <2>1. \A j \in Jobs : job[j].status = "NONE"
    OBVIOUS
  <2>2. QED  BY <2>1 DEF OneJobAtATime, WithStatus, JobsOf
<1>7. QED  BY <1>1, <1>2, <1>3, <1>4, <1>5, <1>6 DEF IInv

(* The inductive invariant holds in every reachable state of every         *)
(* instance of the pipeline.                                               *)
THEOREM Invariance == Spec => []IInv
<1>1. IInv /\ [Next]_vars => IInv'
  BY TypeStep, LeaseStep, FactsStep, WireStep, SentStep, OneJobStep DEF IInv
<1>2. QED  BY InvInit, <1>1, PTL DEF Spec

(* The variables keep their types.                                         *)
THEOREM TypeCorrect == Spec => []TypeOK
<1>1. IInv => TypeOK  BY DEF IInv
<1>2. QED  BY Invariance, <1>1, PTL

(* However many workers, stalls, crashes, retries and late executions      *)
(* there are, the customer receives no text for a job but the durable one. *)
THEOREM OneTextPerJob == Spec => []WireIsDurableText
<1>1. IInv => WireIsDurableText  BY DEF IInv
<1>2. QED  BY Invariance, <1>1, PTL

(* SENT, the message row and both consumed reservations come together, and *)
(* only for a delivered text.                                              *)
THEOREM SentIsMetered == Spec => []SentIsBacked
<1>1. IInv => SentIsBacked  BY DEF IInv
<1>2. QED  BY Invariance, <1>1, PTL

(* A conversation never has two jobs waiting or two being processed.       *)
THEOREM OneJobPerConversation == Spec => []OneJobAtATime
<1>1. IInv => OneJobAtATime  BY DEF IInv
<1>2. QED  BY Invariance, <1>1, PTL

(* A closed job never changes again, whoever still runs a task on it.      *)
THEOREM ClosedForGood == Spec => ClosedIsFinal
<1>1. IInv /\ [Next]_vars =>
        [\A j \in Jobs : job[j].status \in Terminal => job'[j] = job[j]]_vars
  BY ClosedStep
<1>2. QED  BY Invariance, <1>1, PTL DEF Spec, ClosedIsFinal

(* The third ambiguous outcome closes the job as FAILED and pauses the     *)
(* conversation in the same step; before, the job stays in progress.       *)
THEOREM UnknownsAreBounded == Spec => UnknownIsBounded
<1>1. IInv /\ [Next]_vars =>
        [\A j \in Jobs :
           job'[j].unknown # job[j].unknown =>
             /\ job'[j].unknown = job[j].unknown + 1
             /\ job'[j].unknown = MaxUnknown =>
                  job'[j].status = "FAILED" /\ mode'[ConvOf[j]] = "SAFETY_PAUSED"
             /\ job'[j].unknown < MaxUnknown => job'[j].status = "PROCESSING"]_vars
  BY UnknownStep
<1>2. QED  BY Invariance, <1>1, PTL DEF Spec, UnknownIsBounded

(* A safety pause ends only when a person resumes the conversation.        *)
THEOREM SafetyPausesHold == Spec => SafetyPauseHolds
<1>1. IInv /\ [Next]_vars =>
        [\A c \in Conversations :
           mode[c] = "SAFETY_PAUSED" /\ mode'[c] # "SAFETY_PAUSED" =>
             mode'[c] = "AUTO" /\ moves' = moves + 1]_vars
  BY ModeStep
<1>2. QED  BY Invariance, <1>1, PTL DEF Spec, SafetyPauseHolds

(* Without a lease lost under a running task, no reply is delivered, or    *)
(* still under way, whose AI and WhatsApp units are not committed, however *)
(* many attempts crash, time out, are refused or are called off.           *)
THEOREM DeliveriesAreMetered == Spec => []DeliveryIsMetered
<1>1. Init => MeterInv
  BY DEF Init, MeterInv, NoOutlivedLease, CommitmentsKept, DeliveryIsMetered, Requested, Idle,
     ToSend, MayRelease
<1>2. IInv /\ MeterInv /\ [Next]_vars => MeterInv'
  BY MeterStep
<1>3. MeterInv => DeliveryIsMetered
  BY DEF MeterInv
<1>4. QED  BY <1>1, <1>2, <1>3, Invariance, PTL DEF Spec

(* The pipeline of leases, retries, crashes and takeovers implements the   *)
(* delivery of one reply per job: chosen once, delivered once, closed once *)
(* and called answered only after it was delivered.                        *)
THEOREM DeliveryImplemented == Spec => ImplementsDelivery
<1>1. Init => Delivery!Init
  <2> SUFFICES ASSUME Init PROVE Delivery!Init
    OBVIOUS
  <2>1. \A j \in Jobs : job[j].text = NoText /\ job[j].status = "NONE"
    BY DEF Init, NoRow
  <2>2. wire = [j \in Jobs |-> NoText]
    BY DEF Init
  <2>3. QED  BY <2>1, <2>2 DEF Delivery!Init
<1>2. IInv /\ [Next]_vars => [Delivery!Next]_(Delivery!vars)
  <2> SUFFICES ASSUME IInv, [Next]_vars PROVE [Delivery!Next]_(Delivery!vars)
    OBVIOUS
  <2>1. Promised
    BY StepPromised
  <2>2. CASE Keeps
    BY <2>2 DEF Keeps, Chosen, Outcome, OutcomeOf, Delivery!vars
  <2>3. CASE Chooses
    BY <2>3 DEF Chooses, Chosen, Outcome, OutcomeOf, Delivery!Next, Delivery!Choose
  <2>4. CASE DeliversIt
    BY <2>4 DEF DeliversIt, Chosen, Outcome, OutcomeOf, Delivery!Next, Delivery!Deliver
  <2>5. CASE Answers
    BY <2>5 DEF Answers, Chosen, Outcome, OutcomeOf, Delivery!Next, Delivery!Answer
  <2>6. CASE Closes
    BY <2>6 DEF Closes, Chosen, Outcome, OutcomeOf, Delivery!Next, Delivery!Close
  <2>7. QED  BY <2>1, <2>2, <2>3, <2>4, <2>5, <2>6 DEF Promised
<1>3. QED  BY <1>1, <1>2, Invariance, PTL DEF Spec, ImplementsDelivery, Delivery!Spec
=============================================================================
