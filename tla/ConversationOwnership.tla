----------------------- MODULE ConversationOwnership -----------------------
(***************************************************************************)
(* Who answers one conversation, the assistant or a person, decided by     *)
(* times: the row of TblConversationAiState, the conversation's own        *)
(* times, its AI jobs and its escalation, and everything that writes them: *)
(* the inbound webhook, replies from the phone that are observed later,    *)
(* replies from the inbox, pauses, hand-backs with and without catch-up,   *)
(* and the worker's sweep of quiet conversations.                          *)
(*                                                                         *)
(* Time is logical: every act of a person that the code dates takes the    *)
(* next value of the clock, so that later acts have later dates; what the  *)
(* assistant does happens at the present, and Tick lets time pass.         *)
(* The assistant is switched on, the loop guard never objects, messages    *)
(* are texts of the last 24 hours, and no Pulse task is open (it could     *)
(* only put a sweep off).  AiReplyPipeline models what a job does; here it *)
(* is at most one pending and one active job, gated and then sent.         *)
(***************************************************************************)
EXTENDS Naturals, FiniteSets

CONSTANTS
  NumMsgs,          \* messages of the customer, numbered as written
  Phone,            \* replies a person gives on the phone
  Kinds,            \* what a message says: "question", "agent", "solved"
  Quiet,            \* HUMAN_OWNERSHIP_QUIET_MINUTES, in ticks
  LastAct,          \* people act up to this time
  LastTick,         \* the clock stops here
  MaxOwner,         \* bound on what operators do
  Reorder,          \* messages may be posted in another order than written
  NoJob

ASSUME OwnershipAssumption ==
  NumMsgs \in Nat /\ Quiet \in Nat /\ LastAct \in Nat /\ LastTick \in Nat /\ MaxOwner \in Nat

VARIABLES
  now,              \* the clock
  state,            \* the row of TblConversationAiState
  thread,           \* LastInboundAtUtc, LastMessageAtUtc, newest outbound row;
                    \* of the last inbox reply: its date, and when recorded
  msg,              \* msg[m] : a message of the customer and its request
  phone,            \* phone[r] : a reply on the phone and its observation
  desk,             \* "idle", or "sent": an inbox reply, dated, not recorded
  case,             \* the escalation
  pending, active,  \* the PENDING and the PROCESSING job
  answers,          \* answers[m] : SENT jobs that m triggered
  acts              \* what operators did so far, at most MaxOwner

vars == <<now, state, thread, msg, phone, desk, case, pending, active,
          answers, acts>>

Msgs == 1..NumMsgs
Never == 0                                                 \* NULL
AutoRow == [mode |-> "AUTO", reason |-> "NONE", resumed |-> Never,
            human |-> Never]

----------------------------------------------------------------------------
(* Time.                                                                   *)

(* A dated act of a person.                                                *)
Dated == now < LastAct /\ now' = now + 1
Acts == acts < MaxOwner /\ acts' = acts + 1

(* The maximum that SQL does not give: a comparison with NULL is false.    *)
LaterNullKept(old, new) == IF old # Never /\ new > old THEN new ELSE old

Later(old, new) == IF old > new THEN old ELSE new

----------------------------------------------------------------------------
(* The state row.                                                          *)

(* pauseConversationAi: nothing weakens a safety pause, and a takeover     *)
(* from before the last hand-back is ignored.                              *)
Paused(mode, reason, at) ==
  IF /\ mode = "SAFETY" \/ state.mode # "SAFETY"
     /\ reason = "TAKEOVER" => (state.resumed = Never \/ at > state.resumed)
  THEN [mode |-> mode, reason |-> reason, resumed |-> Never,
        human |-> IF reason = "TAKEOVER" THEN Later(state.human, at)
                  ELSE Never]
  ELSE state

(* resumeConversationAi.                                                   *)
Resumed(at) == [AutoRow EXCEPT !.resumed = at]

(* A resolved case and none are the same to everything below.              *)
NoCase == [open |-> FALSE, from |-> Never, human |-> Never]
CaseOpen == case.open

(* evaluateConversationAiScheduleGate for a message received at `at`.      *)
ScheduleGate(at) ==
  state.mode = "AUTO" /\ at >= state.resumed /\ ~CaseOpen

(* The send gate that looks at the mode alone.                             *)
SendGateByMode(created) == state.mode = "AUTO" /\ ~CaseOpen

(* evaluateConversationAiSendGate for a job created at `created`.          *)
SendGate(created) ==
  state.mode = "AUTO" /\ created >= state.resumed /\ ~CaseOpen

----------------------------------------------------------------------------
(* The thread as TblMessage has it.                                        *)

Stored == {m \in Msgs : msg[m].st \notin {"none", "written"}}

(* selectPendingCustomerTail: the newest row must be the customer's.       *)
Newest(m) == m \in Stored /\ \A n \in Stored : msg[n].at <= msg[m].at
TailHead(m) == Newest(m) /\ msg[m].at > thread.out

(* A job, and the time by which its trigger was judged to need a reply.    *)
Job(m, asked, at) ==
  [trigger |-> m, asked |-> asked, created |-> at, pc |-> "work"]

(* scheduleOrCoalesceJob: a pending job takes the new trigger and keeps    *)
(* its creation time.                                                      *)
Queued(m, asked, at) ==
  IF pending # NoJob THEN [pending EXCEPT !.trigger = m, !.asked = asked]
  ELSE Job(m, asked, at)

(* recordHumanFollowUpReply: dated, and never back in time.                *)
HumanWord(at) ==
  IF CaseOpen /\ at >= case.from /\ at > case.human
  THEN [case EXCEPT !.human = at] ELSE case

(* createEscalation: one active case.                                      *)
CaseAt(at) ==
  IF CaseOpen THEN case ELSE [open |-> TRUE, from |-> at, human |-> Never]

----------------------------------------------------------------------------
(* The customer.                                                           *)

Writes(m, kind) ==
  /\ msg[m].st = "none" /\ \A n \in 1..(m - 1) : msg[n].st # "none"
  /\ Dated
  /\ msg' = [msg EXCEPT ![m] = [st |-> "written", at |-> now',
                                received |-> Never, kind |-> kind]]
  /\ UNCHANGED <<state, thread, phone, desk, case, pending, active, answers,
                 acts>>

(* The request is over: what the message said, and when the runtime had    *)
(* it, is not read any more.                                               *)
Done(row) ==
  [row EXCEPT !.st = "done", !.kind = "question", !.received = Never]
Handled(m) == [msg EXCEPT ![m] = Done(msg[m])]

(* What the steps after the commit still need of the message.              *)
Kept(row, received) ==
  IF row.kind = "question" THEN Done(row)
  ELSE [row EXCEPT !.st = "stored",
                   !.received = IF row.kind = "solved" THEN received ELSE Never]

InTurn(m) ==
  Reorder \/ \A n \in 1..(m - 1) : msg[n].st # "written"

(* The transaction of ingestWhatsAppInbound: the row, the conversation's   *)
(* times as the message says them, then a pause or a job.  The gate looks  *)
(* at the time the runtime received the message, later than it was written *)
(* and, if the runtime gives none, the present.                            *)
Inbound(m) ==
  LET at == msg[m].at
  IN /\ msg[m].st = "written" /\ InTurn(m)
     /\ thread' = [thread EXCEPT !.inbound = at, !.message = at]
     /\ state' = IF msg[m].kind = "agent"
                 THEN Paused("HUMAN", "ESCALATION", now) ELSE state
     /\ \E received \in at..now :
          /\ msg' = [msg EXCEPT ![m] = Kept(@, received)]
          /\ pending' = IF msg[m].kind # "agent" /\ ScheduleGate(received)
                        THEN Queued(m, received, now) ELSE pending
     /\ UNCHANGED <<now, phone, desk, case, active, answers, acts>>

(* After the commit: the case of a request for a person, on its own.       *)
Escalates(m) ==
  /\ msg[m].st = "stored" /\ msg[m].kind = "agent"
  /\ case' = CaseAt(now)
  /\ msg' = Handled(m)
  /\ UNCHANGED <<now, state, thread, phone, desk, pending, active, answers,
                 acts>>

(* recordCustomerFollowUpReply: an explicit confirmation after a person's  *)
(* answer closes the case, and lifts the pause the escalation made.        *)
FollowsUp(m) ==
  LET confirms == CaseOpen /\ case.human # Never /\ msg[m].received > case.human
  IN /\ msg[m].st = "stored" /\ msg[m].kind = "solved"
     /\ msg' = Handled(m)
     /\ IF confirms
        THEN /\ case' = NoCase
             /\ state' = IF state.mode = "HUMAN" /\ state.reason = "ESCALATION"
                         THEN Resumed(now) ELSE state
        ELSE UNCHANGED <<case, state>>
     /\ UNCHANGED <<now, thread, phone, desk, pending, active, answers, acts>>

(* A step after the commit fails; the message stays.                       *)
RequestDies(m) ==
  /\ msg[m].st = "stored" /\ Acts
  /\ msg' = Handled(m)
  /\ UNCHANGED <<now, state, thread, phone, desk, case, pending, active,
                 answers>>

----------------------------------------------------------------------------
(* People.                                                                 *)

PhoneReplies(r) ==
  /\ phone[r].st = "none" /\ Dated
  /\ phone' = [phone EXCEPT ![r] = [st |-> "given", at |-> now']]
  /\ UNCHANGED <<state, thread, msg, desk, case, pending, active, answers,
                 acts>>

(* The reply dated by the arrival of its observation.                      *)
ArrivalTime(r) == now

(* occurredAtUtc, when the runtime gives it.                               *)
ReplyTime(r) == phone[r].at

(* ingestWhatsAppOutboundObserved: takeover, follow-up, and pending jobs   *)
(* are skipped when a person owns the conversation afterwards.  There is   *)
(* no row in TblMessage for it and no touch of the conversation.           *)
Observed(r) ==
  /\ phone[r].st = "given"
  /\ phone' = [phone EXCEPT ![r].st = "observed"]
  /\ state' = Paused("HUMAN", "TAKEOVER", ReplyTime(r))
  /\ case' = HumanWord(ReplyTime(r))
  /\ pending' = IF state'.mode = "HUMAN" THEN NoJob ELSE pending
  /\ UNCHANGED <<now, thread, msg, desk, active, answers, acts>>

(* sendManualInboxReply: the reply is out, and dated.                      *)
DeskSends ==
  /\ desk.st = "idle" /\ Acts /\ Dated
  /\ desk' = [st |-> "sent", at |-> now']
  /\ UNCHANGED <<state, thread, msg, phone, case, pending, active, answers>>

NoReply == [st |-> "idle", at |-> Never]

(* Its transaction comes later, and puts that date on the row, on the      *)
(* conversation, on the takeover and on the case.                          *)
DeskRecords ==
  /\ desk.st = "sent" /\ desk' = NoReply
  /\ thread' = [thread EXCEPT !.message = desk.at, !.desk = desk.at, !.rec = now,
                              !.out = IF @ > desk.at THEN @ ELSE desk.at]
  /\ state' = Paused("HUMAN", "TAKEOVER", desk.at)
  /\ case' = HumanWord(desk.at)
  /\ UNCHANGED <<now, msg, phone, pending, active, answers, acts>>

(* The process dies, or the transaction fails.                             *)
DeskDies ==
  /\ desk.st = "sent" /\ desk' = NoReply
  /\ UNCHANGED <<now, state, thread, msg, phone, case, pending, active,
                 answers, acts>>

(* pauseInboxConversationAi, and a safety pause of the worker.             *)
Pauses(mode, reason) ==
  /\ Acts /\ Dated
  /\ state' = Paused(mode, reason, now')
  /\ UNCHANGED <<thread, msg, phone, desk, case, pending, active, answers>>

(* Was the newest message answered, by a job that is SENT?                 *)
AnsweredOnly(m) == answers[m] > 0

(* Answered, or any reply under way that may already be on the wire.       *)
UnderWay(m) == answers[m] > 0 \/ active # NoJob

(* resumeInboxConversationAiWithCatchUp: after a human pause, the          *)
(* customer's tail gets a fresh job; what was pending is retired only then.*)
Resumes ==
  /\ state.mode # "AUTO" /\ Acts /\ Dated
  /\ state' = Resumed(now')
  /\ \/ /\ state.mode = "HUMAN"
        /\ \E m \in Msgs :
             /\ TailHead(m) /\ ~UnderWay(m)
             /\ pending' = Job(m, msg[m].at, now')
     \/ /\ \/ state.mode = "SAFETY"
           \/ \A m \in Msgs : TailHead(m) => UnderWay(m)
        /\ UNCHANGED pending
  /\ UNCHANGED <<thread, msg, phone, desk, case, active, answers>>

(* resumeAllHumanConversations: no catch-up, and LastHumanReplyAtUtc stays.*)
ResumesAll ==
  /\ state.mode = "HUMAN" /\ ~CaseOpen /\ Acts /\ Dated
  /\ state' = [Resumed(now') EXCEPT !.human = state.human]
  /\ UNCHANGED <<thread, msg, phone, desk, case, pending, active, answers>>

ResolvesCase ==
  /\ CaseOpen /\ Acts
  /\ case' = NoCase
  /\ UNCHANGED <<now, state, thread, msg, phone, desk, pending, active,
                 answers>>

----------------------------------------------------------------------------
(* The worker.                                                             *)

(* resumeDueHumanConversations: quiet, answered, and no open case.         *)
QuietSince(at) == at + Quiet <= now

ResumeDue ==
  /\ state.mode = "HUMAN" /\ state.reason = "TAKEOVER"
  /\ state.human # Never /\ QuietSince(state.human)
  /\ thread.inbound <= state.human
  /\ thread.message = Never \/ QuietSince(thread.message)
  /\ ~CaseOpen
  /\ state' = Resumed(now)
  /\ UNCHANGED <<now, thread, msg, phone, desk, case, pending, active,
                 answers, acts>>

Claims ==
  /\ pending # NoJob /\ active = NoJob
  /\ active' = pending /\ pending' = NoJob
  /\ UNCHANGED <<now, state, thread, msg, phone, desk, case, answers, acts>>

(* The last gate before the send.                                          *)
Passes ==
  /\ active # NoJob /\ active.pc = "work" /\ SendGate(active.created)
  /\ active' = [active EXCEPT !.pc = "send", !.created = Never,
                               !.asked = Never]
  /\ UNCHANGED <<now, state, thread, msg, phone, desk, case, pending, answers,
                 acts>>

(* The model asks for a person: the case, with its pause.                  *)
JobEscalates ==
  /\ active # NoJob /\ active.pc = "work"
  /\ active' = [active EXCEPT !.pc = "end", !.created = Never,
                               !.asked = Never]
  /\ case' = CaseAt(now)
  /\ state' = IF CaseOpen THEN state ELSE Paused("HUMAN", "ESCALATION", now)
  /\ UNCHANGED <<now, thread, msg, phone, desk, pending, answers, acts>>

(* The job ends without a reply: gate, quota, failure, escalation.         *)
JobEnds ==
  /\ active # NoJob /\ active' = NoJob
  /\ UNCHANGED <<now, state, thread, msg, phone, desk, case, pending, answers,
                 acts>>

(* The reply is out and recorded.                                          *)
JobSends ==
  /\ active # NoJob /\ active.pc = "send"
  /\ now + Quiet <= LastTick
  /\ thread' = [thread EXCEPT !.message = now, !.out = now]
  /\ answers' = [answers EXCEPT ![active.trigger] = @ + 1]
  /\ active' = NoJob
  /\ UNCHANGED <<now, state, msg, phone, desk, case, pending, acts>>

Tick ==
  /\ now < LastTick /\ now' = now + 1
  /\ UNCHANGED <<state, thread, msg, phone, desk, case, pending, active,
                 answers, acts>>

----------------------------------------------------------------------------
Init ==
  /\ now = 0 /\ state = AutoRow
  /\ thread = [inbound |-> Never, message |-> Never, out |-> Never,
               desk |-> Never, rec |-> Never]
  /\ msg = [m \in Msgs |-> [st |-> "none", at |-> Never, received |-> Never,
                            kind |-> "question"]]
  /\ phone = [r \in Phone |-> [st |-> "none", at |-> Never]]
  /\ desk = NoReply
  /\ case = NoCase
  /\ pending = NoJob /\ active = NoJob
  /\ answers = [m \in Msgs |-> 0] /\ acts = 0

Customer ==
  \E m \in Msgs :
    \/ \E kind \in Kinds : Writes(m, kind)
    \/ Inbound(m) \/ Escalates(m) \/ FollowsUp(m) \/ RequestDies(m)

People ==
  \/ \E r \in Phone : PhoneReplies(r) \/ Observed(r)
  \/ DeskSends \/ DeskRecords \/ DeskDies
  \/ Pauses("HUMAN", "MANUAL") \/ Pauses("SAFETY", "SAFETY")
  \/ Resumes \/ ResumesAll \/ ResolvesCase

Worker ==
  ResumeDue \/ Claims \/ Passes \/ JobEscalates \/ JobEnds \/ JobSends

Next == Customer \/ People \/ Worker \/ Tick

Spec == Init /\ [][Next]_vars

(* The sweep runs every minute, and time passes.                           *)
Fairness == WF_vars(ResumeDue) /\ WF_vars(Tick)

FairSpec == Spec /\ Fairness

----------------------------------------------------------------------------
(* Every variable stays in its range.                                      *)
TypeOK ==
  /\ state.mode \in {"AUTO", "HUMAN", "SAFETY"}
  /\ state.mode = "AUTO" <=> state.reason = "NONE"
  /\ pending = NoJob \/ pending.trigger \in Stored
  /\ active = NoJob \/ active.trigger \in Stored

(* No message of the customer triggers two replies, although hand-backs    *)
(* queue the tail again while a reply to it may be under way.              *)
AnsweredOnce == \A m \in Msgs : answers[m] <= 1

(* What a person has answered from the inbox the assistant does not answer *)
(* afterwards: not with a job that waited through the takeover, and not by *)
(* catching up after it.  The one way is a hand-back committed between the *)
(* reply and its record, which makes the record's takeover void.           *)
NoAnswerAfterDesk ==
  [][Passes => \/ active.asked >= thread.desk
               \/ state.resumed \in thread.desk..thread.rec]_vars

(* The sweep hands back only what a person has answered: no message that   *)
(* was stored came after the last reply, however late that reply was       *)
(* observed.                                                               *)
PersonWord ==
  {phone[r].at : r \in {q \in Phone : phone[q].st = "observed"}}
    \union {thread.desk}
HandbackIsAnswered ==
  [][ResumeDue => \A m \in Stored : \E at \in PersonWord : msg[m].at <= at]_vars

(* A conversation that a person took over and answered returns to the      *)
(* assistant once it is quiet, unless something else happens to it.        *)
Waiting ==
  /\ state.mode = "HUMAN" /\ state.reason = "TAKEOVER" /\ ~CaseOpen
  /\ thread.inbound <= state.human
QuietReturns == Waiting ~> ~Waiting

(* A hand-back sets a fresh watermark, and messages received after it are  *)
(* eligible: none of them waits on a job that the watermark has made stale.*)
FreshMessageIsServable ==
  pending # NoJob /\ state.mode = "AUTO"
    /\ pending.asked > state.resumed
    => pending.created >= state.resumed

(* Catch-up never passes over a person's reply.                            *)
NoAnswerAfterPerson ==
  [][Passes => \A at \in PersonWord : msg[active.trigger].at > at]_vars

============================================================================
