--------------------- MODULE ConversationOwnership_proofs ---------------------
(***************************************************************************)
(* Who answers a conversation, for any number of messages and replies, any *)
(* quiet time and any bound on the clock and on what operators do.         *)
(*                                                                         *)
(* One job at most stands for a message, whether it waits, is under way or *)
(* has been sent.  The watermark of the last hand-back is never behind the *)
(* last reply from the inbox; where it is also behind the record of that   *)
(* reply, a job which passes the send gate was made after the record, for  *)
(* a message that asked after the reply.  And the date a takeover is kept  *)
(* with is the date of something a person said.                            *)
(***************************************************************************)
EXTENDS ConversationOwnership, TLAPS

MsgRow == [st : {"none", "written", "stored", "done"}, at : Nat,
           received : Nat, kind : Kinds \union {"question"}]
JobRow == [trigger : Msgs, asked : Nat, created : Nat, pc : {"work", "send", "end"}]

JobOK(q) == q = NoJob \/ (q \in JobRow /\ q.trigger \in Stored /\ q.created <= now)

(* Rows in their shape, and no date in the future.                         *)
OwnershipTypes ==
  /\ now \in Nat
  /\ state \in [mode : {"AUTO", "HUMAN", "SAFETY"},
                reason : {"NONE", "ESCALATION", "TAKEOVER", "MANUAL", "SAFETY"},
                resumed : Nat, human : Nat]
  /\ state.resumed <= now
  /\ thread \in [inbound : Nat, message : Nat, out : Nat, desk : Nat, rec : Nat]
  /\ thread.desk <= thread.rec /\ thread.rec <= now /\ thread.desk <= thread.out
  /\ desk \in [st : {"idle", "sent"}, at : Nat] /\ desk.at <= now
  /\ desk.st = "sent" => thread.desk <= desk.at
  /\ msg \in [Msgs -> MsgRow] /\ \A m \in Msgs : msg[m].at <= now
  /\ phone \in [Phone -> [st : {"none", "given", "observed"}, at : Nat]]
  /\ JobOK(pending) /\ JobOK(active)
  /\ answers \in [Msgs -> Nat]

(* One job at most stands for message m.                                   *)
StandsOnce(m) ==
  /\ answers[m] <= 1
  /\ active # NoJob /\ active.trigger = m => answers[m] = 0
  /\ pending # NoJob /\ pending.trigger = m =>
       answers[m] = 0 /\ (active # NoJob => active.trigger # m)
  /\ answers[m] > 0 => m \in Stored

(* A job made after the last reply from the inbox was recorded is for a    *)
(* message that asked after that reply.                                    *)
JobAfterDesk(q) ==
  q # NoJob /\ q.pc = "work" /\ q.created > thread.rec => q.asked >= thread.desk

DeskInv ==
  /\ state.mode = "AUTO" => state.resumed >= thread.desk
  /\ JobAfterDesk(pending) /\ JobAfterDesk(active)

(* The date of a takeover is, at the latest, that of a person's word.      *)
PersonHeard == \E at \in PersonWord : state.human <= at

(* Messages are written, and posted, one after the other.                  *)
InOrder(m, n) ==
  n < m /\ msg[m].st # "none" =>
    /\ msg[n].st # "none" /\ msg[n].at < msg[m].at
    /\ m \in Stored => n \in Stored

OrderInv ==
  /\ \A m, n \in Msgs : InOrder(m, n)
  /\ \A m \in Stored : msg[m].at <= thread.inbound

OwnershipInv ==
  /\ OwnershipTypes /\ (\A m \in Msgs : StandsOnce(m)) /\ DeskInv /\ PersonHeard
  /\ ~Reorder => OrderInv

----------------------------------------------------------------------------
(* What a step may do to the clock, the messages, the thread and the row.  *)

StateRow == [mode : {"AUTO", "HUMAN", "SAFETY"},
             reason : {"NONE", "ESCALATION", "TAKEOVER", "MANUAL", "SAFETY"},
             resumed : Nat, human : Nat]
ThreadRow == [inbound : Nat, message : Nat, out : Nat, desk : Nat, rec : Nat]

LEMMA ClockMoves ==
  ASSUME now \in Nat, [Next]_vars
  PROVE  now' \in {now, now + 1} /\ now' \in Nat /\ now <= now'
<1>1. now' \in {now, now + 1}
  <2>1. Customer => now' \in {now, now + 1}
    BY DEF Customer, Writes, Inbound, Escalates, FollowsUp, RequestDies, Dated
  <2>2. People => now' \in {now, now + 1}
    BY DEF People, PhoneReplies, Observed, DeskSends, DeskRecords, DeskDies, Pauses,
       Resumes, ResumesAll, ResolvesCase, Dated
  <2>3. Worker => now' \in {now, now + 1}
    BY DEF Worker, ResumeDue, Claims, Passes, JobEscalates, JobEnds, JobSends
  <2>4. QED
    BY <2>1, <2>2, <2>3 DEF Next, Tick, vars
<1>2. QED
  BY <1>1

(* A message is written once, at a date of its own, and then keeps it.     *)
MessageMoved(m) ==
  \/ msg'[m] = msg[m]
  \/ /\ msg[m].st = "none" /\ msg'[m].st = "written"
     /\ now' = now + 1 /\ msg'[m].at = now'
  \/ /\ msg[m].st \in {"written", "stored"} /\ msg'[m].st \in {"stored", "done"}
     /\ msg'[m].at = msg[m].at

LEMMA RowsKept ==
  ASSUME NEW row \in MsgRow, NEW received \in Nat
  PROVE  /\ Done(row) \in MsgRow /\ Done(row).st = "done" /\ Done(row).at = row.at
         /\ Kept(row, received) \in MsgRow /\ Kept(row, received).at = row.at
         /\ Kept(row, received).st \in {"stored", "done"}
<1>1. Done(row) \in MsgRow /\ Done(row).st = "done" /\ Done(row).at = row.at
  <2>1. Done(row) = [[[row EXCEPT !.st = "done"] EXCEPT !.kind = "question"]
                        EXCEPT !.received = Never]
    BY DEF Done
  <2>2. [row EXCEPT !.st = "done"] \in MsgRow /\ [row EXCEPT !.st = "done"].at = row.at
        /\ [row EXCEPT !.st = "done"].st = "done"
    BY DEF MsgRow
  <2>3. \A q \in MsgRow : LET new == [[q EXCEPT !.kind = "question"] EXCEPT !.received = Never]
                         IN  new \in MsgRow /\ new.at = q.at /\ new.st = q.st
    BY DEF MsgRow, Never
  <2>4. QED
    BY <2>1, <2>2, <2>3
<1>2. \A t \in Nat : LET new == [row EXCEPT !.st = "stored", !.received = t]
                   IN  new \in MsgRow /\ new.at = row.at /\ new.st = "stored"
  <2>1. \A t \in Nat : [row EXCEPT !.st = "stored", !.received = t]
                         = [[row EXCEPT !.st = "stored"] EXCEPT !.received = t]
    OBVIOUS
  <2>2. QED
    BY <2>1 DEF MsgRow
<1>3. QED
  BY <1>1, <1>2 DEF Kept, Never

LEMMA MessagesMove ==
  ASSUME OwnershipTypes, [Next]_vars
  PROVE  msg' \in [Msgs -> MsgRow] /\ \A m \in Msgs : MessageMoved(m)
<1>1. msg \in [Msgs -> MsgRow] /\ now \in Nat
  BY DEF OwnershipTypes
<1>2. ASSUME NEW m \in Msgs, NEW kind \in Kinds, Writes(m, kind)
      PROVE  msg' \in [Msgs -> MsgRow] /\ \A i \in Msgs : MessageMoved(i)
  <2>1. now' = now + 1 /\ msg' = [msg EXCEPT ![m] = [st |-> "written", at |-> now', received |-> Never, kind |-> kind]]
        /\ msg[m].st = "none"
    BY <1>2 DEF Writes, Dated
  <2>2. [st |-> "written", at |-> now', received |-> Never, kind |-> kind] \in MsgRow
    BY <1>1, <2>1 DEF MsgRow, Never
  <2>3. QED
    BY <1>1, <2>1, <2>2 DEF MessageMoved
<1>3. ASSUME NEW m \in Msgs, msg[m].st \in {"written", "stored"}, NEW r \in MsgRow,
             r.st \in {"stored", "done"}, r.at = msg[m].at, msg' = [msg EXCEPT ![m] = r]
      PROVE  msg' \in [Msgs -> MsgRow] /\ \A i \in Msgs : MessageMoved(i)
  BY <1>1, <1>3 DEF MessageMoved
<1>4. ASSUME NEW m \in Msgs, msg[m].st \in {"written", "stored"}, msg' = Handled(m)
      PROVE  msg' \in [Msgs -> MsgRow] /\ \A i \in Msgs : MessageMoved(i)
  BY <1>1, <1>3, <1>4, RowsKept DEF Handled
<1>5. ASSUME NEW m \in Msgs, Inbound(m)
      PROVE  msg' \in [Msgs -> MsgRow] /\ \A i \in Msgs : MessageMoved(i)
  <2>1. PICK received \in msg[m].at..now : msg' = [msg EXCEPT ![m] = Kept(@, received)]
    BY <1>5 DEF Inbound
  <2>2. received \in Nat /\ msg[m] \in MsgRow
    BY <1>1 DEF MsgRow
  <2>3. QED
    BY <1>1, <1>3, <1>5, <2>1, <2>2, RowsKept DEF Inbound
<1>6. ASSUME NEW m \in Msgs, Escalates(m) \/ FollowsUp(m) \/ RequestDies(m)
      PROVE  msg' \in [Msgs -> MsgRow] /\ \A i \in Msgs : MessageMoved(i)
  <2>1. msg[m].st = "stored" /\ msg' = Handled(m)
    BY <1>6 DEF Escalates, FollowsUp, RequestDies
  <2>2. QED
    BY <1>4, <2>1
<1>7. CASE ~Customer
  <2>1. msg' = msg
    BY <1>7 DEF Next, People, Worker, Tick, vars, PhoneReplies, Observed, DeskSends,
       DeskRecords, DeskDies, Pauses, Resumes, ResumesAll, ResolvesCase, ResumeDue,
       Claims, Passes, JobEscalates, JobEnds, JobSends
  <2>2. QED
    BY <1>1, <2>1 DEF MessageMoved
<1>8. QED
  BY <1>2, <1>5, <1>6, <1>7 DEF Customer

(* Statuses only move forward, so that stored messages stay stored.        *)
LEMMA StoredStay ==
  ASSUME OwnershipTypes, [Next]_vars
  PROVE  /\ Stored \subseteq Stored'
         /\ \A m \in Stored : msg'[m].at = msg[m].at
         /\ \A m \in Msgs : /\ msg[m].at <= now
                            /\ msg'[m].at <= now'
<1>1. /\ msg' \in [Msgs -> MsgRow] /\ now \in Nat
      /\ \A m \in Msgs : MessageMoved(m) /\ msg[m].at <= now /\ msg[m].at \in Nat
  BY MessagesMove DEF OwnershipTypes, MsgRow
<1>2. \A m \in Msgs : (m \in Stored => (m \in Stored' /\ msg'[m].at = msg[m].at))
  BY <1>1 DEF MessageMoved, Stored
<1>3. \A m \in Msgs : msg'[m].at <= now'
  BY <1>1, ClockMoves DEF MessageMoved
<1>4. QED
  BY <1>1, <1>2, <1>3 DEF Stored

LEMMA DeskMoves ==
  ASSUME OwnershipTypes, [Next]_vars
  PROVE  /\ desk' \in [st : {"idle", "sent"}, at : Nat] /\ desk'.at <= now'
         /\ desk'.st = "sent" => desk'.at >= now \/ desk' = desk
<1>1. now \in Nat /\ now' \in Nat /\ now <= now' /\ desk \in [st : {"idle", "sent"}, at : Nat]
      /\ desk.at <= now
  BY ClockMoves DEF OwnershipTypes
<1>2. CASE DeskSends
  BY <1>1, <1>2 DEF DeskSends
<1>3. CASE DeskRecords \/ DeskDies
  BY <1>1, <1>3 DEF DeskRecords, DeskDies, NoReply, Never
<1>4. CASE desk' = desk
  BY <1>1, <1>4
<1>5. QED
  BY <1>2, <1>3, <1>4 DEF Next, Customer, People, Worker, Tick, vars, Writes, Inbound,
     Escalates, FollowsUp, RequestDies, PhoneReplies, Observed, Pauses, Resumes,
     ResumesAll, ResolvesCase, ResumeDue, Claims, Passes, JobEscalates, JobEnds, JobSends

LEMMA DeskRecorded ==
  ASSUME OwnershipTypes, DeskRecords
  PROVE  /\ thread' \in ThreadRow /\ thread'.desk = desk.at /\ thread'.rec = now
         /\ thread'.inbound = thread.inbound /\ desk.at <= thread'.out
         /\ desk'.st = "idle" /\ now' = now
<1>1. /\ thread \in ThreadRow /\ desk.at \in Nat /\ now \in Nat
  BY DEF OwnershipTypes, ThreadRow
<1>2. PICK out \in Nat : desk.at <= out /\
        thread' = [[[[thread EXCEPT !.message = desk.at] EXCEPT !.desk = desk.at]
                      EXCEPT !.rec = now] EXCEPT !.out = out]
  <2>1. thread.out \in Nat
    BY <1>1 DEF ThreadRow
  <2>2. PICK out : out = IF thread.out > desk.at THEN thread.out ELSE desk.at
    OBVIOUS
  <2>3. out \in Nat /\ desk.at <= out
    BY <1>1, <2>1, <2>2
  <2>4. thread' = [[[[thread EXCEPT !.message = desk.at] EXCEPT !.desk = desk.at]
                      EXCEPT !.rec = now] EXCEPT !.out = out]
    BY <1>1, <2>2 DEF DeskRecords, ThreadRow
  <2>5. QED
    BY <2>3, <2>4
<1>3. QED
  BY <1>1, <1>2 DEF ThreadRow, DeskRecords, NoReply

LEMMA ThreadMoves ==
  ASSUME OwnershipTypes, [Next]_vars
  PROVE  /\ thread' \in ThreadRow
         /\ thread'.desk <= thread'.rec /\ thread'.rec <= now' /\ thread'.desk <= thread'.out
         /\ desk'.st = "sent" => thread'.desk <= desk'.at
         /\ thread.desk <= thread'.desk
         /\ ~DeskRecords => thread'.desk = thread.desk /\ thread'.rec = thread.rec
<1>1. /\ thread \in ThreadRow /\ thread.desk <= thread.rec /\ thread.rec <= now
      /\ thread.desk <= thread.out /\ now \in Nat
      /\ desk \in [st : {"idle", "sent"}, at : Nat] /\ desk.at <= now
      /\ desk.st = "sent" => thread.desk <= desk.at
      /\ thread.desk \in Nat /\ thread.out \in Nat /\ thread.rec \in Nat
  BY DEF OwnershipTypes, ThreadRow
<1>2. now' \in Nat /\ now <= now'
  BY <1>1, ClockMoves
<1>3. CASE DeskRecords
  <2>1. desk.st = "sent"
    BY <1>3 DEF DeskRecords
  <2>2. QED
    BY <1>1, <1>2, <1>3, <2>1, DeskRecorded
<1>4. ASSUME ~DeskRecords
      PROVE  /\ thread' \in ThreadRow /\ thread'.desk = thread.desk
             /\ thread'.rec = thread.rec
             /\ thread'.desk <= thread'.out
  <2>1. CASE thread' = thread
    BY <1>1, <2>1
  <2>2. ASSUME NEW m \in Msgs, Inbound(m)
        PROVE  /\ thread' \in ThreadRow /\ thread'.out = thread.out
               /\ thread'.desk = thread.desk /\ thread'.rec = thread.rec
    <3>1. msg[m].at \in Nat
      BY DEF OwnershipTypes, MsgRow
    <3>2. thread' = [[thread EXCEPT !.inbound = msg[m].at] EXCEPT !.message = msg[m].at]
      BY <2>2 DEF Inbound
    <3>3. QED
      BY <1>1, <3>1, <3>2 DEF ThreadRow
  <2>3. CASE JobSends
    <3>1. thread' = [[thread EXCEPT !.message = now] EXCEPT !.out = now]
      BY <2>3 DEF JobSends
    <3>2. /\ thread' \in ThreadRow /\ thread'.desk = thread.desk
          /\ thread'.rec = thread.rec /\ thread'.out = now
      BY <1>1, <3>1 DEF ThreadRow
    <3>3. QED
      BY <1>1, <3>2
  <2>4. \/ thread' = thread \/ JobSends
        \/ \E m \in Msgs : Inbound(m)
    BY <1>4 DEF Next, Customer, People, Worker, Tick, vars, Writes, Escalates, FollowsUp,
       RequestDies, PhoneReplies, Observed, DeskSends, DeskDies, Pauses, Resumes,
       ResumesAll, ResolvesCase, ResumeDue, Claims, Passes, JobEscalates, JobEnds
  <2>5. QED
    BY <1>1, <2>1, <2>2, <2>3, <2>4
<1>5. desk'.st = "sent" => desk'.at >= now \/ desk' = desk
  BY DeskMoves
<1>6. desk'.at \in Nat
  BY DeskMoves
<1>7. QED
  BY <1>1, <1>2, <1>3, <1>4, <1>5, <1>6

LEMMA PausedFacts ==
  ASSUME OwnershipTypes, NEW mode \in {"HUMAN", "SAFETY"},
         NEW reason \in {"ESCALATION", "TAKEOVER", "MANUAL", "SAFETY"}, NEW at \in Nat
  PROVE  /\ Paused(mode, reason, at) \in StateRow
         /\ Paused(mode, reason, at).resumed <= state.resumed
         /\ Paused(mode, reason, at).mode = "AUTO" => Paused(mode, reason, at) = state
         /\ Paused(mode, reason, at).human \in {state.human, at, Never}
<1>1. state \in StateRow /\ state.resumed \in Nat /\ state.human \in Nat
  BY DEF OwnershipTypes, StateRow
<1>2. Later(state.human, at) \in {state.human, at} /\ Later(state.human, at) \in Nat
  BY <1>1 DEF Later
<1>3. CASE Paused(mode, reason, at) = state
  BY <1>1, <1>3
<1>4. CASE Paused(mode, reason, at) # state
  <2>1. PICK h \in {Later(state.human, at), Never} :
          Paused(mode, reason, at)
            = [mode |-> mode, reason |-> reason, resumed |-> Never, human |-> h]
    BY <1>4 DEF Paused
  <2>2. [mode |-> mode, reason |-> reason, resumed |-> Never, human |-> h] \in StateRow
    BY <1>2 DEF StateRow, Never
  <2>3. QED
    BY <1>1, <1>2, <2>1, <2>2 DEF Never
<1>5. QED
  BY <1>3, <1>4

LEMMA ResumedFacts ==
  ASSUME NEW at \in Nat
  PROVE  /\ Resumed(at) \in StateRow /\ Resumed(at).mode = "AUTO"
         /\ Resumed(at).resumed = at /\ Resumed(at).human = Never
         /\ \A h \in Nat :
              /\ [Resumed(at) EXCEPT !.human = h] \in StateRow
              /\ [Resumed(at) EXCEPT !.human = h].mode = "AUTO"
              /\ [Resumed(at) EXCEPT !.human = h].resumed = at
              /\ [Resumed(at) EXCEPT !.human = h].human = h
<1>1. Resumed(at) = [mode |-> "AUTO", reason |-> "NONE", resumed |-> at, human |-> Never]
  BY DEF Resumed, AutoRow
<1>2. \A h \in Nat : [Resumed(at) EXCEPT !.human = h]
                      = [mode |-> "AUTO", reason |-> "NONE", resumed |-> at, human |-> h]
  BY <1>1
<1>3. \A h \in Nat : [mode |-> "AUTO", reason |-> "NONE", resumed |-> at, human |-> h] \in StateRow
  BY DEF StateRow
<1>4. QED
  BY <1>1, <1>2, <1>3 DEF Never

(* A person's word that the row may be dated by in this step.              *)
Word(at) ==
  \/ \E r \in Phone : Observed(r) /\ at = phone[r].at
  \/ DeskRecords /\ at = desk.at

(* A row on AUTO is as before or was resumed just now, and the date of a   *)
(* takeover is kept, cleared, or that of a word heard in this step.        *)
RowMoved ==
  /\ state' \in StateRow /\ state'.resumed <= now'
  /\ state'.mode = "AUTO" => (state' = state \/ state'.resumed >= now)
  /\ state'.human \in {state.human, Never} \/ Word(state'.human)

LEMMA StateMoves ==
  ASSUME OwnershipTypes, [Next]_vars
  PROVE  RowMoved
<1>1. /\ now \in Nat /\ state \in StateRow /\ state.resumed <= now
      /\ state.resumed \in Nat /\ state.human \in Nat
  BY DEF OwnershipTypes, StateRow
<1>2. now' \in Nat /\ now <= now'
  BY <1>1, ClockMoves
<1>3. CASE state' = state
  BY <1>1, <1>2, <1>3 DEF RowMoved
<1>4. ASSUME NEW at \in Nat, now <= at, at <= now', state' = Resumed(at)
      PROVE  RowMoved
  BY <1>1, <1>2, <1>4, ResumedFacts DEF RowMoved
<1>5. ASSUME NEW mode \in {"HUMAN", "SAFETY"}, NEW at \in Nat,
             NEW reason \in {"ESCALATION", "MANUAL", "SAFETY"},
             state' = Paused(mode, reason, at)
      PROVE  RowMoved
  <2>1. state'.human \in {state.human, Never}
    BY <1>5 DEF Paused
  <2>2. /\ state' \in StateRow /\ state'.resumed <= state.resumed
        /\ state'.mode = "AUTO" => state' = state
    BY <1>5, PausedFacts
  <2>3. state'.resumed \in Nat
    BY <2>2 DEF StateRow
  <2>4. QED
    BY <1>1, <1>2, <2>1, <2>2, <2>3 DEF RowMoved
<1>6. ASSUME NEW at \in Nat, Word(at), state' = Paused("HUMAN", "TAKEOVER", at)
      PROVE  RowMoved
  <2>1. /\ state' \in StateRow /\ state'.resumed <= state.resumed
        /\ state'.mode = "AUTO" => state' = state
        /\ state'.human \in {state.human, at, Never}
    BY <1>6, PausedFacts
  <2>2. state'.resumed \in Nat
    BY <2>1 DEF StateRow
  <2>3. QED
    BY <1>1, <1>2, <1>6, <2>1, <2>2 DEF RowMoved
<1>7. ASSUME NEW m \in Msgs, Inbound(m) \/ FollowsUp(m)
      PROVE  RowMoved
  BY <1>1, <1>2, <1>3, <1>4, <1>5, <1>7 DEF Inbound, FollowsUp
<1>8. ASSUME NEW r \in Phone, Observed(r)
      PROVE  RowMoved
  <2>1. phone[r].at \in Nat
    BY DEF OwnershipTypes
  <2>2. QED
    BY <1>6, <1>8, <2>1 DEF Observed, ReplyTime, Word
<1>9. CASE DeskRecords
  <2>1. desk.at \in Nat
    BY DEF OwnershipTypes
  <2>2. QED
    BY <1>6, <1>9, <2>1 DEF DeskRecords, Word
<1>10. CASE Pauses("HUMAN", "MANUAL") \/ Pauses("SAFETY", "SAFETY")
  BY <1>2, <1>5, <1>10 DEF Pauses
<1>11. CASE Resumes \/ ResumeDue
  BY <1>1, <1>2, <1>4, <1>11 DEF Resumes, ResumeDue
<1>12. CASE ResumesAll
  <2>1. state' = [Resumed(now') EXCEPT !.human = state.human]
    BY <1>12 DEF ResumesAll
  <2>2. QED
    BY <1>1, <1>2, <2>1, ResumedFacts DEF RowMoved
<1>13. CASE JobEscalates
  BY <1>1, <1>3, <1>5, <1>13 DEF JobEscalates
<1>14. QED
  BY <1>3, <1>7, <1>8, <1>9, <1>10, <1>11, <1>12, <1>13
  DEF Next, Customer, People, Worker, Tick, vars, Writes, Escalates, RequestDies,
     PhoneReplies, DeskSends, DeskDies, ResolvesCase, Claims, Passes, JobEnds, JobSends

----------------------------------------------------------------------------
(* What a step may do to the jobs and their answers.                       *)

JobDropped ==
  answers' = answers /\ pending' \in {pending, NoJob} /\ active' \in {active, NoJob}

JobAdvances ==
  /\ answers' = answers /\ pending' = pending /\ active # NoJob
  /\ active' \in JobRow /\ active'.trigger = active.trigger
  /\ active'.created = Never /\ active'.pc # "work"

JobQueued(m) ==
  /\ answers' = answers /\ active' = active
  /\ msg[m].st = "written" /\ m \in Stored'
  /\ pending' \in JobRow /\ pending'.trigger = m /\ pending'.created <= now'
  /\ ScheduleGate(pending'.asked)

JobCaughtUp(m) ==
  /\ answers' = answers /\ active' = active
  /\ TailHead(m) /\ ~UnderWay(m)
  /\ pending' \in JobRow /\ pending'.trigger = m /\ pending'.created <= now'
  /\ pending'.asked = msg[m].at

JobsMoved ==
  \/ JobDropped \/ JobAdvances \/ Claims \/ JobSends
  \/ \E m \in Msgs : JobQueued(m) \/ JobCaughtUp(m)

LEMMA JobsMove ==
  ASSUME OwnershipTypes, [Next]_vars
  PROVE  JobsMoved
<1>1. /\ now \in Nat /\ JobOK(pending) /\ JobOK(active) /\ msg \in [Msgs -> MsgRow]
      /\ msg' \in [Msgs -> MsgRow]
  BY MessagesMove DEF OwnershipTypes
<1>2. now' \in Nat /\ now <= now'
  BY <1>1, ClockMoves
<1>3. ASSUME NEW m \in Msgs, Inbound(m)
      PROVE  JobsMoved
  <2>1. CASE pending' = pending
    BY <1>3, <2>1 DEF Inbound, JobsMoved, JobDropped
  <2>2. CASE pending' # pending
    <3>1. PICK received \in msg[m].at..now :
            /\ ScheduleGate(received) /\ pending' = Queued(m, received, now)
            /\ msg' = [msg EXCEPT ![m] = Kept(@, received)]
      BY <1>3, <2>2 DEF Inbound
    <3>2. /\ answers' = answers /\ active' = active /\ msg[m].st = "written"
          /\ received \in Nat /\ msg[m] \in MsgRow
      BY <1>1, <1>3 DEF Inbound, MsgRow
    <3>3. m \in Stored'
      <4>1. msg'[m].st \in {"stored", "done"}
        BY <1>1, <3>1, <3>2, RowsKept
      <4>2. QED
        BY <4>1 DEF Stored
    <3>4. CASE pending = NoJob
      <4>1. pending' = Job(m, received, now)
        BY <3>1, <3>4 DEF Queued
      <4>2. pending' \in JobRow /\ pending'.trigger = m /\ pending'.asked = received
            /\ pending'.created = now
        BY <1>1, <3>2, <4>1 DEF JobRow, Job
      <4>3. QED
        BY <1>1, <1>2, <3>1, <3>2, <3>3, <4>2 DEF JobsMoved, JobQueued
    <3>5. CASE pending # NoJob
      <4>1. pending \in JobRow /\ pending.created <= now
            /\ pending' = [[pending EXCEPT !.trigger = m] EXCEPT !.asked = received]
        BY <1>1, <3>1, <3>5 DEF Queued, JobOK
      <4>2. pending' \in JobRow /\ pending'.trigger = m /\ pending'.asked = received
            /\ pending'.created = pending.created /\ pending.created \in Nat
        BY <3>2, <4>1 DEF JobRow
      <4>3. QED
        BY <1>1, <1>2, <3>1, <3>2, <3>3, <4>1, <4>2 DEF JobsMoved, JobQueued
    <3>6. QED
      BY <3>4, <3>5
  <2>3. QED
    BY <2>1, <2>2
<1>4. CASE Resumes
  <2>1. CASE UNCHANGED pending
    BY <1>4, <2>1 DEF Resumes, JobsMoved, JobDropped
  <2>2. ASSUME NEW m \in Msgs, TailHead(m), ~UnderWay(m),
               pending' = Job(m, msg[m].at, now')
        PROVE  JobsMoved
    <3>1. /\ pending' \in JobRow /\ pending'.trigger = m /\ pending'.asked = msg[m].at
          /\ pending'.created = now'
      BY <1>1, <1>2, <2>2 DEF JobRow, Job, MsgRow
    <3>2. QED
      BY <1>2, <1>4, <2>2, <3>1 DEF Resumes, JobsMoved, JobCaughtUp
  <2>3. QED
    BY <1>4, <2>1, <2>2 DEF Resumes
<1>5. CASE Passes
  <2>1. /\ active' = [[[active EXCEPT !.pc = "send"] EXCEPT !.created = Never]
                          EXCEPT !.asked = Never]
        /\ active \in JobRow
    BY <1>1, <1>5 DEF Passes, JobOK
  <2>2. active' \in JobRow /\ active'.trigger = active.trigger /\ active'.created = Never
        /\ active'.pc = "send"
    BY <2>1 DEF JobRow, Never
  <2>3. QED
    BY <1>5, <2>2 DEF Passes, JobsMoved, JobAdvances
<1>6. CASE JobEscalates
  <2>1. /\ active' = [[[active EXCEPT !.pc = "end"] EXCEPT !.created = Never]
                          EXCEPT !.asked = Never]
        /\ active \in JobRow
    BY <1>1, <1>6 DEF JobEscalates, JobOK
  <2>2. active' \in JobRow /\ active'.trigger = active.trigger /\ active'.created = Never
        /\ active'.pc = "end"
    BY <2>1 DEF JobRow, Never
  <2>3. QED
    BY <1>6, <2>2 DEF JobEscalates, JobsMoved, JobAdvances
<1>7. CASE Claims \/ JobSends
  BY <1>7 DEF JobsMoved
<1>8. ASSUME NEW r \in Phone, Observed(r)
      PROVE  JobsMoved
  BY <1>8 DEF Observed, JobsMoved, JobDropped
<1>9. CASE JobEnds
  BY <1>9 DEF JobEnds, JobsMoved, JobDropped
<1>10. CASE UNCHANGED <<pending, active, answers>>
  BY <1>10 DEF JobsMoved, JobDropped
<1>11. QED
  BY <1>3, <1>4, <1>5, <1>6, <1>7, <1>8, <1>9, <1>10
  DEF Next, Customer, People, Worker, Tick, vars, Writes, Escalates, FollowsUp, RequestDies,
     PhoneReplies, DeskSends, DeskRecords, DeskDies, Pauses, ResumesAll, ResolvesCase,
     ResumeDue

----------------------------------------------------------------------------
(* The parts of the invariant, step by step.                               *)

LEMMA TypesStep ==
  ASSUME OwnershipTypes, [Next]_vars
  PROVE  OwnershipTypes'
<1>1. /\ now \in Nat /\ JobOK(pending) /\ JobOK(active) /\ answers \in [Msgs -> Nat]
      /\ phone \in [Phone -> [st : {"none", "given", "observed"}, at : Nat]]
  BY DEF OwnershipTypes
<1>2. now' \in Nat /\ now <= now'
  BY <1>1, ClockMoves
<1>3. phone' \in [Phone -> [st : {"none", "given", "observed"}, at : Nat]]
  <2>1. ASSUME NEW r \in Phone, PhoneReplies(r)
        PROVE  phone' \in [Phone -> [st : {"none", "given", "observed"}, at : Nat]]
    BY <1>1, <1>2, <2>1 DEF PhoneReplies
  <2>2. ASSUME NEW r \in Phone, Observed(r)
        PROVE  phone' \in [Phone -> [st : {"none", "given", "observed"}, at : Nat]]
    BY <1>1, <2>2 DEF Observed
  <2>3. CASE UNCHANGED phone
    BY <1>1, <2>3
  <2>4. QED
    BY <2>1, <2>2, <2>3 DEF Next, Customer, People, Worker, Tick, vars, Writes, Inbound,
       Escalates, FollowsUp, RequestDies, DeskSends, DeskRecords, DeskDies, Pauses,
       Resumes, ResumesAll, ResolvesCase, ResumeDue, Claims, Passes, JobEscalates,
       JobEnds, JobSends
<1>4. Stored \subseteq Stored' /\ \A m \in Msgs : msg'[m].at <= now'
  BY StoredStay
<1>5. /\ \A q \in {pending, active, NoJob} : q = NoJob
                \/ (q \in JobRow /\ q.trigger \in Stored' /\ q.created <= now')
  BY <1>1, <1>2, <1>4 DEF JobOK, JobRow
<1>6. /\ \A q \in {pending', active'} : q = NoJob
                \/ (q \in JobRow /\ q.trigger \in Stored' /\ q.created <= now')
      /\ answers' \in [Msgs -> Nat]
  <2>1. CASE JobDropped
    BY <1>1, <1>5, <2>1 DEF JobDropped
  <2>2. CASE JobAdvances
    BY <1>1, <1>2, <1>5, <2>2 DEF JobAdvances, Never
  <2>3. CASE Claims
    BY <1>1, <1>5, <2>3 DEF Claims
  <2>4. CASE JobSends
    <3>1. active.trigger \in Msgs /\ answers' = [answers EXCEPT ![active.trigger] = @ + 1]
          /\ pending' = pending /\ active' = NoJob
      BY <1>1, <2>4 DEF JobSends, JobOK, JobRow
    <3>2. QED
      BY <1>1, <1>5, <3>1
  <2>5. ASSUME NEW m \in Msgs, JobQueued(m) \/ JobCaughtUp(m)
        PROVE  /\ pending' \in JobRow /\ pending'.trigger \in Stored' /\ pending'.created <= now'
               /\ active' = active /\ answers' = answers
    BY <1>4, <2>5 DEF JobQueued, JobCaughtUp, TailHead, Newest
  <2>6. QED
    BY <1>1, <1>5, <2>1, <2>2, <2>3, <2>4, <2>5, JobsMove DEF JobsMoved
<1>7. QED
  BY <1>2, <1>3, <1>4, <1>6, StateMoves, ThreadMoves, DeskMoves, MessagesMove
  DEF OwnershipTypes, JobOK, RowMoved, StateRow, ThreadRow

LEMMA StandsStep ==
  ASSUME OwnershipTypes, \A m \in Msgs : StandsOnce(m), [Next]_vars
  PROVE  \A m \in Msgs : StandsOnce(m)'
<1>1. /\ JobOK(pending) /\ JobOK(active) /\ answers \in [Msgs -> Nat]
      /\ Stored \subseteq Stored'
  BY StoredStay DEF OwnershipTypes
<1>2. SUFFICES ASSUME NEW m \in Msgs PROVE StandsOnce(m)'
  OBVIOUS
<1>3. StandsOnce(m) /\ answers[m] \in Nat
  BY <1>1
<1>4. CASE JobDropped
  BY <1>1, <1>3, <1>4 DEF JobDropped, StandsOnce
<1>5. CASE JobAdvances
  BY <1>1, <1>3, <1>5 DEF JobAdvances, StandsOnce
<1>6. CASE Claims
  BY <1>1, <1>3, <1>6 DEF Claims, StandsOnce
<1>7. CASE JobSends
  <2>1. /\ active.trigger \in Msgs /\ active.trigger \in Stored /\ active # NoJob
        /\ answers' = [answers EXCEPT ![active.trigger] = @ + 1]
        /\ pending' = pending /\ active' = NoJob
    BY <1>1, <1>7 DEF JobSends, JobOK, JobRow
  <2>2. CASE active.trigger = m
    BY <1>1, <1>3, <2>1, <2>2 DEF StandsOnce
  <2>3. CASE active.trigger # m
    BY <1>1, <1>3, <2>1, <2>3 DEF StandsOnce
  <2>4. QED
    BY <2>2, <2>3
<1>8. ASSUME NEW n \in Msgs, JobQueued(n)
      PROVE  StandsOnce(m)'
  <2>1. n \notin Stored
    BY <1>8 DEF JobQueued, Stored
  <2>2. StandsOnce(n) /\ answers[n] = 0 /\ (active # NoJob => active.trigger # n)
    BY <1>1, <2>1 DEF StandsOnce, JobOK
  <2>3. QED
    BY <1>1, <1>3, <1>8, <2>2 DEF JobQueued, StandsOnce
<1>9. ASSUME NEW n \in Msgs, JobCaughtUp(n)
      PROVE  StandsOnce(m)'
  <2>1. answers[n] = 0 /\ active = NoJob
    BY <1>1, <1>9 DEF JobCaughtUp, UnderWay
  <2>2. QED
    BY <1>1, <1>3, <1>9, <2>1 DEF JobCaughtUp, StandsOnce
<1>10. QED
  BY <1>4, <1>5, <1>6, <1>7, <1>8, <1>9, JobsMove DEF JobsMoved

LEMMA DeskStep ==
  ASSUME OwnershipTypes, DeskInv, [Next]_vars
  PROVE  DeskInv'
<1>1. /\ now \in Nat /\ JobOK(pending) /\ JobOK(active) /\ msg \in [Msgs -> MsgRow]
      /\ state.resumed \in Nat /\ state.resumed <= now
      /\ thread \in ThreadRow /\ thread.desk <= thread.rec /\ thread.rec <= now
      /\ thread.desk <= thread.out /\ desk.at \in Nat
      /\ thread.desk \in Nat /\ thread.rec \in Nat /\ thread.out \in Nat
  BY DEF OwnershipTypes, ThreadRow
<1>2. CASE DeskRecords
  <2>1. /\ thread'.desk = desk.at /\ thread'.rec = now
        /\ pending' = pending /\ active' = active
        /\ state' = Paused("HUMAN", "TAKEOVER", desk.at)
    BY <1>2, DeskRecorded DEF DeskRecords
  <2>2. ASSUME state'.mode = "AUTO" PROVE state'.resumed >= thread'.desk
    <3>1. /\ state' = state /\ state.mode = "AUTO"
          /\ ~(state.resumed = Never \/ desk.at > state.resumed)
      BY <2>1, <2>2 DEF Paused
    <3>2. QED
      BY <1>1, <2>1, <3>1
  <2>3. JobAfterDesk(pending)' /\ JobAfterDesk(active)'
    BY <1>1, <2>1 DEF JobAfterDesk, JobOK, JobRow
  <2>4. QED
    BY <2>2, <2>3 DEF DeskInv
<1>3. CASE ~DeskRecords
  <2>1. thread'.desk = thread.desk /\ thread'.rec = thread.rec
    BY <1>3, ThreadMoves
  <2>2. state'.mode = "AUTO" => state'.resumed >= thread'.desk
    <3>1. state'.resumed \in Nat /\ (state'.mode = "AUTO" => (state' = state \/ state'.resumed >= now))
      BY StateMoves DEF RowMoved, StateRow
    <3>2. state.mode = "AUTO" => state.resumed >= thread.desk
      BY DEF DeskInv
    <3>3. QED
      BY <1>1, <2>1, <3>1, <3>2
  <2>3. \A q \in {pending, active, NoJob} :
            q # NoJob /\ q.pc = "work" /\ q.created > thread.rec => q.asked >= thread.desk
    BY DEF DeskInv, JobAfterDesk
  <2>4. \A q \in {pending', active'} :
            q # NoJob /\ q.pc = "work" /\ q.created > thread.rec => q.asked >= thread.desk
    <3>1. CASE JobDropped
      BY <2>3, <3>1 DEF JobDropped
    <3>2. CASE JobAdvances
      BY <2>3, <3>2 DEF JobAdvances
    <3>3. CASE Claims
      BY <2>3, <3>3 DEF Claims
    <3>4. CASE JobSends
      BY <2>3, <3>4 DEF JobSends
    <3>5. ASSUME NEW m \in Msgs, JobQueued(m)
          PROVE  pending'.asked >= thread.desk /\ active' = active
      <4>1. state.mode = "AUTO" /\ pending'.asked >= state.resumed /\ pending'.asked \in Nat
        BY <3>5 DEF JobQueued, ScheduleGate, JobRow
      <4>2. QED
        BY <1>1, <3>5, <4>1 DEF DeskInv, JobQueued
    <3>6. ASSUME NEW m \in Msgs, JobCaughtUp(m)
          PROVE  pending'.asked >= thread.desk /\ active' = active
      <4>1. pending'.asked = msg[m].at /\ msg[m].at > thread.out /\ msg[m].at \in Nat
        BY <1>1, <3>6 DEF JobCaughtUp, TailHead, MsgRow
      <4>2. QED
        BY <1>1, <3>6, <4>1 DEF JobCaughtUp
    <3>7. QED
      BY <2>3, <3>1, <3>2, <3>3, <3>4, <3>5, <3>6, JobsMove DEF JobsMoved
  <2>5. QED
    BY <2>1, <2>2, <2>4 DEF DeskInv, JobAfterDesk
<1>4. QED
  BY <1>2, <1>3

(* A word that was heard stays heard, and none is taken back.              *)
LEMMA WordsStay ==
  ASSUME OwnershipTypes, [Next]_vars
  PROVE  /\ \A at \in PersonWord : at \in Nat /\ \E later \in PersonWord' : at <= later
         /\ \A at \in Nat : Word(at) => at \in PersonWord'
<1>1. /\ now \in Nat /\ thread.desk \in Nat /\ thread.desk <= now
      /\ phone \in [Phone -> [st : {"none", "given", "observed"}, at : Nat]]
  BY DEF OwnershipTypes
<1>2. now' \in Nat /\ now <= now'
  BY <1>1, ClockMoves
<1>3. \A r \in Phone : phone[r].st = "observed" => phone'[r] = phone[r]
  <2>1. ASSUME NEW q \in Phone, PhoneReplies(q) \/ Observed(q)
        PROVE  \A r \in Phone : phone[r].st = "observed" => phone'[r] = phone[r]
    BY <1>1, <2>1 DEF PhoneReplies, Observed
  <2>2. CASE UNCHANGED phone
    BY <2>2
  <2>3. QED
    BY <2>1, <2>2 DEF Next, Customer, People, Worker, Tick, vars, Writes, Inbound,
       Escalates, FollowsUp, RequestDies, DeskSends, DeskRecords, DeskDies, Pauses,
       Resumes, ResumesAll, ResolvesCase, ResumeDue, Claims, Passes, JobEscalates,
       JobEnds, JobSends
<1>4. DeskRecords => thread'.desk = desk.at
  BY DeskRecorded
<1>5. thread'.desk \in Nat /\ thread.desk <= thread'.desk /\ thread'.desk \in PersonWord'
  BY ThreadMoves DEF ThreadRow, PersonWord
<1>6. \A r \in Phone : phone[r].st = "observed" => phone[r].at \in PersonWord'
  BY <1>3 DEF PersonWord
<1>7. ASSUME NEW r \in Phone, Observed(r)
      PROVE  phone[r].at \in PersonWord'
  <2>1. phone'[r].st = "observed" /\ phone'[r].at = phone[r].at
    BY <1>1, <1>7 DEF Observed
  <2>2. QED
    BY <2>1 DEF PersonWord
<1>8. \A at \in PersonWord : at \in Nat /\ \E later \in PersonWord' : at <= later
  BY <1>1, <1>5, <1>6 DEF PersonWord
<1>9. \A at \in Nat : Word(at) => at \in PersonWord'
  BY <1>4, <1>5, <1>7 DEF Word
<1>10. QED
  BY <1>8, <1>9

LEMMA HeardStep ==
  ASSUME OwnershipTypes, PersonHeard, [Next]_vars
  PROVE  PersonHeard'
<1>1. state.human \in Nat /\ state'.human \in Nat /\ thread'.desk \in Nat
  BY StateMoves, ThreadMoves DEF OwnershipTypes, RowMoved, StateRow, ThreadRow
<1>2. CASE state'.human = state.human
  <2>1. PICK at \in PersonWord : state.human <= at
    BY DEF PersonHeard
  <2>2. PICK later \in PersonWord' : at \in Nat /\ at <= later
    BY WordsStay
  <2>3. later \in Nat
    <3>1. \A w \in PersonWord' : w \in Nat
      BY TypesStep DEF OwnershipTypes, PersonWord
    <3>2. QED
      BY <3>1
  <2>4. QED
    BY <1>1, <1>2, <2>1, <2>2, <2>3 DEF PersonHeard
<1>3. CASE state'.human = Never
  <2>1. thread'.desk \in PersonWord' /\ state'.human <= thread'.desk
    BY <1>1, <1>3 DEF PersonWord, Never
  <2>2. QED
    BY <2>1 DEF PersonHeard
<1>4. CASE Word(state'.human)
  BY <1>1, <1>4, WordsStay DEF PersonHeard
<1>5. QED
  BY <1>2, <1>3, <1>4, StateMoves DEF RowMoved

LEMMA OrderStep ==
  ASSUME OwnershipTypes, ~Reorder, OrderInv, [Next]_vars
  PROVE  OrderInv'
<1>1. /\ now \in Nat /\ NumMsgs \in Nat
      /\ \A m \in Msgs : msg[m].at \in Nat /\ msg[m].at <= now /\ MessageMoved(m)
      /\ thread \in ThreadRow /\ msg \in [Msgs -> MsgRow]
      /\ \A m \in Msgs : m \in Nat
  <2>1. /\ thread \in ThreadRow /\ msg \in [Msgs -> MsgRow] /\ now \in Nat
        /\ \A m \in Msgs : msg[m].at <= now
    BY DEF OwnershipTypes, ThreadRow
  <2>2. \A m \in Msgs : msg[m].at \in Nat
    BY <2>1 DEF MsgRow
  <2>3. NumMsgs \in Nat /\ \A m \in Msgs : m \in Nat
    BY OwnershipAssumption DEF OwnershipAssumption, Msgs
  <2>4. QED
    BY <2>1, <2>2, <2>3, MessagesMove
<1>2. CASE Stored' = Stored /\ thread'.inbound = thread.inbound
           /\ \A m \in Msgs : msg'[m].at = msg[m].at /\ (msg'[m].st = "none" <=> msg[m].st = "none")
  BY <1>2 DEF OrderInv, InOrder, Stored
<1>3. ASSUME NEW m \in Msgs, NEW kind \in Kinds, Writes(m, kind)
      PROVE  OrderInv'
  <2>1. /\ \A n \in 1..(m - 1) : msg[n].st # "none"
        /\ now' = now + 1 /\ thread' = thread /\ msg[m].st = "none"
        /\ msg' = [msg EXCEPT ![m] = [st |-> "written", at |-> now', received |-> Never,
                                       kind |-> kind]]
    BY <1>3 DEF Writes, Dated
  <2>2. /\ msg'[m].st = "written" /\ msg'[m].at = now + 1
        /\ \A n \in Msgs \ {m} : msg'[n] = msg[n]
    BY <1>1, <2>1
  <2>3. \A n \in Msgs : (n < m => msg[n].st # "none")
    BY <1>1, <2>1 DEF Msgs
  <2>4. Stored' = Stored /\ m \notin Stored
    BY <2>1, <2>2 DEF Stored
  <2>5. ASSUME NEW i \in Msgs, NEW n \in Msgs PROVE InOrder(i, n)'
    <3>1. CASE i = m
      <4>1. n < m => n # m
        BY <1>1
      <4>2. QED
        BY <1>1, <2>2, <2>3, <2>4, <3>1, <4>1 DEF InOrder
    <3>2. CASE i # m /\ n = m
      BY <2>1, <2>2, <3>2 DEF InOrder, OrderInv
    <3>3. CASE i # m /\ n # m
      BY <2>2, <2>4, <3>3 DEF InOrder, OrderInv
    <3>4. QED
      BY <3>1, <3>2, <3>3
  <2>6. \A n \in Stored' : msg'[n].at <= thread'.inbound
    BY <2>1, <2>2, <2>4 DEF OrderInv, Stored
  <2>7. QED
    BY <2>5, <2>6 DEF OrderInv
<1>4. ASSUME NEW m \in Msgs, Inbound(m)
      PROVE  OrderInv'
  <2>1. /\ msg[m].st = "written"
        /\ \A n \in 1..(m - 1) : msg[n].st # "written"
        /\ thread' = [[thread EXCEPT !.inbound = msg[m].at] EXCEPT !.message = msg[m].at]
    BY <1>4 DEF Inbound, InTurn
  <2>2. msg'[m].st \in {"stored", "done"} /\ \A n \in Msgs \ {m} : msg'[n] = msg[n]
    <3>1. PICK received \in msg[m].at..now : msg' = [msg EXCEPT ![m] = Kept(@, received)]
      BY <1>4 DEF Inbound
    <3>2. msg[m] \in MsgRow /\ received \in Nat
      BY <1>1
    <3>3. QED
      BY <1>1, <3>1, <3>2, RowsKept
  <2>3. thread'.inbound = msg[m].at
    BY <1>1, <2>1 DEF ThreadRow
  <2>4. Stored' = Stored \union {m} /\ \A n \in Msgs : msg'[n].at = msg[n].at
    BY <1>1, <2>1, <2>2 DEF Stored, MessageMoved
  <2>5. \A n \in Msgs : (n < m => n \in Stored /\ msg[n].at < msg[m].at)
    <3>1. ASSUME NEW n \in Msgs, n < m PROVE n \in Stored /\ msg[n].at < msg[m].at
      <4>1. msg[n].st # "written"
        BY <1>1, <2>1, <3>1 DEF Msgs
      <4>2. msg[n].st # "none" /\ msg[n].at < msg[m].at
        BY <2>1, <3>1 DEF OrderInv, InOrder
      <4>3. QED
        BY <4>1, <4>2 DEF Stored
    <3>2. QED
      BY <3>1
  <2>6. \A n \in Stored : n < m
    <3>1. ASSUME NEW n \in Stored, ~(n < m) PROVE FALSE
      <4>1. m \notin Stored /\ n \in Msgs /\ n # m
        BY <2>1 DEF Stored
      <4>2. m < n
        BY <1>1, <3>1, <4>1
      <4>3. QED
        BY <4>1, <4>2 DEF OrderInv, InOrder, Stored
    <3>2. QED
      BY <3>1
  <2>7. ASSUME NEW i \in Msgs, NEW n \in Msgs PROVE InOrder(i, n)'
    BY <2>1, <2>2, <2>4, <2>5 DEF InOrder, OrderInv
  <2>8. \A n \in Stored' : msg'[n].at <= thread'.inbound
    BY <1>1, <2>3, <2>4, <2>5, <2>6 DEF Stored
  <2>9. QED
    BY <2>7, <2>8 DEF OrderInv
<1>5. ASSUME NEW m \in Msgs, Escalates(m) \/ FollowsUp(m) \/ RequestDies(m)
      PROVE  OrderInv'
  <2>1. msg[m].st = "stored" /\ msg' = Handled(m) /\ thread' = thread
    BY <1>5 DEF Escalates, FollowsUp, RequestDies
  <2>2. msg'[m].st = "done" /\ \A n \in Msgs \ {m} : msg'[n] = msg[n]
    <3>1. msg[m] \in MsgRow /\ 0 \in Nat
      BY <1>1
    <3>2. QED
      BY <1>1, <2>1, <3>1, RowsKept DEF Handled
  <2>3. Stored' = Stored /\ \A n \in Msgs : msg'[n].at = msg[n].at
    BY <1>1, <2>1, <2>2 DEF Stored, MessageMoved
  <2>4. QED
    BY <1>2, <2>1, <2>2, <2>3
<1>6. CASE ~Customer
  <2>1. msg' = msg
    BY <1>6 DEF Next, People, Worker, Tick, vars, PhoneReplies, Observed, DeskSends,
       DeskRecords, DeskDies, Pauses, Resumes, ResumesAll, ResolvesCase, ResumeDue,
       Claims, Passes, JobEscalates, JobEnds, JobSends
  <2>2. thread'.inbound = thread.inbound
    <3>1. CASE thread' = thread
      BY <3>1
    <3>2. CASE DeskRecords
      BY <3>2, DeskRecorded
    <3>3. CASE JobSends
      BY <1>1, <3>3 DEF JobSends, ThreadRow
    <3>4. QED
      BY <1>6, <3>1, <3>2, <3>3 DEF Next, People, Worker, Tick, vars, PhoneReplies,
         Observed, DeskSends, DeskDies, Pauses, Resumes, ResumesAll, ResolvesCase,
         ResumeDue, Claims, Passes, JobEscalates, JobEnds
  <2>3. QED
    BY <1>2, <2>1, <2>2 DEF Stored
<1>7. QED
  BY <1>3, <1>4, <1>5, <1>6 DEF Customer

----------------------------------------------------------------------------
(* The specification.                                                      *)

LEMMA OwnershipInit == Init => OwnershipInv
<1> SUFFICES ASSUME Init PROVE OwnershipInv
  OBVIOUS
<1>1. /\ now = 0 /\ state = AutoRow
      /\ thread = [inbound |-> Never, message |-> Never, out |-> Never, desk |-> Never,
                   rec |-> Never]
      /\ msg = [m \in Msgs |-> [st |-> "none", at |-> Never, received |-> Never,
                                kind |-> "question"]]
      /\ desk = NoReply
      /\ phone = [r \in Phone |-> [st |-> "none", at |-> Never]]
      /\ pending = NoJob /\ active = NoJob /\ answers = [m \in Msgs |-> 0]
  BY DEF Init
<1>2. Stored = {} /\ \A m \in Msgs : msg[m].st = "none" /\ msg[m].at = 0
  BY <1>1 DEF Stored, Never
<1>3. OwnershipTypes
  <2>1. [st |-> "none", at |-> Never, received |-> Never, kind |-> "question"] \in MsgRow
    BY DEF MsgRow, Never
  <2>2. QED
    BY <1>1, <1>2, <2>1 DEF OwnershipTypes, AutoRow, NoReply, Never, JobOK
<1>4. \A m \in Msgs : StandsOnce(m)
  BY <1>1 DEF StandsOnce
<1>5. DeskInv
  BY <1>1, <1>2 DEF DeskInv, AutoRow, Never, JobAfterDesk
<1>6. PersonHeard
  BY <1>1 DEF PersonHeard, PersonWord, AutoRow, Never
<1>7. OrderInv
  BY <1>2 DEF OrderInv, InOrder
<1>8. QED
  BY <1>3, <1>4, <1>5, <1>6, <1>7 DEF OwnershipInv

(* The row, the thread, the messages and the jobs agree in every state.    *)
THEOREM OwnershipInvariance == Spec => []OwnershipInv
<1>1. ASSUME OwnershipInv, [Next]_vars
      PROVE  OwnershipInv'
  <2>1. OwnershipTypes' /\ (\A m \in Msgs : StandsOnce(m))' /\ DeskInv' /\ PersonHeard'
    BY <1>1, TypesStep, StandsStep, DeskStep, HeardStep DEF OwnershipInv
  <2>2. (~Reorder => OrderInv)'
    BY <1>1, OrderStep DEF OwnershipInv
  <2>3. QED
    BY <2>1, <2>2 DEF OwnershipInv
<1>2. QED
  BY <1>1, OwnershipInit, PTL DEF Spec

(* No message of the customer triggers two replies, although a hand-back   *)
(* queues the tail again while a reply to it may be under way.             *)
THEOREM NobodyIsAnsweredTwice == Spec => []AnsweredOnce
<1>1. OwnershipInv => AnsweredOnce
  BY DEF OwnershipInv, StandsOnce, AnsweredOnce
<1>2. QED
  BY <1>1, OwnershipInvariance, PTL

(* A job that passes the send gate is for a message that asked after the   *)
(* last reply from the inbox, whatever paused and resumed in between,      *)
(* unless the hand-back in force came between that reply and its record.   *)
THEOREM DeskHasTheLastWord == Spec => NoAnswerAfterDesk
<1>1. ASSUME OwnershipInv, Passes
      PROVE  \/ active.asked >= thread.desk
             \/ state.resumed \in thread.desk..thread.rec
  <2>1. /\ active # NoJob /\ active.pc = "work" /\ state.mode = "AUTO"
        /\ active.created >= state.resumed
    BY <1>1 DEF Passes, SendGate
  <2>2. /\ active.created \in Nat /\ state.resumed \in Nat /\ thread.desk \in Nat
        /\ thread.rec \in Nat /\ state.resumed >= thread.desk /\ JobAfterDesk(active)
    BY <1>1, <2>1 DEF OwnershipInv, OwnershipTypes, DeskInv, JobOK, JobRow
  <2>3. CASE state.resumed > thread.rec
    <3>1. active.created > thread.rec
      BY <2>1, <2>2, <2>3
    <3>2. QED
      BY <2>1, <2>2, <3>1 DEF JobAfterDesk
  <2>4. CASE state.resumed <= thread.rec
    BY <2>2, <2>4
  <2>5. QED
    BY <2>2, <2>3, <2>4
<1>2. OwnershipInv => [Passes => \/ active.asked >= thread.desk
                                \/ state.resumed \in thread.desk..thread.rec]_vars
  BY <1>1
<1>3. QED
  BY <1>2, OwnershipInvariance, PTL DEF NoAnswerAfterDesk

(* Where messages are posted in the order they were written, the sweep     *)
(* hands back only what a person has answered.                             *)
THEOREM SweepsHandBackAnswered == ~Reorder /\ Spec => HandbackIsAnswered
<1>1. ASSUME ~Reorder, OwnershipInv, ResumeDue, NEW m \in Stored
      PROVE  \E at \in PersonWord : msg[m].at <= at
  <2>1. /\ msg[m].at <= thread.inbound /\ thread.inbound <= state.human
        /\ msg[m].at \in Nat /\ thread.inbound \in Nat /\ state.human \in Nat
    BY <1>1 DEF OwnershipInv, OrderInv, ResumeDue, OwnershipTypes, MsgRow, Stored
  <2>2. PICK at \in PersonWord : state.human <= at
    BY <1>1 DEF OwnershipInv, PersonHeard
  <2>3. at \in Nat
    BY <1>1, <2>2 DEF OwnershipInv, OwnershipTypes, PersonWord
  <2>4. QED
    BY <2>1, <2>2, <2>3
<1>2. Spec => []OwnershipInv
  BY OwnershipInvariance
<1>3. CASE ~Reorder
  <2>1. OwnershipInv =>
          [ResumeDue => \A m \in Stored : \E at \in PersonWord : msg[m].at <= at]_vars
    BY <1>1, <1>3
  <2>2. QED
    BY <1>2, <2>1, PTL DEF HandbackIsAnswered
<1>4. CASE Reorder
  BY <1>4
<1>5. QED
  BY <1>3, <1>4
=============================================================================
