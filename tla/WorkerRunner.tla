---------------------------- MODULE WorkerRunner ----------------------------
(***************************************************************************)
(* The process that runs reply jobs (src/modules/ai/worker-runner.ts under *)
(* scripts/ai-worker.ts): the claim loop, the map of active tasks, their   *)
(* heartbeats, and the drain at shutdown.                                  *)
(*                                                                         *)
(* What a task does to its job is the business of AiReplyPipeline; here it *)
(* runs for some time, then finishes the row if it still holds the lease,  *)
(* or leaves it.  JavaScript runs one callback at a time, so a step is the *)
(* code between two awaits.  A row leaves the table's queue for good when  *)
(* it is DONE.                                                             *)
(***************************************************************************)
EXTENDS Naturals, FiniteSets

CONSTANTS
  Workers,      \* worker processes
  Jobs,         \* rows of TblAiReplyJob, all due
  Concurrency,  \* AI_WORKER_CONCURRENCY
  MaxTasks,     \* task identities: enough for all tasks alive or named by a row
  MaxFaults,    \* bound: stalls, heartbeat errors, lost answers, throwing tasks
  MaxExits      \* bound: crashes and shutdown requests

TaskIds == 1 .. MaxTasks
NoTask  == 0

ASSUME RunnerAssumption ==
  /\ {Concurrency, MaxTasks, MaxFaults, MaxExits} \subseteq Nat
  /\ Concurrency > 0

VARIABLES
  job,       \* job[j]: Status, the task its LeaseToken was made for, lease unexpired
  task,      \* task[t]: the promise of one processJob call and its "lost" flag
  active,    \* active[w][j]: the runner's Map from job id to task
  phase,     \* where the loop of each worker is
  stopping,  \* requestShutdown was called
  faults,
  exits

vars == <<job, task, active, phase, stopping, faults, exits>>

Idle == [state |-> "idle"]
Task(st, w, j) == [state |-> st, worker |-> w, job |-> j, lost |-> FALSE]

Running(w) == {t \in TaskIds : task[t].state = "running" /\ task[t].worker = w}
Active(w)  == {j \in Jobs : active[w][j] # NoTask}
Up(w)      == phase[w] # "gone"

(* LIVE_LEASE_FENCE: the row still carries this token, unexpired.          *)
Owns(t) == LET j == task[t].job
           IN job[j].status = "PROCESSING" /\ job[j].task = t /\ job[j].live

(* The heartbeat interval of a running task keeps extending its lease.     *)
Beats(t) == t # NoTask /\ task[t].state = "running" /\ ~task[t].lost

Fault == faults < MaxFaults /\ faults' = faults + 1
Exits == exits < MaxExits /\ exits' = exits + 1

FreshIds == {t \in TaskIds : task[t] = Idle /\ \A j \in Jobs : job[j].task # t}

----------------------------------------------------------------------------
Init ==
  /\ job = [j \in Jobs |-> [status |-> "PENDING", task |-> NoTask, live |-> FALSE]]
  /\ task = [t \in TaskIds |-> Idle]
  /\ active = [w \in Workers |-> [j \in Jobs |-> NoTask]]
  /\ phase = [w \in Workers |-> "polling"]
  /\ stopping = [w \in Workers |-> FALSE]
  /\ faults = 0 /\ exits = 0

Goto(w, p) == phase' = [phase EXCEPT ![w] = p]

(* Below the concurrency limit the loop asks for a job.                    *)
HasCapacity(w) == Cardinality(Active(w)) < Concurrency

StartClaim(w) ==
  /\ phase[w] = "polling" /\ ~stopping[w] /\ HasCapacity(w)
  /\ Goto(w, "claiming")
  /\ UNCHANGED <<job, task, active, stopping, faults, exits>>

Expired(j)  == job[j].status = "PROCESSING" /\ ~job[j].live

(* Faulty variant of Claimable: no row is taken over.                      *)
PendingOnly(j) == job[j].status = "PENDING"

(* An expired row is claimed before a pending one; nothing excludes a row  *)
(* whose last lease belonged to a task of this very worker.                *)
Claimable(j) ==
  \/ Expired(j)
  \/ job[j].status = "PENDING" /\ \A i \in Jobs : ~Expired(i)

(* claimNextJob commits; its answer is on the way to the worker.           *)
Claim(w, j) ==
  \E t \in FreshIds :
     /\ phase[w] = "claiming" /\ Claimable(j)
     /\ \A i \in FreshIds : t <= i
     /\ job' = [job EXCEPT ![j] = [status |-> "PROCESSING", task |-> t, live |-> TRUE]]
     /\ task' = [task EXCEPT ![t] = Task("claimed", w, j)]
     /\ Goto(w, "starting")
     /\ UNCHANGED <<active, stopping, faults, exits>>

ClaimNothing(w) ==
  /\ phase[w] = "claiming" /\ \A j \in Jobs : ~Claimable(j)
  /\ Goto(w, "sleeping")
  /\ UNCHANGED <<job, task, active, stopping, faults, exits>>

(* runOne: the entry of the job is set, whatever it held.                  *)
RunOne(w) ==
  \E t \in TaskIds :
    /\ phase[w] = "starting"
    /\ task[t].state = "claimed" /\ task[t].worker = w
    /\ task' = [task EXCEPT ![t].state = "running"]
    /\ active' = [active EXCEPT ![w][task[t].job] = t]
    /\ Goto(w, "polling")
    /\ UNCHANGED <<job, stopping, faults, exits>>

(* The connection breaks after the claim has committed.                    *)
ClaimAnswerLost(w) ==
  \E t \in TaskIds :
    /\ phase[w] = "starting" /\ Fault
    /\ task[t].state = "claimed" /\ task[t].worker = w
    /\ task' = [task EXCEPT ![t] = Idle]
    /\ Goto(w, "sleeping")
    /\ UNCHANGED <<job, active, stopping, exits>>

(* No capacity, or the pause is over: the loop turns to its next round.    *)
Turn(w) ==
  /\ \/ phase[w] = "polling" /\ (stopping[w] \/ ~HasCapacity(w))
     \/ phase[w] = "sleeping"
  /\ Goto(w, IF stopping[w] THEN "draining"
             ELSE IF phase[w] = "polling" THEN "sleeping" ELSE "polling")
  /\ UNCHANGED <<job, task, active, stopping, faults, exits>>

----------------------------------------------------------------------------
(* The beat after the lease was taken over or expired finds it out.        *)
HeartbeatFindsLoss(t) ==
  /\ Beats(t) /\ ~Owns(t)
  /\ task' = [task EXCEPT ![t].lost = TRUE]
  /\ UNCHANGED <<job, active, phase, stopping, faults, exits>>

(* One failing query is enough to stop the beats of a task for good.       *)
HeartbeatFails(t) ==
  /\ Beats(t) /\ Fault
  /\ task' = [task EXCEPT ![t].lost = TRUE]
  /\ UNCHANGED <<job, active, phase, stopping, exits>>

(* Without beats a lease runs out; with them only a stall lets it.         *)
LeaseExpires(j) ==
  /\ job[j].status = "PROCESSING" /\ job[j].live
  /\ IF Beats(job[j].task) \/ task[job[j].task].state = "claimed"
       THEN Fault ELSE UNCHANGED faults
  /\ job' = [job EXCEPT ![j].live = FALSE]
  /\ UNCHANGED <<task, active, phase, stopping, exits>>

(* completeJob: a terminal row carries no lease.                           *)
DoneRow(row) == [status |-> "DONE", task |-> NoTask, live |-> FALSE]

(* Faulty variant of DeleteEntry.                                          *)
KeepEntry(t) == UNCHANGED active

(* The finally block deletes the entry of the job, not of the task.        *)
DeleteEntry(t) ==
  active' = [active EXCEPT ![task[t].worker][task[t].job] = NoTask]

(* processJob settles.  A task that holds its lease finishes the row; one  *)
(* that has lost it leaves the row alone, and so does one that throws.     *)
TaskEnds(t) ==
  /\ task[t].state = "running"
  /\ \/ /\ Owns(t)
        /\ job' = [job EXCEPT ![task[t].job] = DoneRow(@)]
        /\ UNCHANGED faults
     \/ /\ ~Owns(t) \/ task[t].lost
        /\ UNCHANGED <<job, faults>>
     \/ Fault /\ UNCHANGED job
  /\ task' = [task EXCEPT ![t] = Idle]
  /\ DeleteEntry(t)
  /\ UNCHANGED <<phase, stopping, exits>>

----------------------------------------------------------------------------
RequestShutdown(w) ==
  /\ Up(w) /\ ~stopping[w] /\ phase[w] # "closed" /\ Exits
  /\ stopping' = [stopping EXCEPT ![w] = TRUE]
  /\ UNCHANGED <<job, task, active, phase, faults>>

(* No entry left: the pool is closed and the loop returns "clean".         *)
Drained(w) ==
  /\ phase[w] = "draining" /\ Active(w) = {}
  /\ Goto(w, "closed")
  /\ UNCHANGED <<job, task, active, stopping, faults, exits>>

(* The process is gone, and its memory with it; the rows stay.             *)
Vanish(w) ==
  /\ Goto(w, "gone")
  /\ task' = [t \in TaskIds |->
               IF task[t] # Idle /\ task[t].worker = w THEN Idle ELSE task[t]]
  /\ active' = [active EXCEPT ![w] = [j \in Jobs |-> NoTask]]

DeadlinePasses(w) ==
  /\ phase[w] = "draining" /\ Active(w) # {}
  /\ Vanish(w)
  /\ UNCHANGED <<job, stopping, faults, exits>>

ProcessEnds(w) ==
  /\ phase[w] = "closed"
  /\ Vanish(w)
  /\ UNCHANGED <<job, stopping, faults, exits>>

Crash(w) ==
  /\ Up(w) /\ Exits
  /\ Vanish(w)
  /\ UNCHANGED <<job, stopping, faults>>

(* The service manager starts the worker again.                            *)
Restart(w) ==
  /\ phase[w] = "gone"
  /\ Goto(w, "polling")
  /\ stopping' = [stopping EXCEPT ![w] = FALSE]
  /\ UNCHANGED <<job, task, active, faults, exits>>

----------------------------------------------------------------------------
Loop(w) ==
  \/ StartClaim(w)
  \/ \E j \in Jobs : Claim(w, j)
  \/ ClaimNothing(w)
  \/ RunOne(w)
  \/ Turn(w)
  \/ Drained(w)
  \/ DeadlinePasses(w)
  \/ ProcessEnds(w)
  \/ Restart(w)

Next ==
  \/ \E w \in Workers : Loop(w) \/ ClaimAnswerLost(w) \/ RequestShutdown(w) \/ Crash(w)
  \/ \E t \in TaskIds : HeartbeatFindsLoss(t) \/ HeartbeatFails(t) \/ TaskEnds(t)
  \/ \E j \in Jobs : LeaseExpires(j)

Spec == Init /\ [][Next]_vars

(* The loop of a live process goes on, a task ends, a lease without beats  *)
(* runs out, and a stopped worker is started again.                        *)
FairSpec ==
  /\ Spec
  /\ \A w \in Workers : WF_vars(Loop(w))
  /\ \A t \in TaskIds : WF_vars(TaskEnds(t)) /\ WF_vars(HeartbeatFindsLoss(t))
  /\ \A j \in Jobs : WF_vars(LeaseExpires(j) /\ faults' = faults)

----------------------------------------------------------------------------
(* Types: rows, tasks, maps and loop positions; a row has a token exactly  *)
(* while it is PROCESSING.                                                 *)
TypeOK ==
  /\ job \in [Jobs -> [status : {"PENDING", "PROCESSING", "DONE"},
                       task : TaskIds \union {NoTask}, live : BOOLEAN]]
  /\ \A j \in Jobs : (job[j].status = "PROCESSING") = (job[j].task # NoTask)
  /\ task \in [TaskIds -> {Idle} \union
                 [state : {"claimed", "running"}, worker : Workers, job : Jobs,
                  lost : BOOLEAN]]
  /\ active \in [Workers -> [Jobs -> TaskIds \union {NoTask}]]
  /\ phase \in [Workers -> {"polling", "claiming", "starting", "sleeping",
                            "draining", "closed", "gone"}]
  /\ stopping \in [Workers -> BOOLEAN]
  /\ faults \in 0 .. MaxFaults /\ exits \in 0 .. MaxExits

(* The drain never waits for a ghost: an entry of the map names a task of  *)
(* this worker that is still running for that job, whatever overwrites and *)
(* deletes the entries have seen; and what runs beside the entries is      *)
(* bounded by the leases lost under running tasks.                         *)
EntriesRun ==
  \A w \in Workers :
    /\ \A j \in Active(w) : active[w][j] \in Running(w) /\ task[active[w][j]].job = j
    /\ Cardinality(Running(w)) <= Concurrency + faults

(* Whatever is lost, stalls, crashes or is shut down, every job is         *)
(* finished in the end: no row stays claimed by a task that is gone.       *)
EveryJobIsDone == \A j \in Jobs : <>(job[j].status = "DONE")

(* Recovery runbook, "Normal restart": "Clean drain -> pool closes -> exit *)
(* 0", after "active jobs keep heartbeats": when the pool is closed no     *)
(* task of the worker is running.                                          *)
CleanDrainIsIdle ==
  \A w \in Workers : phase[w] = "closed" => Running(w) = {}
============================================================================
