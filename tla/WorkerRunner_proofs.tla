------------------------- MODULE WorkerRunner_proofs -------------------------
(***************************************************************************)
(* What holds of the worker process for any number of workers, jobs and    *)
(* task identities, and for every concurrency, as long as faults are       *)
(* counted.                                                                *)
(*                                                                         *)
(* Entries of the map are overwritten when a worker claims a job again     *)
(* that a task of its own still runs, and deleted by whichever of the two  *)
(* ends first.  So a task may run without an entry; but each such task,    *)
(* and each that has lost its lease or its beats, can be charged to one    *)
(* fault.  A task that ends without its own entry deletes the entry of     *)
(* another and hands its charge over to it: that is why the charge counts  *)
(* strays of both kinds together.                                          *)
(***************************************************************************)
EXTENDS WorkerRunner, FiniteSetTheorems, TLAPS

Alive(t) == task[t].state # "idle"

(* Lost its lease or its beats, or runs without an entry of its own.       *)
Astray(t) ==
  /\ Alive(t)
  /\ \/ task[t].lost \/ ~Owns(t)
     \/ /\ task[t].state = "running"
        /\ active[task[t].worker][task[t].job] # t

Stray == {t \in TaskIds : Astray(t)}

EntryRuns(w, j) ==
  active[w][j] # NoTask =>
    active[w][j] \in Running(w) /\ task[active[w][j]].job = j

(* A claim in flight keeps the place that it was started for.              *)
Room(w) ==
  /\ IsFiniteSet(Active(w)) /\ Cardinality(Active(w)) <= Concurrency
  /\ phase[w] \in {"claiming", "starting"} => Cardinality(Active(w)) < Concurrency

(* A worker waits for the answer of one claim at a time, and the row was   *)
(* taken from any task of its own that still runs the job.                 *)
ClaimAlone(t) ==
  task[t].state = "claimed" =>
    /\ phase[task[t].worker] = "starting"
    /\ \A u \in TaskIds :
         (Alive(u) /\ task[u].worker = task[t].worker) =>
           /\ task[u].state = "claimed" => u = t
           /\ (task[u].state = "running" /\ task[u].job = task[t].job)
                => job[task[t].job].task # u

RunnerInv ==
  /\ TypeOK
  /\ \A w \in Workers, j \in Jobs : EntryRuns(w, j)
  /\ \A w \in Workers : Room(w)
  /\ \A t \in TaskIds : ClaimAlone(t)
  /\ Cardinality(Stray) <= faults

----------------------------------------------------------------------------
(* Facts about tasks, and about counting.                                  *)

TaskRow == [state : {"claimed", "running"}, worker : Workers, job : Jobs,
            lost : BOOLEAN]
JobRow == [status : {"PENDING", "PROCESSING", "DONE"},
           task : TaskIds \union {NoTask}, live : BOOLEAN]

LEMMA TaskTypes ==
  ASSUME TypeOK, NEW t \in TaskIds
  PROVE  /\ Alive(t) => task[t] \in TaskRow
         /\ Alive(t) <=> task[t] # Idle
         /\ NoTask \notin TaskIds
BY DEF TypeOK, Alive, Idle, TaskRow, NoTask, TaskIds

LEMMA StrayFinite ==
  ASSUME RunnerAssumption, NEW S, S \subseteq TaskIds
  PROVE  IsFiniteSet(S) /\ Cardinality(S) \in Nat
<1>1. IsFiniteSet(TaskIds)
  BY FS_Interval DEF RunnerAssumption, TaskIds
<1>2. QED
  BY <1>1, FS_Subset, FS_CardinalityType

LEMMA AddAtMostOne ==
  ASSUME NEW S, IsFiniteSet(S), NEW t
  PROVE  /\ IsFiniteSet(S \union {t}) /\ Cardinality(S \union {t}) \in Nat
         /\ Cardinality(S) \in Nat /\ Cardinality(S \union {t}) <= Cardinality(S) + 1
<1>1. IsFiniteSet(S \union {t}) /\ Cardinality(S) \in Nat
  BY FS_AddElement, FS_CardinalityType
<1>2. CASE t \in S
  <2>1. S \union {t} = S
    BY <1>2
  <2>2. QED
    BY <1>1, <2>1
<1>3. CASE t \notin S
  <2>1. Cardinality(S \union {t}) = Cardinality(S) + 1
    BY <1>3, FS_AddElement
  <2>2. QED
    BY <1>1, <2>1
<1>4. QED
  BY <1>2, <1>3

LEMMA StraysDwindle ==
  ASSUME RunnerInv, Stray' \subseteq Stray, faults' \in {faults, faults + 1}
  PROVE  Cardinality(Stray') <= faults'
<1>1. Cardinality(Stray) <= faults /\ faults \in Nat
  BY RunnerAssumption DEF RunnerInv, TypeOK
<1>2. /\ IsFiniteSet(Stray) /\ Cardinality(Stray) \in Nat
      /\ Cardinality(Stray') \in Nat /\ Cardinality(Stray') <= Cardinality(Stray)
  BY RunnerAssumption, StrayFinite, FS_Subset DEF Stray
<1>3. QED
  BY <1>1, <1>2

LEMMA OneMoreStray ==
  ASSUME RunnerInv, NEW t, Stray' \subseteq Stray \union {t}, faults' = faults + 1
  PROVE  Cardinality(Stray') <= faults'
<1>1. Cardinality(Stray) <= faults /\ faults \in Nat
  BY RunnerAssumption DEF RunnerInv, TypeOK
<1>2. /\ IsFiniteSet(Stray) /\ Cardinality(Stray) \in Nat
      /\ IsFiniteSet(Stray') /\ Cardinality(Stray') \in Nat
  BY RunnerAssumption, StrayFinite DEF Stray
<1>3. /\ IsFiniteSet(Stray \union {t}) /\ Cardinality(Stray \union {t}) \in Nat
      /\ Cardinality(Stray \union {t}) <= Cardinality(Stray) + 1
  BY <1>2, AddAtMostOne
<1>4. Cardinality(Stray') <= Cardinality(Stray \union {t})
  BY <1>3, FS_Subset
<1>5. QED
  BY <1>1, <1>2, <1>3, <1>4

(* One stray is gone and hands its charge to another task.                 *)
LEMMA ChargePasses ==
  ASSUME RunnerInv, NEW t \in Stray, NEW u, Stray' \subseteq (Stray \ {t}) \union {u},
         faults' \in {faults, faults + 1}
  PROVE  Cardinality(Stray') <= faults'
<1>1. Cardinality(Stray) <= faults /\ faults \in Nat
  BY RunnerAssumption DEF RunnerInv, TypeOK
<1>2. /\ IsFiniteSet(Stray) /\ Cardinality(Stray) \in Nat
      /\ IsFiniteSet(Stray') /\ Cardinality(Stray') \in Nat
  BY RunnerAssumption, StrayFinite DEF Stray
<1>3. /\ IsFiniteSet(Stray \ {t})
      /\ Cardinality(Stray \ {t}) = Cardinality(Stray) - 1
  BY <1>2, FS_RemoveElement
<1>4. /\ IsFiniteSet((Stray \ {t}) \union {u})
      /\ Cardinality((Stray \ {t}) \union {u}) \in Nat
      /\ Cardinality((Stray \ {t}) \union {u}) <= Cardinality(Stray \ {t}) + 1
  BY <1>2, <1>3, AddAtMostOne
<1>5. Cardinality(Stray') <= Cardinality((Stray \ {t}) \union {u})
  BY <1>4, FS_Subset
<1>6. QED
  BY <1>1, <1>2, <1>3, <1>4, <1>5

LEMMA RoomKept ==
  ASSUME RunnerInv, NEW w \in Workers, Active(w)' \subseteq Active(w),
         phase'[w] \in {"claiming", "starting"} => phase[w] \in {"claiming", "starting"}
  PROVE  Room(w)'
<1>1. Room(w)
  BY DEF RunnerInv
<1>2. /\ IsFiniteSet(Active(w)') /\ Cardinality(Active(w)') <= Cardinality(Active(w))
      /\ Cardinality(Active(w)') \in Nat /\ Cardinality(Active(w)) \in Nat
  BY <1>1, FS_Subset, FS_CardinalityType DEF Room
<1>3. QED
  BY <1>1, <1>2, RunnerAssumption DEF Room, RunnerAssumption

----------------------------------------------------------------------------
(* The loop between its queries: no row, task or entry changes.            *)

LEMMA LoopKeeps ==
  ASSUME RunnerInv, NEW w \in Workers,
         \/ StartClaim(w) \/ ClaimNothing(w) \/ Turn(w) \/ Drained(w)
         \/ Restart(w) \/ RequestShutdown(w) \/ UNCHANGED vars
  PROVE  RunnerInv'
<1>1. TypeOK
  BY DEF RunnerInv
<1>2. UNCHANGED <<job, task, active, faults>>
  BY DEF StartClaim, ClaimNothing, Turn, Drained, Restart, RequestShutdown, vars
<1>3. /\ phase' \in [Workers -> {"polling", "claiming", "starting", "sleeping",
                                  "draining", "closed", "gone"}]
      /\ \A v \in Workers : phase[v] = "starting" => phase'[v] = "starting"
      /\ \A v \in Workers : phase'[v] \in {"claiming", "starting"} =>
           phase[v] \in {"claiming", "starting"} \/ HasCapacity(v)
  <2>1. CASE phase' = phase
    BY <1>1, <2>1 DEF TypeOK
  <2>2. CASE phase' # phase
    <3>1. PICK p \in {"polling", "claiming", "sleeping", "draining", "closed"} :
            /\ phase' = [phase EXCEPT ![w] = p]
            /\ p = "claiming" => HasCapacity(w)
            /\ phase[w] # "starting"
      BY <2>2 DEF StartClaim, ClaimNothing, Turn, Drained, Restart, RequestShutdown, vars, Goto
    <3>2. QED
      BY <1>1, <3>1 DEF TypeOK
  <2>3. QED
    BY <2>1, <2>2
<1>4. TypeOK'
  <2>1. exits' = exits \/ (exits < MaxExits /\ exits' = exits + 1)
    BY DEF StartClaim, ClaimNothing, Turn, Drained, Restart, RequestShutdown, vars, Exits
  <2>2. exits' \in 0 .. MaxExits
    BY <1>1, <2>1, RunnerAssumption DEF TypeOK, RunnerAssumption
  <2>3. stopping' \in [Workers -> BOOLEAN]
    BY <1>1 DEF TypeOK, StartClaim, ClaimNothing, Turn, Drained, Restart,
       RequestShutdown, vars
  <2>4. QED
    BY <1>1, <1>2, <1>3, <2>2, <2>3 DEF TypeOK
<1>5. \A v \in Workers, j \in Jobs : EntryRuns(v, j)'
  BY <1>2 DEF RunnerInv, EntryRuns, Running
<1>6. ASSUME NEW v \in Workers PROVE Room(v)'
  <2>1. Active(v)' = Active(v)
    BY <1>2 DEF Active
  <2>2. QED
    BY <1>3, <2>1 DEF RunnerInv, Room, HasCapacity
<1>7. ASSUME NEW t \in TaskIds PROVE ClaimAlone(t)'
  <2>1. ClaimAlone(t) /\ (task[t].state = "claimed" => task[t].worker \in Workers)
    BY <1>1, TaskTypes DEF RunnerInv, Alive, TaskRow
  <2>2. QED
    BY <1>2, <1>3, <2>1 DEF ClaimAlone, Alive
<1>8. Cardinality(Stray') <= faults'
  <2>1. Stray' = Stray
    BY <1>2 DEF Stray, Astray, Alive, Owns
  <2>2. QED
    BY <1>2, <2>1, StraysDwindle
<1>9. QED
  BY <1>4, <1>5, <1>6, <1>7, <1>8 DEF RunnerInv

(* A claim makes a fresh token for a row that nobody holds.                *)
LEMMA ClaimKeeps ==
  ASSUME RunnerInv, NEW w \in Workers, NEW j \in Jobs, Claim(w, j)
  PROVE  RunnerInv'
<1>1. TypeOK /\ phase[w] = "claiming" /\ Claimable(j)
  BY DEF RunnerInv, Claim
<1>2. PICK t \in FreshIds :
        /\ job' = [job EXCEPT ![j] = [status |-> "PROCESSING", task |-> t, live |-> TRUE]]
        /\ task' = [task EXCEPT ![t] = Task("claimed", w, j)]
        /\ phase' = [phase EXCEPT ![w] = "starting"]
        /\ UNCHANGED <<active, stopping, faults, exits>>
  BY DEF Claim, Goto
<1>3. /\ t \in TaskIds /\ ~Alive(t) /\ \A i \in Jobs : job[i].task # t
      /\ t # NoTask
  BY <1>1, <1>2, TaskTypes DEF FreshIds
<1>4. /\ job' \in [Jobs -> JobRow]
      /\ job'[j] = [status |-> "PROCESSING", task |-> t, live |-> TRUE]
      /\ \A i \in Jobs \ {j} : job'[i] = job[i]
  BY <1>1, <1>2, <1>3 DEF TypeOK, JobRow
<1>5. /\ task' \in [TaskIds -> {Idle} \union TaskRow]
      /\ task'[t].state = "claimed" /\ task'[t].worker = w /\ task'[t].job = j
      /\ task'[t].lost = FALSE
      /\ \A u \in TaskIds \ {t} : task'[u] = task[u]
  BY <1>1, <1>2, <1>3 DEF TypeOK, TaskRow, Task
<1>6. /\ phase' \in [Workers -> {"polling", "claiming", "starting", "sleeping",
                                  "draining", "closed", "gone"}]
      /\ phase'[w] = "starting" /\ \A v \in Workers \ {w} : phase'[v] = phase[v]
  BY <1>1, <1>2 DEF TypeOK
<1>7. TypeOK'
  BY <1>1, <1>2, <1>3, <1>4, <1>5, <1>6 DEF TypeOK, JobRow, TaskRow
<1>8. \A v \in Workers, i \in Jobs : EntryRuns(v, i)'
  <2>1. ASSUME NEW v \in Workers, NEW i \in Jobs, active[v][i] # NoTask
        PROVE  EntryRuns(v, i)'
    <3>1. active[v][i] \in Running(v) /\ task[active[v][i]].job = i
      BY <2>1 DEF RunnerInv, EntryRuns
    <3>2. active[v][i] # t
      BY <1>3, <3>1 DEF Running, Alive
    <3>3. QED
      BY <1>2, <1>5, <3>1, <3>2 DEF EntryRuns, Running
  <2>2. QED
    BY <1>2, <2>1 DEF EntryRuns
<1>9. \A v \in Workers : Room(v)'
  <2>1. \A v \in Workers : Active(v)' = Active(v)
    BY <1>2 DEF Active
  <2>2. QED
    BY <1>1, <1>6, <2>1, RoomKept
<1>10. ASSUME NEW u \in TaskIds, task'[u].state = "claimed" PROVE ClaimAlone(u)'
  <2>1. CASE u = t
    <3>1. ASSUME NEW x \in TaskIds, Alive(x)', task'[x].worker = w
          PROVE  /\ task'[x].state = "claimed" => x = u
                 /\ task'[x].state = "running" => job'[j].task # x
      <4>1. CASE x = t
        BY <1>5, <2>1, <4>1
      <4>2. CASE x # t
        <5>1. task[x].worker = w /\ task'[x] = task[x]
          BY <1>5, <3>1, <4>2
        <5>2. task[x].state # "claimed"
          BY <1>1, <5>1 DEF RunnerInv, ClaimAlone
        <5>3. QED
          BY <1>4, <4>2, <5>1, <5>2
      <4>3. QED
        BY <4>1, <4>2
    <3>2. QED
      BY <1>5, <1>6, <2>1, <3>1 DEF ClaimAlone
  <2>2. CASE u # t
    <3>1. /\ task'[u] = task[u] /\ ClaimAlone(u) /\ task[u].state = "claimed"
          /\ phase[task[u].worker] = "starting"
          /\ task[u].worker \in Workers /\ task[u].job \in Jobs
      BY <1>1, <1>5, <1>10, <2>2, TaskTypes DEF RunnerInv, ClaimAlone, Alive, TaskRow
    <3>2. task[u].worker # w
      BY <1>1, <3>1
    <3>3. ASSUME NEW x \in TaskIds, Alive(x)', task'[x].worker = task[u].worker
          PROVE  /\ task'[x].state = "claimed" => x = u
                 /\ (task'[x].state = "running" /\ task'[x].job = task[u].job)
                      => job'[task[u].job].task # x
      <4>1. x # t /\ task'[x] = task[x] /\ Alive(x)
        BY <1>5, <3>2, <3>3 DEF Alive
      <4>2. /\ task[x].state = "claimed" => x = u
            /\ (task[x].state = "running" /\ task[x].job = task[u].job)
                 => job[task[u].job].task # x
        BY <3>1, <3>3, <4>1 DEF ClaimAlone
      <4>3. job'[task[u].job].task \in {job[task[u].job].task, t}
        BY <1>4, <3>1
      <4>4. QED
        BY <4>1, <4>2, <4>3
    <3>4. QED
      BY <1>6, <3>1, <3>2, <3>3 DEF ClaimAlone
  <2>3. QED
    BY <2>1, <2>2
<1>11. \A u \in TaskIds : ClaimAlone(u)'
  BY <1>10 DEF ClaimAlone
<1>12. Stray' \subseteq Stray
  <2>1. ~Astray(t)'
    BY <1>4, <1>5 DEF Astray, Owns
  <2>2. \A u \in TaskIds : job[j].status = "PROCESSING" => ~job[j].live
    BY <1>1 DEF Claimable, Expired
  <2>3. ASSUME NEW u \in TaskIds, u # t, Astray(u)' PROVE Astray(u)
    <3>1. task'[u] = task[u] /\ Alive(u) /\ task[u].job \in Jobs
      BY <1>1, <1>5, <2>3, TaskTypes DEF Astray, Alive, TaskRow
    <3>2. CASE task[u].job = j
      BY <2>2, <3>1, <3>2 DEF Astray, Owns
    <3>3. CASE task[u].job # j
      <4>1. job'[task[u].job] = job[task[u].job]
        BY <1>4, <3>1, <3>3
      <4>2. QED
        BY <1>2, <2>3, <3>1, <4>1 DEF Astray, Owns, Alive
    <3>4. QED
      BY <3>2, <3>3
  <2>4. QED
    BY <2>1, <2>3 DEF Stray
<1>13. Cardinality(Stray') <= faults'
  BY <1>2, <1>12, StraysDwindle
<1>14. QED
  BY <1>7, <1>8, <1>9, <1>11, <1>13 DEF RunnerInv

(* The task gets the entry of its job.  A task that had it lost its row to *)
(* the claim, and was a stray before.                                      *)
LEMMA RunOneKeeps ==
  ASSUME RunnerInv, NEW w \in Workers, RunOne(w)
  PROVE  RunnerInv'
<1>1. TypeOK /\ phase[w] = "starting"
  BY DEF RunnerInv, RunOne
<1>2. PICK t \in TaskIds :
        /\ task[t].state = "claimed" /\ task[t].worker = w
        /\ task' = [task EXCEPT ![t].state = "running"]
        /\ active' = [active EXCEPT ![w][task[t].job] = t]
        /\ phase' = [phase EXCEPT ![w] = "polling"]
        /\ UNCHANGED <<job, stopping, faults, exits>>
  BY DEF RunOne, Goto
<1>3. /\ Alive(t) /\ task[t] \in TaskRow /\ t # NoTask
  BY <1>1, <1>2, TaskTypes DEF Alive
<1>4. PICK j \in Jobs : j = task[t].job
  BY <1>3 DEF TaskRow
<1>5. /\ task' \in [TaskIds -> {Idle} \union TaskRow]
      /\ task'[t].state = "running" /\ task'[t].worker = w /\ task'[t].job = j
      /\ task'[t].lost = task[t].lost
      /\ \A u \in TaskIds \ {t} : task'[u] = task[u]
  <2>1. LET r == [task[t] EXCEPT !.state = "running"]
        IN  /\ r \in TaskRow /\ r.state = "running" /\ r.worker = w /\ r.job = j
            /\ r.lost = task[t].lost /\ task' = [task EXCEPT ![t] = r]
    BY <1>1, <1>2, <1>3, <1>4 DEF TaskRow, TypeOK
  <2>2. QED
    BY <1>1, <2>1 DEF TypeOK, TaskRow
<1>6. /\ active' \in [Workers -> [Jobs -> TaskIds \union {NoTask}]]
      /\ active'[w][j] = t
      /\ \A v \in Workers, i \in Jobs : (v # w \/ i # j) => active'[v][i] = active[v][i]
  BY <1>1, <1>2, <1>4 DEF TypeOK
<1>7. /\ phase' \in [Workers -> {"polling", "claiming", "starting", "sleeping",
                                  "draining", "closed", "gone"}]
      /\ phase'[w] = "polling" /\ \A v \in Workers \ {w} : phase'[v] = phase[v]
  BY <1>1, <1>2 DEF TypeOK
<1>8. TypeOK'
  BY <1>1, <1>2, <1>5, <1>6, <1>7 DEF TypeOK, TaskRow
<1>9. ASSUME NEW v \in Workers, NEW i \in Jobs PROVE EntryRuns(v, i)'
  <2>1. CASE v = w /\ i = j
    BY <1>5, <1>6, <2>1 DEF EntryRuns, Running
  <2>2. CASE v # w \/ i # j
    <3>1. active'[v][i] = active[v][i]
      BY <1>6, <2>2
    <3>2. active[v][i] # NoTask =>
            active[v][i] \in Running(v) /\ task[active[v][i]].job = i /\ active[v][i] # t
      BY <1>2 DEF RunnerInv, EntryRuns, Running
    <3>3. QED
      BY <1>5, <3>1, <3>2 DEF EntryRuns, Running
  <2>3. QED
    BY <2>1, <2>2
<1>10. ASSUME NEW v \in Workers PROVE Room(v)'
  <2>1. CASE v = w
    <3>1. Active(v)' = Active(v) \union {j}
      BY <1>3, <1>6, <2>1 DEF Active
    <3>2. /\ IsFiniteSet(Active(v)) /\ Cardinality(Active(v)) < Concurrency
      BY <1>1, <2>1 DEF RunnerInv, Room
    <3>3. /\ IsFiniteSet(Active(v)') /\ Cardinality(Active(v)') <= Concurrency
      BY <3>1, <3>2, AddAtMostOne, RunnerAssumption DEF RunnerAssumption
    <3>4. QED
      BY <1>7, <2>1, <3>3 DEF Room
  <2>2. CASE v # w
    <3>1. Active(v)' = Active(v)
      BY <1>6, <2>2 DEF Active
    <3>2. QED
      BY <1>7, <2>2, <3>1, RoomKept
  <2>3. QED
    BY <2>1, <2>2
<1>11. ASSUME NEW u \in TaskIds, task'[u].state = "claimed" PROVE ClaimAlone(u)'
  <2>1. u # t /\ task'[u] = task[u] /\ task[u].state = "claimed" /\ ClaimAlone(u)
    BY <1>5, <1>11 DEF RunnerInv
  <2>2. task[u].worker # w /\ task[u].worker \in Workers
    BY <1>1, <1>2, <1>3, <2>1, TaskTypes DEF RunnerInv, ClaimAlone, Alive, TaskRow
  <2>3. ASSUME NEW x \in TaskIds, Alive(x)', task'[x].worker = task[u].worker
        PROVE  task'[x] = task[x] /\ Alive(x)
    BY <1>5, <2>2, <2>3 DEF Alive
  <2>4. QED
    BY <1>2, <1>7, <2>1, <2>2, <2>3 DEF ClaimAlone
<1>12. Stray' \subseteq Stray
  <2>1. Astray(t)' => Astray(t)
    BY <1>2, <1>3, <1>4, <1>5, <1>6 DEF Astray, Owns, Alive
  <2>2. ASSUME NEW u \in TaskIds, u # t, Astray(u)' PROVE Astray(u)
    <3>1. /\ task'[u] = task[u] /\ Alive(u) /\ task[u].job \in Jobs
          /\ task[u].worker \in Workers /\ task[u].state \in {"claimed", "running"}
      BY <1>1, <1>5, <2>2, TaskTypes DEF Astray, Alive, TaskRow
    <3>2. CASE task[u].worker = w /\ task[u].job = j
      <4>1. ClaimAlone(t)
        BY DEF RunnerInv
      <4>2. job[j].task # u
        BY <1>2, <1>4, <2>2, <3>1, <3>2, <4>1 DEF ClaimAlone
      <4>3. QED
        BY <3>1, <3>2, <4>2 DEF Astray, Owns
    <3>3. CASE ~(task[u].worker = w /\ task[u].job = j)
      <4>1. active'[task[u].worker][task[u].job] = active[task[u].worker][task[u].job]
        BY <1>6, <3>1, <3>3
      <4>2. QED
        BY <1>2, <2>2, <3>1, <4>1 DEF Astray, Owns, Alive
    <3>4. QED
      BY <3>2, <3>3
  <2>3. QED
    BY <2>1, <2>2 DEF Stray
<1>13. Cardinality(Stray') <= faults'
  BY <1>2, <1>12, StraysDwindle
<1>14. QED
  BY <1>8, <1>9, <1>10, <1>11, <1>13 DEF RunnerInv, ClaimAlone

(* Tasks of one worker go, with their entries or before they had any.      *)
LEMMA TasksGo ==
  ASSUME RunnerInv, TypeOK', job' = job, faults' \in {faults, faults + 1},
         NEW w \in Workers, phase'[w] \notin {"claiming", "starting"},
         \A t \in TaskIds : task'[t] = task[t] \/ task'[t] = Idle,
         \A t \in TaskIds : task[t].worker # w => task'[t] = task[t],
         \A t \in TaskIds : (task'[t] # Idle /\ task[t].worker = w) =>
                              (active'[w] = active[w] /\ task[t].state # "claimed"),
         \A v \in Workers : v # w => (active'[v] = active[v] /\ phase'[v] = phase[v]),
         \A j \in Jobs : active'[w][j] # NoTask =>
                           /\ active'[w][j] = active[w][j]
                           /\ task'[active[w][j]] = task[active[w][j]]
  PROVE  RunnerInv'
<1>1. TypeOK
  BY DEF RunnerInv
<1>2. \A t \in TaskIds : Alive(t)' => (task'[t] = task[t] /\ Alive(t) /\ task'[t] # Idle)
  BY DEF Alive, Idle
<1>3. ASSUME NEW v \in Workers, NEW j \in Jobs, active'[v][j] # NoTask
      PROVE  active'[v][j] \in Running(v)' /\ task'[active'[v][j]].job = j
  <2>1. /\ active'[v][j] = active[v][j] /\ active[v][j] \in Running(v)
        /\ task[active[v][j]].job = j /\ active[v][j] \in TaskIds
    BY <1>3 DEF RunnerInv, EntryRuns, Running
  <2>2. task'[active[v][j]] = task[active[v][j]]
    <3>1. CASE v = w
      BY <1>3, <3>1
    <3>2. CASE v # w
      BY <2>1, <3>2 DEF Running
    <3>3. QED
      BY <3>1, <3>2
  <2>3. QED
    BY <2>1, <2>2 DEF Running
<1>4. ASSUME NEW v \in Workers PROVE Room(v)'
  <2>1. Active(v)' \subseteq Active(v)
    BY DEF Active
  <2>2. QED
    BY <2>1, RoomKept
<1>5. ASSUME NEW u \in TaskIds, task'[u].state = "claimed" PROVE ClaimAlone(u)'
  <2>1. Alive(u)'
    BY <1>5 DEF Alive
  <2>2. task'[u] = task[u] /\ ClaimAlone(u) /\ task[u].state = "claimed"
    BY <1>2, <1>5, <2>1 DEF RunnerInv
  <2>3. task[u].worker # w /\ task[u].worker \in Workers
    BY <1>1, <1>2, <2>1, <2>2, TaskTypes DEF TaskRow
  <2>4. QED
    BY <1>2, <2>2, <2>3 DEF ClaimAlone
<1>6. Stray' \subseteq Stray
  <2>1. ASSUME NEW u \in TaskIds, Astray(u)' PROVE Astray(u)
    <3>1. /\ task'[u] = task[u] /\ Alive(u) /\ task'[u] # Idle
          /\ task[u].job \in Jobs /\ task[u].worker \in Workers
      BY <1>1, <1>2, <2>1, TaskTypes DEF Astray, TaskRow
    <3>2. active'[task[u].worker] = active[task[u].worker]
      BY <3>1
    <3>3. QED
      BY <2>1, <3>1, <3>2 DEF Astray, Owns, Alive
  <2>2. QED
    BY <2>1 DEF Stray
<1>7. Cardinality(Stray') <= faults'
  BY <1>6, StraysDwindle
<1>8. QED
  BY <1>3, <1>4, <1>5, <1>7 DEF RunnerInv, EntryRuns, ClaimAlone

LEMMA AnswerLostKeeps ==
  ASSUME RunnerInv, NEW w \in Workers, ClaimAnswerLost(w)
  PROVE  RunnerInv'
<1>1. TypeOK
  BY DEF RunnerInv
<1>2. PICK t \in TaskIds :
        /\ task[t].state = "claimed" /\ task[t].worker = w
        /\ task' = [task EXCEPT ![t] = Idle]
        /\ phase' = [phase EXCEPT ![w] = "sleeping"]
        /\ faults < MaxFaults /\ faults' = faults + 1
        /\ UNCHANGED <<job, active, stopping, exits>>
  BY DEF ClaimAnswerLost, Goto, Fault
<1>3. /\ task'[t] = Idle /\ \A u \in TaskIds \ {t} : task'[u] = task[u]
      /\ task' \in [TaskIds -> {Idle} \union TaskRow]
      /\ phase'[w] = "sleeping" /\ \A v \in Workers \ {w} : phase'[v] = phase[v]
      /\ phase' \in [Workers -> {"polling", "claiming", "starting", "sleeping",
                                  "draining", "closed", "gone"}]
  BY <1>1, <1>2 DEF TypeOK, TaskRow
<1>4. faults' \in 0 .. MaxFaults
  BY <1>1, <1>2, RunnerAssumption DEF TypeOK, RunnerAssumption
<1>5. TypeOK'
  BY <1>1, <1>2, <1>3, <1>4 DEF TypeOK, TaskRow
<1>6. \A u \in TaskIds : (task'[u] # Idle /\ task[u].worker = w) => task[u].state # "claimed"
  BY <1>2, <1>3 DEF RunnerInv, ClaimAlone, Alive
<1>7. \A j \in Jobs : active[w][j] # t
  BY <1>2 DEF RunnerInv, EntryRuns, Running, TaskIds, NoTask
<1>8. \A j \in Jobs : active[w][j] # NoTask => active[w][j] \in TaskIds
  BY <1>1 DEF TypeOK
<1>9. QED
  BY <1>2, <1>3, <1>5, <1>6, <1>7, <1>8, TasksGo

LEMMA VanishKeeps ==
  ASSUME RunnerInv, NEW w \in Workers, DeadlinePasses(w) \/ ProcessEnds(w) \/ Crash(w)
  PROVE  RunnerInv'
<1>1. TypeOK
  BY DEF RunnerInv
<1>2. /\ phase' = [phase EXCEPT ![w] = "gone"]
      /\ task' = [t \in TaskIds |->
                   IF task[t] # Idle /\ task[t].worker = w THEN Idle ELSE task[t]]
      /\ active' = [active EXCEPT ![w] = [j \in Jobs |-> NoTask]]
      /\ UNCHANGED <<job, stopping, faults>>
  BY DEF DeadlinePasses, ProcessEnds, Crash, Vanish, Goto
<1>3. exits' = exits \/ (exits < MaxExits /\ exits' = exits + 1)
  BY DEF DeadlinePasses, ProcessEnds, Crash, Exits
<1>4. exits' \in 0 .. MaxExits
  BY <1>1, <1>3, RunnerAssumption DEF TypeOK, RunnerAssumption
<1>5. /\ phase'[w] = "gone" /\ \A v \in Workers : v # w => phase'[v] = phase[v]
      /\ phase' \in [Workers -> {"polling", "claiming", "starting", "sleeping",
                                  "draining", "closed", "gone"}]
  BY <1>1, <1>2 DEF TypeOK
<1>6. /\ \A j \in Jobs : active'[w][j] = NoTask
      /\ \A v \in Workers : v # w => active'[v] = active[v]
      /\ active' \in [Workers -> [Jobs -> TaskIds \union {NoTask}]]
  BY <1>1, <1>2 DEF TypeOK
<1>7. /\ task' \in [TaskIds -> {Idle} \union TaskRow]
      /\ \A t \in TaskIds : task'[t] = task[t] \/ task'[t] = Idle
      /\ \A t \in TaskIds : task[t].worker # w => task'[t] = task[t]
      /\ \A t \in TaskIds : task'[t] # Idle => task[t].worker # w
  BY <1>1, <1>2 DEF TypeOK, TaskRow
<1>8. TypeOK'
  BY <1>1, <1>2, <1>4, <1>5, <1>6, <1>7 DEF TypeOK, TaskRow
<1>9. QED
  BY <1>2, <1>5, <1>6, <1>7, <1>8, TasksGo

(* The beats of a task stop: because its lease is gone, or by a fault.     *)
LEMMA BeatsStop ==
  ASSUME RunnerInv, NEW t \in TaskIds, HeartbeatFindsLoss(t) \/ HeartbeatFails(t)
  PROVE  RunnerInv'
<1>1. TypeOK
  BY DEF RunnerInv
<1>2. /\ task[t].state = "running" /\ task' = [task EXCEPT ![t].lost = TRUE]
      /\ UNCHANGED <<job, active, phase, stopping, exits>>
      /\ \/ ~Owns(t) /\ faults' = faults
         \/ faults < MaxFaults /\ faults' = faults + 1
  BY DEF HeartbeatFindsLoss, HeartbeatFails, Beats, Fault
<1>3. Alive(t) /\ task[t] \in TaskRow
  BY <1>1, <1>2, TaskTypes DEF Alive
<1>4. /\ task' \in [TaskIds -> {Idle} \union TaskRow]
      /\ task'[t].state = "running" /\ task'[t].worker = task[t].worker
      /\ task'[t].job = task[t].job
      /\ \A u \in TaskIds \ {t} : task'[u] = task[u]
  <2>1. LET r == [task[t] EXCEPT !.lost = TRUE]
        IN  /\ r \in TaskRow /\ r.state = "running" /\ r.worker = task[t].worker
            /\ r.job = task[t].job /\ task' = [task EXCEPT ![t] = r]
    BY <1>1, <1>2, <1>3 DEF TaskRow, TypeOK
  <2>2. QED
    BY <1>1, <2>1 DEF TypeOK, TaskRow
<1>5. faults' \in 0 .. MaxFaults
  BY <1>1, <1>2, RunnerAssumption DEF TypeOK, RunnerAssumption
<1>6. TypeOK'
  BY <1>1, <1>2, <1>4, <1>5 DEF TypeOK, TaskRow
<1>7. \A w \in Workers, j \in Jobs : EntryRuns(w, j)'
  BY <1>2, <1>4 DEF RunnerInv, EntryRuns, Running
<1>8. \A w \in Workers : Room(w)'
  BY <1>2, RoomKept DEF Active
<1>9. ASSUME NEW u \in TaskIds PROVE ClaimAlone(u)'
  <2>1. ClaimAlone(u)
    BY DEF RunnerInv
  <2>2. QED
    BY <1>2, <1>4, <2>1 DEF ClaimAlone, Alive
<1>10. \A u \in TaskIds : u # t => (Astray(u)' => Astray(u))
  BY <1>2, <1>4 DEF Astray, Owns, Alive
<1>11. Cardinality(Stray') <= faults'
  <2>1. CASE ~Owns(t) /\ faults' = faults
    <3>1. t \in Stray
      BY <1>3, <2>1 DEF Stray, Astray
    <3>2. Stray' \subseteq Stray
      BY <1>10, <3>1 DEF Stray
    <3>3. QED
      BY <2>1, <3>2, StraysDwindle
  <2>2. CASE faults' = faults + 1
    <3>1. Stray' \subseteq Stray \union {t}
      BY <1>10 DEF Stray
    <3>2. QED
      BY <2>2, <3>1, OneMoreStray
  <2>3. QED
    BY <1>2, <2>1, <2>2
<1>12. QED
  BY <1>6, <1>7, <1>8, <1>9, <1>11 DEF RunnerInv

(* A lease runs out under a task whose beats have stopped, or by a fault.  *)
LEMMA ExpiryKeeps ==
  ASSUME RunnerInv, NEW j \in Jobs, LeaseExpires(j)
  PROVE  RunnerInv'
<1>1. TypeOK
  BY DEF RunnerInv
<1>2. /\ job[j].status = "PROCESSING" /\ job[j].live
      /\ job' = [job EXCEPT ![j].live = FALSE]
      /\ UNCHANGED <<task, active, phase, stopping, exits>>
      /\ IF Beats(job[j].task) \/ task[job[j].task].state = "claimed"
           THEN faults < MaxFaults /\ faults' = faults + 1 ELSE faults' = faults
  BY DEF LeaseExpires, Fault
<1>3. /\ job' \in [Jobs -> JobRow]
      /\ job'[j].status = job[j].status /\ job'[j].task = job[j].task
      /\ \A i \in Jobs \ {j} : job'[i] = job[i]
  <2>1. LET r == [job[j] EXCEPT !.live = FALSE]
        IN  /\ r \in JobRow /\ r.status = job[j].status /\ r.task = job[j].task
            /\ job' = [job EXCEPT ![j] = r]
    BY <1>1, <1>2 DEF TypeOK, JobRow
  <2>2. QED
    BY <1>1, <2>1 DEF TypeOK, JobRow
<1>4. PICK t \in TaskIds : t = job[j].task
  BY <1>1, <1>2 DEF TypeOK
<1>5. faults' \in 0 .. MaxFaults
  BY <1>1, <1>2, RunnerAssumption DEF TypeOK, RunnerAssumption
<1>6. TypeOK'
  BY <1>1, <1>2, <1>3, <1>5 DEF TypeOK, JobRow
<1>7. \A w \in Workers, i \in Jobs : EntryRuns(w, i)'
  BY <1>2 DEF RunnerInv, EntryRuns, Running
<1>8. \A w \in Workers : Room(w)'
  BY <1>2, RoomKept DEF Active
<1>9. ASSUME NEW u \in TaskIds PROVE ClaimAlone(u)'
  <2>1. task[u].state = "claimed" => job'[task[u].job].task = job[task[u].job].task
    BY <1>1, <1>3, TaskTypes DEF Alive, TaskRow
  <2>2. ClaimAlone(u)
    BY DEF RunnerInv
  <2>3. QED
    BY <1>2, <2>1, <2>2 DEF ClaimAlone, Alive
<1>10. \A u \in TaskIds : u # t => (Astray(u)' => Astray(u))
  <2>1. ASSUME NEW u \in TaskIds, u # t, Astray(u)' PROVE Astray(u)
    <3>1. Alive(u) /\ task[u].job \in Jobs
      BY <1>1, <1>2, <2>1, TaskTypes DEF Astray, Alive, TaskRow
    <3>2. CASE task[u].job = j
      BY <1>4, <2>1, <3>1, <3>2 DEF Astray, Owns
    <3>3. CASE task[u].job # j
      BY <1>2, <1>3, <2>1, <3>1, <3>3 DEF Astray, Owns, Alive
    <3>4. QED
      BY <3>2, <3>3
  <2>2. QED
    BY <2>1
<1>11. Cardinality(Stray') <= faults'
  <2>1. CASE Beats(t) \/ task[t].state = "claimed"
    <3>1. faults' = faults + 1
      BY <1>2, <1>4, <2>1
    <3>2. Stray' \subseteq Stray \union {t}
      BY <1>10 DEF Stray
    <3>3. QED
      BY <3>1, <3>2, OneMoreStray
  <2>2. CASE ~(Beats(t) \/ task[t].state = "claimed")
    <3>1. faults' = faults
      BY <1>2, <1>4, <2>2
    <3>2. Alive(t) => task[t].lost
      BY <1>1, <2>2, TaskTypes DEF Beats, TaskRow
    <3>3. Astray(t)' => Astray(t)
      BY <1>2, <3>2 DEF Astray, Alive
    <3>4. Stray' \subseteq Stray
      BY <1>10, <3>3 DEF Stray
    <3>5. QED
      BY <3>1, <3>4, StraysDwindle
  <2>3. QED
    BY <2>1, <2>2
<1>12. QED
  BY <1>6, <1>7, <1>8, <1>9, <1>11 DEF RunnerInv

(* A task that ends deletes the entry of its job, its own or another's.    *)
LEMMA EndKeeps ==
  ASSUME RunnerInv, NEW t \in TaskIds, TaskEnds(t)
  PROVE  RunnerInv'
<1>1. TypeOK /\ task[t].state = "running" /\ Alive(t) /\ task[t] \in TaskRow
  BY TaskTypes DEF RunnerInv, TaskEnds, Alive
<1>2. PICK w \in Workers, j \in Jobs : w = task[t].worker /\ j = task[t].job
  BY <1>1 DEF TaskRow
<1>3. /\ task' = [task EXCEPT ![t] = Idle]
      /\ active' = [active EXCEPT ![w][j] = NoTask]
      /\ UNCHANGED <<phase, stopping, exits>>
      /\ \/ Owns(t) /\ job' = [job EXCEPT ![j] = DoneRow(job[j])]
         \/ job' = job
      /\ \/ faults' = faults
         \/ faults < MaxFaults /\ faults' = faults + 1
  BY <1>2 DEF TaskEnds, DeleteEntry, Fault
<1>4. /\ task' \in [TaskIds -> {Idle} \union TaskRow]
      /\ task'[t] = Idle /\ \A u \in TaskIds \ {t} : task'[u] = task[u]
  BY <1>1, <1>3 DEF TypeOK, TaskRow
<1>5. ~Alive(t)'
  BY <1>4 DEF Alive, Idle
<1>6. /\ active' \in [Workers -> [Jobs -> TaskIds \union {NoTask}]]
      /\ active'[w][j] = NoTask
      /\ \A v \in Workers, i \in Jobs : (v # w \/ i # j) => active'[v][i] = active[v][i]
  BY <1>1, <1>3 DEF TypeOK
<1>7. /\ job' \in [Jobs -> JobRow]
      /\ \A i \in Jobs : (job'[i].status = "PROCESSING") = (job'[i].task # NoTask)
      /\ \A i \in Jobs \ {j} : job'[i] = job[i]
      /\ \/ job' = job
         \/ job[j].task = t /\ job'[j].task = NoTask
  <2>1. CASE job' = job
    BY <1>1, <2>1 DEF TypeOK, JobRow
  <2>2. CASE Owns(t) /\ job' = [job EXCEPT ![j] = DoneRow(job[j])]
    <3>1. DoneRow(job[j]) = [status |-> "DONE", task |-> NoTask, live |-> FALSE]
      BY DEF DoneRow
    <3>2. job[j].task = t
      BY <1>2, <2>2 DEF Owns
    <3>3. QED
      BY <1>1, <2>2, <3>1, <3>2 DEF TypeOK, JobRow
  <2>3. QED
    BY <1>3, <2>1, <2>2
<1>8. faults' \in 0 .. MaxFaults /\ faults' \in {faults, faults + 1}
  BY <1>1, <1>3, RunnerAssumption DEF TypeOK, RunnerAssumption
<1>9. TypeOK'
  BY <1>1, <1>3, <1>4, <1>6, <1>7, <1>8 DEF TypeOK, JobRow, TaskRow
<1>10. ASSUME NEW v \in Workers, NEW i \in Jobs, active'[v][i] # NoTask
       PROVE  EntryRuns(v, i)'
  <2>1. v # w \/ i # j
    BY <1>6, <1>10
  <2>2. /\ active'[v][i] = active[v][i] /\ active[v][i] \in Running(v)
        /\ task[active[v][i]].job = i
    BY <1>6, <1>10, <2>1 DEF RunnerInv, EntryRuns
  <2>3. active[v][i] # t
    BY <1>2, <2>1, <2>2 DEF Running
  <2>4. QED
    BY <1>4, <2>2, <2>3 DEF EntryRuns, Running
<1>11. \A v \in Workers : Room(v)'
  <2>1. ASSUME NEW v \in Workers PROVE Active(v)' \subseteq Active(v)
    BY <1>6 DEF Active
  <2>2. QED
    BY <1>3, <2>1, RoomKept
<1>12. ASSUME NEW u \in TaskIds, task'[u].state = "claimed" PROVE ClaimAlone(u)'
  <2>1. u # t /\ task'[u] = task[u]
    BY <1>4, <1>5, <1>12 DEF Alive
  <2>2. task[u].job \in Jobs /\ ClaimAlone(u)
    BY <1>1, <1>12, <2>1, TaskTypes DEF RunnerInv, Alive, TaskRow
  <2>3. ASSUME NEW x \in TaskIds, Alive(x)'
        PROVE  x # t /\ x # NoTask /\ task'[x] = task[x] /\ Alive(x)
    BY <1>1, <1>4, <1>5, <2>3, TaskTypes DEF Alive
  <2>4. job'[task[u].job].task \in {job[task[u].job].task, NoTask}
    BY <1>7, <2>2
  <2>5. QED
    BY <1>3, <1>12, <2>1, <2>2, <2>3, <2>4 DEF ClaimAlone
<1>13. ASSUME NEW u \in TaskIds, u # t, u # active[w][j], Astray(u)'
       PROVE  Astray(u)
  <2>1. /\ task'[u] = task[u] /\ Alive(u)
        /\ task[u].job \in Jobs /\ task[u].worker \in Workers
    BY <1>1, <1>4, <1>13, TaskTypes DEF Astray, Alive, TaskRow
  <2>2. Owns(u) => Owns(u)'
    BY <1>7, <1>13, <2>1 DEF Owns
  <2>3. CASE task[u].worker = w /\ task[u].job = j
    BY <1>13, <2>1, <2>2, <2>3 DEF Astray
  <2>4. CASE ~(task[u].worker = w /\ task[u].job = j)
    <3>1. active'[task[u].worker][task[u].job] = active[task[u].worker][task[u].job]
      BY <1>6, <2>1, <2>4
    <3>2. QED
      BY <1>13, <2>1, <2>2, <3>1 DEF Astray
  <2>5. QED
    BY <2>3, <2>4
<1>14. ~Astray(t)'
  BY <1>5 DEF Astray
<1>15. Cardinality(Stray') <= faults'
  <2>1. CASE active[w][j] \in {t, NoTask}
    <3>1. Stray' \subseteq Stray
      BY <1>1, <1>13, <1>14, <2>1, TaskTypes DEF Stray
    <3>2. QED
      BY <1>8, <3>1, StraysDwindle
  <2>2. CASE active[w][j] \notin {t, NoTask}
    <3>1. t \in Stray
      BY <1>1, <1>2, <2>2 DEF Stray, Astray
    <3>2. Stray' \subseteq (Stray \ {t}) \union {active[w][j]}
      BY <1>13, <1>14 DEF Stray
    <3>3. QED
      BY <1>8, <3>1, <3>2, ChargePasses
  <2>3. QED
    BY <2>1, <2>2
<1>16. QED
  BY <1>9, <1>10, <1>11, <1>12, <1>15 DEF RunnerInv, EntryRuns, ClaimAlone

----------------------------------------------------------------------------
LEMMA RunnerStarts == Init => RunnerInv
<1>1. SUFFICES ASSUME Init PROVE RunnerInv
  OBVIOUS
<1>2. \A t \in TaskIds : task[t] = Idle /\ ~Alive(t) /\ task[t].state = "idle"
  BY <1>1 DEF Init, Alive, Idle
<1>3. faults = 0 /\ faults \in 0 .. MaxFaults /\ exits \in 0 .. MaxExits
  BY <1>1, RunnerAssumption DEF Init, RunnerAssumption
<1>4. \A w \in Workers, j \in Jobs : active[w][j] = NoTask
  BY <1>1 DEF Init
<1>5. TypeOK
  <2>1. job \in [Jobs -> JobRow]
        /\ \A j \in Jobs : (job[j].status = "PROCESSING") = (job[j].task # NoTask)
    BY <1>1 DEF Init, JobRow
  <2>2. QED
    BY <1>1, <1>3, <2>1 DEF Init, TypeOK, JobRow
<1>6. ASSUME NEW w \in Workers PROVE Room(w)
  <2>1. Active(w) = {} /\ phase[w] = "polling"
    BY <1>1, <1>4 DEF Active, Init
  <2>2. QED
    BY <2>1, FS_EmptySet, RunnerAssumption DEF Room, RunnerAssumption
<1>7. Cardinality(Stray) <= faults
  <2>1. Stray = {}
    BY <1>2 DEF Stray, Astray
  <2>2. QED
    BY <1>3, <2>1, FS_EmptySet
<1>8. QED
  BY <1>2, <1>4, <1>5, <1>6, <1>7 DEF RunnerInv, EntryRuns, ClaimAlone

LEMMA RunnerSteps == RunnerInv /\ [Next]_vars => RunnerInv'
<1>1. SUFFICES ASSUME RunnerInv, [Next]_vars PROVE RunnerInv'
  OBVIOUS
<1>2. ASSUME NEW w \in Workers, Loop(w) \/ ClaimAnswerLost(w) \/ RequestShutdown(w) \/ Crash(w)
      PROVE  RunnerInv'
  BY <1>1, <1>2, LoopKeeps, ClaimKeeps, RunOneKeeps, AnswerLostKeeps, VanishKeeps DEF Loop
<1>3. ASSUME NEW t \in TaskIds, HeartbeatFindsLoss(t) \/ HeartbeatFails(t) \/ TaskEnds(t)
      PROVE  RunnerInv'
  BY <1>1, <1>3, BeatsStop, EndKeeps
<1>4. ASSUME NEW j \in Jobs, LeaseExpires(j) PROVE RunnerInv'
  BY <1>1, <1>4, ExpiryKeeps
<1>5. CASE UNCHANGED vars
  <2>1. CASE Workers = {}
    BY <1>1, <1>5, <2>1 DEF RunnerInv, TypeOK, vars, Stray, Astray, Alive, Owns, ClaimAlone
  <2>2. CASE Workers # {}
    BY <1>1, <1>5, <2>2, LoopKeeps
  <2>3. QED
    BY <2>1, <2>2
<1>6. QED
  BY <1>1, <1>2, <1>3, <1>4, <1>5 DEF Next

(* The inductive invariant holds throughout: entries, places, claims in    *)
(* flight, and the strays that the faults pay for (worker-runner.ts).      *)
THEOREM RunnerInvariance == Spec => []RunnerInv
BY RunnerStarts, RunnerSteps, PTL DEF Spec

(* Every entry of a worker's map names a task of its own that is running   *)
(* for that job, and no more tasks run than the concurrency and one for    *)
(* every fault so far, although entries are overwritten and deleted by the *)
(* wrong task (runOne and its finally block).                              *)
THEOREM EntriesAlwaysRun == Spec => []EntriesRun
<1>1. ASSUME RunnerInv, NEW w \in Workers
      PROVE  Cardinality(Running(w)) <= Concurrency + faults
  <2>1. DEFINE Named == {active[w][j] : j \in Active(w)}
  <2>2. Room(w) /\ TypeOK /\ Cardinality(Stray) <= faults
    BY <1>1 DEF RunnerInv
  <2>3. IsFiniteSet(Stray) /\ Cardinality(Stray) \in Nat
    BY RunnerAssumption, StrayFinite DEF Stray
  <2>4. IsFiniteSet(Named) /\ Cardinality(Named) <= Cardinality(Active(w))
    <3>1. [j \in Active(w) |-> active[w][j]] \in Surjection(Active(w), Named)
      BY DEF Surjection
    <3>2. QED
      BY <2>2, <3>1, FS_Surjection DEF Room
  <2>5. Cardinality(Named) \in Nat /\ Cardinality(Active(w)) \in Nat
    BY <2>2, <2>4, FS_CardinalityType DEF Room
  <2>6. Running(w) \subseteq Named \union Stray
    <3>1. ASSUME NEW t \in Running(w), ~Astray(t) PROVE t \in Named
      <4>1. t \in TaskIds /\ Alive(t) /\ task[t].job \in Jobs /\ task[t].worker = w
        BY <2>2, <3>1, TaskTypes DEF Running, Alive, TaskRow
      <4>2. active[w][task[t].job] = t
        BY <3>1, <4>1 DEF Astray, Running
      <4>3. task[t].job \in Active(w)
        BY <2>2, <4>1, <4>2, TaskTypes DEF Active
      <4>4. QED
        BY <4>2, <4>3
    <3>2. QED
      BY <3>1 DEF Stray, Running
  <2>7. /\ IsFiniteSet(Named \union Stray)
        /\ Cardinality(Named \union Stray) <= Cardinality(Named) + Cardinality(Stray)
    <3>1. Cardinality(Named \union Stray)
            = Cardinality(Named) + Cardinality(Stray) - Cardinality(Named \intersect Stray)
      BY <2>3, <2>4, FS_Union
    <3>2. IsFiniteSet(Named \union Stray) /\ IsFiniteSet(Named \intersect Stray)
      BY <2>3, <2>4, FS_Union, FS_Intersection
    <3>3. Cardinality(Named \intersect Stray) \in Nat
      BY <3>2, FS_CardinalityType
    <3>4. QED
      BY <2>3, <2>5, <3>1, <3>2, <3>3
  <2>8. Cardinality(Running(w)) <= Cardinality(Named \union Stray)
    BY <2>6, <2>7, FS_Subset
  <2>9. Cardinality(Running(w)) \in Nat /\ Cardinality(Named \union Stray) \in Nat
    BY <2>6, <2>7, FS_Subset, FS_CardinalityType
  <2>10. faults \in Nat
    BY <2>2, RunnerAssumption DEF TypeOK, RunnerAssumption
  <2> HIDE DEF Named
  <2>11. QED
    BY <2>2, <2>3, <2>4, <2>5, <2>7, <2>8, <2>9, <2>10, RunnerAssumption
       DEF Room, RunnerAssumption
<1>2. RunnerInv => EntriesRun
  BY <1>1 DEF RunnerInv, EntriesRun, EntryRuns, Active
<1>3. QED
  BY <1>2, RunnerInvariance, PTL
=============================================================================
