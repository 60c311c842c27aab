------------------------------- MODULE OpsJobs -------------------------------
(***************************************************************************)
(* The bulk-operation service (backend/internal/services/ops/service.go):  *)
(* rows of ops_jobs and ops_job_items in Postgres, the dispatcher goroutine *)
(* that turns queued jobs into running ones, one runner goroutine per      *)
(* started job with a pool of worker goroutines, and the process that may  *)
(* die at any moment (nothing in cmd/api/main.go cancels its contexts or   *)
(* repairs rows on start).                                                 *)
(*                                                                         *)
(* What a worker does to the node is the executor's business; here it only *)
(* ends well or badly (every call runs under a timeout).                   *)
(***************************************************************************)
EXTENDS Integers, FiniteSets

CONSTANTS
    MaxJobs,            \* rows of ops_jobs, numbered by created_at
    MaxItems,           \* targets of one request
    Requested,          \* the values of "parallelism" a request may carry
    MaxConcurrentJobs,  \* maxConcurrentJobs, 3 in the code
    MaxParallelism,     \* maxParallelism, 10 in the code
    DefaultParallelism, \* 5 in the code
    MaxCrashes,         \* bound on process deaths
    MaxDbErrors         \* bound on failing statements

ASSUME BoundsAssumption ==
    /\ MaxJobs \in Nat
    /\ MaxItems \in Nat \ {0}
    /\ MaxConcurrentJobs \in Nat
    /\ MaxCrashes \in Nat
    /\ MaxDbErrors \in Nat

ASSUME ParallelismAssumption ==
    /\ Requested \subseteq Int
    /\ MaxParallelism \in Nat \ {0}
    /\ DefaultParallelism \in 1..MaxParallelism

VARIABLES
    job,      \* ops_jobs.status; "absent" before the row exists
    par,      \* ops_jobs.parallelism
    item,     \* ops_job_items.status
    up,       \* is the backend process alive?
    slots,    \* pickAndRun: slots left in this tick (0: waiting for a tick)
    runner,   \* runJob of a job: "none", "load" or "work"
    work,     \* an item inside runJob, see WorkState
    failed,   \* runJob's counter of failed items
    begun,    \* history: how often executeItem was entered for an item
    result,   \* history: how its last execution ended
    crashes,  \* history: process deaths so far
    dbErrors  \* history: failed statements so far

rows == <<job, par, item>>
procs == <<up, slots, runner, work, failed>>
ghosts == <<begun, result, crashes, dbErrors>>
vars == <<job, par, item, up, slots, runner, work, failed,
          begun, result, crashes, dbErrors>>

Jobs == 1..MaxJobs
Idx == 1..MaxItems

JobStatus == {"queued", "running", "success", "failed"}
Terminal == {"success", "failed"}

\* "none": not in runJob's hands; "pending": loaded, not yet sent on the
\* channel; "running": a worker executes it; "ok", "err": executed, its
\* worker is about to call finishItem.
WorkState == {"none", "pending", "running", "ok", "err"}

\* The items a worker goroutine of j holds.
Busy(j) == {i \in Idx : work[j][i] \in {"running", "ok", "err"}}

RunningRows == {j \in Jobs : job[j] = "running"}

\* Rows that say "running" with no runner goroutine behind them.
Orphans == {j \in RunningRows : runner[j] = "none"}

TypeOK ==
    /\ job \in [Jobs -> JobStatus \cup {"absent"}]
    /\ par \in [Jobs -> 0..MaxParallelism]
    /\ item \in [Jobs -> [Idx -> JobStatus \cup {"absent"}]]
    /\ up \in BOOLEAN
    /\ slots \in 0..MaxConcurrentJobs
    /\ runner \in [Jobs -> {"none", "load", "work"}]
    /\ work \in [Jobs -> [Idx -> WorkState]]
    /\ failed \in [Jobs -> Nat]
    /\ begun \in [Jobs -> [Idx -> Nat]]
    /\ result \in [Jobs -> [Idx -> {"none", "ok", "err"}]]
    /\ crashes \in 0..MaxCrashes
    /\ dbErrors \in 0..MaxDbErrors

------------------------------------------------------------------------------
Init ==
    /\ job = [j \in Jobs |-> "absent"]
    /\ par = [j \in Jobs |-> 0]
    /\ item = [j \in Jobs |-> [i \in Idx |-> "absent"]]
    /\ up = TRUE
    /\ slots = 0
    /\ runner = [j \in Jobs |-> "none"]
    /\ work = [j \in Jobs |-> [i \in Idx |-> "none"]]
    /\ failed = [j \in Jobs |-> 0]
    /\ begun = [j \in Jobs |-> [i \in Idx |-> 0]]
    /\ result = [j \in Jobs |-> [i \in Idx |-> "none"]]
    /\ crashes = 0
    /\ dbErrors = 0

\* The outcome of one statement (or transaction) sent to Postgres.
DbOk == UNCHANGED dbErrors
DbFails == dbErrors < MaxDbErrors /\ dbErrors' = dbErrors + 1

------------------------------------------------------------------------------
(* CreateJob *)

clampParallelism(p) ==
    IF p <= 0 THEN DefaultParallelism
    ELSE IF p > MaxParallelism THEN MaxParallelism ELSE p

\* The handler's transaction: the job row and one row per target, all queued.
\* A rejected request writes nothing. Targets are not deduplicated.
CreateJob(j, n, p) ==
    /\ up
    /\ job[j] = "absent" /\ \A k \in 1..(j - 1) : job[k] # "absent"
    /\ job' = [job EXCEPT ![j] = "queued"]
    /\ par' = [par EXCEPT ![j] = clampParallelism(p)]
    /\ item' = [item EXCEPT ![j] =
                   [i \in Idx |-> IF i <= n THEN "queued" ELSE "absent"]]
    /\ UNCHANGED <<procs, ghosts>>

------------------------------------------------------------------------------
(* The dispatcher *)

\* Mutant: one slot too many.
availableJobSlotsPlusOne ==
    LET free == MaxConcurrentJobs + 1 - Cardinality(RunningRows)
    IN  IF free < 0 THEN 0 ELSE free

\* Mutant: one slot too few.
availableJobSlotsMinusOne ==
    LET free == MaxConcurrentJobs - 1 - Cardinality(RunningRows)
    IN  IF free < 0 THEN 0 ELSE free

availableJobSlots ==
    LET free == MaxConcurrentJobs - Cardinality(RunningRows)
    IN  IF free < 0 THEN 0 ELSE free

\* A tick of loop: pickAndRun reads the number of running rows once. A failing
\* count is 0 slots: the tick is lost.
Tick ==
    /\ up /\ slots = 0
    /\ \/ DbOk /\ slots' = availableJobSlots /\ slots' > 0
       \/ DbFails /\ UNCHANGED slots
    /\ UNCHANGED <<rows, up, runner, work, failed, begun, result, crashes>>

\* Mutant: the newest queued row instead of the oldest.
Newest(j) ==
    /\ job[j] = "queued"
    /\ \A k \in (j + 1)..MaxJobs : job[k] # "queued"

\* The queued row with the smallest created_at.
Oldest(j) ==
    /\ job[j] = "queued"
    /\ \A k \in 1..(j - 1) : job[k] # "queued"

\* pickQueuedJob commits the row as running and runJob is started for it. When
\* the commit is reported as failed the tick ends, and the row is either
\* untouched or, the acknowledgement being lost, running with nobody behind it.
pickQueuedJob(j) ==
    /\ up /\ slots > 0
    /\ Oldest(j)
    /\ \/ /\ DbOk
          /\ job' = [job EXCEPT ![j] = "running"]
          /\ runner' = [runner EXCEPT ![j] = "load"]
          /\ slots' = slots - 1
       \/ /\ DbFails
          /\ job' \in {job, [job EXCEPT ![j] = "running"]}
          /\ slots' = 0
          /\ UNCHANGED runner
    /\ UNCHANGED <<par, item, up, work, failed, begun, result, crashes>>

\* No queued row is left: pickAndRun returns.
NothingQueued ==
    /\ up /\ slots > 0
    /\ \A j \in Jobs : job[j] # "queued"
    /\ slots' = 0
    /\ UNCHANGED <<rows, up, runner, work, failed, ghosts>>

------------------------------------------------------------------------------
(* runJob and its workers *)

\* runJob reads the queued items; on an error it returns, leaving the row.
LoadItems(j) ==
    /\ up /\ runner[j] = "load"
    /\ \/ /\ DbOk
          /\ runner' = [runner EXCEPT ![j] = "work"]
          /\ work' = [work EXCEPT ![j] =
                [i \in Idx |-> IF item[j][i] = "queued" THEN "pending" ELSE "none"]]
       \/ /\ DbFails
          /\ runner' = [runner EXCEPT ![j] = "none"]
          /\ UNCHANGED work
    /\ failed' = [failed EXCEPT ![j] = 0]
    /\ UNCHANGED <<rows, up, slots, begun, result, crashes>>

\* The number of worker goroutines: runJob has a default of its own.
poolSize(j) == IF par[j] <= 0 THEN DefaultParallelism ELSE par[j]

\* A free worker receives an item and executeItem marks the row running (the
\* error of that update is dropped), then calls the executor.
StartItem(j, i) ==
    /\ up /\ runner[j] = "work"
    /\ work[j][i] = "pending"
    /\ Cardinality(Busy(j)) < poolSize(j)
    /\ work' = [work EXCEPT ![j][i] = "running"]
    /\ begun' = [begun EXCEPT ![j][i] = begun[j][i] + 1]
    /\ \/ DbOk /\ item' = [item EXCEPT ![j][i] = "running"]
       \/ DbFails /\ UNCHANGED item
    /\ UNCHANGED <<job, par, up, slots, runner, failed, result, crashes>>

\* The executor returns, or its timeout does.
ExecutorReturns(j, i, r) ==
    /\ up /\ runner[j] = "work"
    /\ work[j][i] = "running"
    /\ work' = [work EXCEPT ![j][i] = r]
    /\ result' = [result EXCEPT ![j][i] = r]
    /\ UNCHANGED <<rows, up, slots, runner, failed, begun, crashes, dbErrors>>

\* finishItem writes the item's status (the error is dropped) and the worker
\* counts the failure.
finishItem(j, i) ==
    /\ up /\ runner[j] = "work"
    /\ work[j][i] \in {"ok", "err"}
    /\ work' = [work EXCEPT ![j][i] = "none"]
    /\ failed' = [failed EXCEPT ![j] =
                     failed[j] + (IF work[j][i] = "err" THEN 1 ELSE 0)]
    /\ \/ /\ DbOk
          /\ item' = [item EXCEPT ![j][i] =
                         IF work[j][i] = "ok" THEN "success" ELSE "failed"]
       \/ DbFails /\ UNCHANGED item
    /\ UNCHANGED <<job, par, up, slots, runner, begun, result, crashes>>

\* Mutant: one failed item is tolerated.
jobStatusTolerant(n) == IF n > 1 THEN "failed" ELSE "success"

jobStatusFromFailures(n) == IF n > 0 THEN "failed" ELSE "success"

\* wg.Wait returned: runJob saves the job's final status (the error of the
\* save is dropped) and ends.
SaveJob(j) ==
    /\ up /\ runner[j] = "work"
    /\ \A i \in Idx : work[j][i] = "none"
    /\ runner' = [runner EXCEPT ![j] = "none"]
    /\ \/ DbOk /\ job' = [job EXCEPT ![j] = jobStatusFromFailures(failed[j])]
       \/ DbFails /\ UNCHANGED job
    /\ UNCHANGED <<par, item, up, slots, work, failed, begun, result, crashes>>

------------------------------------------------------------------------------
(* The process *)

Crash ==
    /\ up /\ crashes < MaxCrashes
    /\ up' = FALSE
    /\ slots' = 0
    /\ runner' = [j \in Jobs |-> "none"]
    /\ work' = [j \in Jobs |-> [i \in Idx |-> "none"]]
    /\ failed' = [j \in Jobs |-> 0]
    /\ crashes' = crashes + 1
    /\ UNCHANGED <<rows, begun, result, dbErrors>>

\* Mutant: rows found running are put back into the queue.
StartRequeues ==
    /\ ~up
    /\ up' = TRUE
    /\ job' = [j \in Jobs |-> IF job[j] = "running" THEN "queued" ELSE job[j]]
    /\ UNCHANGED <<par, item, slots, runner, work, failed, ghosts>>

\* main starts the service again; no row is touched.
Start ==
    /\ ~up
    /\ up' = TRUE
    /\ UNCHANGED <<rows, slots, runner, work, failed, ghosts>>

------------------------------------------------------------------------------
RunnerStep(j) ==
    \/ LoadItems(j)
    \/ \E i \in Idx : StartItem(j, i)
    \/ \E i \in Idx, r \in {"ok", "err"} : ExecutorReturns(j, i, r)
    \/ \E i \in Idx : finishItem(j, i)
    \/ SaveJob(j)

Dispatch ==
    \/ Tick
    \/ \E j \in Jobs : pickQueuedJob(j)
    \/ NothingQueued

Next ==
    \/ \E j \in Jobs, n \in Idx, p \in Requested : CreateJob(j, n, p)
    \/ Dispatch
    \/ \E j \in Jobs : RunnerStep(j)
    \/ Crash
    \/ Start

Spec == Init /\ [][Next]_vars

\* The ticker fires again and again, every goroutine that can run does, every
\* executor call ends (it has a timeout), and the container is restarted
\* (docker-compose.yml: restart: unless-stopped). Requests and faults are not
\* fair.
Fairness ==
    /\ WF_vars(Dispatch)
    /\ \A j \in Jobs : WF_vars(RunnerStep(j))
    /\ WF_vars(Start)

FairSpec == Spec /\ Fairness

------------------------------------------------------------------------------
(* Properties *)

\* Never more than maxConcurrentJobs rows say "running": the dispatcher counts
\* once and then starts several jobs, while runners finish, rows leak and the
\* process restarts (pickAndRun, availableJobSlots).
SlotBound == Cardinality(RunningRows) <= MaxConcurrentJobs

\* No target is operated on twice (a node is not rebooted twice by one job),
\* whatever crashes, restarts and failing statements come between.
AtMostOnce == \A j \in Jobs, i \in Idx : begun[j][i] <= 1

JobTruth(j) ==
    job[j] \in Terminal =>
        /\ \A i \in Idx : item[j][i] # "absent" => result[j][i] # "none"
        /\ job[j] = "success" <=> \A i \in Idx : result[j][i] # "err"

\* A finished job tells the truth about its targets, even when statements
\* failed on the way: every target was executed to the end, and the job is
\* "success" exactly when all of them succeeded (runJob, jobStatusFromFailures).
StatusTruth == \A j \in Jobs : JobTruth(j)

\* While no statement has failed, the item rows of a finished job are final and
\* agree with what the executors did (finishItem drops its write error).
RowsAgree ==
    dbErrors = 0 =>
        \A j \in Jobs, i \in Idx :
            job[j] \in Terminal /\ item[j][i] # "absent" =>
                item[j][i] = (IF result[j][i] = "ok" THEN "success" ELSE "failed")

\* A slot is only ever lost to a fault: before the first crash there are at
\* most as many orphaned running rows as there were failed statements.
LeaksAreFaults == crashes = 0 => Cardinality(Orphans) <= dbErrors

\* An orphaned row is never repaired: nothing on start or later moves a job out
\* of "running" except its own runner, so its slot is gone for good.
OrphansStay == [][\A j \in Orphans : j \in Orphans']_vars

\* When every slot is orphaned the service is dead: no queued job is started.
DeadWhenAllOrphaned ==
    [][Cardinality(Orphans) = MaxConcurrentJobs =>
          \A j \in Jobs : job[j] = "queued" => job'[j] = "queued"]_vars

\* Every accepted job ends, or is orphaned by a fault, or waits behind slots
\* that are all orphaned.
EveryJobSettles ==
    \A j \in Jobs :
        job[j] = "queued" ~>
            \/ job[j] \in Terminal
            \/ j \in Orphans
            \/ Cardinality(Orphans) = MaxConcurrentJobs

Queue == INSTANCE JobQueue WITH st <- job, Slots <- MaxConcurrentJobs

\* Seen through ops_jobs.status alone the service is the bounded first-in
\* first-out queue of JobQueue, faults and restarts included.
ImplementsQueue == Queue!Spec

------------------------------------------------------------------------------
(* The parts of the inductive invariant *)

\* The slots a tick still has to give are free.
SlotInv == slots + Cardinality(RunningRows) <= MaxConcurrentJobs

\* A runner works on a row that says "running".
OwnerInv == \A j \in Jobs : runner[j] # "none" => job[j] = "running"

\* Nothing was executed before the row was picked and its items were loaded,
\* and a pending item was not executed either.
FreshInv ==
    \A j \in Jobs, i \in Idx :
        /\ job[j] \in {"absent", "queued"} \/ runner[j] = "load" =>
              /\ begun[j][i] = 0
              /\ result[j][i] = "none"
              /\ item[j][i] \in {"absent", "queued"}
        /\ work[j][i] # "none" => runner[j] = "work"
        /\ work[j][i] = "pending" => begun[j][i] = 0
        /\ begun[j][i] <= 1

\* What the runner knows of its items, and its counter, agree with what the
\* executors did.
RunnerKnows(j) ==
    runner[j] = "work" =>
        /\ \A i \in Idx :
              /\ work[j][i] \in {"pending", "running"} => result[j][i] = "none"
              /\ work[j][i] \in {"ok", "err"} => result[j][i] = work[j][i]
              /\ work[j][i] = "none" =>
                    (item[j][i] = "absent" <=> result[j][i] = "none")
              /\ item[j][i] = "absent" => work[j][i] = "none"
        /\ failed[j] = 0 <=>
              \A i \in Idx : work[j][i] = "none" => result[j][i] # "err"

ResultInv == \A j \in Jobs : RunnerKnows(j)

\* Without failed statements the rows of the items a runner is done with are
\* already right.
RowInv ==
    dbErrors = 0 =>
        \A j \in Jobs, i \in Idx :
            runner[j] = "work" /\ work[j][i] = "none" /\ item[j][i] # "absent" =>
                item[j][i] = (IF result[j][i] = "ok" THEN "success" ELSE "failed")

ExecInv == OwnerInv /\ FreshInv /\ ResultInv /\ StatusTruth
==============================================================================
