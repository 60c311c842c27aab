---------------------------- MODULE OpsJobsProofs ----------------------------
(* Theorems about OpsJobs for every number of jobs, items, slots and faults. *)
EXTENDS OpsJobs, FiniteSetTheorems, TLAPS

\* The rows counted by availableJobSlots are finitely many.
LEMMA RunningFinite ==
    /\ IsFiniteSet(Jobs)
    /\ IsFiniteSet(RunningRows)
    /\ Cardinality(RunningRows) \in Nat
<1>1. IsFiniteSet(Jobs)
  BY FS_Interval, BoundsAssumption DEF Jobs
<1>2. RunningRows \subseteq Jobs
  BY DEF RunningRows
<1>3. IsFiniteSet(RunningRows)
  BY <1>1, <1>2, FS_Subset
<1> QED
  BY <1>1, <1>3, FS_CardinalityType

\* CreateJob stores a parallelism inside 1..maxParallelism for every request.
LEMMA ClampRange ==
    ASSUME NEW p \in Requested
    PROVE  clampParallelism(p) \in 1..MaxParallelism
BY ParallelismAssumption DEF clampParallelism

\* availableJobSlots is between 0 and maxConcurrentJobs, and never more than
\* what the running rows leave.
LEMMA SlotsRange ==
    /\ availableJobSlots \in 0..MaxConcurrentJobs
    /\ availableJobSlots > 0 =>
          availableJobSlots + Cardinality(RunningRows) <= MaxConcurrentJobs
BY RunningFinite, BoundsAssumption DEF availableJobSlots

\* The fault counters stay inside their bounds.
LEMMA DbType ==
    ASSUME dbErrors \in 0..MaxDbErrors, DbOk \/ DbFails
    PROVE  dbErrors' \in 0..MaxDbErrors
BY BoundsAssumption DEF DbOk, DbFails

\* Every variable keeps its type (ops_jobs, ops_job_items and the goroutines'
\* state), whatever is requested and whatever fails.
THEOREM TypeCorrect == Spec => []TypeOK
<1>1. Init => TypeOK
  BY BoundsAssumption, ParallelismAssumption
     DEF Init, TypeOK, JobStatus, WorkState
<1>2. TypeOK /\ [Next]_vars => TypeOK'
  <2> SUFFICES ASSUME TypeOK, [Next]_vars PROVE TypeOK'
    OBVIOUS
  <2> USE DEF TypeOK, rows, procs, ghosts, JobStatus
  <2>1. ASSUME NEW j \in Jobs, NEW n \in Idx, NEW p \in Requested,
               CreateJob(j, n, p)
        PROVE  TypeOK'
    <3>1. clampParallelism(p) \in 0..MaxParallelism
      BY ClampRange, ParallelismAssumption
    <3> QED
      BY <2>1, <3>1 DEF CreateJob
  <2>2. CASE Tick
    BY <2>2, SlotsRange, BoundsAssumption DEF Tick, DbOk, DbFails
  <2>3. ASSUME NEW j \in Jobs, pickQueuedJob(j) PROVE TypeOK'
    <3>1. DbOk \/ DbFails
      BY <2>3 DEF pickQueuedJob
    <3>2. slots' \in 0..MaxConcurrentJobs
      BY <2>3, BoundsAssumption DEF pickQueuedJob
    <3> QED
      BY <2>3, <3>1, <3>2, DbType DEF pickQueuedJob
  <2>4. CASE NothingQueued
    BY <2>4, BoundsAssumption DEF NothingQueued
  <2>5. ASSUME NEW j \in Jobs, LoadItems(j) PROVE TypeOK'
    <3>1. dbErrors' \in 0..MaxDbErrors
      BY <2>5, DbType DEF LoadItems
    <3>2. work' \in [Jobs -> [Idx -> WorkState]]
      <4> DEFINE w == [i \in Idx |-> IF item[j][i] = "queued" THEN "pending" ELSE "none"]
      <4>1. w \in [Idx -> WorkState]
        BY DEF WorkState
      <4>2. work' = work \/ work' = [work EXCEPT ![j] = w]
        BY <2>5 DEF LoadItems
      <4> QED
        BY <4>1, <4>2
    <3>3. runner' \in [Jobs -> {"none", "load", "work"}] /\ failed' \in [Jobs -> Nat]
      BY <2>5 DEF LoadItems
    <3> QED
      BY <2>5, <3>1, <3>2, <3>3 DEF LoadItems
  <2>6. ASSUME NEW j \in Jobs, NEW i \in Idx, StartItem(j, i) PROVE TypeOK'
    <3>1. dbErrors' \in 0..MaxDbErrors
      BY <2>6, DbType DEF StartItem
    <3>2. work' \in [Jobs -> [Idx -> WorkState]]
      BY <2>6 DEF StartItem, WorkState
    <3>3. item' \in [Jobs -> [Idx -> JobStatus \cup {"absent"}]]
      <4>1. item' = item \/ item' = [item EXCEPT ![j][i] = "running"]
        BY <2>6 DEF StartItem
      <4>2. CASE item' = item
        BY <4>2
      <4>3. CASE item' = [item EXCEPT ![j][i] = "running"]
        BY <4>3
      <4> QED
        BY <4>1, <4>2, <4>3
    <3>4. begun' \in [Jobs -> [Idx -> Nat]]
      BY <2>6 DEF StartItem
    <3> QED
      BY <2>6, <3>1, <3>2, <3>3, <3>4 DEF StartItem
  <2>7. ASSUME NEW j \in Jobs, NEW i \in Idx, NEW r \in {"ok", "err"},
               ExecutorReturns(j, i, r)
        PROVE  TypeOK'
    BY <2>7 DEF ExecutorReturns, WorkState
  <2>8. ASSUME NEW j \in Jobs, NEW i \in Idx, finishItem(j, i) PROVE TypeOK'
    <3>1. dbErrors' \in 0..MaxDbErrors
      BY <2>8, DbType DEF finishItem
    <3>2. work' \in [Jobs -> [Idx -> WorkState]]
      BY <2>8 DEF finishItem, WorkState
    <3>3. item' \in [Jobs -> [Idx -> JobStatus \cup {"absent"}]]
      <4> DEFINE f == IF work[j][i] = "ok" THEN "success" ELSE "failed"
      <4>1. item' = item \/ item' = [item EXCEPT ![j][i] = f]
        BY <2>8 DEF finishItem
      <4>2. CASE item' = item
        BY <4>2
      <4>3. CASE item' = [item EXCEPT ![j][i] = f]
        <5>1. f \in JobStatus
          OBVIOUS
        <5> HIDE DEF f
        <5> QED
          BY <4>3, <5>1
      <4> QED
        BY <4>1, <4>2, <4>3
    <3>4. failed' \in [Jobs -> Nat]
      BY <2>8 DEF finishItem
    <3> QED
      BY <2>8, <3>1, <3>2, <3>3, <3>4 DEF finishItem
  <2>9. ASSUME NEW j \in Jobs, SaveJob(j) PROVE TypeOK'
    <3>1. jobStatusFromFailures(failed[j]) \in {"success", "failed"}
      BY DEF jobStatusFromFailures
    <3>2. job' \in [Jobs -> JobStatus \cup {"absent"}]
      BY <2>9, <3>1 DEF SaveJob
    <3> QED
      BY <2>9, <3>2, DbType DEF SaveJob
  <2>10. CASE Crash
    <3>1. work' \in [Jobs -> [Idx -> WorkState]]
      BY <2>10 DEF Crash, WorkState
    <3>2. runner' \in [Jobs -> {"none", "load", "work"}] /\ failed' \in [Jobs -> Nat]
      BY <2>10 DEF Crash
    <3>3. crashes' \in 0..MaxCrashes /\ slots' \in 0..MaxConcurrentJobs
      BY <2>10, BoundsAssumption DEF Crash
    <3>4. up' \in BOOLEAN
      BY <2>10 DEF Crash
    <3> QED
      BY <2>10, <3>1, <3>2, <3>3, <3>4 DEF Crash
  <2>11. CASE Start
    BY <2>11 DEF Start
  <2>12. CASE UNCHANGED vars
    BY <2>12 DEF vars
  <2> QED
    BY <2>1, <2>2, <2>3, <2>4, <2>5, <2>6, <2>7, <2>8, <2>9, <2>10, <2>11,
       <2>12 DEF Next, Dispatch, RunnerStep
<1> QED
  BY <1>1, <1>2, PTL DEF Spec

------------------------------------------------------------------------------
(* The bound on running jobs *)

\* Adding at most one element grows the cardinality by at most one.
LEMMA CardAdd ==
    ASSUME NEW S, IsFiniteSet(S), NEW x, NEW T, T \subseteq S \cup {x}
    PROVE  /\ Cardinality(T) \in Nat
           /\ Cardinality(T) <= Cardinality(S) + 1
<1>1. Cardinality(S) \in Nat
  BY FS_CardinalityType
<1>2. /\ IsFiniteSet(S \cup {x})
      /\ Cardinality(S \cup {x}) = IF x \in S THEN Cardinality(S) ELSE Cardinality(S) + 1
  BY FS_AddElement
<1>3. Cardinality(S \cup {x}) \in Nat /\ Cardinality(S \cup {x}) <= Cardinality(S) + 1
  BY <1>1, <1>2
<1>4. IsFiniteSet(T) /\ Cardinality(T) <= Cardinality(S \cup {x})
  BY <1>2, FS_Subset
<1>5. Cardinality(T) \in Nat
  BY <1>4, FS_CardinalityType
<1> QED
  BY <1>1, <1>3, <1>4, <1>5

\* No row starts running: the count does not grow.
LEMMA CountShrink ==
    ASSUME RunningRows' \subseteq RunningRows
    PROVE  /\ Cardinality(RunningRows') \in Nat
           /\ Cardinality(RunningRows') <= Cardinality(RunningRows)
<1>1. /\ IsFiniteSet(RunningRows')
      /\ Cardinality(RunningRows') <= Cardinality(RunningRows)
  BY RunningFinite, FS_Subset
<1> QED
  BY <1>1, FS_CardinalityType

\* A tick never promises more slots than the running rows leave free, at every
\* point of every interleaving with the runners.
LEMMA SlotStep ==
    ASSUME TypeOK, SlotInv, [Next]_vars
    PROVE  SlotInv'
<1> DEFINE c == Cardinality(RunningRows)
<1>t. /\ c \in Nat /\ MaxConcurrentJobs \in Nat
      /\ slots \in 0..MaxConcurrentJobs
      /\ slots + c <= MaxConcurrentJobs
  BY RunningFinite, BoundsAssumption DEF TypeOK, SlotInv
<1>u. ASSUME RunningRows' \subseteq RunningRows, slots' = slots \/ slots' = 0
      PROVE  SlotInv'
  BY <1>t, <1>u, CountShrink DEF SlotInv
<1>1. ASSUME NEW j \in Jobs, NEW n \in Idx, NEW p \in Requested,
             CreateJob(j, n, p)
      PROVE  SlotInv'
  <2>1. RunningRows' \subseteq RunningRows
    BY <1>1 DEF CreateJob, RunningRows, TypeOK
  <2> QED
    BY <1>1, <2>1, <1>u DEF CreateJob, procs
<1>2. CASE Tick
  <2>1. RunningRows' = RunningRows
    BY <1>2 DEF Tick, RunningRows, rows
  <2>2. CASE slots' = availableJobSlots /\ slots' > 0
    BY <2>1, <2>2, SlotsRange DEF SlotInv
  <2>3. CASE slots' = slots
    BY <2>1, <2>3, <1>u
  <2> QED
    BY <1>2, <2>2, <2>3 DEF Tick
<1>3. ASSUME NEW j \in Jobs, pickQueuedJob(j) PROVE SlotInv'
  <2>1. RunningRows' \subseteq RunningRows \cup {j}
    BY <1>3 DEF pickQueuedJob, RunningRows, TypeOK
  <2>2. slots > 0 /\ (slots' = slots - 1 \/ slots' = 0)
    BY <1>3 DEF pickQueuedJob
  <2>3. QED
    <3>1. /\ Cardinality(RunningRows') \in Nat
          /\ Cardinality(RunningRows') <= c + 1
      BY <2>1, RunningFinite, CardAdd
    <3> QED
      BY <1>t, <2>2, <3>1 DEF SlotInv
<1>4. CASE NothingQueued
  BY <1>4, <1>u DEF NothingQueued, RunningRows, rows
<1>5. ASSUME NEW j \in Jobs, RunnerStep(j) PROVE SlotInv'
  <2>1. slots' = slots
    BY <1>5 DEF RunnerStep, LoadItems, StartItem, ExecutorReturns, finishItem,
                SaveJob
  <2>2. job' = job \/ job' = [job EXCEPT ![j] = jobStatusFromFailures(failed[j])]
    BY <1>5 DEF RunnerStep, LoadItems, StartItem, ExecutorReturns, finishItem,
                SaveJob, rows
  <2>3. RunningRows' \subseteq RunningRows
    BY <2>2 DEF RunningRows, TypeOK, jobStatusFromFailures
  <2> QED
    BY <2>1, <2>3, <1>u
<1>6. CASE Crash
  BY <1>6, <1>u DEF Crash, RunningRows, rows
<1>7. CASE Start
  BY <1>7, <1>u DEF Start, RunningRows, rows
<1>8. CASE UNCHANGED vars
  BY <1>8, <1>u DEF vars, RunningRows
<1> QED
  BY <1>1, <1>2, <1>3, <1>4, <1>5, <1>6, <1>7, <1>8 DEF Next, Dispatch

\* The strengthened bound: running rows plus the slots a tick still has to give.
THEOREM SlotInvHolds == Spec => []SlotInv
<1>1. Init => SlotInv
  <2> SUFFICES ASSUME Init PROVE SlotInv
    OBVIOUS
  <2>1. RunningRows = {}
    BY DEF Init, RunningRows
  <2> QED
    BY <2>1, FS_EmptySet, BoundsAssumption DEF Init, SlotInv
<1> QED
  BY <1>1, SlotStep, TypeCorrect, PTL DEF Spec

\* The number of rows that say "running" never exceeds maxConcurrentJobs: the
\* count is read once per tick (availableJobSlots) and used for several picks,
\* and this is sound because only the dispatcher adds running rows.
THEOREM SlotBoundHolds == Spec => []SlotBound
<1>1. TypeOK /\ SlotInv => SlotBound
  BY RunningFinite, BoundsAssumption DEF TypeOK, SlotInv, SlotBound
<1> QED
  BY <1>1, TypeCorrect, SlotInvHolds, PTL

------------------------------------------------------------------------------
(* What was executed, and how often *)

\* A runner only ever works on a row that says "running".
LEMMA OwnerStep ==
    ASSUME TypeOK, OwnerInv, [Next]_vars
    PROVE  OwnerInv'
<1> USE DEF OwnerInv, TypeOK
<1>1. ASSUME NEW j \in Jobs, NEW n \in Idx, NEW p \in Requested,
             CreateJob(j, n, p)
      PROVE  OwnerInv'
  BY <1>1 DEF CreateJob, procs
<1>2. ASSUME NEW j \in Jobs, pickQueuedJob(j) PROVE OwnerInv'
  BY <1>2 DEF pickQueuedJob
<1>3. CASE Tick \/ NothingQueued
  BY <1>3 DEF Tick, NothingQueued, rows
<1>4. ASSUME NEW j \in Jobs, LoadItems(j) PROVE OwnerInv'
  BY <1>4 DEF LoadItems, rows
<1>5. ASSUME NEW j \in Jobs, SaveJob(j) PROVE OwnerInv'
  BY <1>5 DEF SaveJob
<1>6. ASSUME NEW j \in Jobs, NEW i \in Idx,
             \/ StartItem(j, i)
             \/ \E r \in {"ok", "err"} : ExecutorReturns(j, i, r)
             \/ finishItem(j, i)
      PROVE  OwnerInv'
  BY <1>6 DEF StartItem, ExecutorReturns, finishItem, rows
<1>7. CASE Crash
  BY <1>7 DEF Crash
<1>8. CASE Start \/ UNCHANGED vars
  BY <1>8 DEF Start, rows, vars
<1> QED
  BY <1>1, <1>2, <1>3, <1>4, <1>5, <1>6, <1>7, <1>8
     DEF Next, Dispatch, RunnerStep

\* An item is handed to a worker at most once in the life of its row.
LEMMA FreshStep ==
    ASSUME TypeOK, OwnerInv, FreshInv, [Next]_vars
    PROVE  FreshInv'
<1> USE DEF FreshInv
<1>1. ASSUME NEW j \in Jobs, NEW n \in Idx, NEW p \in Requested,
             CreateJob(j, n, p)
      PROVE  FreshInv'
  BY <1>1 DEF CreateJob, procs, ghosts, TypeOK
<1>2. ASSUME NEW j \in Jobs, pickQueuedJob(j) PROVE FreshInv'
  <2>1. job[j] = "queued" /\ runner[j] = "none"
    BY <1>2 DEF pickQueuedJob, Oldest, TypeOK, OwnerInv
  <2>2. /\ \A k \in Jobs \ {j} : job'[k] = job[k] /\ runner'[k] = runner[k]
        /\ UNCHANGED <<item, work, begun, result>>
    BY <1>2 DEF pickQueuedJob, TypeOK
  <2>3. \A i \in Idx : work[j][i] = "none"
    BY <2>1
  <2> QED
    BY <2>1, <2>2, <2>3
<1>3. CASE Tick \/ NothingQueued
  BY <1>3 DEF Tick, NothingQueued, rows, ghosts
<1>4. ASSUME NEW j \in Jobs, LoadItems(j) PROVE FreshInv'
  BY <1>4 DEF LoadItems, rows, TypeOK, OwnerInv
<1>5. ASSUME NEW j \in Jobs, SaveJob(j) PROVE FreshInv'
  BY <1>5 DEF SaveJob, TypeOK, jobStatusFromFailures
<1>6. ASSUME NEW j \in Jobs, NEW i \in Idx, StartItem(j, i) PROVE FreshInv'
  BY <1>6 DEF StartItem, TypeOK, OwnerInv
<1>7. ASSUME NEW j \in Jobs, NEW i \in Idx, NEW r \in {"ok", "err"},
             ExecutorReturns(j, i, r)
      PROVE  FreshInv'
  BY <1>7 DEF ExecutorReturns, TypeOK, OwnerInv, rows
<1>8. ASSUME NEW j \in Jobs, NEW i \in Idx, finishItem(j, i) PROVE FreshInv'
  BY <1>8 DEF finishItem, TypeOK, OwnerInv
<1>9. CASE Crash
  BY <1>9 DEF Crash, rows
<1>10. CASE Start \/ UNCHANGED vars
  BY <1>10 DEF Start, rows, vars, ghosts
<1> QED
  BY <1>1, <1>2, <1>3, <1>4, <1>5, <1>6, <1>7, <1>8, <1>9, <1>10
     DEF Next, Dispatch, RunnerStep

\* A job none of whose own variables change keeps what is said of it.
LEMMA TruthFrame ==
    ASSUME NEW k \in Jobs, RunnerKnows(k), JobTruth(k),
           job'[k] = job[k], item'[k] = item[k], runner'[k] = runner[k],
           work'[k] = work[k], result'[k] = result[k], failed'[k] = failed[k]
    PROVE  RunnerKnows(k)' /\ JobTruth(k)'
BY DEF RunnerKnows, JobTruth

\* What the runners know and what finished jobs say stays true.
LEMMA TruthStep ==
    ASSUME TypeOK, OwnerInv, FreshInv, ResultInv, StatusTruth, [Next]_vars
    PROVE  ResultInv' /\ StatusTruth'
<1> USE DEF ResultInv, StatusTruth
<1>f. ASSUME NEW j \in Jobs, RunnerKnows(j)' /\ JobTruth(j)',
             \A k \in Jobs \ {j} :
                /\ job'[k] = job[k] /\ item'[k] = item[k]
                /\ runner'[k] = runner[k] /\ work'[k] = work[k]
                /\ result'[k] = result[k] /\ failed'[k] = failed[k]
      PROVE  ResultInv' /\ StatusTruth'
  BY <1>f, TruthFrame
<1>1. ASSUME NEW j \in Jobs, NEW n \in Idx, NEW p \in Requested,
             CreateJob(j, n, p)
      PROVE  ResultInv' /\ StatusTruth'
  <2>1. runner'[j] = "none" /\ job'[j] = "queued"
    BY <1>1 DEF CreateJob, procs, TypeOK, OwnerInv
  <2>2. RunnerKnows(j)' /\ JobTruth(j)'
    BY <2>1 DEF RunnerKnows, JobTruth, Terminal
  <2> QED
    BY <1>1, <1>f, <2>2 DEF CreateJob, procs, ghosts, TypeOK
<1>2. ASSUME NEW j \in Jobs, pickQueuedJob(j) PROVE ResultInv' /\ StatusTruth'
  <2>1. runner'[j] # "work" /\ job'[j] \in {"queued", "running"}
    BY <1>2 DEF pickQueuedJob, Oldest, TypeOK, OwnerInv
  <2>2. RunnerKnows(j)' /\ JobTruth(j)'
    BY <2>1 DEF RunnerKnows, JobTruth, Terminal
  <2> QED
    BY <1>2, <1>f, <2>2 DEF pickQueuedJob, TypeOK
<1>3. CASE Tick \/ NothingQueued
  BY <1>3, TruthFrame DEF Tick, NothingQueued, rows, ghosts
<1>4. ASSUME NEW j \in Jobs, LoadItems(j) PROVE ResultInv' /\ StatusTruth'
  <2>1. job'[j] = "running"
    BY <1>4 DEF LoadItems, rows, OwnerInv
  <2>2. JobTruth(j)'
    BY <2>1 DEF JobTruth, Terminal
  <2>3. \A i \in Idx : /\ result'[j][i] = "none" /\ item'[j] = item[j]
                       /\ item[j][i] \in {"absent", "queued"}
    BY <1>4 DEF LoadItems, rows, FreshInv
  <2>4. /\ failed'[j] = 0
        /\ runner'[j] = "work" => \A i \in Idx :
              work'[j][i] = IF item[j][i] = "queued" THEN "pending" ELSE "none"
    BY <1>4 DEF LoadItems, TypeOK
  <2>5. RunnerKnows(j)'
    BY <2>3, <2>4 DEF RunnerKnows
  <2> QED
    BY <1>4, <1>f, <2>2, <2>5 DEF LoadItems, rows, TypeOK
<1>5. ASSUME NEW j \in Jobs, SaveJob(j) PROVE ResultInv' /\ StatusTruth'
  <2>1. /\ runner'[j] = "none" /\ UNCHANGED <<item, result>>
        /\ job[j] = "running"
        /\ job'[j] = job[j] \/ job'[j] = jobStatusFromFailures(failed[j])
    BY <1>5 DEF SaveJob, TypeOK, OwnerInv
  <2>2. RunnerKnows(j)'
    BY <2>1 DEF RunnerKnows
  <2>3. /\ \A i \in Idx : item[j][i] = "absent" <=> result[j][i] = "none"
        /\ failed[j] = 0 <=> \A i \in Idx : result[j][i] # "err"
    BY <1>5 DEF SaveJob, RunnerKnows
  <2>4. jobStatusFromFailures(failed[j]) = IF failed[j] = 0 THEN "success" ELSE "failed"
    BY DEF jobStatusFromFailures, TypeOK
  <2>5. JobTruth(j)'
    BY <2>1, <2>3, <2>4 DEF JobTruth, Terminal
  <2> QED
    BY <1>5, <1>f, <2>2, <2>5 DEF SaveJob, TypeOK
<1>6. ASSUME NEW j \in Jobs, NEW i \in Idx, StartItem(j, i)
      PROVE  ResultInv' /\ StatusTruth'
  <2>1. /\ runner[j] = "work" /\ work[j][i] = "pending"
        /\ UNCHANGED <<job, runner, result, failed>> /\ job[j] = "running"
    BY <1>6 DEF StartItem, OwnerInv
  <2>2. JobTruth(j)'
    BY <2>1 DEF JobTruth, Terminal
  <2>3. /\ work'[j][i] = "running"
        /\ \A m \in Idx \ {i} : work'[j][m] = work[j][m] /\ item'[j][m] = item[j][m]
    BY <1>6 DEF StartItem, TypeOK
  <2>4. item'[j][i] # "absent"
    BY <1>6, <2>1 DEF StartItem, TypeOK, RunnerKnows
  <2>5. RunnerKnows(j)'
    BY <2>1, <2>3, <2>4 DEF RunnerKnows
  <2> QED
    BY <1>6, <1>f, <2>2, <2>5 DEF StartItem, TypeOK
<1>7. ASSUME NEW j \in Jobs, NEW i \in Idx, NEW r \in {"ok", "err"},
             ExecutorReturns(j, i, r)
      PROVE  ResultInv' /\ StatusTruth'
  <2>1. /\ runner[j] = "work" /\ work[j][i] = "running"
        /\ UNCHANGED <<job, item, runner, failed>> /\ job[j] = "running"
    BY <1>7 DEF ExecutorReturns, OwnerInv, rows
  <2>2. JobTruth(j)'
    BY <2>1 DEF JobTruth, Terminal
  <2>3. /\ work'[j][i] = r /\ result'[j][i] = r
        /\ \A m \in Idx \ {i} : work'[j][m] = work[j][m] /\ result'[j][m] = result[j][m]
    BY <1>7 DEF ExecutorReturns, TypeOK
  <2>5. RunnerKnows(j)'
    BY <2>1, <2>3 DEF RunnerKnows
  <2> QED
    BY <1>7, <1>f, <2>2, <2>5 DEF ExecutorReturns, TypeOK, rows
<1>8. ASSUME NEW j \in Jobs, NEW i \in Idx, finishItem(j, i)
      PROVE  ResultInv' /\ StatusTruth'
  <2>1. /\ runner[j] = "work" /\ work[j][i] \in {"ok", "err"}
        /\ UNCHANGED <<job, runner, result>> /\ job[j] = "running"
    BY <1>8 DEF finishItem, OwnerInv
  <2>2. JobTruth(j)'
    BY <2>1 DEF JobTruth, Terminal
  <2>3. /\ work'[j][i] = "none"
        /\ \A m \in Idx \ {i} : work'[j][m] = work[j][m] /\ item'[j][m] = item[j][m]
    BY <1>8 DEF finishItem, TypeOK
  <2>4. item'[j][i] # "absent" /\ result[j][i] = work[j][i]
    BY <1>8, <2>1 DEF finishItem, TypeOK, RunnerKnows
  <2>5. failed'[j] = 0 <=> failed[j] = 0 /\ work[j][i] # "err"
    BY <1>8 DEF finishItem, TypeOK
  <2>6. RunnerKnows(j)'
    BY <2>1, <2>3, <2>4, <2>5 DEF RunnerKnows
  <2> QED
    BY <1>8, <1>f, <2>2, <2>6 DEF finishItem, TypeOK
<1>9. CASE Crash
  BY <1>9 DEF Crash, rows, RunnerKnows, JobTruth
<1>10. CASE Start \/ UNCHANGED vars
  BY <1>10, TruthFrame DEF Start, rows, vars, ghosts
<1> QED
  BY <1>1, <1>2, <1>3, <1>4, <1>5, <1>6, <1>7, <1>8, <1>9, <1>10
     DEF Next, Dispatch, RunnerStep

\* The parts of the invariant about executions hold together.
THEOREM ExecInvHolds == Spec => []ExecInv
<1>1. Init => ExecInv
  BY DEF Init, ExecInv, OwnerInv, FreshInv, ResultInv, RunnerKnows, StatusTruth,
         JobTruth, Terminal
<1>2. TypeOK /\ ExecInv /\ [Next]_vars => ExecInv'
  BY OwnerStep, FreshStep, TruthStep DEF ExecInv
<1> QED
  BY <1>1, <1>2, TypeCorrect, PTL DEF Spec

\* No target of a job is operated on twice, for any number of crashes, restarts
\* and failed statements: items are loaded once per job because only a queued
\* row is picked and no row goes back to "queued".
THEOREM AtMostOnceHolds == Spec => []AtMostOnce
<1>1. ExecInv => AtMostOnce
  BY DEF ExecInv, FreshInv, AtMostOnce
<1> QED
  BY <1>1, ExecInvHolds, PTL

\* A finished job executed every target, and says "success" exactly when every
\* execution succeeded.
THEOREM StatusTruthHolds == Spec => []StatusTruth
<1>1. ExecInv => StatusTruth
  BY DEF ExecInv
<1> QED
  BY <1>1, ExecInvHolds, PTL

\* While no statement has failed, the rows of the items a runner is done with,
\* and of the items of finished jobs, stay right.
LEMMA RowStep ==
    ASSUME TypeOK, OwnerInv, FreshInv, ResultInv, RowInv, RowsAgree, [Next]_vars
    PROVE  RowInv' /\ RowsAgree'
<1> USE DEF RowInv, RowsAgree, Terminal
<1>0. dbErrors \in Nat
  BY BoundsAssumption DEF TypeOK
<1>1. ASSUME NEW j \in Jobs, NEW n \in Idx, NEW p \in Requested,
             CreateJob(j, n, p)
      PROVE  RowInv' /\ RowsAgree'
  <2>1. runner'[j] = "none" /\ job'[j] = "queued"
    BY <1>1 DEF CreateJob, procs, TypeOK, OwnerInv
  <2>2. /\ \A k \in Jobs \ {j} : job'[k] = job[k] /\ item'[k] = item[k]
        /\ UNCHANGED <<runner, work, result, dbErrors>>
    BY <1>1 DEF CreateJob, procs, ghosts, TypeOK
  <2> QED
    BY <2>1, <2>2
<1>2. ASSUME NEW j \in Jobs, pickQueuedJob(j) PROVE RowInv' /\ RowsAgree'
  <2>1. runner'[j] # "work" /\ job'[j] \in {"queued", "running"}
    BY <1>2 DEF pickQueuedJob, Oldest, TypeOK, OwnerInv
  <2>2. /\ \A k \in Jobs \ {j} : job'[k] = job[k] /\ runner'[k] = runner[k]
        /\ UNCHANGED <<item, work, result>>
        /\ dbErrors' = 0 => dbErrors = 0
    BY <1>0, <1>2 DEF pickQueuedJob, TypeOK, DbOk, DbFails
  <2> QED
    BY <2>1, <2>2
<1>3. CASE Tick \/ NothingQueued
  BY <1>0, <1>3 DEF Tick, NothingQueued, rows, ghosts, DbOk, DbFails
<1>4. ASSUME NEW j \in Jobs, LoadItems(j) PROVE RowInv' /\ RowsAgree'
  <2>1. /\ UNCHANGED <<job, item, result>>
        /\ \A k \in Jobs \ {j} : work'[k] = work[k] /\ runner'[k] = runner[k]
        /\ dbErrors' = 0 => dbErrors = 0
    BY <1>0, <1>4 DEF LoadItems, rows, TypeOK, DbOk, DbFails
  <2>2. \A i \in Idx : runner'[j] = "work" /\ work'[j][i] = "none" => item[j][i] = "absent"
    BY <1>4 DEF LoadItems, TypeOK, FreshInv
  <2> QED
    BY <2>1, <2>2
<1>5. ASSUME NEW j \in Jobs, SaveJob(j) PROVE RowInv' /\ RowsAgree'
  <2>1. /\ runner[j] = "work" /\ runner'[j] = "none"
        /\ \A i \in Idx : work[j][i] = "none"
        /\ UNCHANGED <<item, work, result>>
        /\ \A k \in Jobs \ {j} : job'[k] = job[k] /\ runner'[k] = runner[k]
        /\ dbErrors' = 0 => dbErrors = 0
    BY <1>0, <1>5 DEF SaveJob, TypeOK, DbOk, DbFails
  <2> QED
    BY <2>1
<1>6. ASSUME NEW j \in Jobs, NEW i \in Idx, StartItem(j, i)
      PROVE  RowInv' /\ RowsAgree'
  <2>1. /\ job[j] = "running" /\ UNCHANGED <<job, runner, result>>
        /\ work'[j][i] = "running"
        /\ \A k \in Jobs, m \in Idx : <<k, m>> # <<j, i>> =>
              work'[k][m] = work[k][m] /\ item'[k][m] = item[k][m]
        /\ dbErrors' = 0 => dbErrors = 0
    BY <1>0, <1>6 DEF StartItem, TypeOK, OwnerInv, DbOk, DbFails
  <2> QED
    BY <2>1
<1>7. ASSUME NEW j \in Jobs, NEW i \in Idx, NEW r \in {"ok", "err"},
             ExecutorReturns(j, i, r)
      PROVE  RowInv' /\ RowsAgree'
  <2>1. /\ job[j] = "running" /\ UNCHANGED <<job, runner, item, dbErrors>>
        /\ work'[j][i] = r
        /\ \A k \in Jobs, m \in Idx : <<k, m>> # <<j, i>> =>
              work'[k][m] = work[k][m] /\ result'[k][m] = result[k][m]
    BY <1>7 DEF ExecutorReturns, TypeOK, OwnerInv, rows
  <2> QED
    BY <2>1
<1>8. ASSUME NEW j \in Jobs, NEW i \in Idx, finishItem(j, i)
      PROVE  RowInv' /\ RowsAgree'
  <2>1. /\ job[j] = "running" /\ UNCHANGED <<job, runner, result>>
        /\ work[j][i] = result[j][i] /\ work[j][i] \in {"ok", "err"}
        /\ \A k \in Jobs, m \in Idx : <<k, m>> # <<j, i>> =>
              work'[k][m] = work[k][m] /\ item'[k][m] = item[k][m]
    BY <1>8 DEF finishItem, TypeOK, OwnerInv, ResultInv, RunnerKnows
  <2>2. dbErrors' = 0 =>
          /\ dbErrors = 0
          /\ item'[j][i] = IF work[j][i] = "ok" THEN "success" ELSE "failed"
    BY <1>0, <1>8 DEF finishItem, TypeOK, DbOk, DbFails
  <2> QED
    BY <2>1, <2>2
<1>9. CASE Crash
  BY <1>9 DEF Crash, rows
<1>10. CASE Start \/ UNCHANGED vars
  BY <1>10 DEF Start, rows, vars, ghosts
<1> QED
  BY <1>1, <1>2, <1>3, <1>4, <1>5, <1>6, <1>7, <1>8, <1>9, <1>10
     DEF Next, Dispatch, RunnerStep

\* As long as no statement has failed, the item rows of a finished job are
\* final and say what the executors did (finishItem, runJob).
THEOREM RowsAgreeHolds == Spec => []RowsAgree
<1>1. Init => RowInv /\ RowsAgree
  BY DEF Init, RowInv, RowsAgree, Terminal
<1>2. TypeOK /\ ExecInv /\ RowInv /\ RowsAgree /\ [Next]_vars
        => (RowInv /\ RowsAgree)'
  BY RowStep DEF ExecInv
<1> QED
  BY <1>1, <1>2, TypeCorrect, ExecInvHolds, PTL DEF Spec

------------------------------------------------------------------------------
(* Orphaned rows *)

\* A running row without a runner stays one: no step repairs it.
LEMMA OrphanStep ==
    ASSUME TypeOK, OwnerInv, [Next]_vars, NEW o \in Orphans
    PROVE  o \in Orphans'
<1> USE DEF Orphans, RunningRows, TypeOK
<1>1. ASSUME NEW j \in Jobs, NEW n \in Idx, NEW p \in Requested,
             CreateJob(j, n, p)
      PROVE  o \in Orphans'
  BY <1>1 DEF CreateJob, procs
<1>2. ASSUME NEW j \in Jobs, pickQueuedJob(j) PROVE o \in Orphans'
  BY <1>2 DEF pickQueuedJob, Oldest
<1>3. CASE Tick \/ NothingQueued
  BY <1>3 DEF Tick, NothingQueued, rows
<1>4. ASSUME NEW j \in Jobs, LoadItems(j) PROVE o \in Orphans'
  BY <1>4 DEF LoadItems, rows
<1>5. ASSUME NEW j \in Jobs, SaveJob(j) PROVE o \in Orphans'
  BY <1>5 DEF SaveJob
<1>6. ASSUME NEW j \in Jobs, NEW i \in Idx,
             \/ StartItem(j, i)
             \/ \E r \in {"ok", "err"} : ExecutorReturns(j, i, r)
             \/ finishItem(j, i)
      PROVE  o \in Orphans'
  BY <1>6 DEF StartItem, ExecutorReturns, finishItem, rows
<1>7. CASE Crash
  BY <1>7 DEF Crash, rows
<1>8. CASE Start \/ UNCHANGED vars
  BY <1>8 DEF Start, rows, vars
<1> QED
  BY <1>1, <1>2, <1>3, <1>4, <1>5, <1>6, <1>7, <1>8
     DEF Next, Dispatch, RunnerStep

\* A slot whose runner is gone is lost for good, restarts included.
THEOREM OrphansStayHolds == Spec => OrphansStay
<1>1. TypeOK /\ ExecInv /\ [Next]_vars => [\A j \in Orphans : j \in Orphans']_vars
  BY OrphanStep DEF ExecInv
<1> QED
  BY <1>1, TypeCorrect, ExecInvHolds, PTL DEF Spec, OrphansStay

\* A step that is not a crash orphans no row, or one row by one failed statement.
LEMMA LeakCases ==
    ASSUME TypeOK, [Next]_vars
    PROVE  \/ crashes' = crashes + 1
           \/ /\ crashes' = crashes
              /\ \/ Orphans' \subseteq Orphans /\ dbErrors' \in {dbErrors, dbErrors + 1}
                 \/ \E j \in Jobs :
                       Orphans' \subseteq Orphans \cup {j} /\ dbErrors' = dbErrors + 1
<1> DEFINE Goal == \/ crashes' = crashes + 1
                   \/ /\ crashes' = crashes
                      /\ \/ /\ Orphans' \subseteq Orphans
                            /\ dbErrors' \in {dbErrors, dbErrors + 1}
                         \/ \E j \in Jobs : /\ Orphans' \subseteq Orphans \cup {j}
                                            /\ dbErrors' = dbErrors + 1
<1> USE DEF Orphans, RunningRows, TypeOK, DbOk, DbFails
<1>1. ASSUME NEW j \in Jobs, NEW n \in Idx, NEW p \in Requested,
             CreateJob(j, n, p)
      PROVE  Goal
  BY <1>1 DEF CreateJob, procs, ghosts
<1>2. ASSUME NEW j \in Jobs, pickQueuedJob(j) PROVE Goal
  BY <1>2 DEF pickQueuedJob
<1>3. CASE Tick \/ NothingQueued
  BY <1>3 DEF Tick, NothingQueued, rows, ghosts
<1>4. ASSUME NEW j \in Jobs, LoadItems(j) PROVE Goal
  BY <1>4 DEF LoadItems, rows
<1>5. ASSUME NEW j \in Jobs, SaveJob(j) PROVE Goal
  BY <1>5 DEF SaveJob, jobStatusFromFailures
<1>6. ASSUME NEW j \in Jobs, NEW i \in Idx,
             \/ StartItem(j, i)
             \/ \E r \in {"ok", "err"} : ExecutorReturns(j, i, r)
             \/ finishItem(j, i)
      PROVE  Goal
  BY <1>6 DEF StartItem, ExecutorReturns, finishItem, rows
<1>7. CASE Crash
  BY <1>7 DEF Crash
<1>8. CASE Start \/ UNCHANGED vars
  BY <1>8 DEF Start, rows, vars, ghosts
<1> QED
  BY <1>1, <1>2, <1>3, <1>4, <1>5, <1>6, <1>7, <1>8
     DEF Next, Dispatch, RunnerStep

\* Before the first crash, slots are lost to failed statements only, one each.
THEOREM LeaksAreFaultsHolds == Spec => []LeaksAreFaults
<1>1. Init => LeaksAreFaults
  <2>1. Init => Orphans = {}
    BY DEF Init, Orphans, RunningRows
  <2>2. Cardinality({}) = 0
    BY FS_EmptySet, Zenon
  <2>3. Init => Cardinality(Orphans) = 0
    BY <2>1, <2>2, Zenon
  <2>4. Init => dbErrors = 0
    BY DEF Init
  <2> QED
    BY <2>3, <2>4 DEF LeaksAreFaults
<1>2. ASSUME TypeOK, LeaksAreFaults, [Next]_vars PROVE LeaksAreFaults'
  <2>1. SUFFICES ASSUME crashes' = 0 PROVE Cardinality(Orphans') <= dbErrors'
    BY DEF LeaksAreFaults
  <2>2. crashes \in Nat /\ dbErrors \in Nat
    BY <1>2, BoundsAssumption DEF TypeOK
  <2>3. IsFiniteSet(Orphans) /\ Cardinality(Orphans) \in Nat
    BY RunningFinite, FS_Subset, FS_CardinalityType DEF Orphans
  <2>4. crashes = 0 /\ Cardinality(Orphans) <= dbErrors
    BY <1>2, <2>1, <2>2, LeakCases DEF LeaksAreFaults
  <2>5. CASE Orphans' \subseteq Orphans /\ dbErrors' \in {dbErrors, dbErrors + 1}
    <3>1. IsFiniteSet(Orphans') /\ Cardinality(Orphans') <= Cardinality(Orphans)
      BY <2>3, <2>5, FS_Subset
    <3>2. Cardinality(Orphans') \in Nat
      BY <3>1, FS_CardinalityType
    <3> QED
      BY <2>2, <2>3, <2>4, <2>5, <3>1, <3>2
  <2>6. ASSUME NEW j \in Jobs, Orphans' \subseteq Orphans \cup {j},
               dbErrors' = dbErrors + 1
        PROVE  Cardinality(Orphans') <= dbErrors'
    <3>1. Cardinality(Orphans') \in Nat /\ Cardinality(Orphans') <= Cardinality(Orphans) + 1
      BY <2>3, <2>6, CardAdd
    <3> QED
      BY <2>2, <2>3, <2>4, <2>6, <3>1
  <2> QED
    BY <1>2, <2>1, <2>2, <2>5, <2>6, LeakCases
<1> QED
  BY <1>1, <1>2, TypeCorrect, PTL DEF Spec

\* Once all slots are orphaned no queued job is ever started again.
THEOREM DeadHolds == Spec => DeadWhenAllOrphaned
<1> DEFINE dead == Cardinality(Orphans) = MaxConcurrentJobs
           kept == \A j \in Jobs : job[j] = "queued" => job'[j] = "queued"
<1>1. ASSUME TypeOK, SlotInv, OwnerInv, dead, [Next]_vars PROVE kept
  <2>1. Cardinality(Orphans) <= Cardinality(RunningRows)
    BY RunningFinite, FS_Subset DEF Orphans
  <2>2. slots = 0
    BY <1>1, <2>1, RunningFinite, BoundsAssumption DEF SlotInv, TypeOK
  <2>3. ASSUME NEW j \in Jobs, NEW n \in Idx, NEW p \in Requested,
               CreateJob(j, n, p)
        PROVE  kept
    BY <1>1, <2>3 DEF CreateJob, TypeOK
  <2>4. CASE Dispatch
    BY <2>2, <2>4 DEF Dispatch, Tick, pickQueuedJob, NothingQueued, rows
  <2>5. ASSUME NEW j \in Jobs, RunnerStep(j) PROVE kept
    <3>1. job' = job \/ (runner[j] = "work"
                           /\ job' = [job EXCEPT ![j] = jobStatusFromFailures(failed[j])])
      BY <2>5 DEF RunnerStep, LoadItems, StartItem, ExecutorReturns, finishItem,
                  SaveJob, rows
    <3> QED
      BY <1>1, <3>1 DEF OwnerInv, TypeOK
  <2>6. CASE Crash \/ Start \/ UNCHANGED vars
    BY <2>6 DEF Crash, Start, rows, vars
  <2> QED
    BY <1>1, <2>3, <2>4, <2>5, <2>6 DEF Next
<1>2. TypeOK /\ SlotInv /\ ExecInv /\ [Next]_vars => [dead => kept]_vars
  BY <1>1 DEF ExecInv
<1>3. Spec => []SlotInv
  BY SlotInvHolds
<1> HIDE DEF dead, kept
<1>4. Spec => [][dead => kept]_vars
  BY <1>2, <1>3, TypeCorrect, ExecInvHolds, PTL DEF Spec
<1> QED
  BY <1>4 DEF DeadWhenAllOrphaned, dead, kept

------------------------------------------------------------------------------
(* The service implements the bounded queue *)

\* Every step of the service is a step of the queue, or leaves it alone.
LEMMA QueueStep ==
    ASSUME TypeOK, SlotInv, OwnerInv, [Next]_vars
    PROVE  [Queue!Next]_job
<1>i. Queue!Ids = Jobs
  BY DEF Queue!Ids, Jobs
<1>1. ASSUME NEW j \in Jobs, NEW n \in Idx, NEW p \in Requested,
             CreateJob(j, n, p)
      PROVE  Queue!Next
  BY <1>1, <1>i DEF CreateJob, Queue!Next, Queue!Submit
<1>2. ASSUME NEW j \in Jobs, pickQueuedJob(j) PROVE [Queue!Next]_job
  <2>1. Cardinality(RunningRows) < MaxConcurrentJobs
    BY <1>2, RunningFinite, BoundsAssumption DEF pickQueuedJob, SlotInv, TypeOK
  <2>2. Queue!Cardinality({k \in Queue!Ids : job[k] = "running"}) < MaxConcurrentJobs
    BY <2>1, <1>i DEF RunningRows, Cardinality, Queue!Cardinality
  <2>3. job' = job \/ job' = [job EXCEPT ![j] = "running"]
    BY <1>2 DEF pickQueuedJob
  <2>4. job' = [job EXCEPT ![j] = "running"] => Queue!Begin(j)
    <3>1. job[j] = "queued" /\ \A k \in 1..(j - 1) : job[k] # "queued"
      BY <1>2 DEF pickQueuedJob, Oldest
    <3> QED
      BY <2>2, <3>1 DEF Queue!Begin
  <2> QED
    BY <1>i, <2>3, <2>4 DEF Queue!Next
<1>3. CASE Tick \/ NothingQueued
  BY <1>3 DEF Tick, NothingQueued, rows
<1>4. ASSUME NEW j \in Jobs, RunnerStep(j) PROVE [Queue!Next]_job
  <2>1. job' = job \/ (runner[j] = "work"
                         /\ job' = [job EXCEPT ![j] = jobStatusFromFailures(failed[j])])
    BY <1>4 DEF RunnerStep, LoadItems, StartItem, ExecutorReturns, finishItem,
                SaveJob, rows
  <2>2. runner[j] = "work" => job[j] = "running"
    BY DEF OwnerInv
  <2>3. jobStatusFromFailures(failed[j]) \in {"success", "failed"}
    BY DEF jobStatusFromFailures
  <2> QED
    BY <1>i, <2>1, <2>2, <2>3 DEF Queue!Next, Queue!Finish
<1>5. CASE Crash \/ Start \/ UNCHANGED vars
  BY <1>5 DEF Crash, Start, rows, vars
<1> QED
  BY <1>1, <1>2, <1>3, <1>4, <1>5 DEF Next, Dispatch

\* The dispatcher, the runners and the faults together implement the bounded
\* first-in first-out queue of JobQueue.
THEOREM QueueRefinement == Spec => ImplementsQueue
<1>1. Init => Queue!Init
  BY DEF Init, Queue!Init, Queue!Ids, Jobs
<1>2. TypeOK /\ SlotInv /\ ExecInv /\ [Next]_vars => [Queue!Next]_job
  BY QueueStep DEF ExecInv
<1> QED
  BY <1>1, <1>2, TypeCorrect, SlotInvHolds, ExecInvHolds, PTL
     DEF Spec, ImplementsQueue, Queue!Spec
==============================================================================
