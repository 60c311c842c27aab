------------------------------ MODULE BackupRuns ------------------------------
(***************************************************************************)
(* Backup Center's runs (backend/internal/services/backup/runner.go,       *)
(* scheduler.go, service.go): rows of backup_jobs, backup_runs and         *)
(* backup_run_items, the scheduler and the request handlers that trigger,  *)
(* cancel, edit and delete, and one goroutine (runAsync, executeRun) per   *)
(* run with its own cancellable context, under which it also writes.       *)
(*                                                                         *)
(* Every write of a row is gorm's Save of the whole row: what was read     *)
(* earlier is written back, and a row that is gone is inserted again       *)
(* (unless its foreign key is gone). Time (cron, last_run_at) is a free    *)
(* choice of the scheduler, and so is the age of what retention deletes.   *)
(* A file's content is the source it was made from; sizes and checksums    *)
(* are left out.                                                           *)
(***************************************************************************)
EXTENDS Integers, FiniteSets

CONSTANTS
    Jobs,               \* the backup jobs
    RunsPerJob,         \* bound on the runs of one job
    NumSources,         \* enabled sources of a job
    Names,              \* file names (renderSourceScript, MakeArtifactName)
    Namings,            \* the names that sources get; nothing keeps them apart
    MaxDbErrors,        \* bound on failing statements
    MaxCrashes,         \* bound on process deaths
    MaxEdits,           \* bound on edits of one job
    MaxCancels          \* bound on cancel requests for one run

ASSUME BoundsAssumption ==
    /\ RunsPerJob \in Nat /\ NumSources \in Nat
    /\ MaxDbErrors \in Nat /\ MaxCrashes \in Nat /\ MaxEdits \in Nat
    /\ MaxCancels \in Nat
    /\ Namings # {} /\ Namings \subseteq [1..NumSources -> Names]

VARIABLES
    job,       \* backup_jobs
    st,        \* backup_runs.status; "absent" before, "gone" after the row
    creq,      \* backup_runs.cancel_requested_at is set
    item,      \* backup_run_items.status
    pc,        \* where the trigger, then the goroutine, of a run is
    mem,       \* the goroutine's memory
    cancel,    \* the CancelRun requests of a run, with the row each has read
    edit,      \* SetJobEnabled or UpdateJob of a job, with the row it read
    dbErrors,  \* history: failed statements
    crashes    \* history: process deaths

vars == <<job, st, creq, item, pc, mem, cancel, edit, dbErrors, crashes>>

Runs == Jobs \X (1..RunsPerJob)
JobOf(r) == r[1]
Cancels == 1..MaxCancels

Sources == 1..NumSources
Sums == NumSources + 1              \* the SHA256SUMS manifest
Objects == 1..(NumSources + 1)
Content == 0..NumSources            \* 0: no file, or a truncated one

Active == {"queued", "running"}
Final == {"success", "failed", "partial_success", "cancelled"}

\* A request or the scheduler is inside TriggerRun.
TriggerPC == {"listed", "checked"}
\* The goroutine lives; from "load" on it is in Service.running.
RunPC == {"load", "mark", "test", "connect", "collect", "source", "manifest",
          "upload", "retain", "derive", "finish", "finishJob"}
GoPC == {"spawned"} \cup RunPC
OverPC == {"ended", "dead"}

JobRow == [exists : BOOLEAN, enabled : BOOLEAN, last : Final \cup {"idle"}]
Outcome == {"todo", "ok", "err"}
Memory == [kind : {"none", "manual", "retry", "scheduled"},
           ctx : BOOLEAN,                     \* the context is cancelled
           creq : BOOLEAN, job : JobRow,      \* rows as loaded
           name : [Sources -> Names],         \* the file of each source
           got : [Sources -> Outcome],        \* sources collected
           file : [Names -> Content],         \* files in the local workdir
           put : [Objects -> Outcome],        \* uploads
           stored : [Names -> Content],       \* objects in the storage
           expired : SUBSET Names,            \* history: deleted by retention
           sums : Outcome,
           execErr : BOOLEAN, uploadErr : BOOLEAN,
           final : Final \cup {"none"}]

TypeOK ==
    /\ job \in [Jobs -> JobRow]
    /\ st \in [Runs -> Active \cup Final \cup {"absent", "gone"}]
    /\ creq \in [Runs -> BOOLEAN]
    /\ item \in [Runs -> [Objects -> {"absent", "running", "success", "failed"}]]
    /\ pc \in [Runs -> {"none"} \cup TriggerPC \cup GoPC \cup OverPC]
    /\ mem \in [Runs -> Memory]
    /\ cancel \in [Runs -> [Cancels -> [pc : {"idle", "read", "saved", "done"},
                                        st : Active \cup Final \cup {"none"}]]]
    /\ edit \in [Jobs -> [open : BOOLEAN, left : 0..MaxEdits,
                          enabled : BOOLEAN, row : JobRow]]
    /\ dbErrors \in 0..MaxDbErrors
    /\ crashes \in 0..MaxCrashes

------------------------------------------------------------------------------
NewJob == [exists |-> TRUE, enabled |-> TRUE, last |-> "idle"]

NewMem == [kind |-> "none", ctx |-> FALSE, creq |-> FALSE, job |-> NewJob,
           name |-> CHOOSE f \in Namings : TRUE, expired |-> {},
           got |-> [s \in Sources |-> "todo"], file |-> [n \in Names |-> 0],
           put |-> [o \in Objects |-> "todo"], stored |-> [n \in Names |-> 0],
           sums |-> "todo", execErr |-> FALSE, uploadErr |-> FALSE,
           final |-> "none"]

Init ==
    /\ job = [j \in Jobs |-> NewJob]
    /\ st = [r \in Runs |-> "absent"]
    /\ creq = [r \in Runs |-> FALSE]
    /\ item = [r \in Runs |-> [o \in Objects |-> "absent"]]
    /\ pc = [r \in Runs |-> "none"]
    /\ mem = [r \in Runs |-> NewMem]
    /\ cancel = [r \in Runs |-> [c \in Cancels |-> [pc |-> "idle", st |-> "none"]]]
    /\ edit = [j \in Jobs |-> [open |-> FALSE, left |-> MaxEdits,
                               enabled |-> FALSE, row |-> NewJob]]
    /\ dbErrors = 0
    /\ crashes = 0

------------------------------------------------------------------------------
(* The database, and gorm in front of it *)

\* Save: an update of all columns. When there is no such row it is inserted, and
\* then gorm writes TRUE for an enabled (default:true) that is FALSE.
SavedJob(j, row) == [row EXCEPT !.enabled = @ \/ ~job[j].exists]

DbOk == UNCHANGED dbErrors
DbFails == dbErrors < MaxDbErrors /\ dbErrors' = dbErrors + 1

\* A statement under the run's context: a cancelled context fails it.
CtxOk(r) == ~mem[r].ctx /\ DbOk
CtxFails(r) == (mem[r].ctx /\ DbOk) \/ (~mem[r].ctx /\ DbFails)

RowExists(r) == st[r] \notin {"absent", "gone"}

\* DB.WithContext(ctx).Save(run)
RunSaved(r, s) ==
    /\ CtxOk(r)
    /\ job[JobOf(r)].exists
    /\ st' = [st EXCEPT ![r] = s]
    /\ creq' = [creq EXCEPT ![r] = mem[r].creq]

RunNotSaved(r) ==
    /\ \/ CtxFails(r)
       \/ CtxOk(r) /\ ~job[JobOf(r)].exists
    /\ UNCHANGED <<st, creq>>

isJobRunning(j) == \E r \in Runs : JobOf(r) = j /\ st[r] \in Active

\* The count said no run is active; a failing count says so too.
SeenIdle(j) == (~isJobRunning(j) /\ DbOk) \/ DbFails

Goto(r, l) == pc' = [pc EXCEPT ![r] = l]

------------------------------------------------------------------------------
(* Triggering a run *)

Unused(r) == pc[r] = "none" /\ \A n \in 1..(r[2] - 1) : pc[<<r[1], n>>] # "none"

\* enqueueScheduledRuns: the job is enabled and due and seems idle. The
\* scheduler is one goroutine.
enqueueScheduledRuns(r) ==
    /\ Unused(r)
    /\ \A q \in Runs : ~(pc[q] \in TriggerPC /\ mem[q].kind = "scheduled")
    /\ job[JobOf(r)].exists /\ job[JobOf(r)].enabled
    /\ SeenIdle(JobOf(r))
    /\ mem' = [mem EXCEPT ![r].kind = "scheduled"]
    /\ Goto(r, "listed")
    /\ UNCHANGED <<job, st, creq, item, cancel, edit, crashes>>

\* TriggerRun up to its check, for the scheduler and for the handlers
\* (RetryRun first reads the run to retry). A refused request changes nothing.
TriggerCheck(r, kind) ==
    /\ \/ kind = "scheduled" /\ pc[r] = "listed"
       \/ kind = "manual" /\ Unused(r)
       \/ kind = "retry" /\ Unused(r)
          /\ \E q \in Runs : JobOf(q) = JobOf(r) /\ RowExists(q)
    /\ job[JobOf(r)].exists
    /\ SeenIdle(JobOf(r))
    /\ mem' = [mem EXCEPT ![r].kind = kind]
    /\ Goto(r, "checked")
    /\ UNCHANGED <<job, st, creq, item, cancel, edit, crashes>>

TriggerRefused(r) ==
    /\ pc[r] = "listed"
    /\ ~job[JobOf(r)].exists \/ isJobRunning(JobOf(r))
    /\ mem' = [mem EXCEPT ![r].kind = "none"]
    /\ Goto(r, "none")
    /\ UNCHANGED <<job, st, creq, item, cancel, edit, dbErrors, crashes>>

\* The row is inserted and the goroutine started; when the insert is reported
\* as failed the row may still be there, with nobody to run it.
TriggerCreate(r) ==
    /\ pc[r] = "checked"
    /\ \/ /\ DbOk /\ job[JobOf(r)].exists
          /\ st' = [st EXCEPT ![r] = "queued"]
          /\ Goto(r, "spawned")
          /\ UNCHANGED mem
       \/ /\ (DbOk /\ ~job[JobOf(r)].exists) \/ DbFails
          /\ mem' = [mem EXCEPT ![r].kind = "none"]
          /\ Goto(r, "none")
          /\ UNCHANGED st
       \/ /\ DbFails /\ job[JobOf(r)].exists
          /\ st' = [st EXCEPT ![r] = "queued"]
          /\ Goto(r, "dead")
          /\ UNCHANGED mem
    /\ UNCHANGED <<job, creq, item, cancel, edit, crashes>>

------------------------------------------------------------------------------
(* The goroutine of a run *)

\* runAsync makes the run cancellable.
runAsync(r) ==
    /\ pc[r] = "spawned"
    /\ Goto(r, "load")
    /\ UNCHANGED <<job, st, creq, item, mem, cancel, edit, dbErrors, crashes>>

\* An error here ends the goroutine and leaves the row as it is. A storage
\* configuration that cannot be decrypted counts as a failing statement. The
\* sources are those of this moment, with any names: AddSource checks none.
loadRunContext(r) ==
    /\ pc[r] = "load"
    /\ \/ /\ CtxOk(r) /\ RowExists(r)
          /\ \E name \in Namings :
                mem' = [mem EXCEPT ![r].creq = creq[r], ![r].job = job[JobOf(r)],
                                   ![r].name = name]
          /\ Goto(r, "mark")
       \/ /\ CtxFails(r) \/ (CtxOk(r) /\ ~RowExists(r))
          /\ Goto(r, "ended")
          /\ UNCHANGED mem
    /\ UNCHANGED <<job, st, creq, item, cancel, edit, crashes>>

\* finishRunWithError: the run will be saved as failed.
Fail(r) == mem' = [mem EXCEPT ![r].final = "failed"] /\ Goto(r, "finish")

\* The workdir is made and the row set to running; if that is not stored the
\* goroutine ends.
MarkRunning(r) ==
    /\ pc[r] = "mark"
    /\ \/ RunSaved(r, "running") /\ Goto(r, "test") /\ UNCHANGED mem
       \/ RunNotSaved(r) /\ Goto(r, "ended") /\ UNCHANGED mem
       \/ Fail(r) /\ UNCHANGED <<st, creq, dbErrors>>
    /\ UNCHANGED <<job, item, cancel, edit, crashes>>

TestStorage(r) ==
    /\ pc[r] = "test"
    /\ \/ Goto(r, "connect") /\ UNCHANGED mem
       \/ Fail(r)
    /\ UNCHANGED <<job, st, creq, item, cancel, edit, dbErrors, crashes>>

\* collectArtifacts up to its loop: the node is opened, the row saved again
\* (the error is dropped), the remote directory made. Nothing is collected on
\* an error, before or after the save, so the run fails.
Connect(r) ==
    /\ pc[r] = "connect"
    /\ \/ /\ RunSaved(r, "running") \/ RunNotSaved(r)
          /\ \/ Goto(r, "collect") /\ UNCHANGED mem
             \/ Fail(r)
       \/ Fail(r) /\ UNCHANGED <<st, creq, dbErrors>>
    /\ UNCHANGED <<job, item, cancel, edit, crashes>>

First(S) == CHOOSE x \in S : \A y \in S : x <= y
Todo(r) == {s \in Sources : mem[r].got[s] = "todo"}

\* executeSource begins with the item's row.
SourceStart(r) ==
    /\ pc[r] = "collect" /\ Todo(r) # {} /\ ~mem[r].ctx
    /\ LET s == First(Todo(r)) IN
          \/ /\ DbOk /\ RowExists(r)
             /\ item' = [item EXCEPT ![r][s] = "running"]
             /\ Goto(r, "source")
             /\ UNCHANGED mem
          \/ /\ DbFails \/ (DbOk /\ ~RowExists(r))
             /\ mem' = [mem EXCEPT ![r].got[s] = "err", ![r].execErr = TRUE]
             /\ UNCHANGED <<item, pc>>
    /\ UNCHANGED <<job, st, creq, cancel, edit, crashes>>

\* The script ran and the file was fetched into the workdir, or not (a download
\* that fails has already truncated a file of that name). A collected file whose
\* row cannot be saved is dropped; the save of a failed item may be lost.
SourceEnd(r) ==
    /\ pc[r] = "source"
    /\ LET s == First(Todo(r))
           saved == CtxOk(r) /\ RowExists(r)
           lost == CtxFails(r) \/ (CtxOk(r) /\ ~RowExists(r))
           n == mem[r].name[s]
           Failed(content) ==
              mem' = [mem EXCEPT ![r].got[s] = "err", ![r].execErr = TRUE,
                                 ![r].file[n] = content]
       IN  \/ /\ saved
              /\ item' = [item EXCEPT ![r][s] = "success"]
              /\ mem' = [mem EXCEPT ![r].got[s] = "ok", ![r].file[n] = s]
           \/ /\ saved
              /\ item' = [item EXCEPT ![r][s] = "failed"]
              /\ \E content \in {mem[r].file[n], 0, s} : Failed(content)
           \/ /\ lost
              /\ \E content \in {mem[r].file[n], 0, s} : Failed(content)
              /\ UNCHANGED item
    /\ Goto(r, "collect")
    /\ UNCHANGED <<job, st, creq, cancel, edit, crashes>>

\* The loop is over, or interrupted by the context. An error with nothing
\* collected fails the run.
Collected(r) ==
    /\ pc[r] = "collect" /\ (Todo(r) = {} \/ mem[r].ctx)
    /\ LET err == mem[r].execErr \/ Todo(r) # {}
           some == \E s \in Sources : mem[r].got[s] = "ok"
       IN  IF err /\ ~some
           THEN Fail(r)
           ELSE /\ mem' = [mem EXCEPT ![r].execErr = err]
                /\ Goto(r, "manifest")
    /\ UNCHANGED <<job, st, creq, item, cancel, edit, dbErrors, crashes>>

\* The checksum manifest becomes one more artifact, with an item row of its own
\* (whose error is dropped). Without it the run goes on.
writeChecksumsManifest(r) ==
    /\ pc[r] = "manifest"
    /\ \/ /\ mem' = [mem EXCEPT ![r].sums = "ok"]
          /\ \/ /\ CtxOk(r) /\ RowExists(r)
                /\ item' = [item EXCEPT ![r][Sums] = "success"]
             \/ /\ CtxFails(r) \/ (CtxOk(r) /\ ~RowExists(r))
                /\ UNCHANGED item
       \/ /\ mem' = [mem EXCEPT ![r].sums = "err"]
          /\ UNCHANGED <<item, dbErrors>>
    /\ Goto(r, "upload")
    /\ UNCHANGED <<job, st, creq, cancel, edit, crashes>>

Artifacts(r) ==
    {s \in Sources : mem[r].got[s] = "ok"}
        \cup (IF mem[r].sums = "ok" THEN {Sums} ELSE {})
Pending(r) == {o \in Artifacts(r) : mem[r].put[o] = "todo"}

\* One turn of the loop: the file of that name, as it is by now, is stored, or
\* not, and then an object of that name may be left truncated.
uploadArtifacts(r) ==
    /\ pc[r] = "upload" /\ Pending(r) # {} /\ ~mem[r].ctx
    /\ LET o == First(Pending(r)) IN
          \/ mem' = [mem EXCEPT ![r].put[o] = "ok",
                     ![r].stored = [n \in Names |->
                        IF o # Sums /\ n = mem[r].name[o]
                        THEN mem[r].file[n] ELSE mem[r].stored[n]]]
          \/ \E kept \in BOOLEAN :
                mem' = [mem EXCEPT ![r].put[o] = "err", ![r].uploadErr = TRUE,
                        ![r].stored = [n \in Names |->
                           IF ~kept /\ o # Sums /\ n = mem[r].name[o]
                           THEN 0 ELSE mem[r].stored[n]]]
    /\ UNCHANGED <<job, st, creq, item, pc, cancel, edit, dbErrors, crashes>>

\* The loop is over, or interrupted by the context.
Uploaded(r) ==
    /\ pc[r] = "upload" /\ (Pending(r) = {} \/ mem[r].ctx)
    /\ mem' = [mem EXCEPT ![r].uploadErr = mem[r].uploadErr \/ Pending(r) # {}]
    /\ Goto(r, "retain")
    /\ UNCHANGED <<job, st, creq, item, cancel, edit, dbErrors, crashes>>

\* Whatever became of the uploads, the objects of the job's runs that are old
\* enough are deleted; a listing or a delete that fails leaves them.
Expired(m, old) ==
    [m EXCEPT !.expired = m.expired \cup old,
              !.stored = [n \in Names |-> IF n \in old THEN 0 ELSE m.stored[n]]]

applyRetention(r) ==
    /\ pc[r] = "retain"
    /\ \E old \in [{q \in Runs : JobOf(q) = JobOf(r)} -> SUBSET Names] :
          /\ \A q \in DOMAIN old : \A n \in old[q] : mem[q].stored[n] # 0
          /\ mem' = [q \in Runs |-> IF JobOf(q) = JobOf(r)
                                    THEN Expired(mem[q], old[q]) ELSE mem[q]]
    /\ Goto(r, "derive")
    /\ UNCHANGED <<job, st, creq, item, cancel, edit, dbErrors, crashes>>

\* Mutant: a failed upload is forgotten.
deriveFinalStatusNoUpload(execErr, uploadErr, cancelled) ==
    IF cancelled THEN "cancelled"
    ELSE IF execErr THEN "partial_success" ELSE "success"

deriveFinalStatus(execErr, uploadErr, cancelled) ==
    IF cancelled THEN "cancelled"
    ELSE IF ~execErr /\ ~uploadErr THEN "success"
    ELSE IF execErr /\ uploadErr THEN "failed"
    ELSE "partial_success"

Derive(r) ==
    /\ pc[r] = "derive"
    /\ mem' = [mem EXCEPT ![r].final =
                  deriveFinalStatus(mem[r].execErr, mem[r].uploadErr, mem[r].ctx)]
    /\ Goto(r, "finish")
    /\ UNCHANGED <<job, st, creq, item, cancel, edit, dbErrors, crashes>>

\* Mutant: only a successful run is saved.
FinishRunOnSuccess(r) ==
    /\ pc[r] = "finish"
    /\ IF mem[r].final = "success"
       THEN RunSaved(r, "success") \/ RunNotSaved(r)
       ELSE UNCHANGED <<st, creq, dbErrors>>
    /\ Goto(r, "finishJob")
    /\ UNCHANGED <<job, item, mem, cancel, edit, crashes>>

\* The final Save(run); its error is dropped.
FinishRun(r) ==
    /\ pc[r] = "finish"
    /\ RunSaved(r, mem[r].final) \/ RunNotSaved(r)
    /\ Goto(r, "finishJob")
    /\ UNCHANGED <<job, item, mem, cancel, edit, crashes>>

\* Mutant: the job is told of a success whatever the run's status.
FinishJobAlwaysSuccess(r) ==
    /\ pc[r] = "finishJob"
    /\ CtxOk(r)
    /\ job' = [job EXCEPT ![JobOf(r)] =
                  SavedJob(JobOf(r), [mem[r].job EXCEPT !.last = "success"])]
    /\ Goto(r, "ended")
    /\ UNCHANGED <<st, creq, item, mem, cancel, edit, crashes>>

\* The final Save(job), with the job as it was loaded; its error is dropped and
\* the run leaves Service.running.
FinishJob(r) ==
    /\ pc[r] = "finishJob"
    /\ \/ /\ CtxOk(r)
          /\ job' = [job EXCEPT ![JobOf(r)] =
                        SavedJob(JobOf(r), [mem[r].job EXCEPT !.last = mem[r].final])]
       \/ CtxFails(r) /\ UNCHANGED job
    /\ Goto(r, "ended")
    /\ UNCHANGED <<st, creq, item, mem, cancel, edit, crashes>>

------------------------------------------------------------------------------
(* CancelRun: read the row, save it with cancel_requested_at, signal. *)

CancelRead(r, c) ==
    /\ cancel[r][c].pc = "idle" /\ RowExists(r)
    /\ cancel' = [cancel EXCEPT ![r][c] = [pc |-> "read", st |-> st[r]]]
    /\ UNCHANGED <<job, st, creq, item, pc, mem, edit, dbErrors, crashes>>

CancelSave(r, c) ==
    /\ cancel[r][c].pc = "read"
    /\ \/ /\ DbOk /\ job[JobOf(r)].exists
          /\ st' = [st EXCEPT ![r] = cancel[r][c].st]
          /\ creq' = [creq EXCEPT ![r] = TRUE]
          /\ cancel' = [cancel EXCEPT ![r][c].pc = "saved"]
       \/ /\ DbFails \/ (DbOk /\ ~job[JobOf(r)].exists)
          /\ cancel' = [cancel EXCEPT ![r][c].pc = "done"]
          /\ UNCHANGED <<st, creq>>
    /\ UNCHANGED <<job, item, pc, mem, edit, crashes>>

CancelSignal(r, c) ==
    /\ cancel[r][c].pc = "saved"
    /\ cancel' = [cancel EXCEPT ![r][c].pc = "done"]
    /\ mem' = [mem EXCEPT ![r].ctx = mem[r].ctx \/ pc[r] \in RunPC]
    /\ UNCHANGED <<job, st, creq, item, pc, edit, dbErrors, crashes>>

------------------------------------------------------------------------------
(* Edits of the job *)

\* SetJobEnabled and UpdateJob read the row ...
EditRead(j, enabled) ==
    /\ ~edit[j].open /\ edit[j].left > 0
    /\ job[j].exists
    /\ edit' = [edit EXCEPT ![j] = [open |-> TRUE, left |-> edit[j].left - 1,
                                    enabled |-> enabled, row |-> job[j]]]
    /\ UNCHANGED <<job, st, creq, item, pc, mem, cancel, dbErrors, crashes>>

\* ... and save all of it.
EditSave(j) ==
    /\ edit[j].open
    /\ edit' = [edit EXCEPT ![j].open = FALSE]
    /\ \/ /\ DbOk
          /\ job' = [job EXCEPT ![j] =
                        SavedJob(j, [edit[j].row EXCEPT !.enabled = edit[j].enabled])]
       \/ DbFails /\ UNCHANGED job
    /\ UNCHANGED <<st, creq, item, pc, mem, cancel, crashes>>

\* The rows of the runs and of their items go with the job (ON DELETE CASCADE).
DeleteJob(j) ==
    /\ job[j].exists
    /\ job' = [job EXCEPT ![j].exists = FALSE]
    /\ st' = [r \in Runs |-> IF JobOf(r) = j /\ RowExists(r) THEN "gone" ELSE st[r]]
    /\ creq' = [r \in Runs |-> creq[r] /\ JobOf(r) # j]
    /\ item' = [r \in Runs |-> IF JobOf(r) = j
                               THEN [o \in Objects |-> "absent"] ELSE item[r]]
    /\ UNCHANGED <<pc, mem, cancel, edit, dbErrors, crashes>>

\* Mutant: a restart closes the rows that were left active.
CrashRepairs ==
    /\ crashes < MaxCrashes
    /\ crashes' = crashes + 1
    /\ pc' = [r \in Runs |-> IF pc[r] \in TriggerPC THEN "none"
                             ELSE IF pc[r] \in GoPC THEN "dead" ELSE pc[r]]
    /\ cancel' = [r \in Runs |-> [c \in Cancels |->
                     IF cancel[r][c].pc = "idle" THEN cancel[r][c]
                     ELSE [cancel[r][c] EXCEPT !.pc = "done"]]]
    /\ edit' = [j \in Jobs |-> [edit[j] EXCEPT !.open = FALSE]]
    /\ st' = [r \in Runs |-> IF st[r] \in Active THEN "failed" ELSE st[r]]
    /\ UNCHANGED <<job, creq, item, mem, dbErrors>>

\* The process dies and is started again; nothing looks at the old rows.
Crash ==
    /\ crashes < MaxCrashes
    /\ crashes' = crashes + 1
    /\ pc' = [r \in Runs |-> IF pc[r] \in TriggerPC THEN "none"
                             ELSE IF pc[r] \in GoPC THEN "dead" ELSE pc[r]]
    /\ cancel' = [r \in Runs |-> [c \in Cancels |->
                     IF cancel[r][c].pc = "idle" THEN cancel[r][c]
                     ELSE [cancel[r][c] EXCEPT !.pc = "done"]]]
    /\ edit' = [j \in Jobs |-> [edit[j] EXCEPT !.open = FALSE]]
    /\ UNCHANGED <<job, st, creq, item, mem, dbErrors>>

------------------------------------------------------------------------------
executeRun(r) ==
    \/ loadRunContext(r) \/ MarkRunning(r) \/ TestStorage(r) \/ Connect(r)
    \/ SourceStart(r) \/ SourceEnd(r) \/ Collected(r)
    \/ writeChecksumsManifest(r) \/ uploadArtifacts(r) \/ Uploaded(r)
    \/ applyRetention(r) \/ Derive(r) \/ FinishRun(r) \/ FinishJob(r)

TriggerRun(r) ==
    \/ \E kind \in {"manual", "retry", "scheduled"} : TriggerCheck(r, kind)
    \/ TriggerRefused(r)
    \/ TriggerCreate(r)

CancelRun(r) ==
    \E c \in Cancels : CancelRead(r, c) \/ CancelSave(r, c) \/ CancelSignal(r, c)

Next ==
    \/ \E r \in Runs :
          \/ enqueueScheduledRuns(r) \/ TriggerRun(r)
          \/ runAsync(r) \/ executeRun(r)
          \/ CancelRun(r)
    \/ \E j \in Jobs :
          \/ \E e \in BOOLEAN : EditRead(j, e)
          \/ EditSave(j)
          \/ DeleteJob(j)
    \/ Crash

Spec == Init /\ [][Next]_vars

------------------------------------------------------------------------------
(* Properties *)

\* A source can be restored from the run: under its name there is a whole file,
\* of it or of another source of that name, unless retention has removed it.
Kept(m, s) ==
    \/ m.name[s] \in m.expired
    \/ \E t \in Sources : m.name[t] = m.name[s] /\ m.stored[m.name[s]] = t

Complete(r) == \A s \in Sources : Kept(mem[r], s)

\* A stored status can be trusted when somebody wants to restore. "success" means
\* that the storage has a whole file under the name of every source, unless some
\* run's retention deleted it later, and that the manifest was stored unless
\* writing it failed; "partial_success" means that something is missing although
\* something was collected (executeRun, deriveFinalStatus, applyRetention).
RunStatusTruth ==
    \A r \in Runs :
        /\ st[r] = "success" =>
              Complete(r) /\ (mem[r].put[Sums] = "ok" \/ mem[r].sums = "err")
        /\ st[r] = "partial_success" =>
              /\ \E o \in Objects : mem[r].put[o] # "ok"
              /\ Sources = {} \/ \E s \in Sources : mem[r].got[s] = "ok"

\* backup_jobs.last_status says "success" only when some run of this job had a
\* whole file for every source in the storage, of which only retention may have
\* taken any away, whichever stale rows were saved (FinishJob, SetJobEnabled,
\* applyRetention).
JobSuccessBacked ==
    \A j \in Jobs : job[j].last = "success" =>
        \E r \in Runs : JobOf(r) = j /\ Complete(r)

NeverCancelled(r) == \A c \in Cancels : cancel[r][c].pc = "idle"

\* Without cancel requests and failing statements a goroutine that ends leaves
\* a final row, on each of its many ways out.
UncancelledRunsEnd ==
    dbErrors = 0 => \A r \in Runs :
        pc[r] = "ended" /\ NeverCancelled(r) => st[r] \notin Active

\* A row left active by a goroutine that is gone stays active, so that its job
\* is never triggered again: nobody but a CancelRun that still holds an older
\* row writes it, and only deleting the job removes it.
OrphanRunsStay ==
    [][\A r \in Runs :
          /\ st[r] \in Active /\ pc[r] \in OverPC
          /\ \A c \in Cancels : cancel[r][c].pc # "read"
          => st'[r] \in Active \cup {"gone"}]_vars

\* docs/backup-center.md: "run/job status and per-item status are persisted".
\* While no statement failed, a run whose goroutine has ended is not shown as
\* queued or running.
EndedRunsAreFinal ==
    dbErrors = 0 => \A r \in Runs : pc[r] = "ended" => st[r] \notin Active
==============================================================================
