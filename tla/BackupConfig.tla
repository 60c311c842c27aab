------------------------------ MODULE BackupConfig ------------------------------
(***************************************************************************)
(* What Backup Center is configured with: storage targets, jobs, sources   *)
(* and templates (backend/internal/services/backup/{service,validation,    *)
(* catalog,templates}.go) and the handlers in front of them                *)
(* (internal/http/backup.go).                                              *)
(*                                                                         *)
(* A request reads rows, changes its copies and saves whole rows. Between  *)
(* the statements of one, those of others run, and a test of a target      *)
(* dials out meanwhile. gorm's Save inserts a row that is gone, and gorm   *)
(* inserts TRUE for FALSE where the model says default:true; the foreign   *)
(* keys of migration 0046 refuse a job without its target and a source     *)
(* without its job. Of a configuration it is kept which fields are filled  *)
(* in; names, schedules and the order of sources are left out, and with    *)
(* them the requests that are refused for what they say of those.          *)
(***************************************************************************)
EXTENDS Naturals, Sequences, FiniteSets

CONSTANTS
    BcfTargets, BcfJobs, BcfSources,   \* ids of rows ever made
    BcfSlots,                          \* requests that overlap
    BcfInputs,                         \* storage configurations that are sent
    BcfTemplate,                       \* the sources of a template
    BcfRequests                        \* bound on requests

StorageTypes == {"ftp", "sftp", "webdav", "s3", "local"}   \* ftps is checked like ftp
SourceTypes == {"path", "dump", "snapshot", "blocked"}
SourceFields == {"path", "db"}
Fields == {"host", "user", "password", "key", "url", "bucket", "keys", "path"}
StorageConfig == [has : SUBSET Fields, auth : {"", "password", "key"}]
SourceInput == [type : SourceTypes, cfg : SUBSET SourceFields]

TargetRow == [type : StorageTypes, cfg : StorageConfig, enabled : BOOLEAN]
JobRow == [target : BcfTargets, enabled : BOOLEAN]
SourceRow == [job : BcfJobs, type : SourceTypes, cfg : SUBSET SourceFields,
              retyped : BOOLEAN]

ASSUME BcfAssumption ==
    /\ BcfInputs \subseteq StorageConfig /\ BcfTemplate \in Seq(SourceInput) \ {<<>>}
    /\ BcfRequests \in Nat

VARIABLES
    btarget,   \* backup_storage_targets: [ids there are -> row]
    bjob,      \* backup_jobs
    bsrc,      \* backup_sources
    btpl,      \* is the template in backup_templates?
    breq,      \* the requests being handled
    bused,     \* ids that were given out
    bcount     \* requests so far

bcfVars == <<btarget, bjob, bsrc, btpl, breq, bused, bcount>>

NoRow == [none |-> TRUE]
BcfIdle == [pc |-> "idle", id |-> 0, row |-> NoRow, k |-> 0]

\* A request: what it does next, to which id, with the row it is about to write.
BcfRequest ==
    LET In(pcs, ids, rows, ks) == [pc : pcs, id : ids, row : rows, k : ks]
    IN  {BcfIdle} \cup In({"editTarget", "deleteTarget"}, BcfTargets, {NoRow}, {0})
                  \cup In({"saveTarget"}, BcfTargets, TargetRow, {0})
                  \cup In({"insertJob"}, BcfJobs, JobRow, {0, 1})
                  \cup In({"findTarget", "saveJob"}, BcfJobs, JobRow, {0})
                  \cup In({"insertSource", "saveSource"}, BcfSources, SourceRow, {0})
                  \cup In({"template"}, BcfJobs, {NoRow}, 1..Len(BcfTemplate))

BcfTypeOK ==
    /\ DOMAIN btarget \subseteq BcfTargets /\ \A t \in DOMAIN btarget : btarget[t] \in TargetRow
    /\ DOMAIN bjob \subseteq BcfJobs /\ \A j \in DOMAIN bjob : bjob[j] \in JobRow
    /\ DOMAIN bsrc \subseteq BcfSources /\ \A s \in DOMAIN bsrc : bsrc[s] \in SourceRow
    /\ btpl \in BOOLEAN
    /\ breq \in [BcfSlots -> BcfRequest]
    /\ bused \subseteq ({"target"} \X BcfTargets) \cup ({"job"} \X BcfJobs)
                       \cup ({"source"} \X BcfSources)
    /\ bcount \in 0..BcfRequests

\* New seeds the template (EnsureBuiltInTemplates) and drops the error if it cannot.
BcfInit ==
    /\ btarget = <<>> /\ bjob = <<>> /\ bsrc = <<>>
    /\ btpl \in BOOLEAN
    /\ breq = [q \in BcfSlots |-> BcfIdle]
    /\ bused = {} /\ bcount = 0

------------------------------------------------------------------------------
(* Validation *)

StorageNeeds(type, cfg) ==
    CASE type = "ftp" -> {"host", "user", "password"}
      [] type = "sftp" -> {"host", "user"} \cup {IF cfg.auth = "key" THEN "key" ELSE "password"}
      [] type = "webdav" -> {"url", "user", "password"}
      [] type = "s3" -> {"host", "bucket", "keys"}
      [] type = "local" -> {"path"}

ValidateStorageConfig(type, cfg) == StorageNeeds(type, cfg) \subseteq cfg.has

\* Of the fields a request leaves empty, secrets among them, the stored ones stay.
mergeStorageConfig(existing, update) ==
    [has |-> existing.has \cup update.has,
     auth |-> IF update.auth = "" THEN existing.auth ELSE update.auth]

\* Snapshots need nothing; custom commands (not allowed by the server), MySQL and
\* what is unknown are refused.
SourceNeeds(type) ==
    CASE type = "path" -> {"path"} [] type = "dump" -> {"db"} [] OTHER -> {}

ValidateSourceConfig(type, cfg) == type # "blocked" /\ SourceNeeds(type) \subseteq cfg

\* The configuration is written as that of its type: foreign fields are dropped.
Normalized(type, cfg) == cfg \cap SourceNeeds(type)

------------------------------------------------------------------------------
(* Rows *)

With(rows, id, row) ==
    [x \in DOMAIN rows \cup {id} |-> IF x = id THEN row ELSE rows[x]]
Without(rows, ids) == [x \in DOMAIN rows \ ids |-> rows[x]]

\* Save: an update of all columns, or an insert when there is no such row.
Saved(rows, id, row) ==
    With(rows, id, IF id \in DOMAIN rows THEN row ELSE [row EXCEPT !.enabled = TRUE])

Fresh(table, id) == <<table, id>> \notin bused /\ bused' = bused \cup {<<table, id>>}

\* A request comes in.
Arrives(q) == breq[q].pc = "idle" /\ bcount < BcfRequests /\ bcount' = bcount + 1
Holds(q, pc, id, row) == breq' = [breq EXCEPT ![q] = [BcfIdle EXCEPT !.pc = pc, !.id = id, !.row = row]]
Answers(q) == breq' = [breq EXCEPT ![q] = BcfIdle]

\* The statement is refused by a foreign key or a unique index, or fails.
Rejected(q) == Answers(q) /\ UNCHANGED <<btarget, bjob, bsrc>>

TargetKey(row) == row.target \in DOMAIN btarget
JobKey(row) == row.job \in DOMAIN bjob

------------------------------------------------------------------------------
(* Storage targets *)

CreateStorageTarget(t, type, cfg) ==
    /\ bcount < BcfRequests /\ bcount' = bcount + 1
    /\ Fresh("target", t)
    /\ ValidateStorageConfig(type, cfg)
    /\ btarget' = With(btarget, t, [type |-> type, cfg |-> cfg, enabled |-> TRUE])
    /\ UNCHANGED <<bjob, bsrc, btpl, breq>>

CreateBackupStorageTarget(t, type, cfg) == CreateStorageTarget(t, type, cfg)

\* UpdateBackupStorageTarget reads the row, for what the request leaves out of type
\* and flag,
UpdateBackupStorageTarget(q, t) ==
    /\ Arrives(q) /\ t \in DOMAIN btarget
    /\ Holds(q, "editTarget", t, NoRow)
    /\ UNCHANGED <<btarget, bjob, bsrc, btpl, bused>>

\* Mutant: the configuration is checked before the type is changed.
EditedOldType(old, type, cfg, on) ==
    LET merged == mergeStorageConfig(old.cfg, cfg)
    IN  IF ValidateStorageConfig(old.type, merged)
        THEN {[type |-> type, cfg |-> merged, enabled |-> on]} ELSE {}

Edited(old, type, cfg, on) ==
    LET merged == mergeStorageConfig(old.cfg, cfg)
    IN  IF ValidateStorageConfig(type, merged)
        THEN {[type |-> type, cfg |-> merged, enabled |-> on]} ELSE {}

\* and the service once more, to merge and check it;
UpdateStorageTarget(q) ==
    /\ breq[q].pc = "editTarget"
    /\ LET t == breq[q].id
       IN  \/ /\ t \in DOMAIN btarget
              /\ \E type \in StorageTypes, cfg \in BcfInputs, on \in BOOLEAN :
                    \E row \in Edited(btarget[t], type, cfg, on) :
                        Holds(q, "saveTarget", t, row)
           \/ Answers(q)
    /\ UNCHANGED <<btarget, bjob, bsrc, btpl, bused, bcount>>

\* TestStorageTarget reads the row, dials, and saves the row with the result.
TestStorageTarget(q, t) ==
    /\ Arrives(q) /\ t \in DOMAIN btarget
    /\ Holds(q, "saveTarget", t, btarget[t])
    /\ UNCHANGED <<btarget, bjob, bsrc, btpl, bused>>

TestBackupStorageTarget(q, t) == TestStorageTarget(q, t)

SaveTarget(q) ==
    /\ breq[q].pc = "saveTarget"
    /\ \/ /\ btarget' = Saved(btarget, breq[q].id, breq[q].row)
          /\ Answers(q) /\ UNCHANGED <<bjob, bsrc>>
       \/ Rejected(q)
    /\ UNCHANGED <<btpl, bused, bcount>>

\* DeleteStorageTarget counts the jobs that use it,
CountJobs(q, t) ==
    /\ Arrives(q) /\ t \in DOMAIN btarget
    /\ \A j \in DOMAIN bjob : bjob[j].target # t
    /\ Holds(q, "deleteTarget", t, NoRow)
    /\ UNCHANGED <<btarget, bjob, bsrc, btpl, bused>>

DeleteBackupStorageTarget(q, t) == CountJobs(q, t)

\* ON DELETE RESTRICT.
InUse(t) == \E j \in DOMAIN bjob : bjob[j].target = t

\* then deletes it.
DeleteStorageTarget(q) ==
    /\ breq[q].pc = "deleteTarget"
    /\ \/ /\ ~InUse(breq[q].id)
          /\ btarget' = Without(btarget, {breq[q].id})
          /\ Answers(q) /\ UNCHANGED <<bjob, bsrc>>
       \/ Rejected(q)
    /\ UNCHANGED <<btpl, bused, bcount>>

------------------------------------------------------------------------------
(* Jobs *)

\* CreateJob finds the target enabled,
CreateJob(q, j, t, source) ==
    /\ Arrives(q) /\ Fresh("job", j)
    /\ t \in DOMAIN btarget /\ btarget[t].enabled
    /\ breq' = [breq EXCEPT ![q] = [pc |-> "insertJob", id |-> j, k |-> source,
                                    row |-> [target |-> t, enabled |-> TRUE]]]
    /\ UNCHANGED <<btarget, bjob, bsrc, btpl>>

CreateBackupJob(q, j, t) == CreateJob(q, j, t, 0)
CreateBackupJobFromTemplate(q, j, t) == btpl /\ CreateJob(q, j, t, 1)

\* and inserts the job.
InsertJob(q) ==
    /\ breq[q].pc = "insertJob"
    /\ \/ /\ TargetKey(breq[q].row)
          /\ bjob' = With(bjob, breq[q].id, breq[q].row)
          /\ IF breq[q].k = 0 THEN Answers(q)
             ELSE breq' = [breq EXCEPT ![q].pc = "template", ![q].row = NoRow]
          /\ UNCHANGED <<btarget, bsrc>>
       \/ Rejected(q)
    /\ UNCHANGED <<btpl, bused, bcount>>

\* UpdateJob reads the job, finds the new target,
UpdateJob(q, j, t) ==
    /\ Arrives(q) /\ j \in DOMAIN bjob
    /\ Holds(q, "findTarget", j, [bjob[j] EXCEPT !.target = t])
    /\ UNCHANGED <<btarget, bjob, bsrc, btpl, bused>>

UpdateBackupJob(q, j, t) == UpdateJob(q, j, t)

FindTarget(q) ==
    /\ breq[q].pc = "findTarget"
    /\ IF TargetKey(breq[q].row)
       THEN \E on \in BOOLEAN :
               breq' = [breq EXCEPT ![q].pc = "saveJob", ![q].row.enabled = on]
       ELSE Answers(q)
    /\ UNCHANGED <<btarget, bjob, bsrc, btpl, bused, bcount>>

\* SetJobEnabled only reads the job.
SetJobEnabled(q, j, on) ==
    /\ Arrives(q) /\ j \in DOMAIN bjob
    /\ Holds(q, "saveJob", j, [bjob[j] EXCEPT !.enabled = on])
    /\ UNCHANGED <<btarget, bjob, bsrc, btpl, bused>>

setBackupJobEnabled(q, j, on) == SetJobEnabled(q, j, on)

\* Both save all columns, the target's id among them.
SaveJob(q) ==
    /\ breq[q].pc = "saveJob"
    /\ \/ /\ TargetKey(breq[q].row)
          /\ bjob' = Saved(bjob, breq[q].id, breq[q].row)
          /\ Answers(q) /\ UNCHANGED <<btarget, bsrc>>
       \/ Rejected(q)
    /\ UNCHANGED <<btpl, bused, bcount>>

\* The sources go with it (ON DELETE CASCADE).
DeleteBackupJob(j) ==
    /\ bcount < BcfRequests /\ bcount' = bcount + 1
    /\ j \in DOMAIN bjob
    /\ bjob' = Without(bjob, {j})
    /\ bsrc' = Without(bsrc, {s \in DOMAIN bsrc : bsrc[s].job = j})
    /\ UNCHANGED <<btarget, btpl, breq, bused>>

------------------------------------------------------------------------------
(* Sources *)

NewSource(j, type, cfg) ==
    [job |-> j, type |-> type, cfg |-> Normalized(type, cfg), retyped |-> FALSE]

\* AddSource finds the job and checks the configuration,
AddSource(q, j, s, type, cfg) ==
    /\ Arrives(q) /\ Fresh("source", s)
    /\ j \in DOMAIN bjob
    /\ ValidateSourceConfig(type, cfg)
    /\ Holds(q, "insertSource", s, NewSource(j, type, cfg))
    /\ UNCHANGED <<btarget, bjob, bsrc, btpl>>

CreateBackupSource(q, j, s, type, cfg) == AddSource(q, j, s, type, cfg)

\* UpdateSource reads the row; without a configuration in the request nothing is
\* checked, also when the type changes.
UpdateSource(q, s, type, cfg, given) ==
    /\ Arrives(q) /\ s \in DOMAIN bsrc
    /\ given => ValidateSourceConfig(type, cfg)
    /\ LET old == bsrc[s]
           row == IF given THEN NewSource(old.job, type, cfg)
                  ELSE [old EXCEPT !.type = type, !.retyped = @ \/ type # old.type]
       IN  Holds(q, "saveSource", s, row)
    /\ UNCHANGED <<btarget, bjob, bsrc, btpl, bused>>

UpdateBackupSource(q, s, type, cfg, given) == UpdateSource(q, s, type, cfg, given)

\* The insert, or the save of the whole row.
WriteSource(q) ==
    /\ breq[q].pc \in {"insertSource", "saveSource"}
    /\ \/ /\ JobKey(breq[q].row)
          /\ bsrc' = With(bsrc, breq[q].id, breq[q].row)
          /\ Answers(q) /\ UNCHANGED <<btarget, bjob>>
       \/ Rejected(q)
    /\ UNCHANGED <<btpl, bused, bcount>>

DeleteSource(s) ==
    /\ bcount < BcfRequests /\ bcount' = bcount + 1
    /\ s \in DOMAIN bsrc
    /\ bsrc' = Without(bsrc, {s})
    /\ UNCHANGED <<btarget, bjob, btpl, breq, bused>>

DeleteBackupSource(s) == DeleteSource(s)

\* CreateJobFromTemplate: an AddSource for each source of the template; the first
\* that fails ends the request and leaves what there is.
TemplateSource(q, s) ==
    /\ breq[q].pc = "template"
    /\ LET src == BcfTemplate[breq[q].k]
           j == breq[q].id
       IN  \/ /\ j \in DOMAIN bjob /\ ValidateSourceConfig(src.type, src.cfg)
              /\ Fresh("source", s)
              /\ bsrc' = With(bsrc, s, NewSource(j, src.type, src.cfg))
              /\ IF breq[q].k = Len(BcfTemplate) THEN Answers(q)
                 ELSE breq' = [breq EXCEPT ![q].k = @ + 1]
              /\ UNCHANGED <<btarget, bjob>>
           \/ Rejected(q) /\ UNCHANGED bused
    /\ UNCHANGED <<btpl, bcount>>

------------------------------------------------------------------------------
BcfNext ==
    \/ \E t \in BcfTargets, type \in StorageTypes, cfg \in BcfInputs :
          CreateBackupStorageTarget(t, type, cfg)
    \/ \E j \in BcfJobs : DeleteBackupJob(j)
    \/ \E s \in BcfSources : DeleteBackupSource(s)
    \/ \E q \in BcfSlots :
          \/ \E t \in BcfTargets : \/ UpdateBackupStorageTarget(q, t)
                                   \/ TestBackupStorageTarget(q, t)
                                   \/ DeleteBackupStorageTarget(q, t)
          \/ UpdateStorageTarget(q) \/ SaveTarget(q) \/ DeleteStorageTarget(q)
          \/ \E j \in BcfJobs, t \in BcfTargets :
                \/ CreateBackupJob(q, j, t) \/ CreateBackupJobFromTemplate(q, j, t)
                \/ UpdateBackupJob(q, j, t)
          \/ \E j \in BcfJobs, on \in BOOLEAN : setBackupJobEnabled(q, j, on)
          \/ InsertJob(q) \/ FindTarget(q) \/ SaveJob(q)
          \/ \E s \in BcfSources, type \in SourceTypes, cfg \in SUBSET SourceFields :
                \/ \E j \in BcfJobs : CreateBackupSource(q, j, s, type, cfg)
                \/ \E given \in BOOLEAN : UpdateBackupSource(q, s, type, cfg, given)
          \/ WriteSource(q)
          \/ \E s \in BcfSources : TemplateSource(q, s)

BcfSpec == BcfInit /\ [][BcfNext]_bcfVars

------------------------------------------------------------------------------
(* Properties *)

\* A run of a job finds where to write and what to read, however edits, tests and
\* deletions overlap: the storage target of a job exists, also when the target was
\* counted as unused before the job was created or moved to it, and when a save
\* writes back a row read earlier; a target has every field its type asks for,
\* though edits leave secrets out and change the type; a source has been checked
\* for its type, unless its last change of type came without a configuration,
\* which UpdateSource does not check.
BcfUsable ==
    /\ \A j \in DOMAIN bjob : bjob[j].target \in DOMAIN btarget
    /\ \A t \in DOMAIN btarget : ValidateStorageConfig(btarget[t].type, btarget[t].cfg)
    /\ \A s \in DOMAIN bsrc :
          ~bsrc[s].retyped => ValidateSourceConfig(bsrc[s].type, bsrc[s].cfg)
==============================================================================
