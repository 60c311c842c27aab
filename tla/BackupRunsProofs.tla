--------------------------- MODULE BackupRunsProofs ---------------------------
(* Theorems about BackupRuns, for any number of jobs, runs, sources, cancel    *)
(* requests, edits, failing statements and restarts.                           *)
EXTENDS BackupRuns, WellFoundedInduction, TLAPS

PCs == {"none"} \cup TriggerPC \cup GoPC \cup OverPC
Status == Active \cup Final \cup {"absent", "gone"}
Items == [Objects -> {"absent", "running", "success", "failed"}]
CancelRow == [pc : {"idle", "read", "saved", "done"}, st : Active \cup Final \cup {"none"}]
EditRow == [open : BOOLEAN, left : 0..MaxEdits, enabled : BOOLEAN, row : JobRow]

\* TypeOK, with names for its sets.
Typed ==
    /\ job \in [Jobs -> JobRow]
    /\ st \in [Runs -> Status]
    /\ creq \in [Runs -> BOOLEAN]
    /\ item \in [Runs -> Items]
    /\ pc \in [Runs -> PCs]
    /\ mem \in [Runs -> Memory]
    /\ cancel \in [Runs -> [Cancels -> CancelRow]]
    /\ edit \in [Jobs -> EditRow]
    /\ dbErrors \in 0..MaxDbErrors
    /\ crashes \in 0..MaxCrashes

------------------------------------------------------------------------------
(* What a goroutine knows at each of its steps *)

\* Nothing is collected before "collect", nothing is uploaded before "upload"; once a
\* goroutine is "late" its memory is no longer written.
Early == {"none", "spawned", "load", "mark", "test", "connect"} \cup TriggerPC
Collecting == {"collect", "source"}
Shipping == {"manifest", "upload", "retain", "derive"}
Late == {"finish", "finishJob"} \cup OverPC

\* The artifacts of Artifacts(r), from the memory alone.
IsArtifact(m, o) ==
    \/ o \in Sources /\ m.got[o] = "ok"
    \/ o = Sums /\ m.sums = "ok"

\* What the statuses "success" and "partial_success" say.
Whole(m) ==
    /\ \A s \in Sources : Kept(m, s)
    /\ m.put[Sums] = "ok" \/ m.sums = "err"
Part(m) ==
    /\ \E o \in Objects : m.put[o] # "ok"
    /\ Sources = {} \/ \E s \in Sources : m.got[s] = "ok"

NothingPut(m) == ~m.uploadErr /\ \A o \in Objects : m.put[o] = "todo"
NothingGot(m) == ~m.execErr /\ \A s \in Sources : m.got[s] = "todo"

\* As long as nothing has failed, what was collected for a source is a whole file of a
\* source of its name, in the workdir and once uploaded in the storage.
InWorkdir(m, s) == \E t \in Sources : m.name[t] = m.name[s] /\ m.file[m.name[s]] = t
FilesMatch(m) ==
    m.execErr \/ \A s \in Sources : m.got[s] = "ok" => InWorkdir(m, s)
StoredMatch(m) ==
    m.execErr \/ m.uploadErr \/ \A s \in Sources : m.put[s] = "ok" => Kept(m, s)

CollectOK(m) ==
    /\ \A s \in Sources : m.got[s] = "err" => m.execErr
    /\ m.execErr => \E s \in Sources : m.got[s] = "err"
CollectedOK(m) ==
    /\ m.execErr \/ \A s \in Sources : m.got[s] = "ok"
    /\ m.execErr => \E s \in Sources : m.got[s] # "ok"
    /\ Sources = {} \/ \E s \in Sources : m.got[s] = "ok"
PutOK(m) ==
    /\ m.sums # "todo"
    /\ \A o \in Objects : m.put[o] # "todo" => IsArtifact(m, o)
PuttingOK(m) ==
    /\ \A o \in Objects : m.put[o] = "err" => m.uploadErr
    /\ m.uploadErr => \E o \in Objects : m.put[o] = "err"
AllPutOK(m) ==
    /\ m.uploadErr \/ \A o \in Objects : IsArtifact(m, o) => m.put[o] = "ok"
    /\ m.uploadErr => \E o \in Objects : m.put[o] # "ok"

Flow(l, m) ==
    /\ l \in Early => NothingGot(m) /\ NothingPut(m)
    /\ l \in Collecting => CollectOK(m) /\ FilesMatch(m) /\ NothingPut(m)
    /\ l = "source" => \E s \in Sources : m.got[s] = "todo"
    /\ l \in Shipping => CollectedOK(m) /\ FilesMatch(m)
    /\ l = "manifest" => NothingPut(m)
    /\ l \in {"upload", "retain", "derive"} => PutOK(m) /\ StoredMatch(m)
    /\ l = "upload" => PuttingOK(m)
    /\ l \in {"retain", "derive"} => AllPutOK(m)
    /\ l \in Late \/ m.final = "none"
    /\ l \in {"finish", "finishJob"} => m.final # "none"
    /\ m.final = "success" => Whole(m)
    /\ m.final = "partial_success" => Part(m)

------------------------------------------------------------------------------
(* The rows, and what stands in them *)

\* A status that a row has or a CancelRun may write back is backed by the memory of a
\* goroutine that will not change it any more.
Backed(r, status) ==
    /\ status = "success" => pc[r] \in Late /\ Whole(mem[r])
    /\ status = "partial_success" => pc[r] \in Late /\ Part(mem[r])

\* Some run of the job has everything in the storage, for good.
JobBacked(j) == \E r \in Runs : JobOf(r) = j /\ pc[r] \in Late /\ Whole(mem[r])

FlowInv == \A r \in Runs : Flow(pc[r], mem[r])

TruthInv ==
    \A r \in Runs : /\ Backed(r, st[r])
                    /\ \A c \in Cancels : Backed(r, cancel[r][c].st)

\* The three places where a row of the job is kept, to be written back as a whole.
JobInv ==
    /\ \A j \in Jobs : /\ job[j].last = "success" => JobBacked(j)
                       /\ edit[j].row.last = "success" => JobBacked(j)
    /\ \A r \in Runs : mem[r].job.last = "success" => JobBacked(JobOf(r))

\* The foreign key of backup_runs; rows that are written back were there.
RowsInv ==
    /\ \A r \in Runs : RowExists(r) => job[JobOf(r)].exists
    /\ \A r \in Runs : mem[r].job.exists
    /\ \A j \in Jobs : edit[j].row.exists
    /\ \A r \in Runs, c \in Cancels : cancel[r][c].pc = "read" => cancel[r][c].st # "none"

\* Nobody has cancelled the run and no statement has failed.
EndInv ==
    dbErrors = 0 => \A r \in Runs : NeverCancelled(r) =>
        /\ ~mem[r].ctx
        /\ pc[r] \in {"finishJob", "ended"} => st[r] \notin Active

BackupInv == Typed /\ FlowInv /\ TruthInv /\ JobInv /\ RowsInv /\ EndInv

------------------------------------------------------------------------------
(* First *)

\* The loops of collectArtifacts and uploadArtifacts take the items in order: what is
\* left has a first one.
LEMMA LeastOf ==
    ASSUME NEW S \in SUBSET Nat, S # {}
    PROVE  \E x \in S : \A y \in S : x <= y
<1> DEFINE R == {ss \in Nat \X Nat : ss[1] < ss[2]}
<1>1. IsWellFoundedOn(R, Nat)
    BY NatLessThanWellFounded DEF OpToRel
<1>2. PICK x \in S : \A y \in S : ~(<<y, x>> \in R)
    BY <1>1, WFMin
<1>3. \A y \in S : x <= y
    <2> SUFFICES ASSUME NEW y \in S, ~(x <= y) PROVE FALSE
        OBVIOUS
    <2>1. <<y, x>> \in Nat \X Nat /\ <<y, x>>[1] < <<y, x>>[2]
        OBVIOUS
    <2> QED
        BY <1>2, <2>1
<1> QED
    BY <1>3

LEMMA FirstOf ==
    ASSUME NEW S \in SUBSET Nat, S # {}
    PROVE  First(S) \in S
BY LeastOf DEF First

LEMMA ObjectSets ==
    /\ NumSources \in Nat /\ Sums \in Objects /\ Sums \notin Sources
    /\ Sources \subseteq Objects /\ Objects \subseteq Nat /\ Sources \subseteq Content
    /\ \A o \in Objects : o # Sums => o \in Sources
    /\ 0 \in Content
    /\ Namings \subseteq [Sources -> Names] /\ (CHOOSE f \in Namings : TRUE) \in Namings
BY BoundsAssumption DEF Sums, Objects, Sources, Content

------------------------------------------------------------------------------
(* The steps of a goroutine, on its memory *)

\* What a goroutine never writes itself: whether its context is cancelled, and the
\* job it has loaded.
Same(m, new) == new.ctx = m.ctx /\ new.job = m.job

LEMMA NewMemory == NewMem \in Memory /\ Flow("none", NewMem) /\ ~NewMem.ctx
<1>1. NewMem \in Memory
    BY ObjectSets DEF NewMem, Memory, NewJob, JobRow, Outcome
<1>2. NothingGot(NewMem) /\ NothingPut(NewMem) /\ NewMem.final = "none" /\ ~NewMem.ctx
    BY DEF NewMem, NothingGot, NothingPut
<1> QED
    BY <1>1, <1>2 DEF Flow, Early, Collecting, Shipping, Late, OverPC

LEMMA Triggering ==
    ASSUME NEW m \in Memory, NEW kind \in {"none", "manual", "retry", "scheduled"},
           NEW l \in Early, Flow(l, m), NEW k \in Early
    PROVE  LET new == [m EXCEPT !.kind = kind]
           IN  new \in Memory /\ Same(m, new) /\ Flow(k, new) /\ Flow(k, m)
<1> DEFINE new == [m EXCEPT !.kind = kind]
<1>1. /\ new \in Memory /\ Same(m, new) /\ new.got = m.got /\ new.put = m.put
      /\ new.execErr = m.execErr /\ new.uploadErr = m.uploadErr /\ new.final = m.final
    BY DEF Memory, Same
<1>2. NothingGot(m) /\ NothingPut(m) /\ m.final = "none"
    BY DEF Flow, Early, Late, TriggerPC, OverPC
<1> HIDE DEF new
<1>3. NothingGot(new) /\ NothingPut(new) /\ new.final = "none"
    BY <1>1, <1>2 DEF NothingGot, NothingPut
<1>4. k \notin Collecting /\ k \notin Shipping /\ k \notin {"upload", "retain", "derive", "manifest", "source"}
      /\ k \notin {"finish", "finishJob"}
    BY DEF Early, Collecting, Shipping, TriggerPC
<1> QED
    BY <1>1, <1>2, <1>3, <1>4 DEF Flow, new, Shipping

\* finishRunWithError.
LEMMA Failing ==
    ASSUME NEW m \in Memory
    PROVE  LET new == [m EXCEPT !.final = "failed"]
           IN  new \in Memory /\ Same(m, new) /\ Flow("finish", new)
BY DEF Memory, Same, Flow, Final, Early, Late, Collecting, Shipping, TriggerPC, OverPC

\* The goroutine ends before it has collected anything, or is ended.
LEMMA Ending ==
    ASSUME NEW m \in Memory, NEW l \in PCs, Flow(l, m), NEW k \in OverPC
    PROVE  Flow(k, m)
BY DEF Flow, Early, Late, Collecting, Shipping, TriggerPC, OverPC

\* loadRunContext, and the steps up to the loop.
LEMMA Loading ==
    ASSUME NEW m \in Memory, Flow("load", m), NEW new \in Memory,
           new.got = m.got, new.put = m.put, new.execErr = m.execErr,
           new.uploadErr = m.uploadErr, new.final = m.final
    PROVE  Flow("mark", new)
<1>1. NothingGot(m) /\ NothingPut(m) /\ m.final = "none"
    BY DEF Flow, Early, Late, OverPC
<1>2. NothingGot(new) /\ NothingPut(new) /\ new.final = "none"
    BY <1>1 DEF NothingGot, NothingPut
<1> QED
    BY <1>2 DEF Flow, Shipping, Collecting

LEMMA Opening ==
    ASSUME NEW m \in Memory, Flow("connect", m)
    PROVE  Flow("collect", m)
<1>1. NothingGot(m) /\ NothingPut(m) /\ m.final = "none"
    BY DEF Flow, Early, Late, OverPC
<1>2. CollectOK(m) /\ FilesMatch(m)
    BY <1>1 DEF NothingGot, CollectOK, FilesMatch
<1> QED
    BY <1>1, <1>2 DEF Flow, Early, TriggerPC, Shipping

\* A source is not collected: its file, if any, is none that was collected.
LEMMA SourceLost ==
    ASSUME NEW m \in Memory, NEW l \in Collecting, Flow(l, m), NEW s \in Sources,
           m.got[s] = "todo", NEW content \in Content
    PROVE  LET new == [m EXCEPT !.got[s] = "err", !.execErr = TRUE,
                                !.file[m.name[s]] = content]
           IN  new \in Memory /\ Same(m, new) /\ Flow("collect", new)
<1> DEFINE n == m.name[s]
           got == [m.got EXCEPT ![s] = "err"]
           file == [m.file EXCEPT ![n] = content]
           new == [m EXCEPT !.got[s] = "err", !.execErr = TRUE, !.file[n] = content]
<1>1. new = [m EXCEPT !.got = got, !.execErr = TRUE, !.file = file]
    BY DEF Memory
<1>2. got \in [Sources -> Outcome] /\ file \in [Names -> Content]
    BY ObjectSets DEF Memory, Outcome
<1>3. \A t \in Sources : got[t] = IF t = s THEN "err" ELSE m.got[t]
    BY DEF Memory
<1> HIDE DEF got, file, new
<1>4. /\ new \in Memory /\ Same(m, new) /\ new.got = got /\ new.file = file /\ new.execErr
      /\ new.put = m.put /\ new.uploadErr = m.uploadErr /\ new.final = m.final
    BY <1>1, <1>2 DEF Memory, Same
<1>5. CollectOK(m) /\ FilesMatch(m) /\ NothingPut(m) /\ m.final = "none"
    BY DEF Flow, Collecting, Late, OverPC
<1>6. CollectOK(new)
    BY <1>3, <1>4 DEF CollectOK
<1>7. NothingPut(new)
    BY <1>4, <1>5 DEF NothingPut
<1>8. FilesMatch(new)
    BY <1>4 DEF FilesMatch
<1> QED
    BY <1>4, <1>5, <1>6, <1>7, <1>8 DEF Flow, new, Early, TriggerPC, Shipping

\* Its row cannot be made: no file is touched.
LEMMA SourceSkipped ==
    ASSUME NEW m \in Memory, Flow("collect", m), NEW s \in Sources, m.got[s] = "todo"
    PROVE  LET new == [m EXCEPT !.got[s] = "err", !.execErr = TRUE]
           IN  new \in Memory /\ Same(m, new) /\ Flow("collect", new)
<1> DEFINE content == m.file[m.name[s]]
           new == [m EXCEPT !.got[s] = "err", !.execErr = TRUE]
           same == [m EXCEPT !.got[s] = "err", !.execErr = TRUE, !.file[m.name[s]] = content]
<1>1. content \in Content
    BY ObjectSets DEF Memory
<1>2. new = same
    BY ObjectSets DEF Memory
<1> HIDE DEF content
<1>3. same \in Memory /\ Same(m, same) /\ Flow("collect", same)
    BY <1>1, SourceLost DEF Collecting
<1> HIDE DEF new, same
<1>4. new \in Memory /\ Same(m, new) /\ Flow("collect", new)
    BY <1>2, <1>3
<1> QED
    BY <1>4 DEF new

\* A source is collected.
LEMMA SourceGot ==
    ASSUME NEW m \in Memory, Flow("source", m), NEW s \in Sources, m.got[s] = "todo"
    PROVE  LET new == [m EXCEPT !.got[s] = "ok", !.file[m.name[s]] = s]
           IN  new \in Memory /\ Same(m, new) /\ Flow("collect", new)
<1> DEFINE n == m.name[s]
           got == [m.got EXCEPT ![s] = "ok"]
           file == [m.file EXCEPT ![n] = s]
           new == [m EXCEPT !.got[s] = "ok", !.file[n] = s]
<1>1. new = [m EXCEPT !.got = got, !.file = file]
    BY DEF Memory
<1>2. got \in [Sources -> Outcome] /\ file \in [Names -> Content]
    BY ObjectSets DEF Memory, Outcome
<1>3. \A t \in Sources : got[t] = IF t = s THEN "ok" ELSE m.got[t]
    BY DEF Memory
<1>4. \A k \in Names : file[k] = IF k = n THEN s ELSE m.file[k]
    BY DEF Memory
<1> HIDE DEF got, file, new
<1>5. /\ new \in Memory /\ Same(m, new) /\ new.got = got /\ new.file = file
      /\ new.execErr = m.execErr /\ new.name = m.name
      /\ new.put = m.put /\ new.uploadErr = m.uploadErr /\ new.final = m.final
    BY <1>1, <1>2 DEF Memory, Same
<1>6. CollectOK(m) /\ FilesMatch(m) /\ NothingPut(m) /\ m.final = "none"
    BY DEF Flow, Collecting, Late, OverPC
<1>7. CollectOK(new)
    BY <1>3, <1>5, <1>6 DEF CollectOK
<1>8. NothingPut(new)
    BY <1>5, <1>6 DEF NothingPut
<1>9. FilesMatch(new)
    <2> SUFFICES ASSUME ~m.execErr, NEW t \in Sources, got[t] = "ok"
                 PROVE  InWorkdir(new, t)
        BY <1>5 DEF FilesMatch
    <2>1. m.name[t] \in Names /\ new.name = m.name
        BY <1>5 DEF Memory
    <2>2. CASE m.name[t] = n
        BY <1>4, <1>5, <2>1, <2>2 DEF InWorkdir
    <2>3. CASE m.name[t] # n
        <3>1. m.got[t] = "ok" /\ InWorkdir(m, t)
            BY <1>3, <1>6, <2>3 DEF FilesMatch
        <3> QED
            BY <1>4, <1>5, <2>1, <2>3, <3>1 DEF InWorkdir
    <2> QED
        BY <2>2, <2>3
<1> QED
    BY <1>5, <1>6, <1>7, <1>8, <1>9 DEF Flow, new, Early, TriggerPC, Shipping

\* The loop over the sources is over, and something was collected unless there was
\* nothing to do.
LEMMA Gathered ==
    ASSUME NEW m \in Memory, Flow("collect", m), NEW err \in BOOLEAN,
           err = (m.execErr \/ \E s \in Sources : m.got[s] = "todo"),
           err => \E s \in Sources : m.got[s] = "ok"
    PROVE  LET new == [m EXCEPT !.execErr = err]
           IN  new \in Memory /\ Same(m, new) /\ Flow("manifest", new)
<1> DEFINE new == [m EXCEPT !.execErr = err]
<1>1. /\ new \in Memory /\ Same(m, new) /\ new.got = m.got /\ new.file = m.file /\ new.name = m.name
      /\ new.execErr = err
      /\ new.put = m.put /\ new.uploadErr = m.uploadErr /\ new.final = m.final
    BY DEF Memory, Same
<1>2. CollectOK(m) /\ FilesMatch(m) /\ NothingPut(m) /\ m.final = "none"
    BY DEF Flow, Collecting, Late, OverPC
<1>3. \A s \in Sources : m.got[s] \in {"todo", "ok", "err"}
    BY DEF Memory, Outcome
<1> HIDE DEF new
<1>4. CollectedOK(new)
    BY <1>1, <1>2, <1>3 DEF CollectOK, CollectedOK
<1>5. NothingPut(new)
    BY <1>1, <1>2 DEF NothingPut
<1>6. FilesMatch(new)
    <2>1. m.execErr => err
        OBVIOUS
    <2> QED
        BY <1>1, <1>2, <2>1 DEF FilesMatch, InWorkdir
<1> QED
    BY <1>1, <1>2, <1>4, <1>5, <1>6 DEF Flow, new, Early, TriggerPC, Collecting

\* writeChecksumsManifest.
LEMMA Summed ==
    ASSUME NEW m \in Memory, Flow("manifest", m), NEW sums \in {"ok", "err"}
    PROVE  LET new == [m EXCEPT !.sums = sums]
           IN  new \in Memory /\ Same(m, new) /\ Flow("upload", new)
<1> DEFINE new == [m EXCEPT !.sums = sums]
<1>1. /\ new \in Memory /\ Same(m, new) /\ new.got = m.got /\ new.file = m.file /\ new.name = m.name
      /\ new.execErr = m.execErr /\ new.sums = sums
      /\ new.put = m.put /\ new.uploadErr = m.uploadErr /\ new.final = m.final
    BY DEF Memory, Same, Outcome
<1>2. CollectedOK(m) /\ FilesMatch(m) /\ NothingPut(m) /\ m.final = "none"
    BY DEF Flow, Shipping, Late, OverPC
<1> HIDE DEF new
<1>3. CollectedOK(new) /\ FilesMatch(new)
    BY <1>1, <1>2 DEF CollectedOK, FilesMatch, InWorkdir
<1>4. \A o \in Objects : new.put[o] = "todo"
    BY <1>1, <1>2 DEF NothingPut
<1>5. PutOK(new) /\ PuttingOK(new) /\ StoredMatch(new)
    BY <1>1, <1>2, <1>4, ObjectSets DEF PutOK, PuttingOK, StoredMatch, NothingPut
<1> QED
    BY <1>1, <1>2, <1>3, <1>4, <1>5 DEF Flow, new, Early, TriggerPC, Collecting

\* uploadArtifacts: an artifact is stored as the file it is by now,
LEMMA PutStored ==
    ASSUME NEW m \in Memory, Flow("upload", m), NEW o \in Objects, IsArtifact(m, o),
           m.put[o] = "todo"
    PROVE  LET new == [m EXCEPT !.put[o] = "ok",
                         !.stored = [n \in Names |-> IF o # Sums /\ n = m.name[o]
                                                     THEN m.file[n] ELSE m.stored[n]]]
           IN  new \in Memory /\ Same(m, new) /\ Flow("upload", new)
<1> DEFINE put == [m.put EXCEPT ![o] = "ok"]
           stored == [n \in Names |-> IF o # Sums /\ n = m.name[o]
                                      THEN m.file[n] ELSE m.stored[n]]
           new == [m EXCEPT !.put[o] = "ok", !.stored = stored]
<1>1. new = [m EXCEPT !.put = put, !.stored = stored]
    BY DEF Memory
<1>2. put \in [Objects -> Outcome] /\ stored \in [Names -> Content]
    BY DEF Memory, Outcome
<1>3. \A p \in Objects : put[p] = IF p = o THEN "ok" ELSE m.put[p]
    BY DEF Memory
<1>4. \A n \in Names : stored[n] = IF o # Sums /\ n = m.name[o] THEN m.file[n] ELSE m.stored[n]
    OBVIOUS
<1> HIDE DEF put, stored, new
<1>5. /\ new \in Memory /\ Same(m, new) /\ new.got = m.got /\ new.file = m.file
      /\ new.name = m.name /\ new.expired = m.expired
      /\ new.execErr = m.execErr /\ new.sums = m.sums /\ new.stored = stored
      /\ new.put = put /\ new.uploadErr = m.uploadErr /\ new.final = m.final
    BY <1>1, <1>2 DEF Memory, Same
<1>6. /\ CollectedOK(m) /\ FilesMatch(m) /\ PutOK(m) /\ StoredMatch(m) /\ m.final = "none"
      /\ PuttingOK(m)
    BY DEF Flow, Shipping, Late, OverPC
<1>7. CollectedOK(new) /\ FilesMatch(new)
    BY <1>5, <1>6 DEF CollectedOK, FilesMatch, InWorkdir
<1>8. \A p \in Objects : IsArtifact(new, p) <=> IsArtifact(m, p)
    BY <1>5 DEF IsArtifact
<1>9. PuttingOK(new)
    BY <1>3, <1>5, <1>6 DEF PuttingOK
<1>10. PutOK(new)
    BY <1>3, <1>5, <1>6, <1>8 DEF PutOK
<1>11. StoredMatch(new)
    <2> SUFFICES ASSUME ~m.execErr, ~m.uploadErr, NEW t \in Sources, put[t] = "ok"
                 PROVE  Kept(new, t)
        BY <1>5 DEF StoredMatch
    <2>1. m.name[t] \in Names /\ t \in Objects
        BY ObjectSets DEF Memory
    <2>2. CASE o # Sums /\ m.name[t] = m.name[o]
        <3>1. o \in Sources /\ m.got[o] = "ok"
            BY <2>2, ObjectSets DEF IsArtifact
        <3>2. InWorkdir(m, o)
            BY <1>6, <3>1 DEF FilesMatch
        <3> QED
            BY <1>4, <1>5, <2>1, <2>2, <3>2 DEF InWorkdir, Kept
    <2>3. CASE ~(o # Sums /\ m.name[t] = m.name[o])
        <3>1. t # o
            BY <2>3, ObjectSets
        <3>2. Kept(m, t)
            BY <1>3, <1>6, <2>1, <3>1 DEF StoredMatch
        <3> QED
            BY <1>4, <1>5, <2>1, <2>3, <3>2 DEF Kept
    <2> QED
        BY <2>2, <2>3
<1> QED
    BY <1>5, <1>6, <1>7, <1>9, <1>10, <1>11 DEF Flow, new, stored, Early, TriggerPC, Collecting

\* or not, and an object of that name may be left truncated.
LEMMA PutFailed ==
    ASSUME NEW m \in Memory, Flow("upload", m), NEW o \in Objects, IsArtifact(m, o),
           m.put[o] = "todo", NEW kept \in BOOLEAN
    PROVE  LET new == [m EXCEPT !.put[o] = "err", !.uploadErr = TRUE,
                         !.stored = [n \in Names |-> IF ~kept /\ o # Sums /\ n = m.name[o]
                                                     THEN 0 ELSE m.stored[n]]]
           IN  new \in Memory /\ Same(m, new) /\ Flow("upload", new)
<1> DEFINE put == [m.put EXCEPT ![o] = "err"]
           stored == [n \in Names |-> IF ~kept /\ o # Sums /\ n = m.name[o]
                                      THEN 0 ELSE m.stored[n]]
           new == [m EXCEPT !.put[o] = "err", !.uploadErr = TRUE, !.stored = stored]
<1>1. new = [m EXCEPT !.put = put, !.uploadErr = TRUE, !.stored = stored]
    BY DEF Memory
<1>2. put \in [Objects -> Outcome] /\ stored \in [Names -> Content]
    BY ObjectSets DEF Memory, Outcome
<1>3. \A p \in Objects : put[p] = IF p = o THEN "err" ELSE m.put[p]
    BY DEF Memory
<1> HIDE DEF put, stored, new
<1>4. /\ new \in Memory /\ Same(m, new) /\ new.got = m.got /\ new.file = m.file
      /\ new.execErr = m.execErr /\ new.sums = m.sums /\ new.name = m.name
      /\ new.put = put /\ new.uploadErr /\ new.final = m.final
    BY <1>1, <1>2 DEF Memory, Same
<1>5. CollectedOK(m) /\ FilesMatch(m) /\ PutOK(m) /\ m.final = "none"
    BY DEF Flow, Shipping, Late, OverPC
<1>6. CollectedOK(new) /\ FilesMatch(new)
    BY <1>4, <1>5 DEF CollectedOK, FilesMatch, InWorkdir
<1>7. \A p \in Objects : IsArtifact(new, p) <=> IsArtifact(m, p)
    BY <1>4 DEF IsArtifact
<1>8. PuttingOK(new)
    BY <1>3, <1>4 DEF PuttingOK
<1>9. PutOK(new)
    BY <1>3, <1>4, <1>5, <1>7 DEF PutOK
<1>10. StoredMatch(new)
    BY <1>4 DEF StoredMatch
<1> QED
    BY <1>4, <1>5, <1>6, <1>8, <1>9, <1>10
       DEF Flow, new, stored, Early, TriggerPC, Collecting

\* The loop over the artifacts is over: whatever is still to do counts as an error.
LEMMA Shipped ==
    ASSUME NEW m \in Memory, Flow("upload", m), NEW left \in SUBSET Objects,
           \A o \in Objects : o \in left <=> IsArtifact(m, o) /\ m.put[o] = "todo"
    PROVE  LET new == [m EXCEPT !.uploadErr = m.uploadErr \/ left # {}]
           IN  new \in Memory /\ Same(m, new) /\ Flow("retain", new)
<1> DEFINE err == m.uploadErr \/ left # {}
           new == [m EXCEPT !.uploadErr = err]
<1>1. err \in BOOLEAN /\ m.uploadErr \in BOOLEAN
    BY DEF Memory
<1>2. err <=> m.uploadErr \/ left # {}
    OBVIOUS
<1> HIDE DEF err
<1>3. /\ new \in Memory /\ Same(m, new) /\ new.got = m.got /\ new.file = m.file
      /\ new.name = m.name /\ new.expired = m.expired
      /\ new.execErr = m.execErr /\ new.sums = m.sums /\ new.stored = m.stored
      /\ new.put = m.put /\ new.uploadErr = err /\ new.final = m.final
    BY <1>1 DEF Memory, Same
<1>4. /\ CollectedOK(m) /\ FilesMatch(m) /\ PutOK(m) /\ StoredMatch(m) /\ m.final = "none"
      /\ PuttingOK(m)
    BY DEF Flow, Shipping, Late, OverPC
<1>5. \A o \in Objects : m.put[o] \in {"todo", "ok", "err"}
    BY DEF Memory, Outcome
<1> HIDE DEF new
<1>6. \A o \in Objects : IsArtifact(new, o) <=> IsArtifact(m, o)
    BY <1>3 DEF IsArtifact
<1>7. CollectedOK(new) /\ FilesMatch(new) /\ PutOK(new) /\ StoredMatch(new)
    BY <1>2, <1>3, <1>4, <1>6 DEF CollectedOK, FilesMatch, InWorkdir, PutOK, StoredMatch, Kept
<1>8. AllPutOK(new)
    BY <1>2, <1>3, <1>4, <1>5, <1>6 DEF PuttingOK, AllPutOK
<1> QED
    BY <1>3, <1>4, <1>7, <1>8 DEF Flow, new, err, Early, TriggerPC, Collecting

\* applyRetention takes objects of any run away; what is told about them stays true.
LEMMA Aging ==
    ASSUME NEW m \in Memory, NEW l, Flow(l, m), NEW old \in SUBSET Names
    PROVE  LET new == Expired(m, old)
           IN  /\ new \in Memory /\ Same(m, new) /\ Flow(l, new)
               /\ Whole(m) => Whole(new)
               /\ Part(m) => Part(new)
<1> DEFINE stored == [n \in Names |-> IF n \in old THEN 0 ELSE m.stored[n]]
           new == Expired(m, old)
<1>1. stored \in [Names -> Content]
    BY ObjectSets DEF Memory
<1>2. new = [m EXCEPT !.expired = m.expired \cup old, !.stored = stored]
    BY DEF Expired
<1>3. \A n \in Names : stored[n] = IF n \in old THEN 0 ELSE m.stored[n]
    OBVIOUS
<1> HIDE DEF stored, new
<1>4. /\ new \in Memory /\ Same(m, new) /\ new.got = m.got /\ new.file = m.file
      /\ new.name = m.name /\ new.execErr = m.execErr /\ new.sums = m.sums
      /\ new.put = m.put /\ new.uploadErr = m.uploadErr /\ new.final = m.final
      /\ new.expired = m.expired \cup old /\ new.stored = stored
    BY <1>1, <1>2 DEF Memory, Same
<1>5. ASSUME NEW t \in Sources, Kept(m, t) PROVE Kept(new, t)
    <2>1. m.name[t] \in Names
        BY DEF Memory
    <2> QED
        BY <1>3, <1>4, <1>5, <2>1 DEF Kept
<1>6. /\ Whole(m) => Whole(new)
      /\ Part(m) => Part(new)
      /\ StoredMatch(m) => StoredMatch(new)
    BY <1>4, <1>5 DEF Whole, Part, StoredMatch
<1>7. /\ FilesMatch(m) => FilesMatch(new)
      /\ NothingGot(m) => NothingGot(new)
      /\ NothingPut(m) => NothingPut(new)
      /\ CollectOK(m) => CollectOK(new)
      /\ CollectedOK(m) => CollectedOK(new)
      /\ PutOK(m) => PutOK(new)
      /\ PuttingOK(m) => PuttingOK(new)
      /\ AllPutOK(m) => AllPutOK(new)
    BY <1>4 DEF FilesMatch, InWorkdir, NothingGot, NothingPut, CollectOK, CollectedOK,
                PutOK, PuttingOK, AllPutOK, IsArtifact
<1>8. Flow(l, new)
    BY <1>4, <1>6, <1>7 DEF Flow
<1> QED
    BY <1>4, <1>6, <1>8 DEF new

\* deriveFinalStatus says "success" of a run that has everything in the storage, and
\* "partial_success" of one that lacks something and has something.
LEMMA Derived ==
    ASSUME NEW m \in Memory, Flow("derive", m)
    PROVE  LET new == [m EXCEPT !.final = deriveFinalStatus(m.execErr, m.uploadErr, m.ctx)]
           IN  new \in Memory /\ Same(m, new) /\ Flow("finish", new)
<1> DEFINE final == deriveFinalStatus(m.execErr, m.uploadErr, m.ctx)
           new == [m EXCEPT !.final = final]
<1>1. /\ m.execErr \in BOOLEAN /\ m.uploadErr \in BOOLEAN /\ m.ctx \in BOOLEAN
      /\ m.sums \in {"todo", "ok", "err"}
    BY DEF Memory, Outcome
<1>2. /\ final \in Final
      /\ final = "success" => ~m.execErr /\ ~m.uploadErr
      /\ final = "partial_success" => m.execErr \/ m.uploadErr
    BY <1>1 DEF deriveFinalStatus, Final
<1> HIDE DEF final
<1>3. /\ new \in Memory /\ Same(m, new) /\ new.got = m.got /\ new.stored = m.stored
      /\ new.name = m.name /\ new.expired = m.expired
      /\ new.put = m.put /\ new.sums = m.sums /\ new.final = final
    BY <1>2 DEF Memory, Same
<1>4. CollectedOK(m) /\ PutOK(m) /\ StoredMatch(m) /\ AllPutOK(m)
    BY DEF Flow, Shipping
<1> HIDE DEF new
<1>5. ASSUME final = "success" PROVE Whole(new)
    <2>1. /\ \A s \in Sources : m.got[s] = "ok"
          /\ \A o \in Objects : IsArtifact(m, o) => m.put[o] = "ok"
        BY <1>2, <1>4, <1>5 DEF CollectedOK, AllPutOK
    <2>2. \A s \in Sources : m.put[s] = "ok"
        BY <2>1, ObjectSets DEF IsArtifact
    <2>3. \A s \in Sources : Kept(new, s)
        BY <1>2, <1>3, <1>4, <1>5, <2>2 DEF StoredMatch, Kept
    <2>4. m.put[Sums] = "ok" \/ m.sums = "err"
        BY <1>1, <1>4, <2>1, ObjectSets DEF PutOK, IsArtifact
    <2> QED
        BY <1>3, <2>3, <2>4 DEF Whole
<1>6. ASSUME final = "partial_success" PROVE Part(new)
    <2>1. \E o \in Objects : m.put[o] # "ok"
        <3>1. CASE m.uploadErr
            BY <1>4, <3>1 DEF AllPutOK
        <3>2. CASE m.execErr
            <4>1. PICK s \in Sources : m.got[s] # "ok"
                BY <1>4, <3>2 DEF CollectedOK
            <4>2. s \in Objects /\ m.put[s] # "ok"
                BY <1>4, <4>1, ObjectSets DEF PutOK, IsArtifact
            <4> QED
                BY <4>2
        <3> QED
            BY <1>2, <1>6, <3>1, <3>2
    <2> QED
        BY <1>3, <1>4, <2>1 DEF Part, CollectedOK
<1>7. new.final # "none"
    BY <1>2, <1>3 DEF Final
<1> QED
    BY <1>3, <1>5, <1>6, <1>7
       DEF Flow, new, final, Early, TriggerPC, Collecting, Shipping, Late

------------------------------------------------------------------------------
(* The rows *)

\* The statuses a row has or a CancelRun holds.
Written == Status \cup {"none"}

\* What was backed stays backed: a late goroutine stays late and keeps its memory.
LEMMA BackedStays ==
    ASSUME \A q \in Runs : pc[q] \in Late =>
              /\ pc'[q] \in Late
              /\ Whole(mem[q]) => Whole(mem'[q])
              /\ Part(mem[q]) => Part(mem'[q])
    PROVE  /\ \A q \in Runs, x \in Written : Backed(q, x) => Backed(q, x)'
           /\ \A j \in Jobs : JobBacked(j) => JobBacked(j)'
BY DEF Backed, JobBacked

\* An access of the database changes the count of errors, if anything.
LEMMA DbCount ==
    ASSUME Typed
    PROVE  /\ DbOk => dbErrors' \in 0..MaxDbErrors /\ dbErrors' = dbErrors
           /\ DbFails => dbErrors' \in 0..MaxDbErrors /\ dbErrors' # 0
           /\ dbErrors \in 0..MaxDbErrors
BY BoundsAssumption DEF Typed, DbOk, DbFails

\* Everything a goroutine or its trigger does for run r: it moves to l with memory m,
\* and may write its own row, as active or as final. Its job is left alone.
LEMMA RunStep ==
    ASSUME BackupInv, NEW r \in Runs, NEW l \in PCs, NEW m \in Memory, NEW x \in Status,
           pc' = [pc EXCEPT ![r] = l], mem' = [mem EXCEPT ![r] = m],
           st' = [st EXCEPT ![r] = x],
           item' \in [Runs -> Items], creq' \in [Runs -> BOOLEAN],
           dbErrors' \in 0..MaxDbErrors, dbErrors' = dbErrors \/ dbErrors' # 0,
           UNCHANGED <<job, cancel, edit, crashes>>,
           Flow(l, m),
           pc[r] \in Late => l \in Late /\ m = mem[r],
           m.ctx = mem[r].ctx,
           m.job = mem[r].job \/ (m.job = job[JobOf(r)] /\ job[JobOf(r)].exists),
           \/ x = st[r]
           \/ job[JobOf(r)].exists /\ x \in Active
           \/ job[JobOf(r)].exists /\ l \in Late /\ x = m.final,
           l \in {"finishJob", "ended"} /\ dbErrors' = 0 /\ NeverCancelled(r)
              => x \notin Active
    PROVE  BackupInv'
<1>0. Typed /\ FlowInv /\ TruthInv /\ JobInv /\ RowsInv /\ EndInv
    BY DEF BackupInv
<1>1. /\ pc' \in [Runs -> PCs] /\ mem' \in [Runs -> Memory] /\ st' \in [Runs -> Status]
      /\ pc'[r] = l /\ mem'[r] = m /\ st'[r] = x
      /\ \A q \in Runs : q # r => pc'[q] = pc[q] /\ mem'[q] = mem[q] /\ st'[q] = st[q]
    BY <1>0 DEF Typed
<1>2. Typed'
    BY <1>0, <1>1 DEF Typed
<1>3. FlowInv'
    BY <1>0, <1>1 DEF FlowInv
<1>4. /\ \A q \in Runs, y \in Written : Backed(q, y) => Backed(q, y)'
      /\ \A j \in Jobs : JobBacked(j) => JobBacked(j)'
    BY <1>1, BackedStays
<1>5. TruthInv'
    <2>0. \A q \in Runs : st[q] \in Written /\ \A c \in Cancels : cancel[q][c].st \in Written
        <3>1. \A q \in Runs : st[q] \in Status /\ \A c \in Cancels : cancel[q][c] \in CancelRow
            BY <1>0 DEF Typed
        <3>2. Status \subseteq Written /\ \A row \in CancelRow : row.st \in Written
            BY DEF Written, Status, CancelRow
        <3> QED
            BY <3>1, <3>2
    <2>1. \A q \in Runs, c \in Cancels : Backed(q, cancel[q][c].st)'
        BY <1>0, <1>4, <2>0 DEF TruthInv
    <2>2. Backed(r, st[r])'
        <3>1. CASE x = st[r]
            <4>1. Backed(r, x)'
                BY <1>0, <1>4, <2>0, <3>1 DEF TruthInv
            <4> QED
                BY <1>1, <4>1 DEF Backed
        <3>2. CASE x \in Active
            BY <1>1, <3>2 DEF Backed, Active
        <3>3. CASE l \in Late /\ x = m.final
            BY <1>1, <3>3 DEF Backed, Flow
        <3> QED
            BY <3>1, <3>2, <3>3
    <2>3. \A q \in Runs : q # r => Backed(q, st[q])'
        <3> SUFFICES ASSUME NEW q \in Runs, q # r PROVE Backed(q, st[q])'
            OBVIOUS
        <3>1. Backed(q, st[q])
            BY <1>0 DEF TruthInv
        <3> QED
            BY <1>1, <3>1 DEF Backed
    <2> QED
        BY <2>1, <2>2, <2>3 DEF TruthInv
<1>6. \A q \in Runs : JobOf(q) \in Jobs
    BY DEF Runs, JobOf
<1>7. JobInv'
    <2>1. \A q \in Runs : mem'[q].job.last = "success" => JobBacked(JobOf(q))
        <3> SUFFICES ASSUME NEW q \in Runs, mem'[q].job.last = "success"
                     PROVE  JobBacked(JobOf(q))
            OBVIOUS
        <3>1. CASE q # r
            BY <1>0, <1>1, <3>1 DEF JobInv
        <3>2. CASE q = r /\ m.job = mem[r].job
            BY <1>0, <1>1, <3>2 DEF JobInv
        <3>3. CASE q = r /\ m.job = job[JobOf(r)]
            BY <1>0, <1>1, <1>6, <3>3 DEF JobInv
        <3> QED
            BY <3>1, <3>2, <3>3
    <2>2. \A j \in Jobs : /\ job'[j].last = "success" => JobBacked(j)
                          /\ edit'[j].row.last = "success" => JobBacked(j)
        BY <1>0 DEF JobInv
    <2>3. \A q \in Runs : JobBacked(JobOf(q)) => JobBacked(JobOf(q))'
        BY <1>4, <1>6
    <2> QED
        BY <1>4, <2>1, <2>2, <2>3 DEF JobInv
<1>8. RowsInv'
    <2>1. x \notin {"absent", "gone"} => job[JobOf(r)].exists
        BY <1>0 DEF RowsInv, RowExists
    <2> QED
        BY <1>0, <1>1, <2>1 DEF RowsInv, RowExists
<1>9. EndInv'
    <2> SUFFICES ASSUME dbErrors' = 0, NEW q \in Runs, NeverCancelled(q)'
                 PROVE  /\ ~mem'[q].ctx
                        /\ pc'[q] \in {"finishJob", "ended"} => st'[q] \notin Active
        BY DEF EndInv
    <2>1. dbErrors = 0 /\ NeverCancelled(q)
        BY DEF NeverCancelled
    <2>2. ~mem[q].ctx /\ (pc[q] \in {"finishJob", "ended"} => st[q] \notin Active)
        BY <1>0, <2>1 DEF EndInv
    <2> QED
        BY <1>1, <2>1, <2>2
<1> QED
    BY <1>2, <1>3, <1>5, <1>7, <1>8, <1>9 DEF BackupInv
\* What the steps below need of one run.
LEMMA OneRun ==
    ASSUME BackupInv, NEW r \in Runs
    PROVE  /\ mem[r] \in Memory /\ pc[r] \in PCs /\ st[r] \in Status
           /\ Flow(pc[r], mem[r])
           /\ JobOf(r) \in Jobs /\ job[JobOf(r)] \in JobRow
           /\ creq \in [Runs -> BOOLEAN] /\ item \in [Runs -> Items]
           /\ mem = [mem EXCEPT ![r] = mem[r]]
           /\ pc = [pc EXCEPT ![r] = pc[r]]
           /\ st = [st EXCEPT ![r] = st[r]]
           /\ \A k \in {"none", "manual", "retry", "scheduled"} :
                 [mem EXCEPT ![r].kind = k] = [mem EXCEPT ![r] = [mem[r] EXCEPT !.kind = k]]
           /\ \A k \in Final : 
                 [mem EXCEPT ![r].final = k] = [mem EXCEPT ![r] = [mem[r] EXCEPT !.final = k]]
<1>1. Typed /\ FlowInv
    BY DEF BackupInv
<1>2. JobOf(r) \in Jobs
    BY DEF Runs, JobOf
<1> QED
    BY <1>1, <1>2 DEF Typed, FlowInv

\* A step of a goroutine that writes no row of the run.
LEMMA QuietStep ==
    ASSUME BackupInv, NEW r \in Runs, pc[r] \notin Late,
           NEW l \in PCs \ {"finishJob", "ended"}, NEW m \in Memory,
           pc' = [pc EXCEPT ![r] = l], mem' = [mem EXCEPT ![r] = m],
           Same(mem[r], m), Flow(l, m), item' \in [Runs -> Items],
           DbOk \/ DbFails,
           UNCHANGED <<job, st, creq, cancel, edit, crashes>>
    PROVE  BackupInv'
<1>1. st' = [st EXCEPT ![r] = st[r]] /\ st[r] \in Status /\ creq' \in [Runs -> BOOLEAN]
    BY OneRun
<1>2. dbErrors' \in 0..MaxDbErrors /\ (dbErrors' = dbErrors \/ dbErrors' # 0)
    BY DbCount DEF BackupInv
<1> QED
    BY <1>1, <1>2, RunStep DEF Same

------------------------------------------------------------------------------
(* Triggering *)

\* A step of a trigger: only the kind of the run is noted.
LEMMA TriggerMoves ==
    ASSUME BackupInv, NEW r \in Runs, pc[r] \in Early, NEW l \in Early,
           NEW kind \in {"none", "manual", "retry", "scheduled"},
           mem' = [mem EXCEPT ![r].kind = kind], Goto(r, l), DbOk \/ DbFails,
           UNCHANGED <<job, st, creq, item, cancel, edit, crashes>>
    PROVE  BackupInv'
<1> DEFINE m == [mem[r] EXCEPT !.kind = kind]
<1>1. /\ mem[r] \in Memory /\ Flow(pc[r], mem[r]) /\ mem' = [mem EXCEPT ![r] = m]
      /\ item' \in [Runs -> Items]
    BY OneRun
<1>2. m \in Memory /\ Same(mem[r], m) /\ Flow(l, m)
    BY <1>1, Triggering
<1>3. l \in PCs \ {"finishJob", "ended"} /\ pc[r] \notin Late
    BY DEF Early, PCs, TriggerPC, GoPC, RunPC, OverPC, Late
<1> HIDE DEF m
<1> QED
    BY <1>1, <1>2, <1>3, QuietStep DEF Goto

LEMMA TriggerChecks ==
    ASSUME BackupInv, NEW r \in Runs,
           \/ enqueueScheduledRuns(r)
           \/ \E kind \in {"manual", "retry", "scheduled"} : TriggerCheck(r, kind)
           \/ TriggerRefused(r)
    PROVE  BackupInv'
<1>1. CASE enqueueScheduledRuns(r)
    <2>1. pc[r] \in Early /\ "listed" \in Early /\ (DbOk \/ DbFails)
        BY <1>1 DEF enqueueScheduledRuns, Unused, SeenIdle, Early, TriggerPC
    <2> QED
        BY <1>1, <2>1, TriggerMoves DEF enqueueScheduledRuns
<1>2. ASSUME NEW kind \in {"manual", "retry", "scheduled"}, TriggerCheck(r, kind)
      PROVE  BackupInv'
    <2>1. pc[r] \in Early /\ "checked" \in Early /\ (DbOk \/ DbFails)
        BY <1>2 DEF TriggerCheck, Unused, SeenIdle, Early, TriggerPC
    <2> QED
        BY <1>2, <2>1, TriggerMoves DEF TriggerCheck
<1>3. CASE TriggerRefused(r)
    <2>1. pc[r] \in Early /\ "none" \in Early /\ DbOk
        BY <1>3 DEF TriggerRefused, Early, TriggerPC, DbOk
    <2> QED
        BY <1>3, <2>1, TriggerMoves DEF TriggerRefused
<1> QED
    BY <1>1, <1>2, <1>3

LEMMA TriggerCreates ==
    ASSUME BackupInv, NEW r \in Runs, TriggerCreate(r)
    PROVE  BackupInv'
<1>1. pc[r] = "checked" /\ pc[r] \in Early /\ pc[r] \notin Late
      /\ UNCHANGED <<job, creq, item, cancel, edit, crashes>>
    BY DEF TriggerCreate, Early, TriggerPC, Late, OverPC
<1>2. /\ mem[r] \in Memory /\ Flow(pc[r], mem[r]) /\ item' \in [Runs -> Items]
      /\ creq' \in [Runs -> BOOLEAN] /\ mem = [mem EXCEPT ![r] = mem[r]]
    BY <1>1, OneRun
<1>3. ASSUME NEW l \in {"spawned", "dead"}, Goto(r, l), st' = [st EXCEPT ![r] = "queued"],
             job[JobOf(r)].exists, DbOk \/ DbFails, UNCHANGED mem
      PROVE  BackupInv'
    <2>1. Flow("spawned", mem[r])
        BY <1>1, <1>2, Triggering DEF Early
    <2>2. Flow("dead", mem[r])
        BY <1>1, <1>2, Ending DEF PCs, OverPC, TriggerPC
    <2>3. /\ l \in PCs /\ "queued" \in Status /\ "queued" \in Active
          /\ l \notin {"finishJob", "ended"} /\ Flow(l, mem[r])
        BY <1>3, <2>1, <2>2 DEF PCs, GoPC, OverPC, Status, Active
    <2>4. dbErrors' \in 0..MaxDbErrors /\ (dbErrors' = dbErrors \/ dbErrors' # 0)
        BY <1>3, DbCount DEF BackupInv
    <2> QED
        BY <1>1, <1>2, <1>3, <2>3, <2>4, RunStep DEF Goto
<1>4. CASE /\ (DbOk /\ ~job[JobOf(r)].exists) \/ DbFails
           /\ mem' = [mem EXCEPT ![r].kind = "none"]
           /\ Goto(r, "none")
           /\ UNCHANGED st
    <2>1. "none" \in Early
        BY DEF Early
    <2> QED
        BY <1>1, <1>4, <2>1, TriggerMoves
<1> QED
    BY <1>3, <1>4 DEF TriggerCreate

------------------------------------------------------------------------------
(* The goroutine *)

\* The goroutine goes on without touching anything but its place.
LEMMA Moves ==
    ASSUME BackupInv, NEW r \in Runs, pc[r] \notin Late,
           NEW l \in PCs \ {"finishJob", "ended"}, Goto(r, l), UNCHANGED mem,
           Flow(l, mem[r]), DbOk \/ DbFails, item' \in [Runs -> Items],
           UNCHANGED <<job, st, creq, cancel, edit, crashes>>
    PROVE  BackupInv'
<1>1. mem[r] \in Memory /\ mem' = [mem EXCEPT ![r] = mem[r]] /\ Same(mem[r], mem[r])
    BY OneRun DEF Same
<1> QED
    BY <1>1, QuietStep DEF Goto

LEMMA RunAsync ==
    ASSUME BackupInv, NEW r \in Runs, runAsync(r)
    PROVE  BackupInv'
<1>1. /\ mem[r] \in Memory /\ Flow(pc[r], mem[r]) /\ item' \in [Runs -> Items]
    BY OneRun DEF runAsync
<1>2. /\ pc[r] \in Early /\ pc[r] \notin Late /\ "load" \in Early
      /\ "load" \in PCs \ {"finishJob", "ended"}
    BY DEF runAsync, Early, Late, OverPC, PCs, GoPC, RunPC
<1>3. Flow("load", mem[r]) /\ DbOk
    BY <1>1, <1>2, Triggering DEF runAsync, DbOk
<1> QED
    BY <1>1, <1>2, <1>3, Moves DEF runAsync

\* A goroutine that has not finished ends for want of a row, of a job or of the
\* database: nobody is left to write its row.
LEMMA GivesUp ==
    ASSUME BackupInv, NEW r \in Runs, pc[r] \in {"load", "mark"}, Goto(r, "ended"),
           \/ CtxFails(r)
           \/ CtxOk(r) /\ ~RowExists(r)
           \/ CtxOk(r) /\ ~job[JobOf(r)].exists,
           UNCHANGED <<job, st, creq, item, mem, cancel, edit, crashes>>
    PROVE  BackupInv'
<1>1. /\ mem[r] \in Memory /\ Flow(pc[r], mem[r]) /\ item' \in [Runs -> Items]
      /\ creq' \in [Runs -> BOOLEAN] /\ mem' = [mem EXCEPT ![r] = mem[r]]
      /\ st' = [st EXCEPT ![r] = st[r]] /\ st[r] \in Status /\ pc[r] \in PCs
    BY OneRun
<1>2. Flow("ended", mem[r]) /\ "ended" \in PCs
    BY <1>1, Ending DEF OverPC, PCs
<1>3. DbOk \/ DbFails
    BY DEF CtxFails, CtxOk
<1>4. dbErrors' \in 0..MaxDbErrors /\ (dbErrors' = dbErrors \/ dbErrors' # 0)
    BY <1>3, DbCount DEF BackupInv
<1>5. ASSUME dbErrors' = 0, NeverCancelled(r) PROVE st[r] \notin Active
    <2>1. ~DbFails /\ dbErrors = 0
        BY <1>3, <1>5, DbCount DEF BackupInv
    <2>2. ~mem[r].ctx
        BY <1>5, <2>1 DEF BackupInv, EndInv
    <2>3. ~RowExists(r)
        BY <2>1, <2>2 DEF CtxFails, BackupInv, RowsInv
    <2> QED
        BY <2>3 DEF RowExists, Active
<1>6. pc[r] \notin Late
    BY DEF Late, OverPC
<1> QED
    BY <1>1, <1>2, <1>4, <1>5, <1>6, RunStep DEF Goto

LEMMA Loads ==
    ASSUME BackupInv, NEW r \in Runs, loadRunContext(r)
    PROVE  BackupInv'
<1>1. ASSUME NEW name \in Namings,
             CtxOk(r) /\ RowExists(r),
             mem' = [mem EXCEPT ![r].creq = creq[r], ![r].job = job[JobOf(r)],
                                ![r].name = name],
             Goto(r, "mark")
      PROVE  BackupInv'
    <2> DEFINE m == [mem[r] EXCEPT !.creq = creq[r], !.job = job[JobOf(r)], !.name = name]
    <2>1. /\ mem[r] \in Memory /\ Flow(pc[r], mem[r]) /\ item' \in [Runs -> Items]
          /\ creq' \in [Runs -> BOOLEAN] /\ creq[r] \in BOOLEAN
          /\ st' = [st EXCEPT ![r] = st[r]] /\ st[r] \in Status
          /\ job[JobOf(r)] \in JobRow
        BY OneRun DEF loadRunContext
    <2>2. mem' = [mem EXCEPT ![r] = m]
        BY <1>1 DEF BackupInv, Typed
    <2>3. m \in Memory /\ m.ctx = mem[r].ctx /\ m.job = job[JobOf(r)] /\ Flow("mark", m)
        <3>1. Flow("load", mem[r])
            BY <2>1 DEF loadRunContext
        <3>2. /\ m \in Memory /\ m.ctx = mem[r].ctx /\ m.job = job[JobOf(r)]
              /\ m.got = mem[r].got /\ m.put = mem[r].put /\ m.execErr = mem[r].execErr
              /\ m.uploadErr = mem[r].uploadErr /\ m.final = mem[r].final
            BY <2>1, ObjectSets DEF Memory
        <3> QED
            BY <2>1, <3>1, <3>2, Loading
    <2>4. "mark" \in PCs /\ pc[r] \notin Late
        BY DEF loadRunContext, PCs, GoPC, RunPC, Late, OverPC
    <2>5. job[JobOf(r)].exists
        BY <1>1 DEF BackupInv, RowsInv
    <2>6. dbErrors' \in 0..MaxDbErrors /\ dbErrors' = dbErrors
        BY <1>1, DbCount DEF BackupInv, CtxOk
    <2> HIDE DEF m
    <2> QED
        BY <1>1, <2>1, <2>2, <2>3, <2>4, <2>5, <2>6, RunStep, ZenonT(40) DEF Goto, loadRunContext
<1>2. CASE /\ CtxFails(r) \/ (CtxOk(r) /\ ~RowExists(r))
           /\ Goto(r, "ended")
           /\ UNCHANGED mem
    BY <1>2, GivesUp DEF loadRunContext
<1> QED
    BY <1>1, <1>2 DEF loadRunContext
\* A Save of the run either writes the row of an existing job, or leaves all rows alone.
LEMMA SaveTries ==
    ASSUME BackupInv, NEW r \in Runs, NEW s \in Status, RunSaved(r, s) \/ RunNotSaved(r)
    PROVE  /\ \E x \in Status : /\ st' = [st EXCEPT ![r] = x]
                                /\ \/ x = st[r] /\ RunNotSaved(r)
                                   \/ x = s /\ job[JobOf(r)].exists
           /\ creq' \in [Runs -> BOOLEAN]
           /\ dbErrors' \in 0..MaxDbErrors /\ (dbErrors' = dbErrors \/ dbErrors' # 0)
<1>1. mem[r] \in Memory /\ st = [st EXCEPT ![r] = st[r]] /\ creq \in [Runs -> BOOLEAN] /\ st[r] \in Status
    BY OneRun
<1>2. mem[r].creq \in BOOLEAN
    BY <1>1 DEF Memory
<1>3. creq' \in [Runs -> BOOLEAN]
    BY <1>1, <1>2 DEF RunSaved, RunNotSaved
<1>4. DbOk \/ DbFails
    BY DEF RunSaved, RunNotSaved, CtxOk, CtxFails
<1>5. dbErrors' \in 0..MaxDbErrors /\ (dbErrors' = dbErrors \/ dbErrors' # 0)
    BY <1>4, DbCount DEF BackupInv
<1>6. \E x \in Status : /\ st' = [st EXCEPT ![r] = x]
                        /\ \/ x = st[r] /\ RunNotSaved(r)
                           \/ x = s /\ job[JobOf(r)].exists
    <2>1. CASE RunSaved(r, s)
        BY <2>1 DEF RunSaved
    <2>2. CASE RunNotSaved(r)
        <3>1. st' = [st EXCEPT ![r] = st[r]]
            BY <1>1, <2>2 DEF RunNotSaved
        <3> QED
            BY <1>1, <2>2, <3>1
    <2> QED
        BY <2>1, <2>2
<1> QED
    BY <1>3, <1>5, <1>6

\* The run fails, or goes on, after the row was saved as running or was left alone.
LEMMA FailsOrMoves ==
    ASSUME BackupInv, NEW r \in Runs, pc[r] \notin Late,
           NEW l \in PCs \ {"finishJob", "ended"}, Flow(l, mem[r]),
           Fail(r) \/ (Goto(r, l) /\ UNCHANGED mem),
           RunSaved(r, "running") \/ RunNotSaved(r) \/ UNCHANGED <<st, creq, dbErrors>>,
           UNCHANGED <<job, item, cancel, edit, crashes>>
    PROVE  BackupInv'
<1>1. /\ mem[r] \in Memory /\ item' \in [Runs -> Items] /\ creq \in [Runs -> BOOLEAN]
      /\ st = [st EXCEPT ![r] = st[r]] /\ st[r] \in Status
      /\ mem = [mem EXCEPT ![r] = mem[r]]
      /\ [mem EXCEPT ![r].final = "failed"]
            = [mem EXCEPT ![r] = [mem[r] EXCEPT !.final = "failed"]]
    BY OneRun DEF Final
<1>2. PICK x \in Status : /\ st' = [st EXCEPT ![r] = x]
                          /\ x = st[r] \/ (job[JobOf(r)].exists /\ x \in Active)
    <2>1. "running" \in Status /\ "running" \in Active
        BY DEF Status, Active
    <2>2. CASE RunSaved(r, "running") \/ RunNotSaved(r)
        BY <2>1, <2>2, SaveTries
    <2>3. CASE UNCHANGED <<st, creq, dbErrors>>
        BY <1>1, <2>3
    <2> QED
        BY <2>2, <2>3
<1>3. /\ creq' \in [Runs -> BOOLEAN] /\ dbErrors' \in 0..MaxDbErrors
      /\ dbErrors' = dbErrors \/ dbErrors' # 0
    <2>1. "running" \in Status
        BY DEF Status, Active
    <2> QED
        BY <1>1, <2>1, SaveTries, DbCount DEF BackupInv
<1>4. PICK k \in {l, "finish"}, m \in Memory :
          /\ pc' = [pc EXCEPT ![r] = k] /\ mem' = [mem EXCEPT ![r] = m]
          /\ Same(mem[r], m) /\ Flow(k, m)
    <2>1. CASE Fail(r)
        <3> DEFINE m == [mem[r] EXCEPT !.final = "failed"]
        <3>1. m \in Memory /\ Same(mem[r], m) /\ Flow("finish", m)
            BY <1>1, Failing
        <3>2. mem' = [mem EXCEPT ![r] = m] /\ pc' = [pc EXCEPT ![r] = "finish"]
            BY <1>1, <2>1 DEF Fail, Goto
        <3> HIDE DEF m
        <3> QED
            BY <3>1, <3>2
    <2>2. CASE Goto(r, l) /\ UNCHANGED mem
        BY <1>1, <2>2 DEF Goto, Same
    <2> QED
        BY <2>1, <2>2
<1>5. k \in PCs /\ k \notin {"finishJob", "ended"}
    BY DEF PCs, GoPC, RunPC
<1> QED
    BY <1>1, <1>2, <1>3, <1>4, <1>5, RunStep DEF Same

LEMMA Opens ==
    ASSUME BackupInv, NEW r \in Runs, MarkRunning(r) \/ TestStorage(r) \/ Connect(r)
    PROVE  BackupInv'
<1>1. mem[r] \in Memory /\ Flow(pc[r], mem[r])
    BY OneRun
<1>2. CASE MarkRunning(r)
    <2>1. /\ pc[r] \in Early /\ pc[r] \notin Late /\ "test" \in Early
          /\ "test" \in PCs \ {"finishJob", "ended"}
        BY <1>2 DEF MarkRunning, Early, Late, OverPC, PCs, GoPC, RunPC
    <2>2. Flow("test", mem[r])
        BY <1>1, <2>1, Triggering
    <2>3. CASE RunNotSaved(r) /\ Goto(r, "ended") /\ UNCHANGED mem
        BY <1>2, <2>3, GivesUp DEF MarkRunning, RunNotSaved
    <2>4. CASE (RunSaved(r, "running") /\ Goto(r, "test") /\ UNCHANGED mem)
               \/ (Fail(r) /\ UNCHANGED <<st, creq, dbErrors>>)
        BY <1>2, <2>1, <2>2, <2>4, FailsOrMoves DEF MarkRunning
    <2> QED
        BY <1>2, <2>3, <2>4 DEF MarkRunning
<1>3. CASE TestStorage(r)
    <2>1. /\ pc[r] \in Early /\ pc[r] \notin Late /\ "connect" \in Early
          /\ "connect" \in PCs \ {"finishJob", "ended"}
        BY <1>3 DEF TestStorage, Early, Late, OverPC, PCs, GoPC, RunPC
    <2>2. Flow("connect", mem[r])
        BY <1>1, <2>1, Triggering
    <2> QED
        BY <1>3, <2>1, <2>2, FailsOrMoves DEF TestStorage
<1>4. CASE Connect(r)
    <2>1. /\ pc[r] = "connect" /\ pc[r] \notin Late
          /\ "collect" \in PCs \ {"finishJob", "ended"}
        BY <1>4 DEF Connect, Late, OverPC, PCs, GoPC, RunPC
    <2>2. Flow("collect", mem[r])
        BY <1>1, <2>1, Opening
    <2> QED
        BY <1>4, <2>1, <2>2, FailsOrMoves DEF Connect
<1> QED
    BY <1>2, <1>3, <1>4

------------------------------------------------------------------------------
(* Collecting and uploading *)

\* The item of a run is written.
LEMMA ItemWritten ==
    ASSUME BackupInv, NEW r \in Runs, NEW o \in Objects,
           NEW x \in {"running", "success", "failed"}
    PROVE  [item EXCEPT ![r][o] = x] \in [Runs -> Items]
<1>1. item \in [Runs -> Items]
    BY DEF BackupInv, Typed
<1>2. [item[r] EXCEPT ![o] = x] \in Items
    BY <1>1 DEF Items
<1> QED
    BY <1>1, <1>2

LEMMA FirstTodo ==
    ASSUME NEW r \in Runs, \E s \in Sources : mem[r].got[s] = "todo"
    PROVE  First(Todo(r)) \in Sources /\ mem[r].got[First(Todo(r))] = "todo"
<1>1. Todo(r) \in SUBSET Nat /\ Todo(r) # {}
    BY ObjectSets DEF Todo
<1>2. First(Todo(r)) \in Todo(r)
    BY <1>1, FirstOf
<1> QED
    BY <1>2 DEF Todo

LEMMA Starts ==
    ASSUME BackupInv, NEW r \in Runs, SourceStart(r)
    PROVE  BackupInv'
<1> DEFINE s == First(Todo(r))
<1>1. /\ pc[r] = "collect" /\ pc[r] \notin Late
      /\ {"collect", "source"} \subseteq PCs \ {"finishJob", "ended"}
      /\ UNCHANGED <<job, st, creq, cancel, edit, crashes>>
      /\ \E t \in Sources : mem[r].got[t] = "todo"
    BY DEF SourceStart, Todo, Late, OverPC, PCs, GoPC, RunPC
<1>2. s \in Sources /\ mem[r].got[s] = "todo" /\ s \in Objects
    BY <1>1, FirstTodo, ObjectSets
<1>3. /\ mem[r] \in Memory /\ Flow("collect", mem[r]) /\ item \in [Runs -> Items]
      /\ pc = [pc EXCEPT ![r] = "collect"]
    BY <1>1, OneRun
<1>4. \/ /\ DbOk /\ RowExists(r)
         /\ item' = [item EXCEPT ![r][s] = "running"]
         /\ Goto(r, "source")
         /\ UNCHANGED mem
      \/ /\ DbFails \/ (DbOk /\ ~RowExists(r))
         /\ mem' = [mem EXCEPT ![r].got[s] = "err", ![r].execErr = TRUE]
         /\ UNCHANGED <<item, pc>>
    BY DEF SourceStart
<1> HIDE DEF s
<1>5. CASE DbOk /\ item' = [item EXCEPT ![r][s] = "running"] /\ Goto(r, "source") /\ UNCHANGED mem
    <2>1. item' \in [Runs -> Items]
        BY <1>2, <1>5, ItemWritten
    <2>2. Flow("source", mem[r])
        BY <1>1, <1>3 DEF Flow, Collecting, Early, TriggerPC, Shipping, Late, OverPC
    <2> QED
        BY <1>1, <1>5, <2>1, <2>2, Moves
<1>6. CASE /\ DbFails \/ DbOk
           /\ mem' = [mem EXCEPT ![r].got[s] = "err", ![r].execErr = TRUE]
           /\ UNCHANGED <<item, pc>>
    <2> DEFINE m == [mem[r] EXCEPT !.got[s] = "err", !.execErr = TRUE]
    <2>1. m \in Memory /\ Same(mem[r], m) /\ Flow("collect", m)
        BY <1>2, <1>3, SourceSkipped
    <2>2. mem' = [mem EXCEPT ![r] = m]
        BY <1>6 DEF BackupInv, Typed
    <2>3. pc' = [pc EXCEPT ![r] = "collect"] /\ item' \in [Runs -> Items]
        BY <1>3, <1>6
    <2> HIDE DEF m
    <2> QED
        BY <1>1, <1>6, <2>1, <2>2, <2>3, QuietStep
<1> QED
    BY <1>4, <1>5, <1>6
LEMMA Ends ==
    ASSUME BackupInv, NEW r \in Runs, SourceEnd(r)
    PROVE  BackupInv'
<1> DEFINE s == First(Todo(r))
           n == mem[r].name[s]
           Failed(content) == mem' = [mem EXCEPT ![r].got[s] = "err", ![r].execErr = TRUE,
                                                 ![r].file[n] = content]
<1>1. /\ pc[r] = "source" /\ pc[r] \notin Late /\ Goto(r, "collect")
      /\ "collect" \in PCs \ {"finishJob", "ended"}
      /\ UNCHANGED <<job, st, creq, cancel, edit, crashes>>
    BY DEF SourceEnd, Late, OverPC, PCs, GoPC, RunPC
<1>2. mem[r] \in Memory /\ Flow("source", mem[r]) /\ item \in [Runs -> Items]
    BY <1>1, OneRun
<1>3. s \in Sources /\ mem[r].got[s] = "todo" /\ s \in Objects
    <2>1. \E t \in Sources : mem[r].got[t] = "todo"
        BY <1>2 DEF Flow
    <2> QED
        BY <2>1, FirstTodo, ObjectSets
<1>4. \/ /\ DbOk
         /\ item' = [item EXCEPT ![r][s] = "success"]
         /\ mem' = [mem EXCEPT ![r].got[s] = "ok", ![r].file[n] = s]
      \/ /\ DbOk \/ DbFails
         /\ item' = [item EXCEPT ![r][s] = "failed"] \/ UNCHANGED item
         /\ \E content \in {mem[r].file[n], 0, s} : Failed(content)
    BY DEF SourceEnd, CtxOk, CtxFails
<1> HIDE DEF s
<1>5. CASE /\ DbOk
           /\ item' = [item EXCEPT ![r][s] = "success"]
           /\ mem' = [mem EXCEPT ![r].got[s] = "ok", ![r].file[n] = s]
    <2> DEFINE m == [mem[r] EXCEPT !.got[s] = "ok", !.file[mem[r].name[s]] = s]
    <2>1. m \in Memory /\ Same(mem[r], m) /\ Flow("collect", m)
        BY <1>2, <1>3, SourceGot
    <2>2. mem' = [mem EXCEPT ![r] = m]
        BY <1>5 DEF BackupInv, Typed
    <2>3. item' \in [Runs -> Items]
        BY <1>3, <1>5, ItemWritten
    <2> HIDE DEF m
    <2> QED
        BY <1>1, <1>5, <2>1, <2>2, <2>3, QuietStep DEF Goto
<1>6. ASSUME DbOk \/ DbFails, NEW content \in {mem[r].file[n], 0, s}, Failed(content),
             item' = [item EXCEPT ![r][s] = "failed"] \/ UNCHANGED item
      PROVE  BackupInv'
    <2> DEFINE m == [mem[r] EXCEPT !.got[s] = "err", !.execErr = TRUE,
                                   !.file[mem[r].name[s]] = content]
    <2>1. content \in Content
        BY <1>2, <1>3, ObjectSets DEF Memory
    <2>2. m \in Memory /\ Same(mem[r], m) /\ Flow("collect", m)
        BY <1>2, <1>3, <2>1, SourceLost DEF Collecting
    <2>3. mem' = [mem EXCEPT ![r] = m]
        BY <1>6 DEF BackupInv, Typed
    <2>4. item' \in [Runs -> Items]
        <3>1. [item EXCEPT ![r][s] = "failed"] \in [Runs -> Items]
            BY <1>3, ItemWritten
        <3> QED
            BY <1>2, <1>6, <3>1
    <2> HIDE DEF m
    <2> QED
        BY <1>1, <1>6, <2>2, <2>3, <2>4, QuietStep DEF Goto
<1> QED
    BY <1>4, <1>5, <1>6

LEMMA Collects ==
    ASSUME BackupInv, NEW r \in Runs, Collected(r)
    PROVE  BackupInv'
<1> DEFINE err == mem[r].execErr \/ Todo(r) # {}
           some == \E s \in Sources : mem[r].got[s] = "ok"
<1>1. /\ pc[r] = "collect" /\ pc[r] \notin Late
      /\ {"collect", "manifest"} \subseteq PCs \ {"finishJob", "ended"}
      /\ UNCHANGED <<job, st, creq, item, cancel, edit, dbErrors, crashes>>
      /\ IF err /\ ~some THEN Fail(r)
         ELSE mem' = [mem EXCEPT ![r].execErr = err] /\ Goto(r, "manifest")
    BY DEF Collected, Late, OverPC, PCs, GoPC, RunPC
<1>2. mem[r] \in Memory /\ Flow("collect", mem[r]) /\ item \in [Runs -> Items]
    BY <1>1, OneRun
<1>3. CASE err /\ ~some
    BY <1>1, <1>2, <1>3, FailsOrMoves
<1>4. CASE ~(err /\ ~some)
    <2>1. mem[r].execErr \in BOOLEAN
        BY <1>2 DEF Memory
    <2>2. /\ err \in BOOLEAN
          /\ err = (mem[r].execErr \/ \E s \in Sources : mem[r].got[s] = "todo")
          /\ err => \E s \in Sources : mem[r].got[s] = "ok"
        BY <1>4, <2>1 DEF Todo
    <2>3. mem' = [mem EXCEPT ![r].execErr = err] /\ Goto(r, "manifest")
        BY <1>1, <1>4
    <2> HIDE DEF err
    <2> DEFINE m == [mem[r] EXCEPT !.execErr = err]
    <2>4. m \in Memory /\ Same(mem[r], m) /\ Flow("manifest", m)
        BY <1>2, <2>2, Gathered
    <2>5. mem' = [mem EXCEPT ![r] = m]
        BY <2>3 DEF BackupInv, Typed
    <2> HIDE DEF m
    <2> QED
        BY <1>1, <1>2, <2>3, <2>4, <2>5, QuietStep DEF Goto, DbOk
<1> QED
    BY <1>3, <1>4

LEMMA WritesSums ==
    ASSUME BackupInv, NEW r \in Runs, writeChecksumsManifest(r)
    PROVE  BackupInv'
<1>1. /\ pc[r] = "manifest" /\ pc[r] \notin Late /\ Goto(r, "upload")
      /\ "upload" \in PCs \ {"finishJob", "ended"}
      /\ UNCHANGED <<job, st, creq, cancel, edit, crashes>>
    BY DEF writeChecksumsManifest, Late, OverPC, PCs, GoPC, RunPC
<1>2. mem[r] \in Memory /\ Flow("manifest", mem[r]) /\ item \in [Runs -> Items]
    BY <1>1, OneRun
<1>3. PICK sums \in {"ok", "err"} : mem' = [mem EXCEPT ![r].sums = sums]
    BY DEF writeChecksumsManifest
<1>4. item' = [item EXCEPT ![r][Sums] = "success"] \/ UNCHANGED item
    BY DEF writeChecksumsManifest
<1>5. DbOk \/ DbFails
    BY DEF writeChecksumsManifest, CtxOk, CtxFails, DbOk
<1> DEFINE m == [mem[r] EXCEPT !.sums = sums]
<1>6. m \in Memory /\ Same(mem[r], m) /\ Flow("upload", m)
    BY <1>2, Summed
<1>7. mem' = [mem EXCEPT ![r] = m]
    BY <1>3 DEF BackupInv, Typed
<1>8. item' \in [Runs -> Items]
    <2>1. [item EXCEPT ![r][Sums] = "success"] \in [Runs -> Items]
        BY ItemWritten, ObjectSets
    <2> QED
        BY <1>2, <1>4, <2>1
<1> HIDE DEF m
<1> QED
    BY <1>1, <1>5, <1>6, <1>7, <1>8, QuietStep DEF Goto

LEMMA PendingOnes ==
    ASSUME NEW r \in Runs
    PROVE  /\ Pending(r) \in SUBSET Objects
           /\ \A o \in Objects :
                 o \in Pending(r) <=> IsArtifact(mem[r], o) /\ mem[r].put[o] = "todo"
BY ObjectSets DEF Pending, Artifacts, IsArtifact

LEMMA Uploads ==
    ASSUME BackupInv, NEW r \in Runs, uploadArtifacts(r)
    PROVE  BackupInv'
<1> DEFINE o == First(Pending(r))
           stored == [n \in Names |-> IF o # Sums /\ n = mem[r].name[o]
                                      THEN mem[r].file[n] ELSE mem[r].stored[n]]
           left(kept) == [n \in Names |-> IF ~kept /\ o # Sums /\ n = mem[r].name[o]
                                          THEN 0 ELSE mem[r].stored[n]]
<1>1. /\ pc[r] = "upload" /\ pc[r] \notin Late
      /\ "upload" \in PCs \ {"finishJob", "ended"} /\ Pending(r) # {}
      /\ UNCHANGED <<job, st, creq, item, pc, cancel, edit, dbErrors, crashes>>
      /\ \/ mem' = [mem EXCEPT ![r].put[o] = "ok", ![r].stored = stored]
         \/ \E kept \in BOOLEAN :
               mem' = [mem EXCEPT ![r].put[o] = "err", ![r].uploadErr = TRUE,
                                  ![r].stored = left(kept)]
    BY DEF uploadArtifacts, Late, OverPC, PCs, GoPC, RunPC
<1>2. /\ mem[r] \in Memory /\ Flow("upload", mem[r]) /\ item' \in [Runs -> Items]
      /\ pc' = [pc EXCEPT ![r] = "upload"]
    BY <1>1, OneRun
<1>3. o \in Objects /\ IsArtifact(mem[r], o) /\ mem[r].put[o] = "todo"
    <2>1. o \in Pending(r)
        BY <1>1, PendingOnes, FirstOf, ObjectSets
    <2> QED
        BY <2>1, PendingOnes
<1> HIDE DEF o
<1>4. CASE mem' = [mem EXCEPT ![r].put[o] = "ok", ![r].stored = stored]
    <2> DEFINE m == [mem[r] EXCEPT !.put[o] = "ok", !.stored = stored]
    <2>1. m \in Memory /\ Same(mem[r], m) /\ Flow("upload", m)
        BY <1>2, <1>3, PutStored
    <2> HIDE DEF stored
    <2>2. mem' = [mem EXCEPT ![r] = m]
        BY <1>4 DEF BackupInv, Typed
    <2> HIDE DEF m
    <2> QED
        BY <1>1, <1>2, <2>1, <2>2, QuietStep DEF DbOk
<1>5. ASSUME NEW kept \in BOOLEAN,
             mem' = [mem EXCEPT ![r].put[o] = "err", ![r].uploadErr = TRUE,
                                ![r].stored = left(kept)]
      PROVE  BackupInv'
    <2> DEFINE m == [mem[r] EXCEPT !.put[o] = "err", !.uploadErr = TRUE, !.stored = left(kept)]
    <2>1. m \in Memory /\ Same(mem[r], m) /\ Flow("upload", m)
        BY <1>2, <1>3, PutFailed
    <2> HIDE DEF left
    <2>2. mem' = [mem EXCEPT ![r] = m]
        BY <1>5 DEF BackupInv, Typed
    <2> HIDE DEF m
    <2> QED
        BY <1>1, <1>2, <2>1, <2>2, QuietStep DEF DbOk
<1> QED
    BY <1>1, <1>4, <1>5

LEMMA Ships ==
    ASSUME BackupInv, NEW r \in Runs, Uploaded(r)
    PROVE  BackupInv'
<1> DEFINE left == Pending(r)
           err == mem[r].uploadErr \/ left # {}
           m == [mem[r] EXCEPT !.uploadErr = err]
<1>1. /\ pc[r] = "upload" /\ pc[r] \notin Late /\ Goto(r, "retain")
      /\ "retain" \in PCs \ {"finishJob", "ended"}
      /\ mem' = [mem EXCEPT ![r].uploadErr = err]
      /\ UNCHANGED <<job, st, creq, item, cancel, edit, dbErrors, crashes>>
    BY DEF Uploaded, Late, OverPC, PCs, GoPC, RunPC
<1>2. mem[r] \in Memory /\ Flow("upload", mem[r]) /\ item' \in [Runs -> Items]
    BY <1>1, OneRun
<1>3. m \in Memory /\ Same(mem[r], m) /\ Flow("retain", m)
    BY <1>2, PendingOnes, Shipped
<1> HIDE DEF err
<1>4. mem' = [mem EXCEPT ![r] = m]
    BY <1>1 DEF BackupInv, Typed
<1> HIDE DEF m
<1> QED
    BY <1>1, <1>2, <1>3, <1>4, QuietStep DEF Goto, DbOk

\* applyRetention touches the objects of all runs of the job, and nothing else of them.
LEMMA Retains ==
    ASSUME BackupInv, NEW r \in Runs, applyRetention(r)
    PROVE  BackupInv'
<1> DEFINE Mine == {q \in Runs : JobOf(q) = JobOf(r)}
<1>0. Typed /\ FlowInv /\ TruthInv /\ JobInv /\ RowsInv /\ EndInv
    BY DEF BackupInv
<1>1. PICK old \in [Mine -> SUBSET Names] :
          mem' = [q \in Runs |-> IF JobOf(q) = JobOf(r) THEN Expired(mem[q], old[q]) ELSE mem[q]]
    BY DEF applyRetention
<1>2. /\ pc[r] = "retain" /\ pc' = [pc EXCEPT ![r] = "derive"]
      /\ "derive" \in PCs /\ "retain" \notin Late /\ "derive" \notin Late
      /\ UNCHANGED <<job, st, creq, item, cancel, edit, dbErrors, crashes>>
    BY DEF applyRetention, Goto, PCs, GoPC, RunPC, Late, OverPC
<1>3. ASSUME NEW q \in Runs
      PROVE  /\ mem'[q] \in Memory /\ Same(mem[q], mem'[q]) /\ Flow(pc[q], mem'[q])
             /\ Whole(mem[q]) => Whole(mem'[q])
             /\ Part(mem[q]) => Part(mem'[q])
    <2>1. mem[q] \in Memory /\ Flow(pc[q], mem[q])
        BY <1>0 DEF Typed, FlowInv
    <2>2. CASE JobOf(q) = JobOf(r)
        <3>1. old[q] \in SUBSET Names /\ mem'[q] = Expired(mem[q], old[q])
            BY <1>1, <2>2
        <3> QED
            BY <2>1, <3>1, Aging
    <2>3. CASE JobOf(q) # JobOf(r)
        BY <1>1, <2>1, <2>3 DEF Same
    <2> QED
        BY <2>2, <2>3
<1>4. mem' \in [Runs -> Memory]
    <2>1. mem' = [q \in Runs |-> mem'[q]]
        BY <1>1
    <2> QED
        BY <1>3, <2>1
<1>5. Typed'
    BY <1>0, <1>2, <1>4 DEF Typed
<1>6. \A q \in Runs : pc'[q] = IF q = r THEN "derive" ELSE pc[q]
    BY <1>0, <1>2 DEF Typed
<1>7. FlowInv'
    <2> SUFFICES ASSUME NEW q \in Runs PROVE Flow(pc'[q], mem'[q])
        BY DEF FlowInv
    <2>1. CASE q # r
        BY <1>3, <1>6, <2>1
    <2>2. CASE q = r
        <3>1. Flow("retain", mem'[r])
            BY <1>2, <1>3
        <3>2. Flow("derive", mem'[r])
            BY <3>1 DEF Flow, Shipping, Early, TriggerPC, Collecting, Late, OverPC
        <3> QED
            BY <1>6, <2>2, <3>2
    <2> QED
        BY <2>1, <2>2
<1>8. /\ \A q \in Runs, y \in Written : Backed(q, y) => Backed(q, y)'
      /\ \A j \in Jobs : JobBacked(j) => JobBacked(j)'
    BY <1>2, <1>3, <1>6, BackedStays
<1>9. TruthInv'
    <2>1. \A q \in Runs : st[q] \in Written /\ \A c \in Cancels : cancel[q][c].st \in Written
        <3>1. \A q \in Runs : st[q] \in Status /\ \A c \in Cancels : cancel[q][c] \in CancelRow
            BY <1>0 DEF Typed
        <3>2. Status \subseteq Written /\ \A row \in CancelRow : row.st \in Written
            BY DEF Written, Status, CancelRow
        <3> QED
            BY <3>1, <3>2
    <2>2. \A q \in Runs : Backed(q, st[q])'
        <3>1. \A q \in Runs, y \in Written : Backed(q, y) => 
                 /\ y = "success" => pc'[q] \in Late /\ Whole(mem'[q])
                 /\ y = "partial_success" => pc'[q] \in Late /\ Part(mem'[q])
            BY <1>8 DEF Backed
        <3> QED
            BY <1>0, <1>2, <2>1, <3>1 DEF TruthInv, Backed
    <2>3. \A q \in Runs, c \in Cancels : Backed(q, cancel[q][c].st)'
        BY <1>0, <1>2, <1>8, <2>1 DEF TruthInv
    <2> QED
        BY <2>2, <2>3 DEF TruthInv
<1>10. \A q \in Runs : JobOf(q) \in Jobs /\ mem'[q].job = mem[q].job /\ mem'[q].ctx = mem[q].ctx
    BY <1>3 DEF Runs, JobOf, Same
<1>11. JobInv'
    BY <1>0, <1>2, <1>8, <1>10 DEF JobInv
<1>12. RowsInv'
    BY <1>0, <1>2, <1>10 DEF RowsInv, RowExists
<1>13. EndInv'
    BY <1>0, <1>2, <1>6, <1>10 DEF EndInv, NeverCancelled
<1> QED
    BY <1>5, <1>7, <1>9, <1>11, <1>12, <1>13 DEF BackupInv

LEMMA Derives ==
    ASSUME BackupInv, NEW r \in Runs, Derive(r)
    PROVE  BackupInv'
<1> DEFINE final == deriveFinalStatus(mem[r].execErr, mem[r].uploadErr, mem[r].ctx)
           m == [mem[r] EXCEPT !.final = final]
<1>1. /\ pc[r] = "derive" /\ pc[r] \notin Late /\ Goto(r, "finish")
      /\ "finish" \in PCs \ {"finishJob", "ended"}
      /\ mem' = [mem EXCEPT ![r].final = final]
      /\ UNCHANGED <<job, st, creq, item, cancel, edit, dbErrors, crashes>>
    BY DEF Derive, Late, OverPC, PCs, GoPC, RunPC
<1>2. mem[r] \in Memory /\ Flow("derive", mem[r]) /\ item' \in [Runs -> Items]
    BY <1>1, OneRun
<1>3. m \in Memory /\ Same(mem[r], m) /\ Flow("finish", m)
    BY <1>2, Derived
<1> HIDE DEF final
<1>4. mem' = [mem EXCEPT ![r] = m]
    BY <1>1 DEF BackupInv, Typed
<1> HIDE DEF m
<1> QED
    BY <1>1, <1>2, <1>3, <1>4, QuietStep DEF Goto, DbOk

------------------------------------------------------------------------------
(* Finishing *)

LEMMA FinishesRun ==
    ASSUME BackupInv, NEW r \in Runs, FinishRun(r)
    PROVE  BackupInv'
<1>1. /\ pc[r] = "finish" /\ "finishJob" \in PCs /\ "finishJob" \in Late
      /\ pc' = [pc EXCEPT ![r] = "finishJob"]
      /\ UNCHANGED <<job, item, mem, cancel, edit, crashes>>
      /\ RunSaved(r, mem[r].final) \/ RunNotSaved(r)
    BY DEF FinishRun, Late, PCs, GoPC, RunPC, Goto
<1>2. /\ mem[r] \in Memory /\ Flow("finish", mem[r]) /\ item' \in [Runs -> Items]
      /\ mem' = [mem EXCEPT ![r] = mem[r]]
    BY <1>1, OneRun
<1>3. mem[r].final \in Status /\ mem[r].final \notin Active
    <2>1. mem[r].final \in Final \cup {"none"} /\ mem[r].final # "none"
        BY <1>2 DEF Memory, Flow
    <2> QED
        BY <2>1 DEF Status, Final, Active
<1>4. /\ creq' \in [Runs -> BOOLEAN]
      /\ dbErrors' \in 0..MaxDbErrors /\ (dbErrors' = dbErrors \/ dbErrors' # 0)
    BY <1>1, <1>3, SaveTries
<1>5. PICK x \in Status : /\ st' = [st EXCEPT ![r] = x]
                          /\ \/ x = st[r] /\ RunNotSaved(r)
                             \/ x = mem[r].final /\ job[JobOf(r)].exists
    BY <1>1, <1>3, SaveTries
<1>6. Flow("finishJob", mem[r])
    BY <1>2 DEF Flow, Early, TriggerPC, Collecting, Shipping, Late
<1>7. ASSUME dbErrors' = 0, NeverCancelled(r) PROVE x \notin Active
    <2>1. CASE x = mem[r].final
        BY <1>3, <2>1
    <2>2. CASE x = st[r] /\ RunNotSaved(r)
        <3>1. dbErrors = 0 /\ ~DbFails
            BY <1>4, <1>7, DbCount DEF BackupInv
        <3>2. ~mem[r].ctx
            BY <1>7, <3>1 DEF BackupInv, EndInv
        <3>3. ~RowExists(r)
            BY <2>2, <3>1, <3>2 DEF RunNotSaved, CtxFails, BackupInv, RowsInv
        <3> QED
            BY <2>2, <3>3 DEF RowExists, Active
    <2> QED
        BY <1>5, <2>1, <2>2
<1> QED
    BY <1>1, <1>2, <1>4, <1>5, <1>6, <1>7, RunStep
\* A Save of a job: the row was there once, and a "success" in it is backed. A goroutine
\* may end by it.
LEMMA JobStep ==
    ASSUME BackupInv, NEW j \in Jobs, NEW row \in JobRow,
           \/ row = job[j]
           \/ row.exists /\ (row.last = "success" => JobBacked(j)),
           job' = [job EXCEPT ![j] = row],
           pc' \in [Runs -> PCs],
           \A q \in Runs : pc'[q] = pc[q] \/ (pc[q] = "finishJob" /\ pc'[q] = "ended"),
           edit' \in [Jobs -> EditRow], \A k \in Jobs : edit'[k].row = edit[k].row,
           DbOk \/ DbFails,
           UNCHANGED <<st, creq, item, mem, cancel, crashes>>
    PROVE  BackupInv'
<1>0. Typed /\ FlowInv /\ TruthInv /\ JobInv /\ RowsInv /\ EndInv
    BY DEF BackupInv
<1>1. /\ job' \in [Jobs -> JobRow] /\ job'[j] = row
      /\ \A k \in Jobs : k # j => job'[k] = job[k]
      /\ \A k \in Jobs : job[k].exists => job'[k].exists
    BY <1>0 DEF Typed
<1>2. dbErrors' \in 0..MaxDbErrors /\ (dbErrors' = dbErrors \/ dbErrors' # 0)
    BY <1>0, DbCount
<1>3. Typed'
    BY <1>0, <1>1, <1>2 DEF Typed
<1>4. FlowInv'
    <2> SUFFICES ASSUME NEW q \in Runs PROVE Flow(pc'[q], mem[q])
        BY DEF FlowInv
    <2>1. Flow(pc[q], mem[q]) /\ mem[q] \in Memory /\ pc[q] \in PCs
        BY <1>0 DEF FlowInv, Typed
    <2>2. CASE pc'[q] = "ended"
        BY <2>1, <2>2, Ending DEF OverPC
    <2> QED
        BY <2>1, <2>2
<1>5. \A q \in Runs : pc[q] \in Late => pc'[q] \in Late
    BY DEF Late, OverPC
<1>6. /\ \A q \in Runs, y \in Written : Backed(q, y) => Backed(q, y)'
      /\ \A k \in Jobs : JobBacked(k) => JobBacked(k)'
    BY <1>5, BackedStays
<1>7. TruthInv'
    <2>1. /\ \A q \in Runs : st[q] \in Status
          /\ \A q \in Runs, c \in Cancels : cancel[q][c] \in CancelRow
        BY <1>0 DEF Typed
    <2>2. Status \subseteq Written /\ \A e \in CancelRow : e.st \in Written
        BY DEF Written, Status, CancelRow
    <2> SUFFICES ASSUME NEW q \in Runs
                 PROVE  Backed(q, st[q])' /\ \A c \in Cancels : Backed(q, cancel[q][c].st)'
        BY DEF TruthInv
    <2> QED
        BY <1>0, <1>6, <2>1, <2>2 DEF TruthInv
<1>8. JobInv'
    <2>1. \A q \in Runs : JobOf(q) \in Jobs
        BY DEF Runs, JobOf
    <2>2. \A k \in Jobs : job'[k].last = "success" => JobBacked(k)
        BY <1>0, <1>1 DEF JobInv
    <2> QED
        BY <1>0, <1>6, <2>1, <2>2 DEF JobInv
<1>9. RowsInv'
    <2>1. \A q \in Runs : JobOf(q) \in Jobs
        BY DEF Runs, JobOf
    <2> QED
        BY <1>0, <1>1, <2>1 DEF RowsInv, RowExists
<1>10. EndInv'
    BY <1>0, <1>2 DEF EndInv, NeverCancelled
<1> QED
    BY <1>3, <1>4, <1>7, <1>8, <1>9, <1>10 DEF BackupInv

\* SavedJob changes nothing but enabled.
LEMMA SavedRow ==
    ASSUME BackupInv, NEW j \in Jobs, NEW row \in JobRow
    PROVE  /\ SavedJob(j, row) \in JobRow
           /\ SavedJob(j, row).exists = row.exists
           /\ SavedJob(j, row).last = row.last
<1> DEFINE on == row.enabled \/ ~job[j].exists
<1>1. on \in BOOLEAN
    OBVIOUS
<1>2. SavedJob(j, row) = [row EXCEPT !.enabled = on]
    BY DEF SavedJob, JobRow
<1> HIDE DEF on
<1> QED
    BY <1>1, <1>2 DEF JobRow

LEMMA FinishesJob ==
    ASSUME BackupInv, NEW r \in Runs, FinishJob(r)
    PROVE  BackupInv'
<1> DEFINE j == JobOf(r)
           row == [mem[r].job EXCEPT !.last = mem[r].final]
<1>1. /\ mem[r] \in Memory /\ Flow("finishJob", mem[r]) /\ pc[r] = "finishJob"
      /\ j \in Jobs /\ job[j] \in JobRow
    BY OneRun DEF FinishJob
<1>2. /\ pc' \in [Runs -> PCs]
      /\ \A q \in Runs : pc'[q] = pc[q] \/ (pc[q] = "finishJob" /\ pc'[q] = "ended")
    BY DEF FinishJob, Goto, BackupInv, Typed, PCs, OverPC
<1>3. edit' \in [Jobs -> EditRow] /\ \A k \in Jobs : edit'[k].row = edit[k].row
    BY DEF FinishJob, BackupInv, Typed
<1>4. DbOk \/ DbFails
    BY DEF FinishJob, CtxOk, CtxFails
<1>5. CASE job' = [job EXCEPT ![j] = SavedJob(j, row)]
    <2>1. mem[r].final \in Final /\ mem[r].job \in JobRow
        BY <1>1 DEF Memory, Flow
    <2>2. row \in JobRow /\ row.exists = mem[r].job.exists /\ row.last = mem[r].final
        BY <2>1 DEF JobRow
    <2>3. mem[r].job.exists
        BY DEF BackupInv, RowsInv
    <2>4. mem[r].final = "success" => JobBacked(j)
        BY <1>1 DEF Flow, JobBacked, Late
    <2> HIDE DEF row, j
    <2>5. SavedJob(j, row) \in JobRow /\ SavedJob(j, row).exists
          /\ (SavedJob(j, row).last = "success" => JobBacked(j))
        BY <1>1, <2>2, <2>3, <2>4, SavedRow
    <2> QED
        BY <1>1, <1>2, <1>3, <1>4, <1>5, <2>5, JobStep DEF FinishJob
<1>6. CASE UNCHANGED job
    <2>1. job' = [job EXCEPT ![j] = job[j]]
        BY <1>1, <1>6 DEF BackupInv, Typed
    <2> QED
        BY <1>1, <1>2, <1>3, <1>4, <2>1, JobStep DEF FinishJob
<1> QED
    BY <1>5, <1>6 DEF FinishJob

------------------------------------------------------------------------------
(* The requests *)

LEMMA EditsSave ==
    ASSUME BackupInv, NEW j \in Jobs, EditSave(j)
    PROVE  BackupInv'
<1> DEFINE row == [edit[j].row EXCEPT !.enabled = edit[j].enabled]
<1>1. /\ edit[j] \in EditRow /\ edit \in [Jobs -> EditRow] /\ job[j] \in JobRow
      /\ edit' = [edit EXCEPT ![j].open = FALSE]
    BY DEF EditSave, BackupInv, Typed
<1>2. edit' \in [Jobs -> EditRow] /\ \A k \in Jobs : edit'[k].row = edit[k].row
    <2>1. [edit[j] EXCEPT !.open = FALSE] \in EditRow
          /\ [edit[j] EXCEPT !.open = FALSE].row = edit[j].row
        BY <1>1 DEF EditRow
    <2>2. edit' = [edit EXCEPT ![j] = [edit[j] EXCEPT !.open = FALSE]]
        BY <1>1
    <2> QED
        BY <1>1, <2>1, <2>2
<1>3. /\ pc' \in [Runs -> PCs] /\ \A q \in Runs : pc'[q] = pc[q]
      /\ DbOk \/ DbFails
    BY DEF EditSave, BackupInv, Typed
<1>4. CASE job' = [job EXCEPT ![j] = SavedJob(j, row)]
    <2>1. row \in JobRow /\ row.exists = edit[j].row.exists /\ row.last = edit[j].row.last
        <3> DEFINE on == edit[j].enabled
                   old == edit[j].row
        <3>1. on \in BOOLEAN /\ old \in JobRow
            BY <1>1 DEF EditRow
        <3> HIDE DEF on, old
        <3>2. LET new == [old EXCEPT !.enabled = on]
              IN  new \in JobRow /\ new.exists = old.exists /\ new.last = old.last
            BY <3>1 DEF JobRow
        <3> QED
            BY <3>2 DEF on, old
    <2>2. edit[j].row.exists /\ (edit[j].row.last = "success" => JobBacked(j))
        BY DEF BackupInv, RowsInv, JobInv
    <2> HIDE DEF row
    <2>3. SavedJob(j, row) \in JobRow /\ SavedJob(j, row).exists
          /\ (SavedJob(j, row).last = "success" => JobBacked(j))
        BY <2>1, <2>2, SavedRow
    <2> QED
        BY <1>2, <1>3, <1>4, <2>3, JobStep DEF EditSave
<1>5. CASE UNCHANGED job
    <2>1. job' = [job EXCEPT ![j] = job[j]]
        BY <1>5 DEF BackupInv, Typed
    <2> QED
        BY <1>1, <1>2, <1>3, <2>1, JobStep DEF EditSave
<1> QED
    BY <1>4, <1>5 DEF EditSave

LEMMA EditsRead ==
    ASSUME BackupInv, NEW j \in Jobs, NEW on \in BOOLEAN, EditRead(j, on)
    PROVE  BackupInv'
<1> DEFINE new == [open |-> TRUE, left |-> edit[j].left - 1, enabled |-> on, row |-> job[j]]
<1>0. Typed /\ FlowInv /\ TruthInv /\ JobInv /\ RowsInv /\ EndInv
    BY DEF BackupInv
<1>1. new \in EditRow
    <2>1. edit[j] \in EditRow /\ job[j] \in JobRow
        BY <1>0 DEF Typed
    <2>2. edit[j].left \in 0..MaxEdits /\ edit[j].left > 0
        BY <2>1 DEF EditRow, EditRead
    <2>3. edit[j].left - 1 \in 0..MaxEdits
        BY <2>2, BoundsAssumption
    <2> QED
        BY <2>1, <2>3 DEF EditRow
<1>2. new.row = job[j] /\ job[j].exists /\ edit' = [edit EXCEPT ![j] = new]
      /\ UNCHANGED <<job, st, creq, item, pc, mem, cancel, dbErrors, crashes>>
    BY DEF EditRead
<1> HIDE DEF new
<1>3. /\ edit' \in [Jobs -> EditRow] /\ edit'[j] = new
      /\ \A k \in Jobs : k # j => edit'[k] = edit[k]
    BY <1>0, <1>1, <1>2 DEF Typed
<1>4. Typed'
    BY <1>0, <1>2, <1>3 DEF Typed
<1>5. JobInv'
    <2>1. \A k \in Jobs : JobBacked(k) <=> JobBacked(k)'
        BY <1>2 DEF JobBacked
    <2>2. \A q \in Runs : JobOf(q) \in Jobs
        BY DEF Runs, JobOf
    <2> QED
        BY <1>0, <1>2, <1>3, <2>1, <2>2 DEF JobInv
<1>6. RowsInv'
    BY <1>0, <1>2, <1>3 DEF RowsInv, RowExists
<1>7. FlowInv' /\ TruthInv' /\ EndInv'
    BY <1>0, <1>2 DEF FlowInv, TruthInv, EndInv, Backed, NeverCancelled
<1> QED
    BY <1>4, <1>5, <1>6, <1>7 DEF BackupInv

LEMMA Deletes ==
    ASSUME BackupInv, NEW j \in Jobs, DeleteJob(j)
    PROVE  BackupInv'
<1> DEFINE new == [job[j] EXCEPT !.exists = FALSE]
<1>0. Typed /\ FlowInv /\ TruthInv /\ JobInv /\ RowsInv /\ EndInv
    BY DEF BackupInv
<1>1. new \in JobRow /\ new.last = job[j].last
    BY <1>0 DEF Typed, JobRow
<1>2. job' = [job EXCEPT ![j] = new] /\ UNCHANGED <<pc, mem, cancel, edit, dbErrors, crashes>>
    BY <1>0 DEF DeleteJob, Typed
<1> HIDE DEF new
<1>3. /\ job' \in [Jobs -> JobRow] /\ \A k \in Jobs : job'[k].last = job[k].last
      /\ \A k \in Jobs : k # j => job'[k] = job[k]
    BY <1>0, <1>1, <1>2 DEF Typed
<1>4. /\ st' \in [Runs -> Status]
      /\ \A q \in Runs : st'[q] = IF JobOf(q) = j /\ RowExists(q) THEN "gone" ELSE st[q]
    BY <1>0 DEF DeleteJob, Typed, Status
<1>5. creq' \in [Runs -> BOOLEAN]
    BY DEF DeleteJob
<1>6. item' \in [Runs -> Items]
    <2>1. [o \in Objects |-> "absent"] \in Items
        BY DEF Items
    <2> QED
        BY <1>0, <2>1 DEF DeleteJob, Typed
<1>7. Typed'
    BY <1>0, <1>2, <1>3, <1>4, <1>5, <1>6 DEF Typed
<1>8. TruthInv'
    <2>1. \A q \in Runs : \A c \in Cancels : Backed(q, cancel[q][c].st)'
        BY <1>0, <1>2 DEF TruthInv, Backed
    <2>2. \A q \in Runs : Backed(q, st[q])'
        <3> SUFFICES ASSUME NEW q \in Runs PROVE Backed(q, st[q])'
            OBVIOUS
        <3>1. Backed(q, st[q])
            BY <1>0 DEF TruthInv
        <3> QED
            BY <1>2, <1>4, <3>1 DEF Backed
    <2> QED
        BY <2>1, <2>2 DEF TruthInv
<1>9. JobInv'
    <2>1. \A k \in Jobs : JobBacked(k) <=> JobBacked(k)'
        BY <1>2 DEF JobBacked
    <2>2. \A q \in Runs : JobOf(q) \in Jobs
        BY DEF Runs, JobOf
    <2> QED
        BY <1>0, <1>2, <1>3, <2>1, <2>2 DEF JobInv
<1>10. RowsInv'
    <2>1. \A q \in Runs : JobOf(q) \in Jobs
        BY DEF Runs, JobOf
    <2> QED
        BY <1>0, <1>2, <1>3, <1>4, <2>1 DEF RowsInv, RowExists
<1>11. FlowInv'
    BY <1>0, <1>2 DEF FlowInv
<1>12. EndInv'
    BY <1>0, <1>2, <1>4 DEF EndInv, NeverCancelled, Active
<1> QED
    BY <1>7, <1>8, <1>9, <1>10, <1>11, <1>12 DEF BackupInv
\* What a memory says does not depend on its context.
LEMMA Signalled ==
    ASSUME NEW m \in Memory, NEW new \in Memory, NEW l,
           new.got = m.got, new.file = m.file, new.put = m.put, new.stored = m.stored,
           new.name = m.name, new.expired = m.expired, new.sums = m.sums,
           new.execErr = m.execErr, new.uploadErr = m.uploadErr, new.final = m.final
    PROVE  /\ Flow(l, m) => Flow(l, new)
           /\ Whole(m) => Whole(new)
           /\ Part(m) => Part(new)
<1>1. \A o \in Objects : IsArtifact(new, o) <=> IsArtifact(m, o)
    BY DEF IsArtifact
<1>2. (Whole(m) => Whole(new)) /\ (Part(m) => Part(new))
    BY DEF Whole, Part, Kept
<1>3. /\ NothingGot(m) => NothingGot(new)
      /\ NothingPut(m) => NothingPut(new)
      /\ CollectOK(m) => CollectOK(new)
      /\ FilesMatch(m) => FilesMatch(new)
      /\ CollectedOK(m) => CollectedOK(new)
      /\ StoredMatch(m) => StoredMatch(new)
      /\ PuttingOK(m) => PuttingOK(new)
    BY DEF NothingGot, NothingPut, CollectOK, FilesMatch, InWorkdir, CollectedOK, StoredMatch,
           Kept, PuttingOK
<1>4. (PutOK(m) => PutOK(new)) /\ (AllPutOK(m) => AllPutOK(new))
    BY <1>1 DEF PutOK, AllPutOK
<1> QED
    BY <1>2, <1>3, <1>4 DEF Flow

\* Everything a CancelRun does for run r: it notes row e, may write a status that it
\* has read, and may cancel the context.
LEMMA CancelStep ==
    ASSUME BackupInv, NEW r \in Runs, NEW c \in Cancels, NEW e \in CancelRow,
           NEW x \in Status, NEW m \in Memory,
           cancel' = [cancel EXCEPT ![r][c] = e],
           e.pc # "idle", e.pc = "read" => e.st # "none", Backed(r, e.st),
           st' = [st EXCEPT ![r] = x], Backed(r, x),
           x = st[r] \/ job[JobOf(r)].exists,
           mem' = [mem EXCEPT ![r] = m], m.job = mem[r].job,
           Flow(pc[r], m), Whole(mem[r]) => Whole(m), Part(mem[r]) => Part(m),
           creq' \in [Runs -> BOOLEAN], DbOk \/ DbFails,
           UNCHANGED <<job, item, pc, edit, crashes>>
    PROVE  BackupInv'
<1>0. Typed /\ FlowInv /\ TruthInv /\ JobInv /\ RowsInv /\ EndInv
    BY DEF BackupInv
<1>1. /\ mem' \in [Runs -> Memory] /\ st' \in [Runs -> Status]
      /\ mem'[r] = m /\ st'[r] = x
      /\ \A q \in Runs : q # r => mem'[q] = mem[q] /\ st'[q] = st[q]
    BY <1>0 DEF Typed
<1>2. /\ cancel' \in [Runs -> [Cancels -> CancelRow]] /\ cancel'[r][c] = e
      /\ \A q \in Runs, d \in Cancels : <<q, d>> # <<r, c>> => cancel'[q][d] = cancel[q][d]
    <2>1. [cancel[r] EXCEPT ![c] = e] \in [Cancels -> CancelRow]
        BY <1>0 DEF Typed
    <2> QED
        BY <1>0, <2>1 DEF Typed
<1>3. dbErrors' \in 0..MaxDbErrors /\ (dbErrors' = dbErrors \/ dbErrors' # 0)
    BY <1>0, DbCount
<1>4. Typed'
    BY <1>0, <1>1, <1>2, <1>3 DEF Typed
<1>5. FlowInv'
    BY <1>0, <1>1 DEF FlowInv
<1>6. /\ \A q \in Runs, y \in Written : Backed(q, y) => Backed(q, y)'
      /\ \A j \in Jobs : JobBacked(j) => JobBacked(j)'
    BY <1>1, BackedStays
<1>7. TruthInv'
    <2>1. /\ \A q \in Runs : st[q] \in Status
          /\ \A q \in Runs, d \in Cancels : cancel[q][d] \in CancelRow
        BY <1>0 DEF Typed
    <2>2. Status \subseteq Written /\ \A f \in CancelRow : f.st \in Written
        BY DEF Written, Status, CancelRow
    <2>3. \A q \in Runs : Backed(q, st'[q])
        BY <1>0, <1>1 DEF TruthInv
    <2>4. \A q \in Runs, d \in Cancels : Backed(q, cancel'[q][d].st)
        BY <1>0, <1>2 DEF TruthInv
    <2>5. \A q \in Runs, y \in Written : Backed(q, y) =>
             /\ y = "success" => pc'[q] \in Late /\ Whole(mem'[q])
             /\ y = "partial_success" => pc'[q] \in Late /\ Part(mem'[q])
        BY <1>6 DEF Backed
    <2>6. /\ \A q \in Runs : st'[q] \in Written
          /\ \A q \in Runs, d \in Cancels : cancel'[q][d].st \in Written
        BY <1>1, <1>2, <2>2
    <2>7. ASSUME NEW q \in Runs PROVE Backed(q, st[q])'
        BY <2>3, <2>5, <2>6 DEF Backed
    <2>8. ASSUME NEW q \in Runs, NEW d \in Cancels PROVE Backed(q, cancel[q][d].st)'
        BY <2>4, <2>5, <2>6 DEF Backed
    <2> QED
        BY <2>7, <2>8 DEF TruthInv
<1>8. JobInv'
    <2>1. \A q \in Runs : JobOf(q) \in Jobs
        BY DEF Runs, JobOf
    <2>2. \A q \in Runs : mem'[q].job.last = "success" => JobBacked(JobOf(q))
        BY <1>0, <1>1 DEF JobInv
    <2> QED
        BY <1>0, <1>6, <2>1, <2>2 DEF JobInv
<1>9. RowsInv'
    <2>1. \A q \in Runs : st'[q] \notin {"absent", "gone"} => job[JobOf(q)].exists
        BY <1>0, <1>1 DEF RowsInv, RowExists
    <2>2. \A q \in Runs : mem'[q].job.exists
        BY <1>0, <1>1 DEF RowsInv
    <2>3. \A q \in Runs, d \in Cancels : cancel'[q][d].pc = "read" => cancel'[q][d].st # "none"
        BY <1>0, <1>2 DEF RowsInv
    <2> QED
        BY <1>0, <2>1, <2>2, <2>3 DEF RowsInv, RowExists
<1>10. EndInv'
    <2> SUFFICES ASSUME dbErrors' = 0, NEW q \in Runs, NeverCancelled(q)'
                 PROVE  /\ ~mem'[q].ctx
                        /\ pc'[q] \in {"finishJob", "ended"} => st'[q] \notin Active
        BY DEF EndInv
    <2>1. dbErrors = 0 /\ q # r
        BY <1>2, <1>3 DEF NeverCancelled
    <2>2. NeverCancelled(q)
        BY <1>2, <2>1 DEF NeverCancelled
    <2> QED
        BY <1>0, <1>1, <2>1, <2>2 DEF EndInv
<1> QED
    BY <1>4, <1>5, <1>7, <1>8, <1>9, <1>10 DEF BackupInv

LEMMA Cancelling ==
    ASSUME BackupInv, NEW r \in Runs, NEW c \in Cancels,
           CancelRead(r, c) \/ CancelSave(r, c) \/ CancelSignal(r, c)
    PROVE  BackupInv'
<1>1. /\ mem[r] \in Memory /\ st[r] \in Status /\ Flow(pc[r], mem[r])
      /\ creq \in [Runs -> BOOLEAN] /\ mem = [mem EXCEPT ![r] = mem[r]]
      /\ st = [st EXCEPT ![r] = st[r]]
    BY OneRun
<1>2. /\ cancel[r][c] \in CancelRow
      /\ \A p \in {"saved", "done"} :
            [cancel EXCEPT ![r][c].pc = p]
               = [cancel EXCEPT ![r][c] = [cancel[r][c] EXCEPT !.pc = p]]
    BY DEF BackupInv, Typed
<1>3. \A p \in {"saved", "done"} :
         LET e == [cancel[r][c] EXCEPT !.pc = p]
         IN  e \in CancelRow /\ e.pc = p /\ e.st = cancel[r][c].st
    BY <1>2 DEF CancelRow
<1>4. Backed(r, st[r]) /\ Backed(r, cancel[r][c].st)
    BY DEF BackupInv, TruthInv
<1>5. CASE CancelRead(r, c)
    <2> DEFINE e == [pc |-> "read", st |-> st[r]]
    <2>1. e \in CancelRow /\ e.pc = "read" /\ e.st = st[r] /\ e.st # "none"
        BY <1>1, <1>5 DEF CancelRead, CancelRow, RowExists, Status, Active, Final
    <2>2. /\ cancel' = [cancel EXCEPT ![r][c] = e] /\ DbOk
          /\ UNCHANGED <<job, st, creq, item, pc, mem, edit, crashes>>
        BY <1>5 DEF CancelRead, DbOk
    <2> HIDE DEF e
    <2> QED
        BY <1>1, <1>4, <2>1, <2>2, CancelStep
<1>6. CASE CancelSave(r, c)
    <2>1. UNCHANGED <<job, item, pc, mem, edit, crashes>> /\ cancel[r][c].pc = "read"
        BY <1>6 DEF CancelSave
    <2>2. cancel[r][c].st \in Status
        <3>1. cancel[r][c].st # "none"
            BY <2>1 DEF BackupInv, RowsInv
        <3> QED
            BY <1>2, <3>1 DEF CancelRow, Status
    <2>3. CASE /\ DbOk /\ job[JobOf(r)].exists
               /\ st' = [st EXCEPT ![r] = cancel[r][c].st]
               /\ creq' = [creq EXCEPT ![r] = TRUE]
               /\ cancel' = [cancel EXCEPT ![r][c].pc = "saved"]
        <3> DEFINE e == [cancel[r][c] EXCEPT !.pc = "saved"]
        <3>1. /\ e \in CancelRow /\ e.pc = "saved" /\ e.st = cancel[r][c].st
              /\ cancel' = [cancel EXCEPT ![r][c] = e]
            BY <1>2, <1>3, <2>3
        <3>2. creq' \in [Runs -> BOOLEAN]
            BY <1>1, <2>3
        <3> HIDE DEF e
        <3> QED
            BY <1>1, <1>4, <2>1, <2>2, <2>3, <3>1, <3>2, CancelStep, ZenonT(40)
    <2>4. CASE /\ DbFails \/ (DbOk /\ ~job[JobOf(r)].exists)
               /\ cancel' = [cancel EXCEPT ![r][c].pc = "done"]
               /\ UNCHANGED <<st, creq>>
        <3> DEFINE e == [cancel[r][c] EXCEPT !.pc = "done"]
        <3>1. /\ e \in CancelRow /\ e.pc = "done" /\ e.st = cancel[r][c].st
              /\ cancel' = [cancel EXCEPT ![r][c] = e]
            BY <1>2, <1>3, <2>4
        <3> HIDE DEF e
        <3> QED
            BY <1>1, <1>4, <2>1, <2>4, <3>1, CancelStep
    <2> QED
        BY <1>6, <2>3, <2>4 DEF CancelSave
<1>7. CASE CancelSignal(r, c)
    <2> DEFINE e == [cancel[r][c] EXCEPT !.pc = "done"]
               cut == mem[r].ctx \/ pc[r] \in RunPC
               m == [mem[r] EXCEPT !.ctx = cut]
    <2>1. /\ e \in CancelRow /\ e.pc = "done" /\ e.st = cancel[r][c].st
          /\ cancel' = [cancel EXCEPT ![r][c] = e] /\ DbOk
          /\ UNCHANGED <<job, st, creq, item, pc, edit, crashes>>
        BY <1>2, <1>3, <1>7 DEF CancelSignal, DbOk
    <2>2. cut \in BOOLEAN /\ mem' = [mem EXCEPT ![r].ctx = cut]
        BY <1>7 DEF CancelSignal
    <2> HIDE DEF e, cut
    <2>3. /\ m \in Memory /\ m.job = mem[r].job /\ m.got = mem[r].got
          /\ m.file = mem[r].file /\ m.put = mem[r].put /\ m.stored = mem[r].stored
          /\ m.sums = mem[r].sums /\ m.execErr = mem[r].execErr
          /\ m.uploadErr = mem[r].uploadErr /\ m.final = mem[r].final
          /\ m.name = mem[r].name /\ m.expired = mem[r].expired
        BY <1>1, <2>2 DEF Memory
    <2>4. mem' = [mem EXCEPT ![r] = m]
        BY <2>2 DEF BackupInv, Typed
    <2> HIDE DEF m
    <2>5. Flow(pc[r], m) /\ (Whole(mem[r]) => Whole(m)) /\ (Part(mem[r]) => Part(m))
        BY <1>1, <2>3, Signalled
    <2> QED
        BY <1>1, <1>4, <2>1, <2>3, <2>4, <2>5, CancelStep
<1> QED
    BY <1>5, <1>6, <1>7

LEMMA Crashing ==
    ASSUME BackupInv, Crash
    PROVE  BackupInv'
<1>0. Typed /\ FlowInv /\ TruthInv /\ JobInv /\ RowsInv /\ EndInv
    BY DEF BackupInv
<1>1. UNCHANGED <<job, st, creq, item, mem, dbErrors>>
    BY DEF Crash
<1>2. \A q \in Runs : pc'[q] = IF pc[q] \in TriggerPC THEN "none"
                               ELSE IF pc[q] \in GoPC THEN "dead" ELSE pc[q]
    BY DEF Crash
<1>3. /\ cancel' \in [Runs -> [Cancels -> CancelRow]]
      /\ \A q \in Runs, c \in Cancels :
            /\ cancel'[q][c].st = cancel[q][c].st
            /\ cancel'[q][c].pc = IF cancel[q][c].pc = "idle" THEN "idle" ELSE "done"
    <2> DEFINE e(q, c) == IF cancel[q][c].pc = "idle" THEN cancel[q][c]
                          ELSE [cancel[q][c] EXCEPT !.pc = "done"]
    <2>1. ASSUME NEW q \in Runs, NEW c \in Cancels
          PROVE  /\ e(q, c) \in CancelRow /\ e(q, c).st = cancel[q][c].st
                 /\ e(q, c).pc = IF cancel[q][c].pc = "idle" THEN "idle" ELSE "done"
        <3>1. cancel[q][c] \in CancelRow
            BY <1>0 DEF Typed
        <3> QED
            BY <3>1 DEF CancelRow
    <2>2. cancel' = [q \in Runs |-> [c \in Cancels |-> e(q, c)]]
        BY DEF Crash
    <2> HIDE DEF e
    <2> QED
        BY <2>1, <2>2
<1>4. /\ edit' \in [Jobs -> EditRow] /\ \A j \in Jobs : edit'[j].row = edit[j].row
    <2> DEFINE e(j) == [edit[j] EXCEPT !.open = FALSE]
    <2>1. ASSUME NEW j \in Jobs PROVE e(j) \in EditRow /\ e(j).row = edit[j].row
        BY <1>0 DEF Typed, EditRow
    <2>2. edit' = [j \in Jobs |-> e(j)]
        BY DEF Crash
    <2> HIDE DEF e
    <2> QED
        BY <2>1, <2>2
<1>5. crashes' \in 0..MaxCrashes
    BY <1>0, BoundsAssumption DEF Typed, Crash
<1>6. pc' \in [Runs -> PCs]
    <2>1. \A q \in Runs : pc[q] \in PCs
        BY <1>0 DEF Typed
    <2> QED
        BY <2>1 DEF Crash, PCs, OverPC
<1>7. Typed'
    BY <1>0, <1>1, <1>3, <1>4, <1>5, <1>6 DEF Typed
<1>8. FlowInv'
    <2> SUFFICES ASSUME NEW q \in Runs PROVE Flow(pc'[q], mem[q])
        BY <1>1 DEF FlowInv
    <2>1. mem[q] \in Memory /\ pc[q] \in PCs /\ Flow(pc[q], mem[q])
        BY <1>0 DEF Typed, FlowInv
    <2>2. CASE pc[q] \in TriggerPC
        <3>1. pc[q] \in Early /\ "none" \in Early
            BY <2>2 DEF Early
        <3>2. Flow("none", mem[q])
            BY <2>1, <3>1, Triggering
        <3> QED
            BY <1>2, <2>2, <3>2
    <2>3. CASE pc[q] \notin TriggerPC /\ pc[q] \in GoPC
        BY <1>2, <2>1, <2>3, Ending DEF OverPC
    <2>4. CASE pc[q] \notin TriggerPC /\ pc[q] \notin GoPC
        BY <1>2, <2>1, <2>4
    <2> QED
        BY <2>2, <2>3, <2>4
<1>9. \A q \in Runs : pc[q] \in Late => pc'[q] \in Late
    BY <1>2 DEF Late, OverPC, TriggerPC, GoPC, RunPC
<1>10. /\ \A q \in Runs, y \in Written : Backed(q, y) => Backed(q, y)'
       /\ \A j \in Jobs : JobBacked(j) => JobBacked(j)'
    BY <1>1, <1>9, BackedStays
<1>11. TruthInv'
    <2>1. \A q \in Runs : Backed(q, st[q]) => Backed(q, st[q])'
        BY <1>1, <1>9 DEF Backed
    <2>2. \A q \in Runs, c \in Cancels : Backed(q, cancel[q][c].st) => Backed(q, cancel[q][c].st)'
        BY <1>1, <1>3, <1>9 DEF Backed
    <2> QED
        BY <1>0, <2>1, <2>2 DEF TruthInv
<1>12. JobInv'
    <2>1. \A q \in Runs : JobOf(q) \in Jobs
        BY DEF Runs, JobOf
    <2> QED
        BY <1>0, <1>1, <1>4, <1>10, <2>1 DEF JobInv
<1>13. RowsInv'
    BY <1>0, <1>1, <1>3, <1>4 DEF RowsInv, RowExists
<1>14. EndInv'
    <2>1. \A q \in Runs : NeverCancelled(q)' => NeverCancelled(q)
        BY <1>3 DEF NeverCancelled
    <2>2. \A q \in Runs : pc'[q] \in {"finishJob", "ended"} => pc[q] \in {"finishJob", "ended"}
        BY <1>2 DEF GoPC, RunPC, TriggerPC
    <2> QED
        BY <1>0, <1>1, <2>1, <2>2 DEF EndInv
<1> QED
    BY <1>7, <1>8, <1>11, <1>12, <1>13, <1>14 DEF BackupInv
------------------------------------------------------------------------------
(* The specification *)

LEMMA BackupStart == Init => BackupInv
<1> SUFFICES ASSUME Init PROVE BackupInv
    OBVIOUS
<1>1. NewJob \in JobRow /\ NewJob.exists /\ NewJob.last # "success"
    BY DEF NewJob, JobRow
<1>2. Typed
    <2>1. [pc |-> "idle", st |-> "none"] \in CancelRow
        BY DEF CancelRow
    <2>2. [open |-> FALSE, left |-> MaxEdits, enabled |-> FALSE, row |-> NewJob] \in EditRow
        BY <1>1, BoundsAssumption DEF EditRow
    <2>3. "absent" \in Status /\ "none" \in PCs /\ [o \in Objects |-> "absent"] \in Items
        BY DEF Status, PCs, Items
    <2>4. dbErrors \in 0..MaxDbErrors /\ crashes \in 0..MaxCrashes
        BY BoundsAssumption DEF Init
    <2> QED
        BY <1>1, <2>1, <2>2, <2>3, <2>4, NewMemory DEF Init, Typed
<1>3. /\ \A r \in Runs : /\ pc[r] = "none" /\ mem[r] = NewMem /\ st[r] = "absent"
                         /\ \A c \in Cancels : cancel[r][c] = [pc |-> "idle", st |-> "none"]
      /\ \A j \in Jobs : job[j] = NewJob /\ edit[j].row = NewJob
    BY DEF Init
<1>4. NewMem.job = NewJob
    BY DEF NewMem
<1>5. FlowInv
    BY <1>3, NewMemory DEF FlowInv
<1>6. TruthInv
    BY <1>3 DEF TruthInv, Backed
<1>7. JobInv
    BY <1>1, <1>3, <1>4 DEF JobInv
<1>8. RowsInv
    BY <1>1, <1>3, <1>4 DEF RowsInv, RowExists
<1>9. EndInv
    BY <1>3, NewMemory DEF EndInv
<1> QED
    BY <1>2, <1>5, <1>6, <1>7, <1>8, <1>9 DEF BackupInv

LEMMA BackupStep == BackupInv /\ [Next]_vars => BackupInv'
<1> SUFFICES ASSUME BackupInv, [Next]_vars PROVE BackupInv'
    OBVIOUS
<1>1. CASE UNCHANGED vars
    BY <1>1 DEF vars, BackupInv, Typed, FlowInv, TruthInv, JobInv, RowsInv, EndInv,
                Backed, JobBacked, RowExists, NeverCancelled
<1>2. ASSUME NEW r \in Runs,
             enqueueScheduledRuns(r) \/ TriggerRun(r) \/ runAsync(r)
      PROVE  BackupInv'
    BY <1>2, TriggerChecks, TriggerCreates, RunAsync DEF TriggerRun
<1>3. ASSUME NEW r \in Runs, executeRun(r)
      PROVE  BackupInv'
    <2>1. CASE loadRunContext(r) \/ MarkRunning(r) \/ TestStorage(r) \/ Connect(r)
        BY <2>1, Loads, Opens
    <2>2. CASE SourceStart(r) \/ SourceEnd(r) \/ Collected(r) \/ writeChecksumsManifest(r)
        BY <2>2, Starts, Ends, Collects, WritesSums
    <2>3. CASE uploadArtifacts(r) \/ Uploaded(r) \/ applyRetention(r) \/ Derive(r)
        BY <2>3, Uploads, Ships, Retains, Derives
    <2>4. CASE FinishRun(r) \/ FinishJob(r)
        BY <2>4, FinishesRun, FinishesJob
    <2> QED
        BY <1>3, <2>1, <2>2, <2>3, <2>4 DEF executeRun
<1>4. ASSUME NEW r \in Runs, CancelRun(r)
      PROVE  BackupInv'
    BY <1>4, Cancelling DEF CancelRun
<1>5. ASSUME NEW j \in Jobs,
             \/ \E e \in BOOLEAN : EditRead(j, e)
             \/ EditSave(j)
             \/ DeleteJob(j)
      PROVE  BackupInv'
    BY <1>5, EditsRead, EditsSave, Deletes
<1>6. CASE Crash
    BY <1>6, Crashing
<1> QED
    BY <1>1, <1>2, <1>3, <1>4, <1>5, <1>6 DEF Next

\* Every reachable state has the types of TypeOK (BackupRun, BackupJob and the memory
\* of executeRun).
THEOREM BackupTyped == Spec => []TypeOK
<1>1. BackupInv => TypeOK
    BY DEF BackupInv, Typed, TypeOK, Status, Items, PCs, CancelRow, EditRow
<1> QED
    BY <1>1, BackupStart, BackupStep, PTL DEF Spec

\* Whatever names the sources have: a run stored as "success" has a whole file under the
\* name of every source in the storage, but for what retention took away; one stored as
\* "partial_success" lacks something and has something, whichever requests wrote an
\* older row back (executeRun, deriveFinalStatus, applyRetention, CancelRun).
THEOREM RunsTellTheTruth == Spec => []RunStatusTruth
<1>1. BackupInv => RunStatusTruth
    BY DEF BackupInv, TruthInv, Backed, Whole, Part, RunStatusTruth, Complete
<1> QED
    BY <1>1, BackupStart, BackupStep, PTL DEF Spec

\* A job shows "success" only when one of its runs has everything in the storage but
\* for what retention took away, whichever copy of the row was saved last (executeRun's
\* Save(job), SetJobEnabled, UpdateJob, applyRetention).
THEOREM JobsTellTheTruth == Spec => []JobSuccessBacked
<1>1. BackupInv => JobSuccessBacked
    BY DEF BackupInv, JobInv, JobBacked, Whole, JobSuccessBacked, Complete
<1> QED
    BY <1>1, BackupStart, BackupStep, PTL DEF Spec

\* Without cancel requests and failing statements no goroutine ends with its row still
\* active (executeRun, finishRunWithError).
THEOREM RunsEndFinal == Spec => []UncancelledRunsEnd
<1>1. BackupInv => UncancelledRunsEnd
    BY DEF BackupInv, EndInv, UncancelledRunsEnd
<1> QED
    BY <1>1, BackupStart, BackupStep, PTL DEF Spec

\* What OrphanRunsStay says of one step.
OrphanStays ==
    \A r \in Runs :
        /\ st[r] \in Active /\ pc[r] \in OverPC
        /\ \A c \in Cancels : cancel[r][c].pc # "read"
        => st'[r] \in Active \cup {"gone"}

LEMMA OrphanStep == BackupInv /\ [Next]_vars => OrphanStays
<1> SUFFICES ASSUME BackupInv, [Next]_vars, NEW r \in Runs, st[r] \in Active, pc[r] \in OverPC,
                    \A c \in Cancels : cancel[r][c].pc # "read"
             PROVE  st'[r] \in Active \cup {"gone"}
    BY DEF OrphanStays
<1>1. st \in [Runs -> Status]
    BY DEF BackupInv, Typed
<1>2. pc[r] \notin {"checked", "mark", "connect", "finish"}
    BY DEF OverPC
<1>3. ASSUME NEW q \in Runs, NEW x, st' = [st EXCEPT ![q] = x],
             pc[q] \in {"checked", "mark", "connect", "finish"}
      PROVE  st'[r] = st[r]
    BY <1>1, <1>2, <1>3
<1>4. CASE UNCHANGED st
    BY <1>4
<1>5. ASSUME NEW q \in Runs, TriggerCreate(q)
      PROVE  st'[r] \in Active \cup {"gone"}
    BY <1>1, <1>3, <1>5 DEF TriggerCreate
<1>6. ASSUME NEW q \in Runs, MarkRunning(q) \/ Connect(q) \/ FinishRun(q)
      PROVE  st'[r] \in Active \cup {"gone"}
    <2>1. \/ UNCHANGED st
          \/ /\ \E x : st' = [st EXCEPT ![q] = x]
             /\ pc[q] \in {"checked", "mark", "connect", "finish"}
        BY <1>6 DEF MarkRunning, Connect, FinishRun, RunSaved, RunNotSaved
    <2> QED
        BY <1>3, <2>1
<1>7. ASSUME NEW q \in Runs, NEW c \in Cancels, CancelSave(q, c)
      PROVE  st'[r] \in Active \cup {"gone"}
    <2>1. q # r
        BY <1>7 DEF CancelSave
    <2> QED
        BY <1>1, <1>7, <2>1 DEF CancelSave
<1>8. ASSUME NEW j \in Jobs, DeleteJob(j)
      PROVE  st'[r] \in Active \cup {"gone"}
    BY <1>8 DEF DeleteJob
<1>9. ASSUME NEW q \in Runs, enqueueScheduledRuns(q) \/ TriggerRun(q) \/ runAsync(q)
      PROVE  st'[r] \in Active \cup {"gone"}
    BY <1>4, <1>5, <1>9 DEF enqueueScheduledRuns, TriggerRun, TriggerCheck, TriggerRefused, runAsync
<1>10. ASSUME NEW q \in Runs, executeRun(q)
       PROVE  st'[r] \in Active \cup {"gone"}
    <2>1. CASE MarkRunning(q) \/ Connect(q) \/ FinishRun(q)
        BY <1>6, <2>1
    <2>2. CASE loadRunContext(q) \/ TestStorage(q) \/ SourceStart(q) \/ SourceEnd(q)
               \/ Collected(q) \/ writeChecksumsManifest(q)
        BY <1>4, <2>2 DEF loadRunContext, TestStorage, SourceStart, SourceEnd, Collected,
                          writeChecksumsManifest
    <2>3. CASE uploadArtifacts(q) \/ Uploaded(q) \/ applyRetention(q) \/ Derive(q)
               \/ FinishJob(q)
        BY <1>4, <2>3 DEF uploadArtifacts, Uploaded, applyRetention, Derive, FinishJob
    <2> QED
        BY <1>10, <2>1, <2>2, <2>3 DEF executeRun
<1>11. ASSUME NEW q \in Runs, CancelRun(q)
       PROVE  st'[r] \in Active \cup {"gone"}
    BY <1>4, <1>7, <1>11 DEF CancelRun, CancelRead, CancelSignal
<1>12. ASSUME NEW j \in Jobs,
              \/ \E e \in BOOLEAN : EditRead(j, e)
              \/ EditSave(j)
              \/ DeleteJob(j)
       PROVE  st'[r] \in Active \cup {"gone"}
    BY <1>4, <1>8, <1>12 DEF EditRead, EditSave
<1>13. CASE Crash
    BY <1>4, <1>13 DEF Crash
<1>14. CASE UNCHANGED vars
    BY <1>4, <1>14 DEF vars
<1> QED
    BY <1>9, <1>10, <1>11, <1>12, <1>13, <1>14 DEF Next

\* A row left active by a goroutine that is gone is never written again by anything but
\* a CancelRun that still holds an older row: it stays active until its job is deleted
\* (TriggerRun, executeRun, CancelRun, and a start of the process that repairs nothing).
THEOREM OrphansStay == Spec => OrphanRunsStay
<1>1. BackupInv /\ [Next]_vars => [OrphanStays]_vars
    BY OrphanStep
<1>2. Spec => []BackupInv
    BY BackupStart, BackupStep, PTL DEF Spec
<1>3. Spec => [][OrphanStays]_vars
    BY <1>1, <1>2, PTL DEF Spec
<1> QED
    BY <1>3 DEF OrphanRunsStay, OrphanStays
==============================================================================
