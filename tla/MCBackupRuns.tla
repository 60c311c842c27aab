---------------------------- MODULE MCBackupRuns -----------------------------
(* Instances of BackupRuns for TLC: one job, whose runs compete for its rows   *)
(* (runs of different jobs share nothing but the database).                    *)
EXTENDS BackupRuns

CONSTANT j1

OneJob == {j1}

\* Sources of different names, or all of one name.
ApartOrSame == {[s \in 1..NumSources |-> s], [s \in 1..NumSources |-> 1]}

Apart == [s \in 1..NumSources |-> s]

\* The pipeline of one run, with faults and cancellation, or with sources of one
\* name; or the rows that two runs and an edit write, in runs whose uploads work
\* and of which retention deletes the first file.
PipelineOrRows ==
    \/ /\ pc[<<j1, 2>>] = "none"
       /\ mem[<<j1, 1>>].expired = {}
       /\ mem[<<j1, 1>>].name = Apart \/ (dbErrors = 0 /\ crashes = 0)
    \/ /\ dbErrors = 0 /\ crashes = 0
       /\ \A r \in Runs :
             /\ mem[r].kind \in {"none", "manual"}
             /\ mem[r].name = Apart /\ mem[r].expired \subseteq {1}
             /\ mem[r].sums # "err" /\ \A o \in Objects : mem[r].put[o] # "err"
             /\ \A c \in Cancels : cancel[r][c].pc = "idle"
==============================================================================
