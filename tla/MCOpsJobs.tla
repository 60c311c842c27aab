------------------------------ MODULE MCOpsJobs ------------------------------
(* Small instances of OpsJobs for TLC. *)
EXTENDS OpsJobs

\* A request that names no parallelism, and one above the cap.
MCRequested == {0, 7}

\* Two jobs of up to two items each, or three jobs that compete for two slots.
ItemsOrSlots == job[3] = "absent" \/ \A j \in Jobs : item[j][2] = "absent"
==============================================================================
