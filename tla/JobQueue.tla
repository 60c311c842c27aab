------------------------------ MODULE JobQueue -------------------------------
(***************************************************************************)
(* What the bulk-operation service promises to its callers: a first-in     *)
(* first-out queue of jobs with a bounded number of running ones. Every    *)
(* job goes queued -> running -> success or failed, once, and stays there. *)
(***************************************************************************)
EXTENDS Integers, FiniteSets

CONSTANTS MaxJobs, Slots

VARIABLE st

Ids == 1..MaxJobs

Init == st = [j \in Ids |-> "absent"]

\* Jobs are numbered in the order of their creation.
Submit(j) ==
    /\ st[j] = "absent"
    /\ \A k \in 1..(j - 1) : st[k] # "absent"
    /\ st' = [st EXCEPT ![j] = "queued"]

\* The oldest queued job starts when a slot is free.
Begin(j) ==
    /\ st[j] = "queued"
    /\ \A k \in 1..(j - 1) : st[k] # "queued"
    /\ Cardinality({k \in Ids : st[k] = "running"}) < Slots
    /\ st' = [st EXCEPT ![j] = "running"]

Finish(j) ==
    /\ st[j] = "running"
    /\ \E s \in {"success", "failed"} : st' = [st EXCEPT ![j] = s]

Next == \E j \in Ids : Submit(j) \/ Begin(j) \/ Finish(j)

Spec == Init /\ [][Next]_st
==============================================================================
