------------------------------- MODULE MCWatch --------------------------------
(* Monitoring, the terminal and the dashboard for TLC: what must go on for ever, *)
(* and what must come to an end. They share nothing; a behaviour is about one.   *)
EXTENDS Checks, SshTerminal, Dashboard

CONSTANTS s1, d1, w1, w2, p1

VARIABLE focus

MCInit ==
    ChkInit /\ SshInit /\ DshInit /\ focus \in {"checks", "terminal", "dashboard"}

Watch == focus = "checks" /\ ChkNext /\ UNCHANGED <<sshVars, dshVars, focus>>
Terminal == focus = "terminal" /\ SshNext /\ UNCHANGED <<chkVars, dshVars, focus>>
Board == focus = "dashboard" /\ DshNext /\ UNCHANGED <<chkVars, sshVars, focus>>

MCNext == Watch \/ Terminal \/ Board

\* Fairness of the component a behaviour is about: that of the others asks for steps
\* no behaviour takes.
MCSpec ==
    /\ MCInit /\ [][MCNext]_<<chkVars, sshVars, dshVars, focus>>
    /\ WF_chkVars(focus = "checks" /\ ChkWorker) /\ WF_chkVars(focus = "checks" /\ ChkTick)
    /\ \A s \in SshSessions :
          /\ WF_sshVars(focus = "terminal" /\ SshOpening(s))
          /\ \A t \in Threads : WF_sshVars(focus = "terminal" /\ SshThread(s, t))
          /\ SF_sshVars(focus = "terminal" /\ SshWriting(s))
          /\ SF_sshVars(focus = "terminal" /\ SshClosing(s))
          /\ WF_sshVars(focus = "terminal" /\ Recovers(s))
          /\ WF_sshVars(focus = "terminal" /\ Leaves(s))
    /\ WF_dshVars(focus = "dashboard" /\ DshCollector)
    /\ \A w \in DshWorkers : WF_dshVars(focus = "dashboard" /\ DshWorker(w))

\* In the behaviours that are about monitoring (the checks worker runs): a check
\* that stays enabled, of a target and a node that stay enabled, gets results again
\* and again, whatever other checks answer and whatever users do to them, as long as
\* no SSH server is stuck for ever.
ChecksGoOn == focus = "checks" => ChkChecksGoOn

\* In the behaviours that are about the dashboard (its collector runs): a node that
\* stays enabled is polled again and again, whatever the providers answer and
\* however slowly the pages read, as long as no SSH server is stuck for ever.
NodesArePolled == focus = "dashboard" => DshPolled

\* Every variable of the three has its type.
WatchTypeOK == ChkTypeOK /\ SshTypeOK /\ DshTypeOK
==============================================================================
