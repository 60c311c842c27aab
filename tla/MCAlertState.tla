---------------------------- MODULE MCAlertState -----------------------------
(* Instances of AlertState for TLC. *)
EXTENDS AlertState

CONSTANTS c1, c2

OneChat == {c1}
TwoChats == {c1, c2}

\* Two chats to be told, or one chat with a lost statement or a process death and
\* operators that mute the check.
ChatsOrFaults ==
    \/ dbErrors = 0 /\ crashes = 0 /\ ~seen.checkMuted
    \/ dbErrors + crashes <= 1 /\ chats = {c1} /\ c2 \in reach /\ row.msgs \subseteq {c1}
==============================================================================
