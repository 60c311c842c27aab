------------------------------ MODULE AlertState ------------------------------
(***************************************************************************)
(* The life of one alert (one fingerprint) in                              *)
(* backend/internal/services/alerts/service.go: samples of a check arrive  *)
(* one after the other and maybeSendAlert decides, from the row of         *)
(* alert_states, whether Telegram is told; the buttons under a message     *)
(* mute, acknowledge and retry at any moment, and so does the UI           *)
(* (internal/http/telegram_webhook.go, alerts.go, incidents.go); chats are *)
(* rotated, Telegram and Postgres fail, the process dies.                  *)
(*                                                                         *)
(* Time is counted in ticks: first_seen and the three mutes are kept as    *)
(* ages and remaining ticks. Occurrences only matter up to MinFails.       *)
(***************************************************************************)
EXTENDS Integers, FiniteSets

CONSTANTS
    AllChats,        \* chats that may be configured
    AlertType,       \* the alert's type
    MinConsecutiveFails, OfflineDelay,  \* Policy
    FailAfter,       \* fail_after_sec of the check (0 when it has none)
    CheckRecover,    \* recover_after_ok of the check (0 when it has none)
    DefaultMute,     \* minutes when the settings have none
    MaxMute,         \* longest mute, maxPolicyMinutes
    CheckMutes,      \* may an operator set mute_until on the check?
    MaxDbErrors,     \* bound on failing statements
    MaxCrashes       \* bound on process deaths

ASSUME PolicyAssumption ==
    /\ AlertType \in {"connection", "generic", "tls", "cpu", "memory", "disk"}
    /\ MinConsecutiveFails \in Nat \ {0} /\ OfflineDelay \in Nat
    /\ FailAfter \in Nat /\ CheckRecover \in Nat
    /\ MaxMute \in Nat /\ DefaultMute \in 1..MaxMute /\ CheckMutes \in BOOLEAN
    /\ MaxDbErrors \in Nat /\ MaxCrashes \in Nat

VARIABLES
    row,       \* alert_states: status, occurrences, ok streak, message ids
    age,       \* ticks since alert_states.first_seen, up to Delay
    rowMute,   \* ticks left of alert_states.muted_until
    memMute,   \* ticks left of Service.mutedUntil
    chkMute,   \* ticks left of checks.mute_until
    inc,       \* incidents.status
    chats,     \* telegram_settings.admin_chat_id
    reach,     \* the chats Telegram delivers to at the moment
    ev,        \* the evaluation in progress, with the rows it has loaded
    seen,      \* history: samples as the monitored system sent them
    dbErrors, crashes

vars == <<row, age, rowMute, memMute, chkMute, inc, chats, reach, ev, seen,
          dbErrors, crashes>>
mutes == <<rowMute, memMute, chkMute>>

(* Policy *)

AtMost(n, bound) == IF n > bound THEN bound ELSE n

requiresOfflineDelay(type) == type \in {"generic", "connection"}

defaultRecoverAfterOK(type) ==
    CASE type = "connection" -> 3
      [] type \in {"generic", "tls"} -> 2
      [] type \in {"cpu", "memory", "disk"} -> 6

\* What it takes until a failing alert is sent, and until it is over. The check's
\* delay can only be longer than the policy's.
MinFails == MinConsecutiveFails
Delay ==
    IF ~requiresOfflineDelay(AlertType) THEN 0
    ELSE IF FailAfter > OfflineDelay THEN FailAfter ELSE OfflineDelay
RecoverAfterOK ==
    IF CheckRecover > 0 THEN CheckRecover ELSE defaultRecoverAfterOK(AlertType)

normalizePolicyMinutes(minutes) ==
    IF minutes <= 0 THEN DefaultMute ELSE AtMost(minutes, MaxMute)

\* The minutes of the organisation's settings, whatever was stored there, or the
\* default when they cannot be read.
policyForState == {normalizePolicyMinutes(m) : m \in 0..(MaxMute + 1)}

Ticks == 0..MaxMute
Row == [exists : BOOLEAN, last : {"ok", "fail"}, occ : 0..MinFails,
        streak : 0..RecoverAfterOK, msgs : SUBSET AllChats,
        linked : BOOLEAN]               \* incident_id is set
NoRow == [exists |-> FALSE, last |-> "ok", occ |-> 0, streak |-> 0, msgs |-> {},
          linked |-> FALSE]

\* What an evaluation will do: whom to tell, and the row to write, with the id of
\* the incident (link) or before that is written.
Plan == [send : {"none", "alert", "recovery"}, last : {"ok", "fail"},
         notified : BOOLEAN, msgs : SUBSET AllChats, occ : 0..MinFails,
         streak : 0..RecoverAfterOK, link : BOOLEAN]

TypeOK ==
    /\ row \in Row
    /\ age \in 0..Delay
    /\ rowMute \in Ticks /\ memMute \in Ticks /\ chkMute \in Ticks
    /\ inc \in {"none", "open", "acked", "recovered"}
    /\ chats \in (SUBSET AllChats) \ {{}}
    /\ reach \in SUBSET AllChats
    /\ ev \in [pc : {"idle", "send", "store"}, sample : {"ok", "fail"},
               row : Row, plan : Plan, chats : SUBSET AllChats,
               fresh : SUBSET AllChats, quiet : BOOLEAN]
    /\ seen \in [fails : 0..MinFails, down : 0..Delay, told : SUBSET AllChats,
                 quiet : Ticks, lost : SUBSET {"evaluation", "recovery"},
                 checkMuted : BOOLEAN]
    /\ dbErrors \in 0..MaxDbErrors
    /\ crashes \in 0..MaxCrashes

NoPlan == [send |-> "none", last |-> "ok", notified |-> FALSE, msgs |-> {},
           occ |-> 0, streak |-> 0, link |-> FALSE]

Init ==
    /\ row = NoRow /\ age = 0
    /\ rowMute = 0 /\ memMute = 0 /\ chkMute = 0
    /\ inc = "none"
    /\ chats \in (SUBSET AllChats) \ {{}} /\ reach = AllChats
    /\ ev = [pc |-> "idle", sample |-> "ok", row |-> NoRow, plan |-> NoPlan,
             chats |-> {}, fresh |-> {}, quiet |-> FALSE]
    /\ seen = [fails |-> 0, down |-> 0, told |-> {}, quiet |-> 0, lost |-> {},
               checkMuted |-> FALSE]
    /\ dbErrors = 0 /\ crashes = 0

------------------------------------------------------------------------------
(* What the workers report, as a sample *)

SampleOf(active) == IF active THEN "fail" ELSE "ok"

NotifyConnection(sshOK) == SampleOf(~sshOK)
NotifyGeneric(status) == SampleOf(status # "ok")
NotifyGenericBot(ok) == SampleOf(~ok)

\* A measured value below, at or above its threshold; for the disk it is the free part.
Levels == {-1, 0, 1}
NotifyCPU(load) == SampleOf(load >= 0)
NotifyMemory(used) == SampleOf(used >= 0)
NotifyDisk(free) == SampleOf(free <= 0)

Samples ==
    CASE AlertType = "connection" -> {NotifyConnection(ok) : ok \in BOOLEAN}
      [] AlertType \in {"generic", "tls"} ->
            {NotifyGeneric(st) : st \in {"ok", "fail"}} \cup {NotifyGenericBot(ok) : ok \in BOOLEAN}
      [] AlertType = "cpu" -> {NotifyCPU(l) : l \in Levels}
      [] AlertType = "memory" -> {NotifyMemory(l) : l \in Levels}
      [] AlertType = "disk" -> {NotifyDisk(l) : l \in Levels}

------------------------------------------------------------------------------
(* maybeSendAlert: the decision *)

PrevFail(r) == r.exists /\ r.last = "fail"

\* Mutant: a message in some chat is enough.
hasMessageThreadForAnyChat(r) == r.msgs # {}

hasMessageThreadForAllChats(r) == r.msgs # {} /\ chats \subseteq r.msgs

\* The in-memory mute, or the stored one (which is then cached). A failing
\* query is no mute.
isMuted == memMute > 0 \/ rowMute > 0

\* The row as it will be written when nobody is told.
Keep(last, occ, streak) ==
    [send |-> "none", last |-> last, notified |-> FALSE, msgs |-> {},
     occ |-> occ, streak |-> streak, link |-> TRUE]

\* As long as the alert may come back, and while the check is muted, the row is
\* written first, with the id of the incident that it already had.
Unlinked(plan) == [plan EXCEPT !.link = FALSE]

\* While mute_until of the check lasts, the sample is only recorded.
OnCheckMuted(s, r) == Unlinked(Keep(s, 0, r.streak))

OnOk(r) ==
    IF ~PrevFail(r) THEN Keep("ok", 0, 0)
    ELSE IF r.streak + 1 < RecoverAfterOK THEN Unlinked(Keep("fail", 0, r.streak + 1))
    ELSE [send |-> IF r.msgs = {} THEN "none" ELSE "recovery", last |-> "ok",
          notified |-> TRUE, msgs |-> {},
          occ |-> IF r.msgs = {} THEN 0 ELSE r.occ, streak |-> 0, link |-> TRUE]

Occurrences(r) == IF PrevFail(r) THEN AtMost(r.occ + 1, MinFails) ELSE 1

\* How long the check has been failing, for the offline delay.
Waited(r) == IF PrevFail(r) /\ r.streak = 0 THEN age ELSE 0

\* Not yet to be surfaced.
TooEarly(r) ==
    r.msgs = {} /\ (Waited(r) < Delay \/ Occurrences(r) < MinFails)

AlreadyTold(r) == PrevFail(r) /\ hasMessageThreadForAllChats(r)

OnFail(r, muted) ==
    IF TooEarly(r) \/ AlreadyTold(r) \/ muted
    THEN Keep("fail", Occurrences(r), 0)
    ELSE [send |-> "alert", last |-> "fail", notified |-> TRUE, msgs |-> {},
          occ |-> Occurrences(r), streak |-> 0, link |-> TRUE]

\* A sample arrives and the row is loaded (a failing query looks like no row).
Sample(s) ==
    /\ ev.pc = "idle"
    /\ \E r \in {row, NoRow}, muted \in {isMuted, FALSE} :
        LET asks == chkMute = 0 /\ s = "fail" /\ ~TooEarly(r) /\ ~AlreadyTold(r)
            failures == (IF r # row THEN 1 ELSE 0)
                        + (IF muted # isMuted THEN 1 ELSE 0)
            plan == IF chkMute > 0 THEN OnCheckMuted(s, r)
                    ELSE IF s = "ok" THEN OnOk(r) ELSE OnFail(r, muted)
        IN  /\ asks \/ muted = isMuted
            /\ memMute > 0 => muted
            /\ dbErrors + failures <= MaxDbErrors
            /\ dbErrors' = dbErrors + failures
            /\ memMute' = IF asks /\ muted /\ memMute = 0 THEN rowMute ELSE memMute
            /\ ev' = [pc |-> IF plan.send = "none" THEN "store" ELSE "send",
                      sample |-> s, row |-> r, plan |-> plan, chats |-> chats,
                      fresh |-> {}, quiet |-> seen.quiet > 0]
            /\ seen' = [seen EXCEPT
                  !.fails = IF s = "fail" THEN AtMost(seen.fails + 1, MinFails) ELSE 0,
                  !.down = IF s = "fail" /\ seen.fails > 0 THEN seen.down ELSE 0,
                  !.lost = seen.lost \cup (IF failures > 0 THEN {"evaluation"} ELSE {})]
    /\ UNCHANGED <<row, age, rowMute, chkMute, inc, chats, reach, crashes>>

------------------------------------------------------------------------------
(* Telegram *)

\* Every chat of the settings the evaluation has loaded has its message edited or gets a new one; an edit fails
\* for a message that was deleted, and nothing reaches a chat that is out of
\* reach.
DeliverAlert ==
    /\ ev.pc = "send" /\ ev.plan.send = "alert"
    /\ \E deleted \in SUBSET ev.row.msgs :
          LET got == ev.chats \cap reach
          IN  ev' = [ev EXCEPT !.pc = "store", !.plan.msgs = got,
                               !.fresh = got \ (ev.row.msgs \ deleted)]
    /\ UNCHANGED <<row, age, mutes, inc, chats, reach, seen, dbErrors, crashes>>

\* The errors of a recovery message are only logged.
sendRecovery ==
    /\ ev.pc = "send" /\ ev.plan.send = "recovery"
    /\ ev' = [ev EXCEPT !.pc = "store", !.fresh = ev.chats \cap reach]
    /\ UNCHANGED <<row, age, mutes, inc, chats, reach, seen, dbErrors, crashes>>

------------------------------------------------------------------------------
(* The rows *)

syncIncident(status) ==
    IF status = "fail" THEN "open"
    ELSE IF inc = "none" THEN "none" ELSE "recovered"

\* Mutant: the message ids survive a recovery.
updateStateKeepsThread(incident) ==
    [exists |-> TRUE, last |-> ev.plan.last, occ |-> ev.plan.occ,
     streak |-> ev.plan.streak, linked |-> ev.row.linked \/ incident,
     msgs |-> IF ev.plan.last = "fail" /\ ev.plan.notified
              THEN ev.plan.msgs ELSE ev.row.msgs]

\* incident: syncIncident has returned one. It is never unset.
updateState(incident) ==
    [exists |-> TRUE, last |-> ev.plan.last, occ |-> ev.plan.occ,
     streak |-> ev.plan.streak, linked |-> ev.row.linked \/ incident,
     msgs |-> IF ev.plan.notified THEN ev.plan.msgs ELSE ev.row.msgs]

\* Mutant: a partial recovery does not restart the outage.
RestartedIgnoresStreak ==
    \/ ~ev.row.exists
    \/ ev.plan.last = "fail" /\ ev.row.last # "fail"

\* first_seen is set on insert and when a fail follows an ok sample.
Restarted ==
    \/ ~ev.row.exists
    \/ ev.plan.last = "fail" /\ (ev.row.last # "fail" \/ ev.row.streak > 0)

\* What is lost with an evaluation that is not stored.
Loss == {"evaluation"} \cup (IF ev.plan.last = "ok" THEN {"recovery"} ELSE {})

\* The incident and the alert's row are written, each of the two errors is
\* dropped. A row that was not loaded is inserted, which fails if it is there.
Store ==
    /\ ev.pc = "store"
    /\ \E incOk, rowOk \in BOOLEAN :
        LET failures == (IF incOk THEN 0 ELSE 1) + (IF rowOk THEN 0 ELSE 1)
            stored == rowOk /\ (ev.row.exists \/ ~row.exists)
            status == syncIncident(ev.plan.last)
            over == ev.plan.last = "ok"
        IN  /\ dbErrors + failures <= MaxDbErrors
            /\ dbErrors' = dbErrors + failures
            /\ inc' = IF incOk THEN status ELSE inc
            /\ row' = IF ~stored THEN row
                      ELSE updateState(ev.plan.link /\ incOk /\ status # "none")
            /\ age' = IF stored /\ Restarted THEN 0 ELSE age
            /\ seen' = [seen EXCEPT
                  !.told = IF stored /\ over THEN {}
                           ELSE seen.told
                                \cup (IF ev.plan.send = "alert" THEN ev.plan.msgs ELSE {}),
                  !.lost = IF stored THEN seen.lost ELSE seen.lost \cup Loss]
    /\ ev' = [ev EXCEPT !.pc = "idle", !.plan = NoPlan, !.chats = {}, !.fresh = {}]
    /\ UNCHANGED <<mutes, chats, reach, crashes>>

------------------------------------------------------------------------------
(* Buttons, operators and the world *)

\* Mutant: the mute button only reaches the process's memory.
setMuteInMemory(d) ==
    /\ memMute' = d
    /\ seen' = [seen EXCEPT !.quiet = d]
    /\ UNCHANGED <<row, age, rowMute, chkMute, inc, chats, reach, ev, dbErrors, crashes>>

\* Memory first, then the row (the error is dropped).
setMute(d) ==
    /\ memMute' = d
    /\ \/ rowMute' = d /\ UNCHANGED dbErrors
       \/ /\ dbErrors < MaxDbErrors /\ dbErrors' = dbErrors + 1
          /\ UNCHANGED rowMute
    /\ seen' = [seen EXCEPT !.quiet = d]
    /\ UNCHANGED <<row, age, chkMute, inc, chats, reach, ev, crashes>>

\* loadStateByAlertID, then setMute.
MuteByAlertID(d) == row.exists /\ setMute(d)

\* When that query fails, the alert's id is muted in place of its fingerprint: the
\* button says so, and no alert is kept away.
MuteByWrongKey(d) ==
    /\ dbErrors < MaxDbErrors /\ dbErrors' = dbErrors + 1
    /\ seen' = [seen EXCEPT !.quiet = d]
    /\ UNCHANGED <<row, age, mutes, inc, chats, reach, ev, crashes>>

\* The row is muted and the incident that it is linked to acknowledged. When the
\* first write fails the button reports an error.
AckByAlertID(d) ==
    /\ row.exists
    /\ rowMute' = d
    /\ \/ inc' = (IF row.linked THEN "acked" ELSE inc) /\ UNCHANGED dbErrors
       \/ /\ dbErrors < MaxDbErrors /\ dbErrors' = dbErrors + 1
          /\ UNCHANGED inc
    /\ seen' = [seen EXCEPT !.quiet = d]
    /\ UNCHANGED <<row, age, memMute, chkMute, chats, reach, ev, crashes>>

\* The minutes on the button, or those of the policy.
HandleCallback(action) ==
    \/ action = "mute" /\ \E d \in (1..MaxMute) \cup policyForState :
                               MuteByAlertID(d) \/ MuteByWrongKey(d)
    \/ action = "ack" /\ \E d \in policyForState : AckByAlertID(d)

telegramChatAllowed(c) == c \in chats

\* A button, in a chat that is still configured; orgIDForAlert finds the alert's row.
\* (For "retry" see RetryAlert.)
TelegramWebhook ==
    /\ row.exists /\ {c \in AllChats : telegramChatAllowed(c)} # {}
    /\ HandleCallback("mute") \/ HandleCallback("ack")

\* The UI: of the alert, whose row it has found.
MuteAlert == row.exists /\ \E d \in (1..MaxMute) \cup policyForState : setMute(d)

\* runRetry, for the UI and for the button: the check runs at once, and what it finds
\* is a sample like any other.
RetryAlert == row.exists /\ \E s \in Samples : Sample(s)

\* The UI: of the incident. Its row first, then the mute of the alert's row that is
\* linked to it, if there is one (the error is dropped).
AckIncident(d) ==
    /\ inc # "none" /\ inc' = "acked"
    /\ \/ rowMute' = (IF row.linked THEN d ELSE rowMute) /\ UNCHANGED dbErrors
       \/ /\ dbErrors < MaxDbErrors /\ dbErrors' = dbErrors + 1
          /\ UNCHANGED rowMute
    /\ seen' = [seen EXCEPT !.quiet = IF row.linked THEN d ELSE @]
    /\ UNCHANGED <<row, age, memMute, chkMute, chats, reach, ev, crashes>>

\* The check is edited.
MuteCheck(d) ==
    /\ CheckMutes
    /\ chkMute' = d
    /\ seen' = [seen EXCEPT !.checkMuted = TRUE]
    /\ UNCHANGED <<row, age, rowMute, memMute, inc, chats, reach, ev, dbErrors, crashes>>

RotateChats(C) ==
    /\ C # chats
    /\ chats' = C
    /\ UNCHANGED <<row, age, mutes, inc, reach, ev, seen, dbErrors, crashes>>

TelegramReaches(C) ==
    /\ C # reach
    /\ reach' = C
    /\ UNCHANGED <<row, age, mutes, inc, chats, ev, seen, dbErrors, crashes>>

Less(n) == IF n > 0 THEN n - 1 ELSE 0

Tick ==
    /\ age' = AtMost(age + 1, Delay)
    /\ rowMute' = Less(rowMute) /\ memMute' = Less(memMute) /\ chkMute' = Less(chkMute)
    /\ seen' = [seen EXCEPT !.down = AtMost(seen.down + 1, Delay),
                            !.quiet = Less(seen.quiet)]
    /\ UNCHANGED <<row, inc, chats, reach, ev, dbErrors, crashes>>

\* The process dies and is started again: an evaluation is lost, and with it
\* what it may have sent; so is the memory of the mutes.
Crash ==
    /\ crashes < MaxCrashes /\ crashes' = crashes + 1
    /\ memMute' = 0
    /\ ev' = [ev EXCEPT !.pc = "idle", !.plan = NoPlan, !.chats = {}, !.fresh = {}]
    /\ seen' = [seen EXCEPT !.lost = IF ev.pc = "idle" THEN @ ELSE @ \cup Loss]
    /\ UNCHANGED <<row, age, rowMute, chkMute, inc, chats, reach, dbErrors>>

------------------------------------------------------------------------------
Evaluate ==
    \/ \E s \in Samples : Sample(s)
    \/ DeliverAlert \/ sendRecovery
    \/ Store

Next ==
    \/ Evaluate
    \/ TelegramWebhook \/ MuteAlert \/ RetryAlert
    \/ \E d \in policyForState : AckIncident(d)
    \/ \E d \in 1..MaxMute : MuteCheck(d)
    \/ \E C \in (SUBSET AllChats) \ {{}} : RotateChats(C)
    \/ \E C \in SUBSET AllChats : TelegramReaches(C)
    \/ Tick
    \/ Crash

Spec == Init /\ [][Next]_vars

\* Checks run periodically (the workers' tickers), every call of an evaluation
\* returns (HTTP client and database timeouts), time passes.
FairSpec == Spec /\ WF_vars(Evaluate) /\ WF_vars(Tick)

------------------------------------------------------------------------------
(* Properties *)

\* A first message about an outage goes out only after MinFails fail samples in
\* a row and after the offline delay, counted on the samples themselves: neither
\* partial recoveries, mutes, chat changes nor restarts make the row believe in
\* an older outage, as long as no evaluation was lost.
NoEarlyAlert ==
    seen.lost = {} /\ ev.pc = "send" /\ ev.plan.send = "alert" /\ ev.row.msgs = {} =>
        seen.fails >= MinFails /\ seen.down >= Delay

\* "Fail state was not surfaced to Telegram (delay window or send failed): do
\* not send a recovery notification." (maybeSendAlert) - as long as no evaluation
\* was lost and the check itself was not muted, which leaves stale message ids.
RecoveryOnlyIfTold ==
    seen.lost = {} /\ ~seen.checkMuted /\ ev.pc = "send" /\ ev.plan.send = "recovery"
        => seen.told # {}

\* A mute, or an acknowledgement of an incident that the alert's row is linked to,
\* keeps alerts away until it is over when it could be stored, also across a restart
\* that loses Service.mutedUntil (setMute, AckByAlertID, AckIncident, isMuted).
MuteHolds ==
    dbErrors = 0 /\ ev.pc = "send" /\ ev.plan.send = "alert" => ~ev.quiet

\* "retry sending until a thread is created" (maybeSendAlert): if from some time
\* on every sample fails, no mute is in force and Telegram reaches the
\* configured chats, then all of them are told of this very outage and the row
\* keeps their messages, through chats that were rotated and statements and
\* processes that failed before. Not when ids of an earlier outage may stand in the
\* row: the end of that outage was lost, or the check was muted meanwhile.
OutageIsTold ==
    \A C \in (SUBSET AllChats) \ {{}} :
        <>[](/\ ev.sample = "fail" /\ chats = C /\ C \subseteq reach
             /\ rowMute = 0 /\ memMute = 0 /\ chkMute = 0
             /\ ~seen.checkMuted /\ "recovery" \notin seen.lost)
        => <>[](C \subseteq row.msgs \cap seen.told)

\* README.md: "minimum consecutive `fail` samples before sending new
\* `connection`/`generic`/`tls` alert to Telegram". A message that is new to an
\* outage nobody was told of.
NewAlertAfterMinFails ==
    seen.lost = {} /\ ev.pc = "store" /\ ev.plan.send = "alert" /\ ev.fresh # {}
        /\ seen.told = {} => seen.fails >= MinFails
==============================================================================
