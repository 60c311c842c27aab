--------------------------- MODULE AlertStateProofs ---------------------------
(* Theorems about AlertState, for every policy, any number of chats, and any   *)
(* number of failing statements and restarts.                                  *)
EXTENDS AlertState, TLAPS

Evaluation == [pc : {"idle", "send", "store"}, sample : {"ok", "fail"}, row : Row,
               plan : Plan, chats : SUBSET AllChats, fresh : SUBSET AllChats,
               quiet : BOOLEAN]
Losses == SUBSET {"evaluation", "recovery"}
History == [fails : 0..MinFails, down : 0..Delay, told : SUBSET AllChats, quiet : Ticks,
            lost : Losses, checkMuted : BOOLEAN]

\* TypeOK, with names for its two long records.
Typed ==
    /\ row \in Row
    /\ age \in 0..Delay
    /\ rowMute \in Ticks /\ memMute \in Ticks /\ chkMute \in Ticks
    /\ inc \in {"none", "open", "acked", "recovered"}
    /\ chats \in (SUBSET AllChats) \ {{}}
    /\ reach \in SUBSET AllChats
    /\ ev \in Evaluation
    /\ seen \in History
    /\ dbErrors \in 0..MaxDbErrors
    /\ crashes \in 0..MaxCrashes

Busy == ev.pc # "idle"

\* As long as every statement succeeds, alert_states.muted_until is what the operator
\* was promised, and an evaluation that will send an alert began when no mute lasted.
MuteInv ==
    dbErrors = 0 => /\ seen.quiet = rowMute
                    /\ Busy /\ ev.plan.send = "alert" => ~ev.quiet

\* As long as no evaluation was lost, the row believes in no longer outage than the
\* samples show; while an evaluation goes on this is said of the row it will write.
OutageInv ==
    IF Busy
    THEN /\ ev.row = row
         /\ ev.plan.last = "fail" => ev.plan.occ <= seen.fails
         /\ ev.plan.last = "fail" /\ ev.plan.streak = 0
               => seen.fails > 0 /\ (Restarted \/ age <= seen.down)
         /\ ev.plan.send = "alert" /\ ev.row.msgs = {}
               => seen.fails >= MinFails /\ seen.down >= Delay
    ELSE /\ PrevFail(row) => row.occ <= seen.fails
         /\ PrevFail(row) /\ row.streak = 0 => seen.fails > 0 /\ age <= seen.down

\* If besides nobody muted the check, message ids are those of an outage that was told.
ThreadInv ==
    /\ chkMute = 0
    /\ row.msgs # {} => PrevFail(row) /\ seen.told # {}
    /\ Busy =>
          /\ ev.row = row
          /\ ev.plan.last = "ok" => IF ev.plan.notified THEN ev.plan.msgs = {} ELSE row.msgs = {}
          /\ ev.plan.last = "fail" /\ ev.plan.notified => ev.plan.send = "alert"
          /\ ev.plan.send = "alert" => ev.plan.last = "fail"
          /\ ev.plan.send = "recovery" => row.msgs # {}

AlertInv ==
    /\ Typed
    /\ MuteInv
    /\ seen.lost = {} => OutageInv
    /\ seen.lost = {} /\ ~seen.checkMuted => ThreadInv

------------------------------------------------------------------------------
(* The policy *)

LEMMA PolicyNumbers ==
    /\ MinFails \in Nat /\ MinFails > 0
    /\ Delay \in Nat
    /\ RecoverAfterOK \in Nat /\ RecoverAfterOK > 0
    /\ MaxMute \in Nat /\ 0 \in Ticks
    /\ 1..MaxMute \subseteq Ticks
    /\ MaxDbErrors \in Nat /\ MaxCrashes \in Nat
<1> USE PolicyAssumption
<1>1. MinFails \in Nat /\ MinFails > 0
    BY DEF MinFails
<1>2. Delay \in Nat
    BY DEF Delay
<1>3. defaultRecoverAfterOK(AlertType) \in {2, 3, 6}
    BY DEF defaultRecoverAfterOK
<1>4. RecoverAfterOK \in Nat /\ RecoverAfterOK > 0
    BY <1>3 DEF RecoverAfterOK
<1>5. MaxMute \in Nat /\ 0 \in Ticks /\ 1..MaxMute \subseteq Ticks
    BY DEF Ticks
<1> QED
    BY <1>1, <1>2, <1>4, <1>5

\* normalizePolicyMinutes: whatever the settings hold, a mute has an end and a length.
LEMMA PolicyMutes == policyForState \subseteq 1..MaxMute
<1> SUFFICES ASSUME NEW m \in 0..(MaxMute + 1)
             PROVE  normalizePolicyMinutes(m) \in 1..MaxMute
    BY DEF policyForState
<1> QED
    BY PolicyAssumption DEF normalizePolicyMinutes, AtMost

LEMMA SamplesTyped == Samples \subseteq {"ok", "fail"}
<1>1. \A active : SampleOf(active) \in {"ok", "fail"}
    BY DEF SampleOf
<1>2. CASE AlertType = "connection"
    BY <1>1, <1>2 DEF Samples, NotifyConnection
<1>3. CASE AlertType \in {"generic", "tls"}
    BY <1>1, <1>3 DEF Samples, NotifyGeneric, NotifyGenericBot
<1>4. CASE AlertType = "cpu"
    BY <1>1, <1>4 DEF Samples, NotifyCPU
<1>5. CASE AlertType = "memory"
    BY <1>1, <1>5 DEF Samples, NotifyMemory
<1>6. CASE AlertType = "disk"
    BY <1>1, <1>6 DEF Samples, NotifyDisk
<1> QED
    BY <1>2, <1>3, <1>4, <1>5, <1>6, PolicyAssumption

LEMMA Keeps ==
    ASSUME NEW last \in {"ok", "fail"}, NEW occ \in 0..MinFails, NEW streak \in 0..RecoverAfterOK
    PROVE  /\ Keep(last, occ, streak) \in Plan
           /\ Keep(last, occ, streak).send = "none"
           /\ Keep(last, occ, streak).last = last
           /\ ~Keep(last, occ, streak).notified
           /\ Keep(last, occ, streak).occ = occ
           /\ Keep(last, occ, streak).streak = streak
           /\ Unlinked(Keep(last, occ, streak)) \in Plan
           /\ Unlinked(Keep(last, occ, streak)).send = "none"
           /\ Unlinked(Keep(last, occ, streak)).last = last
           /\ ~Unlinked(Keep(last, occ, streak)).notified
           /\ Unlinked(Keep(last, occ, streak)).occ = occ
           /\ Unlinked(Keep(last, occ, streak)).streak = streak
BY DEF Keep, Plan, Unlinked

LEMMA OccurrencesTyped ==
    ASSUME NEW r \in Row
    PROVE  /\ r.occ \in 0..MinFails /\ r.streak \in 0..RecoverAfterOK
           /\ r.msgs \in SUBSET AllChats /\ r.last \in {"ok", "fail"}
           /\ Occurrences(r) \in 1..MinFails
           /\ PrevFail(r) => Occurrences(r) = AtMost(r.occ + 1, MinFails)
           /\ ~PrevFail(r) => Occurrences(r) = 1
<1>1. /\ r.occ \in 0..MinFails /\ r.streak \in 0..RecoverAfterOK
      /\ r.msgs \in SUBSET AllChats /\ r.last \in {"ok", "fail"}
    BY DEF Row
<1> QED
    BY <1>1, PolicyNumbers DEF Occurrences, AtMost

\* What maybeSendAlert decides for a sample and the row it has loaded.
Decision(s, r, muted) ==
    IF chkMute > 0 THEN OnCheckMuted(s, r)
    ELSE IF s = "ok" THEN OnOk(r) ELSE OnFail(r, muted)

LEMMA DecisionMade ==
    ASSUME NEW r \in Row, NEW s \in {"ok", "fail"}, NEW muted \in BOOLEAN, chkMute \in Ticks
    PROVE  LET plan == Decision(s, r, muted)
           IN  /\ plan \in Plan
               /\ plan.send = "alert" => /\ plan.last = "fail" /\ s = "fail" /\ chkMute = 0
                                         /\ ~TooEarly(r) /\ ~muted
               /\ plan.last = "fail" => plan.occ = 0 \/ (s = "fail" /\ plan.occ = Occurrences(r))
               /\ plan.last = "fail" /\ plan.streak = 0 => s = "fail"
               /\ chkMute = 0 =>
                     /\ plan.last = "ok" => IF plan.notified THEN plan.msgs = {} ELSE ~PrevFail(r)
                     /\ plan.last = "fail" /\ plan.notified => plan.send = "alert"
                     /\ plan.send = "recovery" => r.msgs # {}
<1>0. /\ r.occ \in 0..MinFails /\ r.streak \in 0..RecoverAfterOK
      /\ Occurrences(r) \in 1..MinFails
      /\ 0 \in 0..MinFails /\ 0 \in 0..RecoverAfterOK
      /\ Occurrences(r) \in 0..MinFails
    BY OccurrencesTyped, PolicyNumbers
<1>1. CASE chkMute > 0
    <2>1. Decision(s, r, muted) = Unlinked(Keep(s, 0, r.streak)) /\ chkMute # 0
        BY <1>1 DEF Decision, OnCheckMuted, Ticks
    <2> QED
        BY <1>0, <2>1, Keeps
<1>2. CASE ~(chkMute > 0) /\ s = "ok"
    <2>0. Decision(s, r, muted) = OnOk(r)
        BY <1>2 DEF Decision
    <2>1. CASE ~PrevFail(r)
        <3>1. Decision(s, r, muted) = Keep("ok", 0, 0)
            BY <2>0, <2>1 DEF OnOk
        <3> QED
            BY <1>0, <2>1, <3>1, Keeps
    <2>2. CASE PrevFail(r) /\ r.streak + 1 < RecoverAfterOK
        <3>1. Decision(s, r, muted) = Unlinked(Keep("fail", 0, r.streak + 1))
            BY <2>0, <2>2 DEF OnOk
        <3>2. r.streak + 1 \in 0..RecoverAfterOK /\ r.streak + 1 # 0
            BY <1>0, <2>2, PolicyNumbers
        <3> QED
            BY <1>0, <3>1, <3>2, Keeps
    <2>3. CASE PrevFail(r) /\ ~(r.streak + 1 < RecoverAfterOK)
        <3>1. Decision(s, r, muted) =
                 [send |-> IF r.msgs = {} THEN "none" ELSE "recovery", last |-> "ok",
                  notified |-> TRUE, msgs |-> {},
                  occ |-> IF r.msgs = {} THEN 0 ELSE r.occ, streak |-> 0, link |-> TRUE]
            BY <2>0, <2>3 DEF OnOk
        <3>2. CASE r.msgs = {}
            BY <1>0, <3>1, <3>2 DEF Plan
        <3>3. CASE r.msgs # {}
            BY <1>0, <3>1, <3>3 DEF Plan
        <3> QED
            BY <3>2, <3>3
    <2> QED
        BY <2>1, <2>2, <2>3
<1>3. CASE ~(chkMute > 0) /\ s = "fail"
    <2>0. Decision(s, r, muted) = OnFail(r, muted) /\ chkMute = 0
        BY <1>3, PolicyNumbers DEF Decision, Ticks
    <2>1. CASE TooEarly(r) \/ AlreadyTold(r) \/ muted
        <3>1. Decision(s, r, muted) = Keep("fail", Occurrences(r), 0)
            BY <2>0, <2>1 DEF OnFail
        <3> QED
            BY <1>0, <1>3, <3>1, Keeps
    <2>2. CASE ~(TooEarly(r) \/ AlreadyTold(r) \/ muted)
        <3>1. Decision(s, r, muted) =
                 [send |-> "alert", last |-> "fail", notified |-> TRUE, msgs |-> {},
                  occ |-> Occurrences(r), streak |-> 0, link |-> TRUE]
            BY <2>0, <2>2 DEF OnFail
        <3> DEFINE plan == Decision(s, r, muted)
        <3>2. /\ plan \in Plan /\ plan.send = "alert" /\ plan.last = "fail"
              /\ plan.occ = Occurrences(r)
            BY <1>0, <3>1 DEF Plan
        <3> HIDE DEF plan
        <3> QED
            BY <1>3, <2>0, <2>2, <3>2 DEF plan
    <2> QED
        BY <2>1, <2>2
<1> QED
    BY <1>1, <1>2, <1>3

------------------------------------------------------------------------------
\* What does not touch the row, the evaluation, the outage or the mutes keeps all of
\* AlertInv; this is the form in which the steps below use it.
LEMMA SameOutage ==
    ASSUME AlertInv, UNCHANGED <<row, age, ev>>,
           seen'.fails = seen.fails, seen'.down = seen.down, seen'.lost = seen.lost
    PROVE  seen'.lost = {} => OutageInv'
BY DEF AlertInv, OutageInv, Busy, Restarted, PrevFail

LEMMA SameThread ==
    ASSUME AlertInv, UNCHANGED <<row, ev, chkMute>>,
           seen'.told = seen.told, seen'.lost = seen.lost, seen'.checkMuted = seen.checkMuted
    PROVE  seen'.lost = {} /\ ~seen'.checkMuted => ThreadInv'
BY DEF AlertInv, ThreadInv, Busy, PrevFail

------------------------------------------------------------------------------
(* Steps *)

\* The mutes: the button, the UI and the acknowledgements.
LEMMA MuteSteps ==
    ASSUME AlertInv,
           \/ TelegramWebhook \/ MuteAlert
           \/ \E d \in policyForState : AckIncident(d)
    PROVE  AlertInv'
<1>0. /\ Typed /\ MuteInv /\ seen \in History /\ dbErrors \in 0..MaxDbErrors
      /\ MaxDbErrors \in Nat
    BY PolicyNumbers DEF AlertInv, Typed
<1>1. ASSUME NEW d \in Ticks,
             seen' = [seen EXCEPT !.quiet = d] \/ UNCHANGED seen,
             rowMute' \in Ticks, memMute' \in Ticks,
             inc' \in {"none", "open", "acked", "recovered"},
             \/ UNCHANGED dbErrors /\ rowMute' = seen'.quiet
             \/ UNCHANGED <<dbErrors, rowMute, seen>>
             \/ dbErrors < MaxDbErrors /\ dbErrors' = dbErrors + 1,
             UNCHANGED <<row, age, chkMute, chats, reach, ev, crashes>>
      PROVE  AlertInv'
    <2>1. /\ seen' \in History /\ seen'.fails = seen.fails /\ seen'.down = seen.down
          /\ seen'.lost = seen.lost /\ seen'.told = seen.told
          /\ seen'.checkMuted = seen.checkMuted
        BY <1>0, <1>1 DEF History
    <2>2. dbErrors' \in 0..MaxDbErrors /\ (dbErrors' = 0 => UNCHANGED dbErrors)
        BY <1>0, <1>1
    <2>3. Typed'
        BY <1>0, <1>1, <2>1, <2>2 DEF Typed
    <2>4. MuteInv'
        BY <1>0, <1>1, <2>2 DEF MuteInv, Busy
    <2> QED
        BY <1>1, <2>1, <2>3, <2>4, SameOutage, SameThread DEF AlertInv
<1>2. (1..MaxMute) \cup policyForState \subseteq Ticks
    BY PolicyNumbers, PolicyMutes
<1>3. ASSUME NEW d \in Ticks, setMute(d)
      PROVE  AlertInv'
    <2>1. [seen EXCEPT !.quiet = d].quiet = d
        BY <1>0 DEF History
    <2> QED
        BY <1>0, <1>1, <1>3, <2>1 DEF setMute, Typed
<1>4. ASSUME NEW d \in Ticks, MuteByWrongKey(d)
      PROVE  AlertInv'
    BY <1>0, <1>1, <1>4 DEF MuteByWrongKey, mutes, Typed
<1>5. ASSUME NEW d \in Ticks, AckByAlertID(d)
      PROVE  AlertInv'
    <2>1. [seen EXCEPT !.quiet = d].quiet = d
        BY <1>0 DEF History
    <2> QED
        BY <1>0, <1>1, <1>5, <2>1 DEF AckByAlertID, Typed
<1>6. ASSUME NEW d \in Ticks, AckIncident(d)
      PROVE  AlertInv'
    <2>1. /\ [seen EXCEPT !.quiet = d].quiet = d
          /\ [seen EXCEPT !.quiet = seen.quiet] = seen
        BY <1>0 DEF History
    <2>2. CASE row.linked
        BY <1>0, <1>1, <1>6, <2>1, <2>2 DEF AckIncident, Typed
    <2>3. CASE ~row.linked
        BY <1>0, <1>1, <1>6, <2>1, <2>3 DEF AckIncident, Typed
    <2> QED
        BY <2>2, <2>3
<1> QED
    BY <1>2, <1>3, <1>4, <1>5, <1>6
       DEF TelegramWebhook, HandleCallback, MuteByAlertID, MuteAlert

\* Operators who mute the check or change the chats, and what Telegram reaches.
LEMMA WorldSteps ==
    ASSUME AlertInv,
           \/ \E d \in 1..MaxMute : MuteCheck(d)
           \/ \E C \in (SUBSET AllChats) \ {{}} : RotateChats(C)
           \/ \E C \in SUBSET AllChats : TelegramReaches(C)
    PROVE  AlertInv'
<1>0. Typed /\ MuteInv /\ seen \in History
    BY DEF AlertInv, Typed
<1>1. ASSUME NEW d \in 1..MaxMute, MuteCheck(d)
      PROVE  AlertInv'
    <2>1. /\ seen' \in History /\ seen'.fails = seen.fails /\ seen'.down = seen.down
          /\ seen'.lost = seen.lost /\ seen'.quiet = seen.quiet /\ seen'.checkMuted
        BY <1>0, <1>1 DEF MuteCheck, History
    <2>2. d \in Ticks
        BY PolicyNumbers
    <2>3. Typed'
        BY <1>0, <1>1, <2>1, <2>2 DEF MuteCheck, Typed
    <2>4. MuteInv'
        BY <1>0, <1>1, <2>1 DEF MuteCheck, MuteInv, Busy
    <2> QED
        BY <1>1, <2>1, <2>3, <2>4, SameOutage DEF MuteCheck, AlertInv
<1>2. ASSUME NEW C \in SUBSET AllChats,
             (RotateChats(C) /\ C # {}) \/ TelegramReaches(C)
      PROVE  AlertInv'
    <2>1. UNCHANGED <<row, age, rowMute, memMute, chkMute, inc, ev, seen, dbErrors, crashes>>
        BY <1>2 DEF RotateChats, TelegramReaches, mutes
    <2>2. Typed'
        BY <1>0, <1>2, <2>1 DEF RotateChats, TelegramReaches, Typed
    <2>3. MuteInv'
        BY <1>0, <2>1 DEF MuteInv, Busy
    <2> QED
        BY <2>1, <2>2, <2>3, SameOutage, SameThread DEF AlertInv
<1> QED
    BY <1>1, <1>2

\* Time: the row's age and the outage grow together, so do the ends of the mutes.
LEMMA TickStep ==
    ASSUME AlertInv, Tick
    PROVE  AlertInv'
<1>0. /\ Typed /\ MuteInv /\ seen \in History /\ age \in 0..Delay
      /\ seen.down \in 0..Delay /\ seen.quiet \in Ticks /\ rowMute \in Ticks
      /\ seen.fails \in Nat /\ Delay \in Nat
    BY PolicyNumbers DEF AlertInv, Typed, History
<1>1. \A n \in Ticks : Less(n) \in Ticks
    BY PolicyNumbers DEF Less, Ticks
<1>2. \A n \in 0..Delay : AtMost(n + 1, Delay) \in 0..Delay
    BY <1>0 DEF AtMost
<1>3. /\ seen' \in History /\ seen'.fails = seen.fails
      /\ seen'.down = AtMost(seen.down + 1, Delay)
      /\ seen'.quiet = Less(seen.quiet)
      /\ seen'.lost = seen.lost /\ seen'.told = seen.told
      /\ seen'.checkMuted = seen.checkMuted
    BY <1>0, <1>1, <1>2 DEF Tick, History
<1>4. Typed'
    BY <1>0, <1>1, <1>2, <1>3 DEF Tick, Typed
<1>5. MuteInv'
    BY <1>0, <1>3 DEF Tick, MuteInv, Busy
<1>6. /\ age <= seen.down => age' <= seen'.down
      /\ seen.down >= Delay => seen'.down >= Delay
    BY <1>0, <1>3 DEF Tick, AtMost
<1>7. UNCHANGED <<row, ev>>
    BY DEF Tick
<1>8. seen'.lost = {} => OutageInv'
    BY <1>3, <1>6, <1>7 DEF AlertInv, OutageInv, Busy, Restarted, PrevFail
<1>9. seen'.lost = {} /\ ~seen'.checkMuted => ThreadInv'
    <2>1. chkMute = 0 => chkMute' = 0
        BY DEF Tick, Less
    <2> QED
        BY <1>3, <1>7, <2>1 DEF AlertInv, ThreadInv, Busy, PrevFail
<1> QED
    BY <1>4, <1>5, <1>8, <1>9 DEF AlertInv

\* An evaluation that ends, by a restart or by its Store: its fields.
LEMMA Ended ==
    ASSUME ev \in Evaluation,
           ev' = [ev EXCEPT !.pc = "idle", !.plan = NoPlan, !.chats = {}, !.fresh = {}]
    PROVE  ev' \in Evaluation /\ ev'.pc = "idle"
<1>1. NoPlan \in Plan
    BY PolicyNumbers DEF NoPlan, Plan
<1> QED
    BY <1>1 DEF Evaluation

\* The process dies: without an evaluation nothing is lost but the cached mute.
LEMMA CrashStep ==
    ASSUME AlertInv, Crash
    PROVE  AlertInv'
<1>0. /\ Typed /\ MuteInv /\ seen \in History /\ crashes \in 0..MaxCrashes
      /\ ev \in Evaluation /\ MaxCrashes \in Nat
    BY PolicyNumbers DEF AlertInv, Typed
<1>1. /\ seen' \in History /\ seen'.fails = seen.fails /\ seen'.down = seen.down
      /\ seen'.quiet = seen.quiet /\ seen'.told = seen.told
      /\ seen'.checkMuted = seen.checkMuted
      /\ seen'.lost = {} => seen.lost = {} /\ ev.pc = "idle"
    <2> DEFINE lost == IF ev.pc = "idle" THEN seen.lost ELSE seen.lost \cup Loss
    <2>1. lost \in Losses /\ (lost = {} => seen.lost = {} /\ ev.pc = "idle")
        BY <1>0 DEF Loss, History, Losses
    <2>2. seen' = [seen EXCEPT !.lost = lost]
        BY <1>0 DEF Crash, History
    <2> HIDE DEF lost
    <2> QED
        BY <1>0, <2>1, <2>2 DEF History
<1>2. ev' \in Evaluation /\ ev'.pc = "idle"
    BY <1>0, Ended DEF Crash
<1>3. crashes' \in 0..MaxCrashes
    BY <1>0 DEF Crash
<1>4. Typed'
    BY <1>0, <1>1, <1>2, <1>3, PolicyNumbers DEF Crash, Typed
<1>5. MuteInv'
    BY <1>0, <1>1, <1>2 DEF Crash, MuteInv, Busy
<1>6. seen'.lost = {} => OutageInv'
    BY <1>1, <1>2 DEF Crash, AlertInv, OutageInv, Busy, PrevFail
<1>7. seen'.lost = {} /\ ~seen'.checkMuted => ThreadInv'
    BY <1>1, <1>2 DEF Crash, AlertInv, ThreadInv, Busy, PrevFail
<1> QED
    BY <1>4, <1>5, <1>6, <1>7 DEF AlertInv

\* Telegram is told: the evaluation goes on with the chats it has reached.
LEMMA TelegramSteps ==
    ASSUME AlertInv, DeliverAlert \/ sendRecovery
    PROVE  AlertInv'
<1>0. /\ Typed /\ MuteInv /\ ev \in Evaluation /\ reach \in SUBSET AllChats
      /\ ev.plan \in Plan /\ ev.chats \in SUBSET AllChats /\ ev.pc = "send"
    BY DEF AlertInv, Typed, Evaluation, DeliverAlert, sendRecovery
<1>1. /\ UNCHANGED <<row, age, rowMute, memMute, chkMute, inc, chats, reach, seen, dbErrors,
                     crashes>>
    BY DEF DeliverAlert, sendRecovery, mutes
<1>2. /\ ev' \in Evaluation /\ ev'.pc # "idle" /\ ev'.row = ev.row /\ ev'.quiet = ev.quiet
      /\ ev'.plan.send = ev.plan.send /\ ev'.plan.last = ev.plan.last
      /\ ev'.plan.notified = ev.plan.notified /\ ev'.plan.occ = ev.plan.occ
      /\ ev'.plan.streak = ev.plan.streak
      /\ ev'.plan.msgs = ev.plan.msgs \/ ev.plan.send = "alert"
    <2>1. CASE DeliverAlert
        <3>1. PICK deleted \in SUBSET ev.row.msgs :
                 LET got == ev.chats \cap reach
                 IN  ev' = [ev EXCEPT !.pc = "store", !.plan.msgs = got,
                                      !.fresh = got \ (ev.row.msgs \ deleted)]
            BY <2>1 DEF DeliverAlert
        <3> DEFINE got == ev.chats \cap reach
                   plan == [ev.plan EXCEPT !.msgs = got]
                   new == got \ (ev.row.msgs \ deleted)
        <3>2. /\ plan \in Plan /\ plan.send = ev.plan.send /\ plan.last = ev.plan.last
              /\ plan.notified = ev.plan.notified /\ plan.occ = ev.plan.occ
              /\ plan.streak = ev.plan.streak
            BY <1>0 DEF Plan
        <3>3. new \in SUBSET AllChats
            BY <1>0
        <3>4. ev' = [ev EXCEPT !.pc = "store", !.plan = plan, !.fresh = new]
            BY <1>0, <3>1 DEF Evaluation
        <3> HIDE DEF plan, new
        <3>5. ev' \in Evaluation /\ ev'.pc = "store" /\ ev'.row = ev.row /\ ev'.quiet = ev.quiet
              /\ ev'.plan = plan
            BY <1>0, <3>2, <3>3, <3>4 DEF Evaluation
        <3> QED
            BY <2>1, <3>2, <3>5 DEF DeliverAlert
    <2>2. CASE sendRecovery
        <3>1. ev.chats \cap reach \in SUBSET AllChats
            BY <1>0
        <3> QED
            BY <1>0, <2>2, <3>1 DEF sendRecovery, Evaluation
    <2> QED
        BY <2>1, <2>2
<1>3. Typed'
    BY <1>0, <1>1, <1>2 DEF Typed
<1>4. MuteInv'
    BY <1>0, <1>1, <1>2 DEF MuteInv, Busy
<1>5. seen'.lost = {} => OutageInv'
    BY <1>0, <1>1, <1>2 DEF AlertInv, OutageInv, Busy, Restarted
<1>6. seen'.lost = {} /\ ~seen'.checkMuted => ThreadInv'
    BY <1>0, <1>1, <1>2 DEF AlertInv, ThreadInv, Busy, PrevFail
<1> QED
    BY <1>3, <1>4, <1>5, <1>6 DEF AlertInv

\* A sample is evaluated. A load or a mute lookup that fails counts as an error, the
\* former also as a lost evaluation.
LEMMA SampleStep ==
    ASSUME AlertInv, NEW s \in Samples, Sample(s)
    PROVE  AlertInv'
<1>0. /\ Typed /\ MuteInv /\ seen \in History /\ ev.pc = "idle"
      /\ row \in Row /\ chkMute \in Ticks /\ rowMute \in Ticks /\ memMute \in Ticks
      /\ chats \in SUBSET AllChats /\ age \in 0..Delay /\ dbErrors \in Nat
    BY PolicyNumbers DEF AlertInv, Typed, Sample
<1>1. s \in {"ok", "fail"}
    BY SamplesTyped
<1>2. NoRow \in Row
    BY PolicyNumbers DEF NoRow, Row
<1> DEFINE asks(r) == chkMute = 0 /\ s = "fail" /\ ~TooEarly(r) /\ ~AlreadyTold(r)
           failures(r, muted) == (IF r # row THEN 1 ELSE 0) + (IF muted # isMuted THEN 1 ELSE 0)
           fails == IF s = "fail" THEN AtMost(seen.fails + 1, MinFails) ELSE 0
           down == IF s = "fail" /\ seen.fails > 0 THEN seen.down ELSE 0
<1>3. PICK r \in {row, NoRow}, muted \in {isMuted, FALSE} :
         /\ asks(r) \/ muted = isMuted
         /\ memMute > 0 => muted
         /\ dbErrors + failures(r, muted) <= MaxDbErrors
         /\ dbErrors' = dbErrors + failures(r, muted)
         /\ memMute' = IF asks(r) /\ muted /\ memMute = 0 THEN rowMute ELSE memMute
         /\ ev' = [pc |-> IF Decision(s, r, muted).send = "none" THEN "store" ELSE "send",
                   sample |-> s, row |-> r, plan |-> Decision(s, r, muted), chats |-> chats,
                   fresh |-> {}, quiet |-> seen.quiet > 0]
         /\ seen' = [seen EXCEPT !.fails = fails, !.down = down,
                                 !.lost = seen.lost \cup
                                              (IF failures(r, muted) > 0 THEN {"evaluation"} ELSE {})]
    BY DEF Sample, Decision
<1>4. UNCHANGED <<row, age, rowMute, chkMute, inc, chats, reach, crashes>>
    BY DEF Sample
<1> DEFINE plan == Decision(s, r, muted)
           n == failures(r, muted)
<1>5. r \in Row /\ muted \in BOOLEAN
    BY <1>0, <1>2 DEF isMuted
<1>6. n \in Nat /\ (n = 0 => r = row /\ muted = isMuted)
    OBVIOUS
<1>7. seen.fails \in 0..MinFails /\ seen.down \in 0..Delay /\ seen.quiet \in Ticks /\ seen.lost \in Losses
    BY <1>0 DEF History
<1>8. fails \in 0..MinFails /\ down \in 0..Delay
    BY <1>7, PolicyNumbers DEF AtMost
<1> HIDE DEF failures, fails, down, asks
<1>9. /\ seen' \in History /\ seen'.fails = fails /\ seen'.down = down
      /\ seen'.quiet = seen.quiet /\ seen'.told = seen.told
      /\ seen'.checkMuted = seen.checkMuted
      /\ seen'.lost = {} => seen.lost = {} /\ n = 0
    <2> DEFINE lost == seen.lost \cup (IF n > 0 THEN {"evaluation"} ELSE {})
    <2>1. lost \in Losses /\ (lost = {} => seen.lost = {} /\ n = 0)
        BY <1>6, <1>7 DEF Losses
    <2>2. seen' = [seen EXCEPT !.fails = fails, !.down = down, !.lost = lost]
        BY <1>3
    <2> HIDE DEF lost, n
    <2> QED
        BY <1>0, <1>8, <2>1, <2>2 DEF History
<1>10. /\ plan \in Plan
       /\ plan.send = "alert" => /\ plan.last = "fail" /\ s = "fail" /\ chkMute = 0
                                 /\ ~TooEarly(r) /\ ~muted
       /\ plan.last = "fail" => plan.occ = 0 \/ (s = "fail" /\ plan.occ = Occurrences(r))
       /\ plan.last = "fail" /\ plan.streak = 0 => s = "fail"
       /\ chkMute = 0 =>
             /\ plan.last = "ok" => IF plan.notified THEN plan.msgs = {} ELSE ~PrevFail(r)
             /\ plan.last = "fail" /\ plan.notified => plan.send = "alert"
             /\ plan.send = "recovery" => r.msgs # {}
    BY <1>0, <1>1, <1>5, DecisionMade
<1> HIDE DEF plan
<1>11. /\ ev' \in Evaluation /\ ev'.pc # "idle" /\ ev'.row = r /\ ev'.plan = plan
       /\ ev'.quiet = (seen.quiet > 0)
    BY <1>0, <1>1, <1>3, <1>5, <1>10 DEF Evaluation, plan
<1>12. Typed'
    BY <1>0, <1>3, <1>4, <1>6, <1>9, <1>11, PolicyNumbers DEF Typed
<1>13. MuteInv'
    <2> SUFFICES ASSUME dbErrors' = 0
                 PROVE  seen'.quiet = rowMute' /\ (plan.send = "alert" => ~(seen.quiet > 0))
        BY <1>11 DEF MuteInv
    <2>1. dbErrors = 0 /\ n = 0
        BY <1>0, <1>3, <1>6
    <2>2. seen.quiet = rowMute /\ muted = isMuted
        BY <1>0, <1>6, <2>1 DEF MuteInv
    <2> QED
        BY <1>4, <1>9, <1>10, <2>2 DEF isMuted
<1>14. ASSUME seen'.lost = {} PROVE OutageInv'
    <2>1. r = row /\ OutageInv
        BY <1>6, <1>9, <1>14 DEF AlertInv
    <2>2. /\ PrevFail(r) => r.occ <= seen.fails
          /\ PrevFail(r) /\ r.streak = 0 => seen.fails > 0 /\ age <= seen.down
        BY <1>0, <2>1 DEF OutageInv, Busy
    <2>3. s = "fail" => fails > 0 /\ Occurrences(r) <= fails
        BY <1>5, <1>7, <2>2, OccurrencesTyped, PolicyNumbers DEF fails, AtMost
    <2>4. plan.last = "fail" => plan.occ <= fails
        BY <1>8, <1>10, <2>3
    <2>5. s = "fail" /\ PrevFail(r) /\ r.streak = 0 => age <= down
        BY <2>2 DEF down
    <2>6. ASSUME plan.last = "fail", plan.streak = 0
          PROVE  /\ fails > 0
                 /\ ~r.exists \/ (r.last # "fail" \/ r.streak > 0) \/ age <= down
        <3>1. s = "fail"
            BY <1>10, <2>6
        <3>2. r.streak = 0 \/ r.streak > 0
            BY <1>5, OccurrencesTyped
        <3> QED
            BY <2>3, <2>5, <3>1, <3>2 DEF PrevFail
    <2>7. ASSUME plan.send = "alert", r.msgs = {}
          PROVE  fails >= MinFails /\ down >= Delay
        <3>1. s = "fail" /\ Waited(r) >= Delay /\ Occurrences(r) >= MinFails
            <4>1. Waited(r) \in 0..Delay /\ Occurrences(r) \in 1..MinFails
                BY <1>0, <1>5, OccurrencesTyped, PolicyNumbers DEF Waited
            <4> QED
                BY <1>10, <2>7, <4>1, PolicyNumbers DEF TooEarly
        <3>2. fails >= MinFails
            BY <1>5, <1>8, <2>3, <3>1, OccurrencesTyped, PolicyNumbers
        <3>3. down >= Delay
            BY <1>0, <1>7, <1>8, <2>5, <3>1, PolicyNumbers DEF Waited
        <3> QED
            BY <3>2, <3>3
    <2> QED
        BY <1>4, <1>9, <1>11, <2>1, <2>4, <2>6, <2>7 DEF OutageInv, Busy, Restarted
<1>15. ASSUME seen'.lost = {}, ~seen'.checkMuted PROVE ThreadInv'
    <2>1. r = row /\ ThreadInv
        BY <1>6, <1>9, <1>15 DEF AlertInv
    <2> QED
        BY <1>4, <1>9, <1>10, <1>11, <2>1 DEF ThreadInv, Busy
<1> QED
    BY <1>12, <1>13, <1>14, <1>15 DEF AlertInv

\* The evaluation writes its rows. When both writes succeed the row is the planned one.
LEMMA StoreStep ==
    ASSUME AlertInv, Store
    PROVE  AlertInv'
<1>0. /\ Typed /\ MuteInv /\ seen \in History /\ ev \in Evaluation /\ ev.pc = "store"
      /\ row \in Row /\ age \in 0..Delay /\ dbErrors \in Nat
      /\ ev.row \in Row /\ ev.plan \in Plan
      /\ inc \in {"none", "open", "acked", "recovered"}
    BY PolicyNumbers DEF AlertInv, Typed, Evaluation, Store
<1> DEFINE failures(incOk, rowOk) == (IF incOk THEN 0 ELSE 1) + (IF rowOk THEN 0 ELSE 1)
           stored(rowOk) == rowOk /\ (ev.row.exists \/ ~row.exists)
           news == IF ev.plan.send = "alert" THEN ev.plan.msgs ELSE {}
           link(incOk) == ev.plan.link /\ incOk /\ syncIncident(ev.plan.last) # "none"
<1>1. PICK incOk \in BOOLEAN, rowOk \in BOOLEAN :
         /\ dbErrors + failures(incOk, rowOk) <= MaxDbErrors
         /\ dbErrors' = dbErrors + failures(incOk, rowOk)
         /\ inc' = IF incOk THEN syncIncident(ev.plan.last) ELSE inc
         /\ row' = IF ~stored(rowOk) THEN row ELSE updateState(link(incOk))
         /\ age' = IF stored(rowOk) /\ Restarted THEN 0 ELSE age
         /\ seen' = [seen EXCEPT
               !.told = IF stored(rowOk) /\ ev.plan.last = "ok" THEN {} ELSE seen.told \cup news,
               !.lost = IF stored(rowOk) THEN seen.lost ELSE seen.lost \cup Loss]
    BY DEF Store
<1>2. UNCHANGED <<rowMute, memMute, chkMute, chats, reach, crashes>>
    BY DEF Store, mutes
<1>3. ev' \in Evaluation /\ ev'.pc = "idle"
    BY <1>0, Ended DEF Store
<1> DEFINE n == failures(incOk, rowOk)
           st == stored(rowOk)
           incident == link(incOk)
<1>4. n \in Nat /\ news \in SUBSET AllChats
    BY <1>0 DEF Plan
<1>5. st \in BOOLEAN /\ incident \in BOOLEAN
    BY <1>0 DEF Row, Plan
<1> HIDE DEF failures, stored, news, link
<1>6. /\ seen' \in History /\ seen'.fails = seen.fails /\ seen'.down = seen.down
      /\ seen'.quiet = seen.quiet /\ seen'.checkMuted = seen.checkMuted
      /\ seen'.lost = {} => seen.lost = {} /\ st
      /\ seen'.told = IF st /\ ev.plan.last = "ok" THEN {} ELSE seen.told \cup news
    <2> DEFINE told == IF st /\ ev.plan.last = "ok" THEN {} ELSE seen.told \cup news
               lost == IF st THEN seen.lost ELSE seen.lost \cup Loss
    <2>1. told \in SUBSET AllChats /\ lost \in Losses /\ (lost = {} => seen.lost = {} /\ st)
        BY <1>0, <1>4, <1>5 DEF Loss, Losses, History
    <2>2. seen' = [seen EXCEPT !.told = told, !.lost = lost]
        BY <1>1
    <2> HIDE DEF lost, told
    <2>3. /\ seen' \in History /\ seen'.fails = seen.fails /\ seen'.down = seen.down
          /\ seen'.quiet = seen.quiet /\ seen'.checkMuted = seen.checkMuted
          /\ seen'.lost = lost /\ seen'.told = told
        BY <1>0, <2>1, <2>2 DEF History
    <2> QED
        BY <2>1, <2>3 DEF told
<1> DEFINE next == updateState(incident)
<1>7. /\ next \in Row /\ next.exists
      /\ next.last = ev.plan.last /\ next.occ = ev.plan.occ
      /\ next.streak = ev.plan.streak
      /\ next.msgs = IF ev.plan.notified THEN ev.plan.msgs ELSE ev.row.msgs
    BY <1>0, <1>5 DEF updateState, Row, Plan
<1> HIDE DEF next
<1>12. row' = IF st THEN next ELSE row
    BY <1>1 DEF next
<1>8. Typed'
    <2>1. row' \in Row /\ age' \in 0..Delay
        BY <1>0, <1>1, <1>7, <1>12, PolicyNumbers
    <2>2. inc' \in {"none", "open", "acked", "recovered"}
        BY <1>0, <1>1 DEF syncIncident
    <2>3. dbErrors' \in 0..MaxDbErrors
        BY <1>0, <1>1, <1>4, PolicyNumbers
    <2> QED
        BY <1>0, <1>2, <1>3, <1>6, <2>1, <2>2, <2>3 DEF Typed
<1>9. MuteInv'
    BY <1>0, <1>1, <1>2, <1>3, <1>4, <1>6 DEF MuteInv, Busy
<1>10. ASSUME seen'.lost = {} PROVE OutageInv'
    <2>1. st /\ OutageInv
        BY <1>6, <1>10 DEF AlertInv
    <2>2. row' = next /\ age' = (IF Restarted THEN 0 ELSE age)
        BY <1>1, <1>12, <2>1
    <2>3. seen.down \in 0..Delay /\ seen.fails \in 0..MinFails
        BY <1>0 DEF History
    <2>4. /\ ev.plan.last = "fail" => ev.plan.occ <= seen.fails
          /\ ev.plan.last = "fail" /\ ev.plan.streak = 0 => seen.fails > 0 /\ age' <= seen.down
        BY <1>0, <2>1, <2>2, <2>3, PolicyNumbers DEF OutageInv, Busy
    <2> QED
        BY <1>3, <1>6, <1>7, <2>2, <2>4 DEF OutageInv, Busy, PrevFail
<1>11. ASSUME seen'.lost = {}, ~seen'.checkMuted PROVE ThreadInv'
    <2>1. st /\ ThreadInv
        BY <1>6, <1>11 DEF AlertInv
    <2>2. row' = next
        BY <1>12, <2>1
    <2>3. ev.plan.last \in {"ok", "fail"}
        BY <1>0 DEF Plan
    <2>4. CASE ev.plan.last = "ok"
        BY <1>0, <1>2, <1>3, <1>7, <2>1, <2>2, <2>4 DEF ThreadInv, Busy
    <2>5. CASE ev.plan.last = "fail"
        <3>1. ev.plan.notified => ev.plan.send = "alert"
            BY <1>0, <2>1, <2>5 DEF ThreadInv, Busy
        <3>2. seen'.told = seen.told \cup news
            BY <1>6, <2>5
        <3>3. row'.msgs # {} => seen'.told # {}
            BY <1>0, <1>7, <2>1, <2>2, <3>1, <3>2 DEF ThreadInv, Busy, news
        <3> QED
            BY <1>2, <1>3, <1>7, <2>1, <2>2, <2>5, <3>3 DEF ThreadInv, Busy, PrevFail
    <2> QED
        BY <2>3, <2>4, <2>5
<1> QED
    BY <1>8, <1>9, <1>10, <1>11 DEF AlertInv

------------------------------------------------------------------------------
LEMMA AlertStart == Init => AlertInv
<1> SUFFICES ASSUME Init PROVE AlertInv
    OBVIOUS
<1>1. NoRow \in Row /\ NoPlan \in Plan
    BY PolicyNumbers DEF NoRow, Row, NoPlan, Plan
<1>2. ev \in Evaluation /\ seen \in History
    BY <1>1, PolicyNumbers DEF Init, Evaluation, History, Losses
<1>3. Typed
    BY <1>1, <1>2, PolicyNumbers DEF Init, Typed
<1>4. MuteInv /\ OutageInv /\ ThreadInv
    BY DEF Init, MuteInv, OutageInv, ThreadInv, Busy, PrevFail, NoRow
<1> QED
    BY <1>3, <1>4 DEF AlertInv

LEMMA AlertStep == AlertInv /\ [Next]_vars => AlertInv'
<1> SUFFICES ASSUME AlertInv, [Next]_vars PROVE AlertInv'
    OBVIOUS
<1>1. CASE UNCHANGED vars
    BY <1>1 DEF vars, AlertInv, Typed, MuteInv, OutageInv, ThreadInv, Busy, Restarted, PrevFail
<1>2. CASE Evaluate
    BY <1>2, SampleStep, TelegramSteps, StoreStep DEF Evaluate
<1>3. CASE RetryAlert
    BY <1>3, SampleStep DEF RetryAlert
<1> QED
    BY <1>1, <1>2, <1>3, MuteSteps, WorldSteps, TickStep, CrashStep DEF Next

LEMMA AlertEnough == AlertInv => TypeOK /\ NoEarlyAlert /\ MuteHolds /\ RecoveryOnlyIfTold
<1> SUFFICES ASSUME AlertInv
             PROVE  TypeOK /\ NoEarlyAlert /\ MuteHolds /\ RecoveryOnlyIfTold
    OBVIOUS
<1>1. TypeOK
    BY DEF AlertInv, Typed, TypeOK, Evaluation, History, Losses
<1>2. NoEarlyAlert
    BY DEF AlertInv, OutageInv, Busy, NoEarlyAlert
<1>3. MuteHolds
    BY DEF AlertInv, MuteInv, Busy, MuteHolds
<1>4. RecoveryOnlyIfTold
    BY DEF AlertInv, ThreadInv, Busy, RecoveryOnlyIfTold
<1> QED
    BY <1>1, <1>2, <1>3, <1>4

\* Every variable keeps its type: counters stay in their bounds although samples,
\* buttons and time come in any order.
THEOREM AlertTyped == Spec => []TypeOK
BY AlertStart, AlertStep, AlertEnough, PTL DEF Spec

\* maybeSendAlert: with no evaluation lost, a first message needs MinFails fail samples
\* in a row and the offline delay, for every policy and every check.
THEOREM NoAlertTooEarly == Spec => []NoEarlyAlert
BY AlertStart, AlertStep, AlertEnough, PTL DEF Spec

\* A confirmed and stored mute keeps alerts away until it is over, whatever number of
\* restarts empties Service.mutedUntil.
THEOREM MutesHold == Spec => []MuteHolds
BY AlertStart, AlertStep, AlertEnough, PTL DEF Spec

\* No recovery is announced of an outage that was not.
THEOREM RecoveriesOnlyIfTold == Spec => []RecoveryOnlyIfTold
BY AlertStart, AlertStep, AlertEnough, PTL DEF Spec
==============================================================================
