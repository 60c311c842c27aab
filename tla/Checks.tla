-------------------------------- MODULE Checks --------------------------------
(***************************************************************************)
(* Monitoring of one node with a service and a bot: the checks worker      *)
(* (backend/internal/services/checks/worker.go), the connection worker     *)
(* (services/nodecheck/worker.go), and the handlers that edit what they    *)
(* read (internal/http/{services,bots,checks,nodes}.go).                   *)
(*                                                                         *)
(* The worker reads the tables once per tick and then probes for as long   *)
(* as it takes; users edit, delete and press "run now" meanwhile. Services *)
(* and bots are one target each, docker stands for the two bot kinds that  *)
(* are probed over SSH. Ages are kept up to the moment a check is due.     *)
(***************************************************************************)
EXTENDS Integers, FiniteSets

CONSTANTS
    ChkIds,        \* bound on rows of checks ever made: ids 1..ChkIds
    ChkInterval,   \* interval_sec, in ticks
    ChkEdits       \* bound on what users and the node do

ASSUME ChkAssumption ==
    /\ ChkIds \in Nat \ {0} /\ ChkInterval \in Nat \ {0} /\ ChkEdits \in Nat

VARIABLES
    host,      \* the node: its row, its SSH port, freshness of agent_last_seen_at
    target,    \* the rows of services and bots
    chk,       \* the rows of checks
    age,       \* age of the newest result of a check
    wage,      \* history: age of the newest one the worker stored
    wk,        \* the checks worker
    man,       \* RunNowService or RunNowBot
    ed,        \* a request that has read a row it is going to save or delete
    conn,      \* the connection worker, and what it found and reported last
    withheld,  \* checks whose last sample was a failure not reported
    unwatched, \* history: targets that lost a check to DeleteCheck
    chkEdits

chkVars == <<host, target, chk, age, wage, wk, man, ed, conn, withheld,
             unwatched, chkEdits>>

Due == ChkInterval + 1
Ids == 1..ChkIds
Things == {"service", "bot"}
Types == {"http", "ftp", "docker"}
Kinds(t) == IF t = "service" THEN {"web", "ftp"} ELSE {"http", "docker"}
Outcomes == {"ok", "fail", "transport"}


\* The SSH server: it answers, nothing listens, or it accepts and says nothing more.
Ports == {"up", "down", "stuck"}
Host == [live : BOOLEAN, enabled : BOOLEAN, ssh : Ports, agent : 0..2]
Thing == [live : BOOLEAN, enabled : BOOLEAN, kind : {"web", "ftp", "http", "docker"}]
Check == [st : {"none", "live", "gone"}, target : Things \cup {"node"},
          type : Types, enabled : BOOLEAN]

NoCheck == [st |-> "none", target |-> "service", type |-> "http", enabled |-> TRUE]
NewCheck(t, type) == [st |-> "live", target |-> t, type |-> type, enabled |-> TRUE]
NoEdit == [pc |-> "idle", id |-> 0, row |-> NoCheck, target |-> "service",
           thing |-> [live |-> TRUE, enabled |-> TRUE, kind |-> "web"]]
NoMan == [pc |-> "idle", target |-> "service", id |-> 0, type |-> "http", agent |-> 2]

ChkTypeOK ==
    /\ host \in Host
    /\ target \in [Things -> Thing]
    /\ chk \in [Ids -> Check]
    /\ age \in [Ids -> 0..Due] /\ wage \in [Ids -> 0..Due]
    /\ wk.pc \in {"start", "idle", "maps", "run", "probe"}
    /\ wk.todo \subseteq Ids /\ wk.cur \in Ids \cup {0} /\ wk.agent \in 0..2
    /\ wk.rows \in [Ids -> Check] /\ wk.blind \in BOOLEAN
    /\ man \in [pc : {"idle", "create", "probe"}, target : Things, id : Ids \cup {0},
                type : Types, agent : 0..2]
    /\ ed \in [pc : {"idle", "saveTarget", "saveCheck", "deleteCheck"},
               id : Ids \cup {0}, row : Check, target : Things, thing : Thing]
    /\ conn \in [pc : {"idle", "probe"}, agent : 0..2,
                 raw : {"none", "ok", "fail"}, told : {"none", "ok", "fail"}]
    /\ withheld \subseteq Ids
    /\ unwatched \subseteq Things
    /\ chkEdits \in 0..ChkEdits

ChkInit ==
    /\ host = [live |-> TRUE, enabled |-> TRUE, ssh |-> "up", agent |-> 2]
    /\ target = [t \in Things |->
                    [live |-> t = "service", enabled |-> TRUE,
                     kind |-> IF t = "service" THEN "web" ELSE "docker"]]
    /\ chk = [c \in Ids |-> IF c = 1 THEN NewCheck("service", "http") ELSE NoCheck]
    /\ age = [c \in Ids |-> Due] /\ wage = [c \in Ids |-> Due]
    /\ wk = [pc |-> "start", rows |-> [c \in Ids |-> NoCheck], todo |-> {},
             cur |-> 0, agent |-> 2, blind |-> FALSE]
    /\ man = NoMan /\ ed = NoEdit
    /\ conn = [pc |-> "idle", agent |-> 2, raw |-> "none", told |-> "none"]
    /\ withheld = {} /\ unwatched = {}
    /\ chkEdits = 0

------------------------------------------------------------------------------
(* Rows of checks *)

ChecksOf(t) == {c \in Ids : chk[c].st = "live" /\ chk[c].target = t}
Unused == {c \in Ids : chk[c].st = "none"}
NextId == CHOOSE c \in Unused : \A d \in Unused : c <= d

\* Mutant: the kind itself is written as the check's type.
ServiceCheckTypeRaw(kind) == kind

ServiceCheckType(kind) == IF kind = "ftp" THEN "ftp" ELSE "http"

DefaultType(t, kind) == IF t = "service" THEN ServiceCheckType(kind) ELSE kind

\* createDefaultCheck and createDefaultBotCheck: only where there is none.
WithDefault(rows, t, kind) ==
    IF ChecksOf(t) # {} THEN rows
    ELSE [rows EXCEPT ![NextId] = NewCheck(t, DefaultType(t, kind))]

\* Mutant: an edit only retypes the checks there are.
WithSyncedRetypesOnly(t, kind) ==
    [c \in Ids |-> IF c \in ChecksOf(t)
                   THEN [chk[c] EXCEPT !.type = DefaultType(t, kind)] ELSE chk[c]]

\* syncServiceChecks retypes the checks of the service and makes the default one
\* when there were none; UpdateBot only retypes.
WithSynced(t, kind) ==
    IF ChecksOf(t) = {} /\ t = "service" THEN WithDefault(chk, t, kind)
    ELSE [c \in Ids |-> IF c \in ChecksOf(t)
                        THEN [chk[c] EXCEPT !.type = DefaultType(t, kind)] ELSE chk[c]]

Dropped(C) == [c \in Ids |-> IF c \in C THEN [chk[c] EXCEPT !.st = "gone"] ELSE chk[c]]
Forgets(C) ==
    /\ age' = [c \in Ids |-> IF c \in C THEN Due ELSE age[c]]
    /\ wage' = [c \in Ids |-> IF c \in C THEN Due ELSE wage[c]]
    /\ withheld' = withheld \ C

Edits == chkEdits < ChkEdits /\ chkEdits' = chkEdits + 1

------------------------------------------------------------------------------
(* Handlers *)

\* The row that a request describes: buildServiceFromRequest, buildBotFromRequest.
Built(kind, enabled) == [live |-> TRUE, enabled |-> enabled, kind |-> kind]

\* One transaction for the row and its default check.
CreateTarget(t, kind) ==
    /\ Edits /\ host.live /\ ~target[t].live /\ Unused # {}
    /\ target' = [target EXCEPT ![t] = Built(kind, TRUE)]
    /\ chk' = WithDefault(chk, t, kind)
    /\ UNCHANGED <<host, age, wage, wk, man, ed, conn, withheld, unwatched>>

CreateServiceGlobal(kind) == CreateTarget("service", kind)
CreateService(kind) == CreateTarget("service", kind)
CreateBot(kind) == CreateTarget("bot", kind)

\* The row is read and the copy changed.
UpdateTarget(t, kind, enabled) ==
    /\ Edits /\ ed.pc = "idle" /\ target[t].live
    /\ ed' = [NoEdit EXCEPT !.pc = "saveTarget", !.target = t,
                            !.thing = Built(kind, enabled)]
    /\ UNCHANGED <<host, target, chk, age, wage, wk, man, conn, withheld, unwatched>>

UpdateService(kind, enabled) == UpdateTarget("service", kind, enabled)
UpdateBot(kind, enabled) == UpdateTarget("bot", kind, enabled)

\* gorm's Save inserts a row that is gone, with TRUE for an enabled that is FALSE
\* (default:true).
Saved(row, there) == [row EXCEPT !.enabled = @ \/ ~there]

\* One transaction: the whole row is saved (a deleted one is inserted again,
\* unless its node is gone too) and the checks follow the kind.
SaveTarget ==
    /\ ed.pc = "saveTarget"
    /\ IF host.live
       THEN /\ ChecksOf(ed.target) = {} => Unused # {}
            /\ target' = [target EXCEPT ![ed.target] = Saved(ed.thing, target[ed.target].live)]
            /\ chk' = WithSynced(ed.target, ed.thing.kind)
       ELSE UNCHANGED <<target, chk>>
    /\ ed' = NoEdit
    /\ UNCHANGED <<host, age, wage, wk, man, conn, withheld, unwatched, chkEdits>>

\* Results, checks, alert states and the row, in one transaction.
DeleteTarget(t) ==
    /\ Edits /\ target[t].live
    /\ target' = [target EXCEPT ![t].live = FALSE]
    /\ chk' = Dropped(ChecksOf(t))
    /\ Forgets(ChecksOf(t))
    /\ unwatched' = unwatched \ {t}
    /\ UNCHANGED <<host, wk, man, ed, conn>>

DeleteService == DeleteTarget("service")
DeleteBot == DeleteTarget("bot")

\* deleteNodeRecords: the node with everything that hangs on it.
DeleteNode ==
    /\ Edits /\ host.live
    /\ host' = [host EXCEPT !.live = FALSE]
    /\ target' = [t \in Things |-> [target[t] EXCEPT !.live = FALSE]]
    /\ LET all == {c \in Ids : chk[c].st = "live"
                               /\ (chk[c].target = "node" \/ target[chk[c].target].live)}
       IN  chk' = Dropped(all) /\ Forgets(all)
    /\ unwatched' = {}
    /\ UNCHANGED <<wk, man, ed, conn>>

EnableNode(on) ==
    /\ Edits /\ host.live /\ host.enabled # on
    /\ host' = [host EXCEPT !.enabled = on]
    /\ UNCHANGED <<target, chk, age, wage, wk, man, ed, conn, withheld, unwatched>>

InsertCheck(t, type) ==
    /\ Edits /\ Unused # {}
    /\ IF t = "node" THEN host.live ELSE target[t].live
    /\ chk' = [chk EXCEPT ![NextId] = NewCheck(t, type)]
    /\ UNCHANGED <<host, target, age, wage, wk, man, ed, conn, withheld, unwatched>>

CreateNodeCheck(type) == InsertCheck("node", type)
CreateServiceCheck(type) == InsertCheck("service", type)

UpdateCheck(c, type, enabled) ==
    /\ Edits /\ ed.pc = "idle" /\ chk[c].st = "live"
    /\ ed' = [NoEdit EXCEPT !.pc = "saveCheck", !.id = c,
                            !.row = [chk[c] EXCEPT !.type = type, !.enabled = enabled]]
    /\ UNCHANGED <<host, target, chk, age, wage, wk, man, conn, withheld, unwatched>>

\* The whole row; a deleted check comes back.
SaveCheck ==
    /\ ed.pc = "saveCheck"
    /\ chk' = [chk EXCEPT ![ed.id] = Saved(ed.row, chk[ed.id].st = "live")]
    /\ ed' = NoEdit
    /\ UNCHANGED <<host, target, age, wage, wk, man, conn, withheld, unwatched, chkEdits>>

\* DeleteCheck: first the results,
DeleteResults(c) ==
    /\ Edits /\ ed.pc = "idle" /\ chk[c].st = "live"
    /\ Forgets({c})
    /\ ed' = [NoEdit EXCEPT !.pc = "deleteCheck", !.id = c]
    /\ UNCHANGED <<host, target, chk, wk, man, conn, unwatched>>

\* then, in a second statement, the check; newer results go with it.
DeleteCheck ==
    /\ ed.pc = "deleteCheck"
    /\ \/ /\ chk' = Dropped({ed.id} \cap {c \in Ids : chk[c].st = "live"})
          /\ Forgets({ed.id})
          /\ unwatched' = unwatched \cup ({chk[ed.id].target} \cap Things)
       \/ UNCHANGED <<chk, age, wage, withheld, unwatched>>
    /\ ed' = NoEdit
    /\ UNCHANGED <<host, target, wk, man, conn, chkEdits>>

------------------------------------------------------------------------------
(* Probes, retries included: the results there can be. "transport" is an error *)
(* that isSSHTransportFailure takes for one, whatever was dialled.             *)

checkHTTP == Outcomes
checkFTP == Outcomes

\* Only the dial has a timeout here: while the server accepts and says no more, a
\* command has no outcome.
runSSHCommand ==
    CASE host.ssh = "up" -> {"ok", "fail"}
      [] host.ssh = "down" -> {"transport"}
      [] host.ssh = "stuck" -> {}

executeServiceCheck(type) == IF type = "ftp" THEN checkFTP ELSE checkHTTP

\* With sudo or without, the same connection is tried.
executeDockerCheck == runSSHCommand

executeBotCheck(type) == IF type = "docker" THEN executeDockerCheck ELSE checkHTTP

Answers(t, type) ==
    IF t = "service" THEN executeServiceCheck(type) ELSE executeBotCheck(type)

\* shouldSuppressGenericAlert; a is the freshness of the agent in the row that
\* was read, as it is judged now: 0 within 90 seconds.
shouldSuppressGenericAlert(type, res, a) == type = "docker" /\ res = "transport" /\ a = 0

\* A result is stored if the check is still there; the error of a failing insert is
\* dropped.
storeResult(c, fails) ==
    /\ IF fails THEN Edits ELSE UNCHANGED chkEdits
    /\ age' = IF chk[c].st = "live" /\ ~fails THEN [age EXCEPT ![c] = 0] ELSE age

storedByWorker(c, fails) ==
    wage' = IF chk[c].st = "live" /\ ~fails THEN [wage EXCEPT ![c] = 0] ELSE wage

Notify(c, type, res, a) ==
    withheld' = IF shouldSuppressGenericAlert(type, res, a)
                THEN withheld \cup {c} ELSE withheld \ {c}

------------------------------------------------------------------------------
(* The worker *)

Rests == wk' = [wk EXCEPT !.pc = "idle", !.todo = {}, !.cur = 0, !.agent = 2,
                          !.blind = FALSE, !.rows = [c \in Ids |-> NoCheck]]

\* backfillServiceChecks and backfillBotChecks, one statement each; one that fails
\* is logged and nothing more.
Backfill ==
    /\ wk.pc = "start"
    /\ \E bare \in SUBSET {t \in Things : target[t].live /\ ChecksOf(t) = {}} :
           /\ Cardinality(bare) <= Cardinality(Unused)
           /\ chk' = [c \in Ids |->
                 IF c \in Unused /\ \E t \in bare :
                       c = NextId + (IF t = "bot" /\ "service" \in bare THEN 1 ELSE 0)
                 THEN LET t == CHOOSE t \in bare :
                             c = NextId + (IF t = "bot" /\ "service" \in bare THEN 1 ELSE 0)
                      IN  NewCheck(t, DefaultType(t, target[t].kind))
                 ELSE chk[c]]
    /\ Rests
    /\ UNCHANGED <<host, target, age, wage, man, ed, conn, withheld, unwatched, chkEdits>>

\* runOnce: the enabled checks of services and bots are read,
TickChecks ==
    /\ wk.pc = "idle"
    /\ LET todo == {c \in Ids : chk[c].st = "live" /\ chk[c].enabled /\ chk[c].target \in Things}
       IN  wk' = [wk EXCEPT !.pc = "maps", !.todo = todo,
                            !.rows = [c \in Ids |-> IF c \in todo THEN chk[c] ELSE NoCheck]]
    /\ UNCHANGED <<host, target, chk, age, wage, man, ed, conn, withheld, unwatched,
                   chkEdits>>

\* Mutant: the results are loaded oldest first.
isDueOldest(c) == TRUE

isDue(c) == age[c] > ChkInterval

\* What the worker can know of: a table whose query fails counts as empty.
Read(c, lost) ==
    LET t == wk.rows[c].target
    IN  /\ {"nodes", t} \cap lost = {}
        /\ target[t].live /\ target[t].enabled /\ host.live /\ host.enabled

\* then nodes, services, bots and the newest results. What is not due, switched
\* off or unknown is passed over; without the results everything is due.
TickMaps ==
    /\ wk.pc = "maps"
    /\ \E lost \in SUBSET (Things \cup {"nodes", "results"}) :
          /\ IF lost = {} THEN UNCHANGED chkEdits ELSE Edits
          /\ wk' = [wk EXCEPT !.pc = "run", !.agent = host.agent,
                              !.blind = "results" \in lost,
                              !.todo = {c \in wk.todo : /\ isDue(c) \/ "results" \in lost
                                                        /\ Read(c, lost)}]
    /\ UNCHANGED <<host, target, chk, age, wage, man, ed, conn, withheld, unwatched>>

RunNext ==
    /\ wk.pc = "run"
    /\ IF wk.todo = {} THEN Rests
       ELSE \E c \in wk.todo :
               wk' = [wk EXCEPT !.pc = "probe", !.cur = c, !.todo = wk.todo \ {c}]
    /\ UNCHANGED <<host, target, chk, age, wage, man, ed, conn, withheld, unwatched,
                   chkEdits>>

\* Mutant: a failing check ends the loop.
RunCheckStops ==
    /\ wk.pc = "probe"
    /\ \E res \in Answers(wk.rows[wk.cur].target, wk.rows[wk.cur].type), a \in wk.agent..2,
          fails \in BOOLEAN :
          /\ storeResult(wk.cur, fails) /\ storedByWorker(wk.cur, fails)
          /\ Notify(wk.cur, wk.rows[wk.cur].type, res, a)
          /\ wk' = IF res = "ok" THEN [wk EXCEPT !.pc = "run"]
                   ELSE [wk EXCEPT !.pc = "run", !.todo = {}]
    /\ UNCHANGED <<host, target, chk, man, ed, conn, unwatched>>

RunCheck ==
    /\ wk.pc = "probe"
    /\ \E res \in Answers(wk.rows[wk.cur].target, wk.rows[wk.cur].type), a \in wk.agent..2,
          fails \in BOOLEAN :
          /\ storeResult(wk.cur, fails) /\ storedByWorker(wk.cur, fails)
          /\ Notify(wk.cur, wk.rows[wk.cur].type, res, a)
          /\ wk' = [wk EXCEPT !.pc = "run"]
    /\ UNCHANGED <<host, target, chk, man, ed, conn, unwatched>>

------------------------------------------------------------------------------
(* Run now *)

\* The newest enabled check of the target; neither the target nor its node need
\* be enabled.
RunNowRead(t) ==
    /\ Edits /\ man.pc = "idle"
    /\ target[t].live /\ host.live
    /\ LET on == {c \in ChecksOf(t) : chk[c].enabled}
           newest == CHOOSE c \in on : \A d \in on : d <= c
       IN  man' = [pc |-> IF on = {} THEN "create" ELSE "probe",
                   target |-> t, agent |-> host.agent,
                   id |-> IF on = {} THEN 0 ELSE newest,
                   type |-> IF on = {} THEN DefaultType(t, target[t].kind)
                            ELSE chk[newest].type]
    /\ UNCHANGED <<host, target, chk, age, wage, wk, ed, conn, withheld, unwatched>>

RunNowService == RunNowRead("service")
RunNowBot == RunNowRead("bot")

\* There was none: one is made, whatever else has made one meanwhile.
RunNowCreate ==
    /\ man.pc = "create" /\ Unused # {}
    /\ chk' = [chk EXCEPT ![NextId] = NewCheck(man.target, man.type)]
    /\ man' = [man EXCEPT !.pc = "probe", !.id = NextId]
    /\ UNCHANGED <<host, target, age, wage, wk, ed, conn, withheld, unwatched, chkEdits>>

RunNowProbe ==
    /\ man.pc = "probe"
    /\ \E res \in Answers(man.target, man.type), a \in man.agent..2, fails \in BOOLEAN :
          storeResult(man.id, fails) /\ Notify(man.id, man.type, res, a)
    /\ man' = NoMan
    /\ UNCHANGED <<host, target, chk, wage, wk, ed, conn, unwatched>>

------------------------------------------------------------------------------
(* The connection worker *)

ConnRead ==
    /\ conn.pc = "idle" /\ host.live /\ host.enabled
    /\ conn' = [conn EXCEPT !.pc = "probe", !.agent = host.agent]
    /\ UNCHANGED <<host, target, chk, age, wage, wk, man, ed, withheld, unwatched, chkEdits>>

\* shouldSuppressSSHTransportAlert: the agent was seen within 3 minutes.
shouldSuppressSSHTransportAlert(a) == a <= 1

\* It dials and hangs up: a server that accepts is well.
ConnNotify ==
    /\ conn.pc = "probe"
    /\ LET raw == IF host.ssh = "down" THEN "fail" ELSE "ok"
       IN  \E a \in conn.agent..2 :
              conn' = [pc |-> "idle", agent |-> 2, raw |-> raw,
                       told |-> IF raw = "fail" /\ shouldSuppressSSHTransportAlert(a)
                                THEN "ok" ELSE raw]
    /\ UNCHANGED <<host, target, chk, age, wage, wk, man, ed, withheld, unwatched, chkEdits>>

------------------------------------------------------------------------------
(* The world *)

\* A server that is stuck may come to itself, or close, at any time.
SshPort(state) ==
    /\ host.ssh # state
    /\ IF host.ssh = "stuck" THEN UNCHANGED chkEdits ELSE Edits
    /\ host' = [host EXCEPT !.ssh = state]
    /\ UNCHANGED <<target, chk, age, wage, wk, man, ed, conn, withheld, unwatched>>

\* The agent is polled or reports (0), or some time passes without (1, 2).
AgentSeen(a) ==
    /\ Edits /\ host.live /\ host.agent # a /\ (a = 0 \/ a = host.agent + 1)
    /\ host' = [host EXCEPT !.agent = a]
    /\ UNCHANGED <<target, chk, age, wage, wk, man, ed, conn, withheld, unwatched>>

Older(n) == IF n < Due THEN n + 1 ELSE n

ChkTick ==
    /\ age' = [c \in Ids |-> Older(age[c])]
    /\ wage' = [c \in Ids |-> Older(wage[c])]
    /\ UNCHANGED <<host, target, chk, wk, man, ed, conn, withheld, unwatched, chkEdits>>

\* The process dies and is started again.
ChkRestart ==
    /\ Edits /\ wk.pc # "start"
    /\ wk' = [pc |-> "start", rows |-> [c \in Ids |-> NoCheck], todo |-> {}, cur |-> 0,
              agent |-> 2, blind |-> FALSE]
    /\ man' = NoMan /\ ed' = NoEdit
    /\ conn' = [conn EXCEPT !.pc = "idle", !.agent = 2]
    /\ UNCHANGED <<host, target, chk, age, wage, withheld, unwatched>>

------------------------------------------------------------------------------
ChkWorker == Backfill \/ TickChecks \/ TickMaps \/ RunNext \/ RunCheck

ChkUsers ==
    \/ \E kind \in Kinds("service") :
          CreateServiceGlobal(kind) \/ CreateService(kind)
          \/ \E on \in BOOLEAN : UpdateService(kind, on)
    \/ \E kind \in Kinds("bot") :
          CreateBot(kind) \/ \E on \in BOOLEAN : UpdateBot(kind, on)
    \/ DeleteService \/ DeleteBot
    \/ RunNowService \/ RunNowBot
    \/ DeleteNode
    \/ \E on \in BOOLEAN : EnableNode(on)
    \/ \E type \in {"http", "ftp"} : CreateNodeCheck(type) \/ CreateServiceCheck(type)
    \/ \E c \in Ids : \/ \E type \in Types, on \in BOOLEAN : UpdateCheck(c, type, on)
                      \/ DeleteResults(c)
    \/ ChkRestart

ChkNext ==
    \/ ChkWorker
    \/ ChkUsers
    \/ SaveTarget \/ SaveCheck \/ DeleteCheck
    \/ RunNowCreate \/ RunNowProbe
    \/ ConnRead \/ ConnNotify
    \/ \E s \in Ports : SshPort(s)
    \/ \E a \in 0..2 : AgentSeen(a)
    \/ ChkTick

ChkSpec == ChkInit /\ [][ChkNext]_chkVars

\* The worker's goroutine runs: its statements return, and so do its probes (HTTP and
\* FTP have deadlines) unless the SSH server is stuck, when RunCheck is not enabled.
\* Time passes.
ChkFairness == WF_chkVars(ChkWorker) /\ WF_chkVars(ChkTick)

------------------------------------------------------------------------------
(* Properties *)

\* README.md: "Backend auto-creates a default HTTP check for each service". A
\* service has a check, unless a user deleted one of its checks - also a service
\* that an edit brings back after a deletion, and one whose checks were retyped,
\* edited or run by hand meanwhile.
ChkServiceWatched ==
    target["service"].live /\ "service" \notin unwatched => ChecksOf("service") # {}

\* The worker keeps the interval of a check: two results it stores of a check
\* whose history was not deleted are further apart than interval_sec, although it
\* judges with results it loaded before it began to probe, and although manual
\* runs store results in between - unless it could not load the results, and then
\* only until the end of that tick.
ChkSpacing ==
    [][\A c \in Ids : wage'[c] = 0 /\ wage[c] # 0 => wage[c] = Due \/ wk.blind]_chkVars

\* A check that stays enabled, of a target and a node that stay enabled, gets
\* results again and again, whatever other checks answer and whatever users do
\* to them - as long as the SSH server of no node is stuck for ever.
ChkChecksGoOn ==
    \A c \in Ids :
        <>[](/\ chk[c].st = "live" /\ chk[c].enabled /\ chk[c].target \in Things
             /\ target[chk[c].target].live /\ target[chk[c].target].enabled
             /\ host.live /\ host.enabled /\ host.ssh # "stuck")
        => []<>(age[c] = 0)

\* shouldSuppressGenericAlert: "If SSH is unreachable, connection alert carries
\* the root cause and generic alerts only add noise." When an alert is withheld
\* and the connection worker found SSH unreachable, it has said so.
ChkRootCauseTold == withheld # {} /\ conn.raw = "fail" => conn.told = "fail"
==============================================================================
