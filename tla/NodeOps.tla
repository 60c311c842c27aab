-------------------------------- MODULE NodeOps --------------------------------
(***************************************************************************)
(* What the items of bulk operations do on one host: the executors         *)
(* (backend/internal/services/ops/{ssh,agent}_executor.go), the deployment *)
(* of the agent in executeItem (services/ops/service.go), the handlers of  *)
(* the agent (cmd/node-agent/main.go) and the edit of a node that saves    *)
(* the same row (internal/http/nodes.go).                                  *)
(*                                                                         *)
(* Items of different jobs run at the same time, on the same node too. A   *)
(* step on the host may fail, and one that the backend has given up may    *)
(* still happen there. Tokens and the data of the host are small numbers.  *)
(* The panel of the host is a service (detectPanelInstall): one in docker  *)
(* is pulled and restarted by the agent without the lock of the others.    *)
(***************************************************************************)
EXTENDS Naturals, FiniteSets

CONSTANTS
    NopItems,      \* the items, 1..n
    NopKindSets,   \* which kinds the items may be of: sets of functions
    NopFaults,     \* bound on steps that fail
    NopReboots,    \* bound on reboots of the host
    NopEdits,      \* bound on edits of the node
    NopReleases    \* releases of the geodata, 0 stands for no file

OpKinds == {"deploy", "rebootAgent", "rebootSSH", "restartAgent", "updateAgent", "updateSSH",
           "remnaInstall", "remnaRun", "vlfProto"}

ASSUME NopAssumption ==
    /\ NopItems \subseteq Nat \ {0} /\ NopKindSets \subseteq [NopItems -> OpKinds]
    /\ {NopFaults, NopReboots, NopEdits} \subseteq Nat /\ NopReleases \in Nat \ {0}

Cron == 0
Tokens == NopItems \cup {0}     \* 0: no token; a deployment makes one of its own
Files == {"geosite", "geoip"}

VARIABLES
    hst,     \* the host
    row,     \* the node's row: agent_token_enc, agent_enabled, agent_installed
    item,    \* the items
    upd,     \* [item -> its update process on the host]
    geo,     \* [item or Cron -> its run of the geodata script on the host]
    edit,    \* UpdateNode: the row it has read
    release, \* the newest release of the geodata
    faults, edits,
    rival    \* history: deployments another writer of the row or host overlapped

nopVars == <<hst, row, item, upd, geo, edit, release, faults, edits, rival>>

NodeRow == [token : Tokens, enabled : BOOLEAN, installed : BOOLEAN]
GeoRuns == NopItems \cup {Cron}

Pcs == {"idle", "probe", "binary", "uploadConf", "installConf", "enable", "restart",
        "contact", "persist", "ask", "confirm", "update", "wait", "compose", "patch",
        "script", "run", "detect", "vlf", "end"}

NopTypeOK ==
    /\ hst \in [boot : 0..NopReboots, agent : Tokens, conf : Tokens, tmp : Tokens,
                unit : BOOLEAN, pending : SUBSET {"reboot", "agent"},
                compose : BOOLEAN, script : BOOLEAN, mounted : BOOLEAN,
                data : [Files -> 0..NopReleases], vlf : {"none", "legacy", "full"}]
    /\ row \in NodeRow
    /\ item \in [NopItems -> [kind : OpKinds, pc : Pcs, row : NodeRow, boot : 0..NopReboots,
                              check : BOOLEAN, patched : BOOLEAN, plan : {"none", "install",
                              "update", "reinstall", "skip", "precheck"}, res : {"none", "success", "failed"}]]
    /\ upd \in [NopItems -> {"off", "run", "ok", "died", "failed"}]
    /\ geo \in [GeoRuns -> [pc : {"off", "begin", "site", "ip", "up", "ok", "failed"},
                            force : BOOLEAN, changed : BOOLEAN, got : 0..NopReleases]]
    /\ edit \in [busy : BOOLEAN, row : NodeRow]
    /\ release \in 1..NopReleases
    /\ faults \in 0..NopFaults /\ edits \in 0..NopEdits
    /\ rival \subseteq NopItems

NoAgent == [token |-> 0, enabled |-> FALSE, installed |-> FALSE]
NoRun == [pc |-> "off", force |-> FALSE, changed |-> FALSE, got |-> 0]

NopInit ==
    /\ hst = [boot |-> 0, agent |-> 0, conf |-> 0, tmp |-> 0, unit |-> FALSE,
              pending |-> {}, compose |-> FALSE, script |-> FALSE, mounted |-> FALSE,
              data |-> [f \in Files |-> 0], vlf |-> "none"]
    /\ row = NoAgent
    /\ \E kinds \in NopKindSets :
          item = [i \in NopItems |->
                    [kind |-> kinds[i], pc |-> "idle", row |-> NoAgent, boot |-> 0,
                     check |-> TRUE, patched |-> FALSE, plan |-> "none", res |-> "none"]]
    /\ upd = [i \in NopItems |-> "off"]
    /\ geo = [g \in GeoRuns |-> NoRun]
    /\ edit = [busy |-> FALSE, row |-> NoAgent]
    /\ release = 1 /\ faults = 0 /\ edits = 0 /\ rival = {}

------------------------------------------------------------------------------
Step(i, here) == item[i].pc = here
Moves(i, to) == item' = [item EXCEPT ![i].pc = to]
Ends(i, res) == item' = [item EXCEPT ![i].pc = "end", ![i].res = res]
IsDeploy(i) == item[i].kind = "deploy"
Deploying == {i \in NopItems : IsDeploy(i) /\ item[i].pc \notin {"idle", "end"}}

authOK(token) == token = hst.agent

\* The agent answers one who knows its token.
AgentAnswers(i) == hst.agent # 0 /\ authOK(item[i].row.token)

\* doRequest, for a node that has its agent enabled.
CanAsk(i) == item[i].row.enabled /\ AgentAnswers(i)

\* main and loadConfig: an agent that starts takes the token of the config, or ends
\* again: a config or allow list that does not parse, a port that is taken. The unit
\* is of Type=simple, so systemctl has returned success before.
AgentStarts(h) == {[h EXCEPT !.agent = token] : token \in {h.conf, 0}}

FirstStep ==
    [k \in OpKinds |->
        CASE k = "deploy" -> "probe"
          [] k \in {"rebootAgent", "restartAgent"} -> "ask"
          [] k \in {"rebootSSH", "updateAgent", "updateSSH"} -> "update"
          [] k = "remnaInstall" -> "compose"
          [] k = "remnaRun" -> "run"
          [] k = "vlfProto" -> "detect"]

\* executeItem: the node is read once.
Begin(i) ==
    /\ Step(i, "idle")
    /\ item' = [item EXCEPT ![i].pc = FirstStep[item[i].kind], ![i].row = row]
    /\ rival' = IF IsDeploy(i) /\ (Deploying # {} \/ edit.busy)
                THEN rival \cup {i} \cup Deploying ELSE rival
    /\ UNCHANGED <<hst, row, upd, geo, edit, release, faults, edits>>

\* A step is refused, fails or runs into the timeout of the item. The command may
\* have been carried out, or still be carried out, on the host.
Faulty == faults < NopFaults /\ faults' = faults + 1

------------------------------------------------------------------------------
(* Deployment of the agent *)

\* CheckAgentInstalled, with the token of the row; force_redeploy and install_docker
\* deploy in any case.
AlreadyInstalled(i) ==
    /\ Step(i, "probe") /\ AgentAnswers(i)
    /\ Ends(i, "success")
    /\ UNCHANGED <<hst, row, upd, geo, edit, release, faults, edits, rival>>

\* buildDeployParams makes a token and the config with it; health_check is on
\* unless the request says otherwise.
BuildDeployParams(i) ==
    /\ Step(i, "probe")
    /\ \E check \in BOOLEAN :
          item' = [item EXCEPT ![i].pc = "binary", ![i].check = check]
    /\ UNCHANGED <<hst, row, upd, geo, edit, release, faults, edits, rival>>

\* What a step of DeployAgent may do to the host, and the step after it.
\* systemctl enable --now starts the agent only if it is not running.
OnHost(i) ==
    CASE Step(i, "binary") -> {hst}
      [] Step(i, "uploadConf") -> {[hst EXCEPT !.tmp = i]}
      [] Step(i, "installConf") -> {[hst EXCEPT !.conf = hst.tmp]}
      [] Step(i, "enable") -> LET on == [hst EXCEPT !.unit = TRUE]
                              IN  IF hst.agent = 0 THEN AgentStarts(on) ELSE {on}
      [] Step(i, "restart") -> AgentStarts(hst)

\* Mutant: the running agent is left alone.
AfterStepNoRestart(i) ==
    CASE Step(i, "binary") -> "uploadConf"
      [] Step(i, "uploadConf") -> "installConf"
      [] Step(i, "installConf") -> "enable"
      [] OTHER -> IF item[i].check THEN "contact" ELSE "persist"

AfterStep(i) ==
    CASE Step(i, "binary") -> "uploadConf"
      [] Step(i, "uploadConf") -> "installConf"
      [] Step(i, "installConf") -> "enable"
      [] Step(i, "enable") -> "restart"
      [] Step(i, "restart") -> IF item[i].check THEN "contact" ELSE "persist"

DeploySteps == {"binary", "uploadConf", "installConf", "enable", "restart"}

DeployAgentStep(i) ==
    /\ item[i].pc \in DeploySteps
    /\ Step(i, "installConf") => hst.tmp # 0
    /\ hst' \in OnHost(i)
    /\ Moves(i, AfterStep(i))
    /\ UNCHANGED <<row, upd, geo, edit, release, faults, edits, rival>>

DeployAgentFails(i) ==
    /\ item[i].pc \in DeploySteps /\ Faulty
    /\ hst' \in {hst} \cup (IF Step(i, "installConf") /\ hst.tmp = 0 THEN {} ELSE OnHost(i))
    /\ Ends(i, "failed")
    /\ UNCHANGED <<row, upd, geo, edit, release, edits, rival>>

\* One update by id, whose error is dropped.
persistAgentContact == row' \in {[row EXCEPT !.installed = TRUE], row}

\* waitForAgentFirstContact, with the new token.
FirstContact(i) ==
    /\ Step(i, "contact") /\ authOK(i)
    /\ persistAgentContact
    /\ Moves(i, "persist")
    /\ UNCHANGED <<hst, upd, geo, edit, release, faults, edits, rival>>

NoContact(i) ==
    /\ Step(i, "contact")
    /\ IF authOK(i) THEN Faulty ELSE UNCHANGED faults
    /\ Ends(i, "failed")
    /\ UNCHANGED <<hst, row, upd, geo, edit, release, edits, rival>>

persistAgentSettings(i) ==
    /\ Step(i, "persist")
    /\ \/ /\ row' = [row EXCEPT !.token = i, !.enabled = TRUE]
          /\ Ends(i, "success") /\ UNCHANGED faults
       \/ Faulty /\ Ends(i, "failed") /\ UNCHANGED row
    /\ UNCHANGED <<hst, upd, geo, edit, release, edits, rival>>

------------------------------------------------------------------------------
(* UpdateNode: read, change, save all columns *)

UpdateNodeReads ==
    /\ edits < NopEdits /\ ~edit.busy
    /\ edits' = edits + 1
    /\ edit' = [busy |-> TRUE, row |-> row]
    /\ rival' = rival \cup Deploying
    /\ UNCHANGED <<hst, row, item, upd, geo, release, faults>>

UpdateNodeSaves ==
    /\ edit.busy
    /\ \E on \in BOOLEAN : row' = [edit.row EXCEPT !.enabled = on]
    /\ edit' = [busy |-> FALSE, row |-> NoAgent]
    /\ UNCHANGED <<hst, item, upd, geo, release, faults, edits, rival>>

------------------------------------------------------------------------------
(* Reboot and restart through the agent *)

\* The handlers of the agent answer and do it a moment later.
rebootHandler == hst' = [hst EXCEPT !.pending = @ \cup {"reboot"}]
restartServiceHandler == hst' = [hst EXCEPT !.pending = @ \cup {"agent"}]

\* The answer has the boot_id, or is lost.
RebootAsked(i) ==
    /\ Step(i, "ask") /\ item[i].kind = "rebootAgent" /\ CanAsk(i)
    /\ rebootHandler
    /\ \/ /\ item' = [item EXCEPT ![i].boot = hst.boot, ![i].pc = "confirm"]
          /\ UNCHANGED faults
       \/ Faulty /\ Ends(i, "failed")
    /\ UNCHANGED <<row, upd, geo, edit, release, edits, rival>>

RestartAsked(i) ==
    /\ Step(i, "ask") /\ item[i].kind = "restartAgent" /\ CanAsk(i)
    /\ restartServiceHandler
    /\ \/ Ends(i, "success") /\ UNCHANGED faults
       \/ Faulty /\ Ends(i, "failed")
    /\ UNCHANGED <<row, upd, geo, edit, release, edits, rival>>

\* The agent is not configured, does not run or has another token.
AgentRefuses(i) ==
    /\ Step(i, "ask") /\ ~CanAsk(i)
    /\ Ends(i, "failed")
    /\ UNCHANGED <<hst, row, upd, geo, edit, release, faults, edits, rival>>

\* Mutant: any answer of the agent is taken for the end of the reboot.
RebootConfirmedByAnswer(i) == AgentAnswers(i)

\* waitForReboot: the agent answers with another boot_id.
RebootConfirmed(i) == AgentAnswers(i) /\ hst.boot # item[i].boot

WaitForReboot(i) ==
    /\ Step(i, "confirm")
    /\ \/ RebootConfirmed(i) /\ Ends(i, "success") /\ UNCHANGED faults
       \/ Faulty /\ Ends(i, "failed")
       \/ ~AgentAnswers(i) /\ Ends(i, "failed") /\ UNCHANGED faults
    /\ UNCHANGED <<hst, row, upd, geo, edit, release, edits, rival>>

AgentRestarts ==
    /\ "agent" \in hst.pending
    /\ LET done == [hst EXCEPT !.pending = @ \ {"agent"}]
       IN  hst' \in IF hst.unit THEN AgentStarts(done) ELSE {done}
    /\ UNCHANGED <<row, item, upd, geo, edit, release, faults, edits, rival>>

\* Restart=always: an agent that has ended is started again, which may help.
SystemdStartsAgent ==
    /\ hst.unit /\ hst.agent = 0
    /\ hst' \in AgentStarts(hst)
    /\ UNCHANGED <<row, item, upd, geo, edit, release, faults, edits, rival>>

\* What runs on the host is killed, /tmp is emptied, the enabled unit is started
\* with the config that is installed. expect may still see the end of the updater.
HostReboots ==
    /\ "reboot" \in hst.pending /\ hst.boot < NopReboots
    /\ LET down == [hst EXCEPT !.boot = @ + 1, !.pending = {}, !.tmp = 0, !.agent = 0]
       IN  hst' \in IF hst.unit THEN AgentStarts(down) ELSE {down}
    /\ \E cut \in {"died", "failed"} :
          upd' = [i \in NopItems |-> IF upd[i] = "run" THEN cut ELSE upd[i]]
    /\ geo' = [g \in GeoRuns |-> IF geo[g].pc \in {"begin", "site", "ip", "up"}
                                 THEN [geo[g] EXCEPT !.pc = "failed"] ELSE geo[g]]
    /\ UNCHANGED <<row, item, edit, release, faults, edits, rival>>

------------------------------------------------------------------------------
(* Reboot by SSH; updates *)

\* runCommand with allowDisconnect: a connection that breaks is a success.
RebootSSH(i) ==
    /\ Step(i, "update") /\ item[i].kind = "rebootSSH"
    /\ \/ /\ hst' = [hst EXCEPT !.pending = @ \cup {"reboot"}]
          /\ Ends(i, "success") /\ UNCHANGED faults
       \/ Faulty /\ UNCHANGED hst /\ \E res \in {"success", "failed"} : Ends(i, res)
    /\ UNCHANGED <<row, upd, geo, edit, release, edits, rival>>

\* flock -n on /var/lock/service-manager-update.lock.
Flock == \A i \in NopItems : upd[i] # "run"

StartsUpdate(i) ==
    /\ upd' = [upd EXCEPT ![i] = IF Flock THEN "run" ELSE "failed"]
    /\ Moves(i, "wait")

\* Nothing is done, and that is a success: without an agent nothing is updated
\* through it, and precheck_only only looks.
NothingToUpdate(i) ==
    /\ Step(i, "update")
    /\ LET why == IF item[i].kind = "updateAgent" THEN "skip" ELSE "precheck"
       IN  item' = [item EXCEPT ![i].pc = "end", ![i].res = "success", ![i].plan = why]
    /\ item[i].kind = "updateAgent" => ~(item[i].row.enabled /\ item[i].row.installed)
    /\ item[i].kind # "rebootSSH"
    /\ UNCHANGED <<hst, row, upd, geo, edit, release, faults, edits, rival>>

UpdateBySSH(i) ==
    /\ Step(i, "update") /\ item[i].kind = "updateSSH"
    /\ \/ StartsUpdate(i) /\ UNCHANGED faults
       \/ Faulty /\ Ends(i, "failed") /\ UNCHANGED upd
    /\ UNCHANGED <<hst, row, geo, edit, release, edits, rival>>

\* updatePanelHandler runs the same command.
UpdateByAgent(i) ==
    /\ Step(i, "update") /\ item[i].kind = "updateAgent"
    /\ item[i].row.enabled /\ item[i].row.installed
    /\ \/ CanAsk(i) /\ StartsUpdate(i) /\ UNCHANGED faults
       \/ ~CanAsk(i) /\ Ends(i, "failed") /\ UNCHANGED <<upd, faults>>
       \/ Faulty /\ Ends(i, "failed") /\ UNCHANGED upd
    /\ UNCHANGED <<hst, row, geo, edit, release, edits, rival>>

\* The updater runs to its end, dies or comes back to its menu without having updated,
\* or says nothing until the script gives up.
UpdateEnds(i) ==
    /\ upd[i] = "run"
    /\ \/ upd' = [upd EXCEPT ![i] = "ok"] /\ UNCHANGED faults
       \/ Faulty /\ \E how \in {"died", "failed"} : upd' = [upd EXCEPT ![i] = how]
    /\ UNCHANGED <<hst, row, item, geo, edit, release, edits, rival>>

\* The exit code of the script, which is 0 on eof and on the menu too; or the item's
\* timeout, which leaves it running.
UpdateAnswer(i) ==
    /\ Step(i, "wait") /\ item[i].kind \in {"updateAgent", "updateSSH"}
    /\ \/ /\ upd[i] \in {"ok", "died", "failed"}
          /\ Ends(i, IF upd[i] = "failed" THEN "failed" ELSE "success") /\ UNCHANGED faults
       \/ Faulty /\ Ends(i, "failed")
    /\ UNCHANGED <<hst, row, upd, geo, edit, release, edits, rival>>

------------------------------------------------------------------------------
(* Geodata updater *)

\* ensureRemnaComposeMounts: the file is read and patched if the mounts are
\* missing;
ReadCompose(i) ==
    /\ Step(i, "compose")
    /\ Moves(i, IF hst.compose THEN "script" ELSE "patch")
    /\ UNCHANGED <<hst, row, upd, geo, edit, release, faults, edits, rival>>

PatchCompose(i) ==
    /\ Step(i, "patch")
    /\ hst' = [hst EXCEPT !.compose = TRUE]
    /\ item' = [item EXCEPT ![i].pc = "script", ![i].patched = TRUE]
    /\ UNCHANGED <<row, upd, geo, edit, release, faults, edits, rival>>

\* then script, cron file and logrotate file are installed.
InstallScript(i) ==
    /\ Step(i, "script")
    /\ hst' = [hst EXCEPT !.script = TRUE]
    /\ Moves(i, "run")
    /\ UNCHANGED <<row, upd, geo, edit, release, faults, edits, rival>>

RemnaStepFails(i) ==
    /\ item[i].pc \in {"compose", "patch", "script"} /\ Faulty
    /\ hst' \in {hst} \cup (IF Step(i, "patch") THEN {[hst EXCEPT !.compose = TRUE]} ELSE {})
    /\ Ends(i, "failed")
    /\ UNCHANGED <<row, upd, geo, edit, release, edits, rival>>

\* Mutant: the script is run with the request's force flag only.
ForceReloadAsAsked(i, asked) == asked

\* params.ForceReload || composeChanged
ForceReload(i, asked) == asked \/ item[i].patched

\* runRemnaScript. RunRemnaGeodata first looks whether the script is there.
RunScript(i) ==
    /\ Step(i, "run")
    /\ IF hst.script
       THEN /\ \E asked \in BOOLEAN :
                  geo' = [geo EXCEPT ![i] = [NoRun EXCEPT !.pc = "begin",
                                                          !.force = ForceReload(i, asked)]]
            /\ Moves(i, "wait")
       ELSE Ends(i, "failed") /\ UNCHANGED geo
    /\ UNCHANGED <<hst, row, upd, edit, release, faults, edits, rival>>

CronRuns ==
    /\ hst.script /\ geo[Cron].pc \in {"off", "ok", "failed"}
    /\ geo' = [geo EXCEPT ![Cron] = [NoRun EXCEPT !.pc = "begin"]]
    /\ UNCHANGED <<hst, row, item, upd, edit, release, faults, edits, rival>>

\* The script: the lock, the downloads and their checks;
GeoLocked == \E g \in GeoRuns : geo[g].pc \in {"site", "ip", "up"}

GeoBegins(g) ==
    /\ geo[g].pc = "begin"
    /\ IF GeoLocked THEN geo' = [geo EXCEPT ![g].pc = "failed"]
       ELSE geo' = [geo EXCEPT ![g].pc = "site", ![g].got = release]
    /\ UNCHANGED <<hst, row, item, upd, edit, release, faults, edits, rival>>

\* the two files, each replaced if it differs;
GeoInstalls(g) ==
    /\ geo[g].pc \in {"site", "ip"}
    /\ LET f == IF geo[g].pc = "site" THEN "geosite" ELSE "geoip"
       IN  /\ hst' = [hst EXCEPT !.data[f] = geo[g].got]
           /\ geo' = [geo EXCEPT ![g].pc = IF @ = "site" THEN "ip" ELSE "up",
                                 ![g].changed = @ \/ hst.data[f] # geo[g].got]
    /\ UNCHANGED <<row, item, upd, edit, release, faults, edits, rival>>

\* docker compose up, if there was a change or force is set.
GeoApplies(g) ==
    /\ geo[g].pc = "up"
    /\ hst' = IF geo[g].changed \/ geo[g].force
              THEN [hst EXCEPT !.mounted = hst.compose] ELSE hst
    /\ geo' = [geo EXCEPT ![g].pc = "ok"]
    /\ UNCHANGED <<row, item, upd, edit, release, faults, edits, rival>>

GeoFails(g) ==
    /\ geo[g].pc \in {"begin", "site", "ip", "up"} /\ Faulty
    /\ geo' = [geo EXCEPT ![g].pc = "failed"]
    /\ UNCHANGED <<hst, row, item, upd, edit, release, edits, rival>>

ScriptAnswer(i) ==
    /\ Step(i, "wait") /\ item[i].kind \in {"remnaInstall", "remnaRun"}
    /\ \/ /\ geo[i].pc \in {"ok", "failed"}
          /\ Ends(i, IF geo[i].pc = "ok" THEN "success" ELSE "failed") /\ UNCHANGED faults
       \/ Faulty /\ Ends(i, "failed")
    /\ UNCHANGED <<hst, row, upd, geo, edit, release, edits, rival>>

Publish ==
    /\ release < NopReleases
    /\ release' = release + 1
    /\ UNCHANGED <<hst, row, item, upd, geo, edit, faults, edits, rival>>

------------------------------------------------------------------------------
(* VLF-Proto *)

chooseVLFProtoCommandPlan(state, force) ==
    CASE force -> "reinstall"
      [] state = "full" -> "update"
      [] state = "legacy" -> "reinstall"
      [] OTHER -> "install"

\* detectVLFProtoInstallState and the plan;
DetectVLFProto(i) ==
    /\ Step(i, "detect")
    /\ \E force \in BOOLEAN :
          item' = [item EXCEPT ![i].pc = "vlf",
                               ![i].plan = chooseVLFProtoCommandPlan(hst.vlf, force)]
    /\ UNCHANGED <<hst, row, upd, geo, edit, release, faults, edits, rival>>

\* the command. One that fails may leave an installation without update.sh.
InstallVLFProto(i) ==
    /\ Step(i, "vlf")
    /\ \/ /\ hst' = [hst EXCEPT !.vlf = "full"]
          /\ Ends(i, "success") /\ UNCHANGED faults
       \/ /\ Faulty /\ Ends(i, "failed")
          /\ hst' \in {hst} \cup (IF hst.vlf = "none" THEN {[hst EXCEPT !.vlf = "legacy"]}
                                  ELSE {})
    /\ UNCHANGED <<row, upd, geo, edit, release, edits, rival>>

------------------------------------------------------------------------------
NopItem(i) ==
    \/ Begin(i) \/ AlreadyInstalled(i) \/ BuildDeployParams(i) \/ DeployAgentStep(i)
    \/ DeployAgentFails(i) \/ FirstContact(i) \/ NoContact(i) \/ persistAgentSettings(i)
    \/ RebootAsked(i) \/ RestartAsked(i) \/ AgentRefuses(i) \/ WaitForReboot(i)
    \/ RebootSSH(i) \/ NothingToUpdate(i) \/ UpdateBySSH(i) \/ UpdateByAgent(i)
    \/ UpdateEnds(i) \/ UpdateAnswer(i)
    \/ ReadCompose(i) \/ PatchCompose(i) \/ InstallScript(i) \/ RemnaStepFails(i)
    \/ RunScript(i) \/ ScriptAnswer(i) \/ DetectVLFProto(i) \/ InstallVLFProto(i)

NopNext ==
    \/ \E i \in NopItems : NopItem(i)
    \/ \E g \in GeoRuns : GeoBegins(g) \/ GeoInstalls(g) \/ GeoApplies(g) \/ GeoFails(g)
    \/ CronRuns \/ Publish
    \/ UpdateNodeReads \/ UpdateNodeSaves
    \/ AgentRestarts \/ SystemdStartsAgent \/ HostReboots

NopSpec == NopInit /\ [][NopNext]_nopVars

------------------------------------------------------------------------------
(* Properties *)

\* "Always restart after config replacement so token/config changes are applied":
\* when a deployment ends with success, no agent runs that does not take the token
\* the backend holds; if none runs, since the one started has ended, the one that
\* systemd starts next takes it. So after failed deployments, restarts and reboots
\* before it, with or without the health check - unless another deployment or an
\* edit of the node came in between.
NopDeployTold ==
    [][\A i \in NopItems :
          IsDeploy(i) /\ item[i].res = "none" /\ item'[i].res = "success" /\ i \notin rival'
          => /\ row'.token # 0 /\ hst'.agent \in {0, row'.token}
             /\ hst'.agent = 0 => hst'.unit /\ hst'.conf = row'.token]_nopVars

\* waitForReboot: a reboot through the agent that is reported as done has happened
\* after the item began, although several items may have asked for the same reboot,
\* the agent answers until the host goes down, and others may reboot the host.
NopRebootDone ==
    \A i \in NopItems :
        item[i].kind = "rebootAgent" /\ item[i].res = "success" => hst.boot > item[i].boot

\* An installation of the geodata updater that changed the compose file ends with
\* success only when the container has the mounts, whatever other items and cron
\* do to script and lock meanwhile.
NopPatchApplied ==
    \A i \in NopItems :
        item[i].kind = "remnaInstall" /\ item[i].patched /\ item[i].res = "success"
        => hst.mounted
==============================================================================
