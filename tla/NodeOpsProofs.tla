---------------------------- MODULE NodeOpsProofs ----------------------------
(* Theorems about NodeOps, for any number of items of any kinds, faults, reboots, *)
(* edits and releases, and about MCFleet.                                        *)
EXTENDS MCFleet, SshTerminalProofs

\* The shapes of the rows.
NopHost == [boot : 0..NopReboots, agent : Tokens, conf : Tokens, tmp : Tokens,
            unit : BOOLEAN, pending : SUBSET {"reboot", "agent"},
            compose : BOOLEAN, script : BOOLEAN, mounted : BOOLEAN,
            data : [Files -> 0..NopReleases], vlf : {"none", "legacy", "full"}]
Plans == {"none", "install", "update", "reinstall", "skip", "precheck"}
Results == {"none", "success", "failed"}
NopRow == [kind : OpKinds, pc : Pcs, row : NodeRow, boot : 0..NopReboots,
           check : BOOLEAN, patched : BOOLEAN, plan : Plans, res : Results]
GeoRun == [pc : {"off", "begin", "site", "ip", "up", "ok", "failed"},
           force : BOOLEAN, changed : BOOLEAN, got : 0..NopReleases]

NopTyped ==
    /\ hst \in NopHost /\ row \in NodeRow
    /\ item \in [NopItems -> NopRow]
    /\ upd \in [NopItems -> {"off", "run", "ok", "died", "failed"}]
    /\ geo \in [GeoRuns -> GeoRun]
    /\ edit \in [busy : BOOLEAN, row : NodeRow]
    /\ release \in 1..NopReleases
    /\ faults \in 0..NopFaults /\ edits \in 0..NopEdits
    /\ rival \subseteq NopItems

\* Which kinds take a step.
DeployPcs == {"probe", "binary", "uploadConf", "installConf", "enable", "restart", "contact",
              "persist"}
KindOf(i) ==
    /\ item[i].pc \in DeployPcs => item[i].kind = "deploy"
    /\ item[i].pc = "ask" => item[i].kind \in {"rebootAgent", "restartAgent"}
    /\ item[i].pc = "confirm" => item[i].kind = "rebootAgent"
    /\ item[i].pc = "update" => item[i].kind \in {"rebootSSH", "updateAgent", "updateSSH"}
    /\ item[i].pc \in {"compose", "patch", "script"} => item[i].kind = "remnaInstall"
    /\ item[i].pc = "run" => item[i].kind \in {"remnaInstall", "remnaRun"}
    /\ item[i].pc = "wait" => item[i].kind \in {"remnaInstall", "remnaRun", "updateAgent", "updateSSH"}
    /\ item[i].pc \in {"detect", "vlf"} => item[i].kind = "vlfProto"

\* What an item that has not ended knows, and what one that has ended with success did.
DoneInv(i) ==
    /\ item[i].res # "none" => item[i].pc = "end"
    /\ item[i].pc = "confirm" => item[i].boot <= hst.boot
    /\ item[i].res = "success" /\ item[i].kind = "rebootAgent" => hst.boot > item[i].boot

\* The script of an item that patched the compose file runs after it, with force.
GeoActive == {"begin", "site", "ip", "up"}
PatchInv(i) ==
    /\ item[i].pc \notin {"wait", "end"} => geo[i].pc = "off"
    /\ item[i].patched =>
          /\ item[i].kind = "remnaInstall" /\ item[i].pc \in {"script", "run", "wait", "end"}
          /\ hst.compose
          /\ geo[i].pc \in GeoActive => geo[i].force
          /\ geo[i].pc = "ok" \/ item[i].res = "success" => hst.mounted

\* How far a deployment that is alone has come on the host.
DeployInv(i) ==
    i \in Deploying \ rival =>
        /\ row.token = item[i].row.token
        /\ item[i].pc = "installConf" => hst.tmp \in {0, i}
        /\ item[i].pc \in {"enable", "restart", "contact", "persist"} => hst.conf = i
        /\ item[i].pc \in {"restart", "contact", "persist"} => hst.unit
        /\ item[i].pc \in {"contact", "persist"} => hst.agent \in {0, i}

RivalInv ==
    /\ \A i, j \in Deploying : i # j => i \in rival
    /\ edit.busy => Deploying \subseteq rival

ItemInv(i) == KindOf(i) /\ DoneInv(i) /\ PatchInv(i) /\ DeployInv(i)

NopInv ==
    /\ NopTyped
    /\ \A i \in NopItems : ItemInv(i)
    /\ hst.mounted => hst.compose
    /\ RivalInv

------------------------------------------------------------------------------
(* Rows of items and the host *)

LEMMA NopTypeHolds == NopTyped => NopTypeOK
BY DEF NopTyped, NopTypeOK, NopHost, NopRow, Plans, Results, GeoRun

\* What a new row of an item changes.
LEMMA RowWritten ==
    ASSUME NopTyped, NEW i \in NopItems, NEW new \in NopRow, item' = [item EXCEPT ![i] = new]
    PROVE  /\ item' \in [NopItems -> NopRow] /\ item'[i] = new
           /\ \A j \in NopItems \ {i} : item'[j] = item[j]
BY DEF NopTyped

\* Everything but the step of an item, and its result.
SameBut(r, q) ==
    /\ r.kind = q.kind /\ r.row = q.row /\ r.boot = q.boot /\ r.check = q.check
    /\ r.patched = q.patched /\ r.plan = q.plan

OnlyRow(i) ==
    item' \in [NopItems -> NopRow] /\ \A j \in NopItems \ {i} : item'[j] = item[j]

LEMMA Moved ==
    ASSUME NopTyped, NEW i \in NopItems, NEW to \in Pcs, Moves(i, to)
    PROVE  /\ OnlyRow(i)
           /\ SameBut(item'[i], item[i]) /\ item'[i].res = item[i].res /\ item'[i].pc = to
<1> DEFINE new == [item[i] EXCEPT !.pc = to]
<1>0. item \in [NopItems -> NopRow] /\ item[i] \in NopRow
    BY DEF NopTyped
<1>1. item' = [item EXCEPT ![i] = new]
    BY <1>0 DEF Moves
<1>2. new \in NopRow /\ SameBut(new, item[i]) /\ new.res = item[i].res /\ new.pc = to
    BY <1>0 DEF NopRow, SameBut
<1> HIDE DEF new
<1> QED
    BY <1>1, <1>2, RowWritten DEF OnlyRow

LEMMA Ended ==
    ASSUME NopTyped, NEW i \in NopItems, NEW res \in Results, Ends(i, res)
    PROVE  /\ OnlyRow(i)
           /\ SameBut(item'[i], item[i]) /\ item'[i].res = res /\ item'[i].pc = "end"
<1> DEFINE to == "end"
           new == [item[i] EXCEPT !.pc = to, !.res = res]
<1>0. item \in [NopItems -> NopRow] /\ item[i] \in NopRow /\ to \in Pcs
    BY DEF NopTyped, Pcs
<1>3. to = "end"
    OBVIOUS
<1>1. item' = [item EXCEPT ![i] = new]
    BY <1>0 DEF Ends
<1> HIDE DEF to
<1>2. new \in NopRow /\ SameBut(new, item[i]) /\ new.res = res /\ new.pc = to
    BY <1>0 DEF NopRow, SameBut
<1> HIDE DEF new
<1> QED
    BY <1>1, <1>2, <1>3, RowWritten DEF OnlyRow

\* What no step on the host takes back.
HostGrows ==
    /\ hst' \in NopHost /\ hst'.boot >= hst.boot
    /\ hst.compose => hst'.compose
    /\ hst.mounted => hst'.mounted
    /\ hst'.mounted => hst'.compose
    /\ hst.unit => hst'.unit

\* What only deployments, edits and reboots touch.
DeployQuiet ==
    /\ hst'.tmp = hst.tmp /\ hst'.conf = hst.conf /\ hst'.agent = hst.agent
    /\ row'.token = row.token
    /\ rival' = rival /\ edit' = edit

OthersTyped ==
    /\ row' \in NodeRow
    /\ upd' \in [NopItems -> {"off", "run", "ok", "died", "failed"}]
    /\ geo' \in [GeoRuns -> GeoRun]
    /\ edit' \in [busy : BOOLEAN, row : NodeRow]
    /\ release' \in 1..NopReleases
    /\ faults' \in 0..NopFaults /\ edits' \in 0..NopEdits
    /\ rival' \subseteq NopItems

LEMMA OthersSame ==
    ASSUME NopTyped, UNCHANGED <<row, upd, geo, edit, release, edits, rival>>,
           UNCHANGED faults \/ Faulty
    PROVE  OthersTyped
<1>1. faults' \in 0..NopFaults
    BY NopAssumption DEF NopTyped, Faulty
<1> QED
    BY <1>1 DEF NopTyped, OthersTyped

LEMMA HostSame ==
    ASSUME NopInv, UNCHANGED hst
    PROVE  HostGrows
<1>1. hst \in NopHost /\ hst.boot \in Nat
    BY NopAssumption DEF NopInv, NopTyped, NopHost
<1> QED
    BY <1>1 DEF NopInv, HostGrows

\* What holds of an item for which nothing changes but the host.
LEMMA OthersKept ==
    ASSUME NopInv, HostGrows, NEW j \in NopItems,
           item'[j] = item[j], upd'[j] = upd[j], geo'[j] = geo[j]
    PROVE  KindOf(j)' /\ DoneInv(j)' /\ PatchInv(j)'
<1>2. KindOf(j) /\ DoneInv(j) /\ PatchInv(j)
    BY DEF NopInv, ItemInv
<1>3. KindOf(j)'
    BY <1>2 DEF KindOf
<1>4. hst.boot \in Nat /\ hst'.boot \in Nat /\ item[j].boot \in Nat
    BY NopAssumption DEF NopInv, NopTyped, NopHost, NopRow, HostGrows
<1>5. DoneInv(j)'
    BY <1>2, <1>4 DEF DoneInv, HostGrows
<1>6. PatchInv(j)'
    BY <1>2 DEF PatchInv, HostGrows
<1> QED
    BY <1>3, <1>5, <1>6

\* A step of one item outside the deployment leaves the others what they are.
LEMMA StepOf ==
    ASSUME NopInv, NEW i \in NopItems, OnlyRow(i), HostGrows, OthersTyped, DeployQuiet,
           item'[i].kind = item[i].kind, item'[i].row = item[i].row,
           IsDeploy(i) => item'[i].pc = item[i].pc \/ item'[i].pc = "end",
           \A j \in NopItems \ {i} : upd'[j] = upd[j] /\ geo'[j] = geo[j],
           KindOf(i)', DoneInv(i)', PatchInv(i)'
    PROVE  NopInv'
<1>0. NopTyped /\ NopTyped'
    BY DEF NopInv, NopTyped, OnlyRow, HostGrows, OthersTyped
<1>1. \A j \in NopItems : item'[j].kind = item[j].kind /\ item'[j].row = item[j].row
    BY DEF OnlyRow
<1>2. \A j \in NopItems :
        IsDeploy(j) => item'[j].pc = item[j].pc \/ item'[j].pc = "end"
    BY DEF OnlyRow
<1>3. Deploying' \subseteq Deploying
      /\ \A j \in Deploying' : item'[j].pc = item[j].pc
    BY <1>1, <1>2 DEF Deploying, IsDeploy
<1>4. RivalInv'
    BY <1>3 DEF NopInv, RivalInv, DeployQuiet
<1>5. \A j \in NopItems : DeployInv(j)'
    <2> SUFFICES ASSUME NEW j \in NopItems, (j \in Deploying \ rival)'
                 PROVE  DeployInv(j)'
        BY DEF DeployInv
    <2>1. j \in Deploying \ rival /\ item'[j].pc = item[j].pc /\ item'[j].row = item[j].row
        BY <1>1, <1>3 DEF DeployQuiet
    <2>2. DeployInv(j)
        BY DEF NopInv, ItemInv
    <2> QED
        BY <2>1, <2>2 DEF DeployInv, DeployQuiet, HostGrows
<1>6. \A j \in NopItems \ {i} : KindOf(j)' /\ DoneInv(j)' /\ PatchInv(j)'
    BY OthersKept DEF OnlyRow
<1> QED
    BY <1>0, <1>4, <1>5, <1>6 DEF NopInv, ItemInv, HostGrows

\* What the host keeps in a step that only writes to it.
HostQuiet ==
    HostGrows /\ hst'.tmp = hst.tmp /\ hst'.conf = hst.conf /\ hst'.agent = hst.agent

LEMMA HostWritten ==
    ASSUME NopInv,
           \/ hst' = hst
           \/ \E P \in SUBSET {"reboot", "agent"} : hst' = [hst EXCEPT !.pending = P]
           \/ \E b \in {TRUE} : hst' = [hst EXCEPT !.compose = b]
           \/ \E b \in {TRUE} : hst' = [hst EXCEPT !.script = b]
           \/ \E v \in {"legacy", "full"} : hst' = [hst EXCEPT !.vlf = v]
           \/ \E d \in [Files -> 0..NopReleases] : hst' = [hst EXCEPT !.data = d]
           \/ hst' = [hst EXCEPT !.mounted = hst.compose]
    PROVE  HostQuiet
<1>0. hst \in NopHost /\ hst.boot \in Nat /\ (hst.mounted => hst.compose)
    BY NopAssumption DEF NopInv, NopTyped, NopHost
<1>1. CASE hst' = hst
    BY <1>0, <1>1 DEF HostQuiet, HostGrows
<1>2. ASSUME NEW P \in SUBSET {"reboot", "agent"}, hst' = [hst EXCEPT !.pending = P] PROVE HostQuiet
    BY <1>0, <1>2 DEF HostQuiet, HostGrows, NopHost
<1>3. ASSUME NEW b \in BOOLEAN, b, hst' = [hst EXCEPT !.compose = b] PROVE HostQuiet
    <2>1. hst' \in NopHost /\ hst'.compose = b
        BY <1>0, <1>3 DEF NopHost
    <2>2. /\ hst'.boot = hst.boot /\ hst'.mounted = hst.mounted /\ hst'.unit = hst.unit
          /\ hst'.tmp = hst.tmp /\ hst'.conf = hst.conf /\ hst'.agent = hst.agent
          /\ hst'.script = hst.script
        BY <1>0, <1>3 DEF NopHost
    <2> QED
        BY <1>0, <1>3, <2>1, <2>2 DEF HostQuiet, HostGrows
<1>4. ASSUME NEW b \in BOOLEAN, b, hst' = [hst EXCEPT !.script = b] PROVE HostQuiet
    <2>1. hst' \in NopHost /\ hst'.script = b
        BY <1>0, <1>4 DEF NopHost
    <2>2. /\ hst'.boot = hst.boot /\ hst'.mounted = hst.mounted /\ hst'.unit = hst.unit
          /\ hst'.tmp = hst.tmp /\ hst'.conf = hst.conf /\ hst'.agent = hst.agent
          /\ hst'.compose = hst.compose
        BY <1>0, <1>4 DEF NopHost
    <2> QED
        BY <1>0, <1>4, <2>1, <2>2 DEF HostQuiet, HostGrows
<1>5. ASSUME NEW v \in {"legacy", "full"}, hst' = [hst EXCEPT !.vlf = v] PROVE HostQuiet
    BY <1>0, <1>5 DEF HostQuiet, HostGrows, NopHost
<1>6. ASSUME NEW d \in [Files -> 0..NopReleases], hst' = [hst EXCEPT !.data = d] PROVE HostQuiet
    BY <1>0, <1>6 DEF HostQuiet, HostGrows, NopHost
<1>7. CASE hst' = [hst EXCEPT !.mounted = hst.compose]
    BY <1>0, <1>7 DEF HostQuiet, HostGrows, NopHost
<1> QED
    BY <1>1, <1>2, <1>3, <1>4, <1>5, <1>6, <1>7

\* An item ends, with success only if it has done what it was to do.
LEMMA EndsStep ==
    ASSUME NopInv, NEW i \in NopItems, NEW res \in Results, Ends(i, res),
           HostQuiet, UNCHANGED <<row, upd, geo, edit, release, edits, rival>>,
           UNCHANGED faults \/ Faulty,
           res = "success" =>
              /\ item[i].kind = "rebootAgent" => hst'.boot > item[i].boot
              /\ item[i].patched => hst'.mounted
    PROVE  NopInv'
<1>0. NopTyped /\ item[i] \in NopRow /\ OthersTyped
    BY OthersSame DEF NopInv, NopTyped
<1>1. OnlyRow(i) /\ SameBut(item'[i], item[i]) /\ item'[i].res = res /\ item'[i].pc = "end"
    BY <1>0, Ended
<1>2. DeployQuiet /\ HostGrows
    BY DEF DeployQuiet, HostQuiet
<1>3. KindOf(i)'
    BY <1>1 DEF KindOf, DeployPcs
<1>4. DoneInv(i)'
    BY <1>1 DEF DoneInv, SameBut
<1>5. PatchInv(i)
    BY DEF NopInv, ItemInv
<1>6. PatchInv(i)'
    BY <1>1, <1>2, <1>5 DEF PatchInv, SameBut, HostGrows
<1> QED
    BY <1>0, <1>1, <1>2, <1>3, <1>4, <1>6, StepOf DEF SameBut

\* An item that is no deployment goes on, maybe with a process of its own on the host.
LEMMA MovesStep ==
    ASSUME NopInv, NEW i \in NopItems, NEW to \in Pcs, Moves(i, to), ~IsDeploy(i),
           item[i].pc # "end", to # "confirm",
           HostQuiet, OthersTyped, UNCHANGED <<row, edit, rival>>,
           \A j \in NopItems \ {i} : upd'[j] = upd[j] /\ geo'[j] = geo[j],
           KindOf(i)', PatchInv(i)'
    PROVE  NopInv'
<1>0. NopTyped /\ DoneInv(i)
    BY DEF NopInv, ItemInv
<1>1. /\ OnlyRow(i) /\ SameBut(item'[i], item[i])
      /\ item'[i].res = item[i].res /\ item'[i].pc = to
    BY <1>0, Moved
<1>2. DeployQuiet /\ HostGrows
    BY DEF DeployQuiet, HostQuiet
<1>3. item'[i].res = "none"
    BY <1>0, <1>1 DEF DoneInv
<1>4. DoneInv(i)'
    BY <1>1, <1>3 DEF DoneInv
<1> QED
    BY <1>1, <1>2, <1>4, StepOf DEF SameBut, IsDeploy

LEMMA PlainEnds ==
    ASSUME NopInv, NEW i \in NopItems,
           AlreadyInstalled(i) \/ NoContact(i) \/ RestartAsked(i) \/ AgentRefuses(i)
           \/ WaitForReboot(i) \/ RebootSSH(i) \/ UpdateAnswer(i) \/ ScriptAnswer(i)
           \/ InstallVLFProto(i) \/ RemnaStepFails(i)
    PROVE  NopInv'
<1>0. KindOf(i) /\ DoneInv(i) /\ PatchInv(i) /\ item[i] \in NopRow /\ hst \in NopHost
    BY DEF NopInv, ItemInv, NopTyped
<1>R. {"none", "success", "failed"} = Results
    BY DEF Results
<1>B. item[i].boot \in Nat /\ hst.boot \in Nat
    BY <1>0, NopAssumption DEF NopRow, NopHost
<1>H. UNCHANGED hst => HostQuiet
    BY HostWritten
<1>1. CASE AlreadyInstalled(i)
    <2>1. item[i].kind = "deploy" /\ ~item[i].patched
        BY <1>0, <1>1 DEF AlreadyInstalled, Step, KindOf, PatchInv, DeployPcs
    <2> QED
        BY <1>1, <1>R, <1>H, <2>1, EndsStep DEF AlreadyInstalled
<1>2. CASE NoContact(i)
    BY <1>2, <1>R, <1>H, EndsStep DEF NoContact
<1>3. CASE RestartAsked(i)
    <2>1. HostQuiet
        <3>1. hst.pending \cup {"agent"} \in SUBSET {"reboot", "agent"}
            BY <1>0 DEF NopHost
        <3> QED
            BY <1>3, <3>1, HostWritten DEF RestartAsked, restartServiceHandler
    <2>2. item[i].kind = "restartAgent" /\ ~item[i].patched
        BY <1>0, <1>3 DEF RestartAsked, Step, PatchInv
    <2> QED
        BY <1>3, <1>R, <2>1, <2>2, EndsStep DEF RestartAsked
<1>4. CASE AgentRefuses(i)
    BY <1>4, <1>R, <1>H, EndsStep DEF AgentRefuses
<1>5. CASE WaitForReboot(i)
    <2>1. item[i].kind = "rebootAgent" /\ ~item[i].patched /\ item[i].boot <= hst.boot
        BY <1>0, <1>5 DEF WaitForReboot, Step, PatchInv, KindOf, DoneInv
    <2>2. RebootConfirmed(i) => hst.boot > item[i].boot
        BY <1>B, <2>1 DEF RebootConfirmed
    <2> QED
        BY <1>5, <1>R, <1>H, <2>1, <2>2, EndsStep DEF WaitForReboot
<1>6. CASE RebootSSH(i)
    <2>1. HostQuiet
        <3>1. hst.pending \cup {"reboot"} \in SUBSET {"reboot", "agent"}
            BY <1>0 DEF NopHost
        <3> QED
            BY <1>6, <3>1, HostWritten DEF RebootSSH
    <2>2. item[i].kind = "rebootSSH" /\ ~item[i].patched
        BY <1>0, <1>6 DEF RebootSSH, Step, PatchInv
    <2> QED
        BY <1>6, <1>R, <2>1, <2>2, EndsStep DEF RebootSSH
<1>7. CASE UpdateAnswer(i)
    <2>1. item[i].kind \in {"updateAgent", "updateSSH"} /\ ~item[i].patched
        BY <1>0, <1>7 DEF UpdateAnswer, PatchInv
    <2> QED
        BY <1>7, <1>R, <1>H, <2>1, EndsStep DEF UpdateAnswer
<1>8. CASE ScriptAnswer(i)
    <2>1. item[i].kind \in {"remnaInstall", "remnaRun"}
          /\ (item[i].patched /\ geo[i].pc = "ok" => hst.mounted)
        BY <1>0, <1>8 DEF ScriptAnswer, PatchInv
    <2> QED
        BY <1>8, <1>R, <1>H, <2>1, EndsStep DEF ScriptAnswer
<1>9. CASE InstallVLFProto(i)
    <2>1. item[i].kind = "vlfProto" /\ ~item[i].patched
        BY <1>0, <1>9 DEF InstallVLFProto, Step, PatchInv, KindOf
    <2>2. HostQuiet
        BY <1>9, HostWritten DEF InstallVLFProto
    <2> QED
        BY <1>9, <1>R, <2>1, <2>2, EndsStep DEF InstallVLFProto
<1>10. CASE RemnaStepFails(i)
    <2>1. HostQuiet
        BY <1>10, HostWritten DEF RemnaStepFails
    <2> QED
        BY <1>10, <1>R, <2>1, EndsStep DEF RemnaStepFails
<1> QED
    BY <1>1, <1>2, <1>3, <1>4, <1>5, <1>6, <1>7, <1>8, <1>9, <1>10

LEMMA OthersWritten ==
    ASSUME NopTyped, UNCHANGED <<row, edit, release, edits, rival>>, UNCHANGED faults \/ Faulty,
           upd' \in [NopItems -> {"off", "run", "ok", "died", "failed"}], geo' \in [GeoRuns -> GeoRun]
    PROVE  OthersTyped
<1>1. faults' \in 0..NopFaults
    BY NopAssumption DEF NopTyped, Faulty
<1> QED
    BY <1>1 DEF NopTyped, OthersTyped

\* runCommand, executeItem: updates.
LEMMA UpdateSteps ==
    ASSUME NopInv, NEW i \in NopItems,
           NothingToUpdate(i) \/ UpdateBySSH(i) \/ UpdateByAgent(i) \/ UpdateEnds(i)
    PROVE  NopInv'
<1>0. /\ NopTyped /\ KindOf(i) /\ DoneInv(i) /\ PatchInv(i) /\ item[i] \in NopRow
      /\ upd \in [NopItems -> {"off", "run", "ok", "died", "failed"}] /\ geo \in [GeoRuns -> GeoRun]
      /\ item \in [NopItems -> NopRow]
    BY DEF NopInv, ItemInv, NopTyped
<1>R. {"none", "success", "failed"} = Results /\ {"wait", "end"} \subseteq Pcs
    BY DEF Results, Pcs
<1>H. UNCHANGED hst => HostQuiet
    BY HostWritten
<1>S. ASSUME StartsUpdate(i), item[i].pc = "update", item[i].kind \in {"updateAgent", "updateSSH"},
             UNCHANGED <<hst, row, geo, edit, release, faults, edits, rival>>
      PROVE  NopInv'
    <2>1. Moves(i, "wait") /\ \E s \in {"run", "failed"} : upd' = [upd EXCEPT ![i] = s]
        BY <1>S DEF StartsUpdate
    <2>2. upd' \in [NopItems -> {"off", "run", "ok", "died", "failed"}]
          /\ \A j \in NopItems \ {i} : upd'[j] = upd[j]
        BY <1>0, <2>1
    <2>3. OthersTyped
        BY <1>0, <1>S, <2>2, OthersWritten
    <2>4. SameBut(item'[i], item[i]) /\ item'[i].res = item[i].res /\ item'[i].pc = "wait"
        BY <1>0, <1>R, <2>1, Moved
    <2>5. KindOf(i)'
        BY <1>S, <2>4 DEF KindOf, SameBut, DeployPcs
    <2>6. PatchInv(i)'
        BY <1>0, <1>S, <2>4 DEF PatchInv, SameBut
    <2> QED
        BY <1>H, <1>R, <1>S, <2>1, <2>2, <2>3, <2>5, <2>6, MovesStep DEF IsDeploy
<1>1. CASE NothingToUpdate(i)
    <2>1. PICK why \in {"skip", "precheck"} :
            item' = [item EXCEPT ![i].pc = "end", ![i].res = "success", ![i].plan = why]
        BY <1>1 DEF NothingToUpdate
    <2> DEFINE to == "end"
               res == "success"
               new == [item[i] EXCEPT !.pc = to, !.res = res, !.plan = why]
    <2>2. to \in Pcs /\ res \in Results /\ why \in Plans /\ why # "none"
          /\ to = "end" /\ res = "success"
        BY DEF Pcs, Results, Plans
    <2>3. item' = [item EXCEPT ![i] = new]
        BY <1>0, <2>1
    <2> HIDE DEF to, res
    <2>4. /\ new \in NopRow /\ new.pc = to /\ new.res = res /\ new.plan = why
          /\ new.kind = item[i].kind /\ new.patched = item[i].patched /\ new.row = item[i].row
        BY <1>0, <2>2 DEF NopRow
    <2> HIDE DEF new
    <2>5. OnlyRow(i) /\ item'[i] = new
        BY <1>0, <2>3, <2>4, RowWritten DEF OnlyRow
    <2>6. UNCHANGED <<hst, row, upd, geo, edit, release, faults, edits, rival>>
          /\ item[i].pc = "update" /\ item[i].kind # "rebootSSH"
        BY <1>1 DEF NothingToUpdate, Step
    <2>7. item[i].kind \in {"updateAgent", "updateSSH"} /\ ~item[i].patched
        BY <1>0, <2>6 DEF KindOf, PatchInv
    <2>8. KindOf(i)' /\ DoneInv(i)' /\ PatchInv(i)'
        BY <2>2, <2>4, <2>5, <2>7 DEF KindOf, DoneInv, PatchInv, DeployPcs
    <2>9. OthersTyped /\ HostGrows /\ DeployQuiet
        BY <1>0, <1>H, <2>6, OthersSame DEF HostQuiet, DeployQuiet
    <2> QED
        BY <2>4, <2>5, <2>6, <2>7, <2>8, <2>9, StepOf DEF IsDeploy
<1>2. CASE UpdateBySSH(i)
    BY <1>2, <1>R, <1>H, <1>S, EndsStep DEF UpdateBySSH, Step
<1>3. CASE UpdateByAgent(i)
    BY <1>3, <1>R, <1>H, <1>S, EndsStep DEF UpdateByAgent, Step
<1>4. CASE UpdateEnds(i)
    <2>1. UNCHANGED <<hst, row, item, geo, edit, release, edits, rival>>
          /\ (UNCHANGED faults \/ Faulty) /\ upd[i] = "run"
          /\ \E s \in {"ok", "died", "failed"} : upd' = [upd EXCEPT ![i] = s]
        BY <1>4 DEF UpdateEnds
    <2>2. upd' \in [NopItems -> {"off", "run", "ok", "died", "failed"}]
          /\ \A j \in NopItems \ {i} : upd'[j] = upd[j]
        BY <1>0, <2>1
    <2>3. OthersTyped /\ HostGrows /\ DeployQuiet
        BY <1>0, <1>H, <2>1, <2>2, OthersWritten DEF HostQuiet, DeployQuiet
    <2>4. OnlyRow(i) /\ item'[i] = item[i]
        BY <1>0, <2>1 DEF OnlyRow
    <2>5. KindOf(i)' /\ PatchInv(i)'
        BY <1>0, <2>1, <2>4 DEF KindOf, PatchInv
    <2>6. DoneInv(i)'
        BY <1>0, <2>1, <2>4 DEF DoneInv
    <2> QED
        BY <2>1, <2>2, <2>3, <2>4, <2>5, <2>6, StepOf
<1> QED
    BY <1>1, <1>2, <1>3, <1>4

\* RebootNode, DetectVLFProto: a step that keeps something in the item.
LEMMA KeepsSteps ==
    ASSUME NopInv, NEW i \in NopItems, RebootAsked(i) \/ DetectVLFProto(i) \/ PatchCompose(i)
    PROVE  NopInv'
<1>0. /\ NopTyped /\ KindOf(i) /\ DoneInv(i) /\ PatchInv(i) /\ item[i] \in NopRow
      /\ hst \in NopHost /\ item \in [NopItems -> NopRow]
    BY DEF NopInv, ItemInv, NopTyped
<1>R. {"none", "success", "failed"} = Results
    BY DEF Results
<1>1. CASE RebootAsked(i)
    <2>1. /\ UNCHANGED <<row, upd, geo, edit, release, edits, rival>>
          /\ item[i].kind = "rebootAgent" /\ item[i].pc = "ask"
          /\ hst' = [hst EXCEPT !.pending = @ \cup {"reboot"}]
        BY <1>1 DEF RebootAsked, rebootHandler, Step
    <2>2. HostQuiet /\ hst'.boot = hst.boot /\ hst.boot \in 0..NopReboots
        <3>1. hst.pending \cup {"reboot"} \in SUBSET {"reboot", "agent"}
            BY <1>0 DEF NopHost
        <3>2. HostQuiet
            BY <2>1, <3>1, HostWritten
        <3> QED
            BY <1>0, <2>1, <3>2 DEF NopHost
    <2>3. item[i].res = "none" /\ ~item[i].patched /\ geo[i].pc = "off"
        BY <1>0, <2>1 DEF DoneInv, PatchInv
    <2>4. CASE Faulty /\ Ends(i, "failed")
        BY <1>R, <2>1, <2>2, <2>4, EndsStep
    <2>5. CASE UNCHANGED faults /\ item' = [item EXCEPT ![i].boot = hst.boot, ![i].pc = "confirm"]
        <3> DEFINE to == "confirm"
                   new == [item[i] EXCEPT !.boot = hst.boot, !.pc = to]
        <3>2. to \in Pcs /\ to = "confirm"
            BY DEF Pcs
        <3>3. item' = [item EXCEPT ![i] = new]
            BY <1>0, <2>5
        <3> HIDE DEF to
        <3>4. /\ new \in NopRow /\ new.pc = to /\ new.res = item[i].res /\ new.boot = hst.boot
              /\ new.kind = item[i].kind /\ new.patched = item[i].patched /\ new.row = item[i].row
            BY <1>0, <2>2, <3>2 DEF NopRow
        <3> HIDE DEF new
        <3>5. OnlyRow(i) /\ item'[i] = new
            BY <1>0, <3>3, <3>4, RowWritten DEF OnlyRow
        <3>6. KindOf(i)' /\ PatchInv(i)'
            BY <2>1, <2>3, <3>2, <3>4, <3>5 DEF KindOf, PatchInv, DeployPcs
        <3>7. DoneInv(i)'
            BY <2>2, <2>3, <3>4, <3>5 DEF DoneInv
        <3>8. OthersTyped /\ HostGrows /\ DeployQuiet
            BY <1>0, <2>1, <2>2, <2>5, OthersSame DEF HostQuiet, DeployQuiet
        <3> QED
            BY <2>1, <3>4, <3>5, <3>6, <3>7, <3>8, StepOf DEF IsDeploy
    <2> QED
        BY <1>1, <2>4, <2>5 DEF RebootAsked
<1>2. CASE DetectVLFProto(i)
    <2>1. UNCHANGED <<hst, row, upd, geo, edit, release, faults, edits, rival>>
          /\ item[i].pc = "detect"
        BY <1>2 DEF DetectVLFProto, Step
    <2>2. PICK plan \in Plans : item' = [item EXCEPT ![i].pc = "vlf", ![i].plan = plan]
        BY <1>2 DEF DetectVLFProto, chooseVLFProtoCommandPlan, Plans
    <2>3. item[i].kind = "vlfProto" /\ item[i].res = "none" /\ ~item[i].patched /\ geo[i].pc = "off"
        BY <1>0, <2>1 DEF KindOf, DoneInv, PatchInv
    <2> DEFINE to == "vlf"
               new == [item[i] EXCEPT !.pc = to, !.plan = plan]
    <2>4. to \in Pcs /\ to = "vlf"
        BY DEF Pcs
    <2>5. item' = [item EXCEPT ![i] = new]
        BY <1>0, <2>2
    <2> HIDE DEF to
    <2>6. /\ new \in NopRow /\ new.pc = to /\ new.res = item[i].res
          /\ new.kind = item[i].kind /\ new.patched = item[i].patched /\ new.row = item[i].row
        BY <1>0, <2>4 DEF NopRow
    <2> HIDE DEF new
    <2>7. OnlyRow(i) /\ item'[i] = new
        BY <1>0, <2>5, <2>6, RowWritten DEF OnlyRow
    <2>8. KindOf(i)' /\ DoneInv(i)' /\ PatchInv(i)'
        BY <2>1, <2>3, <2>4, <2>6, <2>7 DEF KindOf, DoneInv, PatchInv, DeployPcs
    <2>9. OthersTyped /\ HostGrows /\ DeployQuiet
        BY <1>0, <2>1, HostWritten, OthersSame DEF HostQuiet, DeployQuiet
    <2> QED
        BY <2>1, <2>3, <2>6, <2>7, <2>8, <2>9, StepOf DEF IsDeploy
<1>3. CASE PatchCompose(i)
    <2>1. UNCHANGED <<row, upd, geo, edit, release, faults, edits, rival>>
          /\ item[i].pc = "patch" /\ hst' = [hst EXCEPT !.compose = TRUE]
          /\ item' = [item EXCEPT ![i].pc = "script", ![i].patched = TRUE]
        BY <1>3 DEF PatchCompose, Step
    <2>2. HostQuiet
        BY <2>1, HostWritten
    <2>3. item[i].kind = "remnaInstall" /\ item[i].res = "none" /\ geo[i].pc = "off"
        BY <1>0, <2>1 DEF KindOf, DoneInv, PatchInv
    <2>4. hst'.compose
        BY <1>0, <2>1 DEF NopHost
    <2> DEFINE to == "script"
               yes == TRUE
               new == [item[i] EXCEPT !.pc = to, !.patched = yes]
    <2>5. to \in Pcs /\ to = "script" /\ yes \in BOOLEAN
        BY DEF Pcs
    <2>6. item' = [item EXCEPT ![i] = new]
        BY <1>0, <2>1
    <2> HIDE DEF to, yes
    <2>7. /\ new \in NopRow /\ new.pc = to /\ new.res = item[i].res
          /\ new.kind = item[i].kind /\ new.row = item[i].row
        BY <1>0, <2>5 DEF NopRow
    <2> HIDE DEF new
    <2>8. OnlyRow(i) /\ item'[i] = new
        BY <1>0, <2>6, <2>7, RowWritten DEF OnlyRow
    <2>9. KindOf(i)' /\ DoneInv(i)' /\ PatchInv(i)'
        BY <2>1, <2>3, <2>4, <2>5, <2>7, <2>8 DEF KindOf, DoneInv, PatchInv, DeployPcs, GeoActive
    <2>10. OthersTyped /\ HostGrows /\ DeployQuiet
        BY <1>0, <2>1, <2>2, OthersSame DEF HostQuiet, DeployQuiet
    <2> QED
        BY <2>1, <2>3, <2>7, <2>8, <2>9, <2>10, StepOf DEF IsDeploy
<1> QED
    BY <1>1, <1>2, <1>3

\* A run of the script that begins.
LEMMA NoRunTyped == NoRun \in GeoRun
<1>0. 0 \in 0..NopReleases
    BY NopAssumption
<1>1. ASSUME NEW no \in BOOLEAN, NEW z \in 0..NopReleases
      PROVE  [pc |-> "off", force |-> no, changed |-> no, got |-> z] \in GeoRun
    BY DEF GeoRun
<1> QED
    BY <1>0, <1>1 DEF NoRun

LEMMA RunOf ==
    ASSUME NEW force \in BOOLEAN, NEW new, new = [NoRun EXCEPT !.pc = "begin", !.force = force]
    PROVE  new \in GeoRun /\ new.pc = "begin" /\ new.force = force
<1>1. new \in GeoRun
    BY NoRunTyped DEF GeoRun
<1> QED
    BY <1>1, NoRunTyped DEF GeoRun

\* ensureRemnaComposeMounts, runRemnaScript: up to the start of the script.
LEMMA ScriptSteps ==
    ASSUME NopInv, NEW i \in NopItems, ReadCompose(i) \/ InstallScript(i) \/ RunScript(i)
    PROVE  NopInv'
<1>0. /\ NopTyped /\ KindOf(i) /\ DoneInv(i) /\ PatchInv(i) /\ item[i] \in NopRow
      /\ geo \in [GeoRuns -> GeoRun] /\ i \in GeoRuns
    BY DEF NopInv, ItemInv, NopTyped, GeoRuns
<1>R. "failed" \in Results /\ {"script", "patch", "run", "wait"} \subseteq Pcs
    BY DEF Results, Pcs
<1>1. CASE ReadCompose(i)
    <2>1. PICK to \in {"script", "patch"} : Moves(i, to)
        BY <1>1 DEF ReadCompose
    <2>2. UNCHANGED <<hst, row, upd, geo, edit, release, faults, edits, rival>>
          /\ item[i].pc = "compose"
        BY <1>1 DEF ReadCompose, Step
    <2>3. item[i].kind = "remnaInstall" /\ ~item[i].patched /\ geo[i].pc = "off"
        BY <1>0, <2>2 DEF KindOf, PatchInv
    <2>4. SameBut(item'[i], item[i]) /\ item'[i].pc = to
        BY <1>0, <1>R, <2>1, Moved
    <2>5. KindOf(i)' /\ PatchInv(i)'
        BY <2>2, <2>3, <2>4 DEF KindOf, PatchInv, SameBut, DeployPcs
    <2>6. HostQuiet /\ OthersTyped
        BY <1>0, <2>2, HostWritten, OthersSame
    <2> QED
        BY <1>R, <2>1, <2>2, <2>3, <2>5, <2>6, MovesStep DEF IsDeploy
<1>2. CASE InstallScript(i)
    <2>1. /\ Moves(i, "run") /\ hst' = [hst EXCEPT !.script = TRUE]
          /\ UNCHANGED <<row, upd, geo, edit, release, faults, edits, rival>>
          /\ item[i].pc = "script"
        BY <1>2 DEF InstallScript, Step
    <2>2. HostQuiet /\ OthersTyped
        BY <1>0, <2>1, HostWritten, OthersSame
    <2>3. item[i].kind = "remnaInstall" /\ geo[i].pc = "off"
        BY <1>0, <2>1 DEF KindOf, PatchInv
    <2>4. SameBut(item'[i], item[i]) /\ item'[i].res = item[i].res /\ item'[i].pc = "run"
        BY <1>0, <1>R, <2>1, Moved
    <2>5. KindOf(i)' /\ PatchInv(i)'
        BY <1>0, <2>1, <2>2, <2>3, <2>4
        DEF KindOf, PatchInv, DoneInv, SameBut, DeployPcs, GeoActive, HostQuiet, HostGrows
    <2> QED
        BY <1>R, <2>1, <2>2, <2>3, <2>5, MovesStep DEF IsDeploy
<1>3. CASE RunScript(i)
    <2>0. /\ UNCHANGED <<hst, row, upd, edit, release, faults, edits, rival>>
          /\ item[i].pc = "run"
        BY <1>3 DEF RunScript, Step
    <2>1. item[i].kind \in {"remnaInstall", "remnaRun"} /\ geo[i].pc = "off" /\ item[i].res = "none"
        BY <1>0, <2>0 DEF KindOf, PatchInv, DoneInv
    <2>2. HostQuiet
        BY <2>0, HostWritten
    <2>3. CASE hst.script
        <3>1. PICK asked \in BOOLEAN :
                geo' = [geo EXCEPT ![i] = [NoRun EXCEPT !.pc = "begin",
                                                        !.force = ForceReload(i, asked)]]
            BY <1>3, <2>3 DEF RunScript
        <3> DEFINE force == ForceReload(i, asked)
                   new == [NoRun EXCEPT !.pc = "begin", !.force = force]
        <3>2. force \in BOOLEAN /\ (item[i].patched => force)
            BY <1>0 DEF ForceReload, NopRow
        <3> HIDE DEF force
        <3>4. new \in GeoRun /\ new.pc = "begin" /\ new.force = force
            BY <3>2, RunOf
        <3>5. geo' = [geo EXCEPT ![i] = new]
            BY <3>1 DEF force
        <3> HIDE DEF new
        <3>6. geo' \in [GeoRuns -> GeoRun] /\ geo'[i] = new
              /\ \A j \in NopItems \ {i} : geo'[j] = geo[j]
            BY <1>0, <3>4, <3>5 DEF GeoRuns
        <3>7. OthersTyped
            BY <1>0, <2>0, <3>6, OthersWritten DEF NopTyped
        <3>8. Moves(i, "wait")
            BY <1>3, <2>3 DEF RunScript
        <3>9. SameBut(item'[i], item[i]) /\ item'[i].res = item[i].res /\ item'[i].pc = "wait"
            BY <1>0, <1>R, <3>8, Moved
        <3>10. KindOf(i)'
            BY <2>1, <3>9 DEF KindOf, SameBut, DeployPcs
        <3>11. PatchInv(i)'
            BY <1>0, <2>0, <2>1, <3>2, <3>4, <3>6, <3>9 DEF PatchInv, SameBut
        <3> QED
            BY <1>R, <2>0, <2>1, <2>2, <3>6, <3>7, <3>8, <3>10, <3>11, MovesStep DEF IsDeploy
    <2>4. CASE ~hst.script
        BY <1>3, <1>R, <2>0, <2>2, <2>4, EndsStep DEF RunScript
    <2> QED
        BY <2>3, <2>4
<1> QED
    BY <1>1, <1>2, <1>3

\* A step of nobody's item.
LEMMA StepOfNone ==
    ASSUME NopInv, UNCHANGED <<item, upd, row, edit, rival>>, HostQuiet, OthersTyped,
           \A j \in NopItems : PatchInv(j)'
    PROVE  NopInv'
<1>0. NopTyped /\ NopTyped'
    BY DEF NopInv, NopTyped, HostQuiet, HostGrows, OthersTyped
<1>1. Deploying' = Deploying
    BY DEF Deploying, IsDeploy
<1>2. RivalInv'
    BY <1>1 DEF NopInv, RivalInv
<1>3. \A j \in NopItems : KindOf(j)' /\ DoneInv(j)' /\ DeployInv(j)'
    <2> SUFFICES ASSUME NEW j \in NopItems PROVE KindOf(j)' /\ DoneInv(j)' /\ DeployInv(j)'
        OBVIOUS
    <2>1. KindOf(j) /\ DoneInv(j) /\ DeployInv(j)
        BY DEF NopInv, ItemInv
    <2>2. hst.boot \in Nat /\ hst'.boot \in Nat /\ item[j].boot \in Nat
        BY <1>0, NopAssumption DEF NopTyped, NopHost, NopRow
    <2>3. DoneInv(j)'
        BY <2>1, <2>2 DEF DoneInv, HostQuiet, HostGrows
    <2>4. DeployInv(j)'
        BY <1>1, <2>1 DEF DeployInv, HostQuiet, HostGrows
    <2> QED
        BY <2>1, <2>3, <2>4 DEF KindOf
<1> QED
    BY <1>0, <1>2, <1>3 DEF NopInv, ItemInv, HostQuiet, HostGrows

LEMMA RunGoesOn ==
    ASSUME NopInv, NEW g \in GeoRuns, NEW new \in GeoRun, geo' = [geo EXCEPT ![g] = new],
           UNCHANGED <<row, item, upd, edit, release, edits, rival>>, UNCHANGED faults \/ Faulty,
           HostQuiet,
           g \in NopItems => geo[g].pc \in GeoActive,
           new.pc # "off", new.pc \in GeoActive /\ g \in NopItems => new.force = geo[g].force,
           g \in NopItems /\ item[g].patched /\ new.pc = "ok" => hst'.mounted
    PROVE  NopInv'
<1>0. NopTyped /\ geo \in [GeoRuns -> GeoRun]
    BY DEF NopInv, NopTyped
<1>1. geo' \in [GeoRuns -> GeoRun] /\ geo'[g] = new /\ \A h \in GeoRuns \ {g} : geo'[h] = geo[h]
    BY <1>0
<1>2. OthersTyped
    BY <1>0, <1>1, OthersWritten DEF NopTyped
<1>3. ASSUME NEW j \in NopItems PROVE PatchInv(j)'
    <2>1. PatchInv(j) /\ j \in GeoRuns
        BY DEF NopInv, ItemInv, GeoRuns
    <2>2. CASE j = g
        BY <1>1, <2>1, <2>2 DEF PatchInv, HostQuiet, HostGrows, GeoActive
    <2>3. CASE j # g
        BY <1>1, <2>1, <2>3 DEF PatchInv, HostQuiet, HostGrows
    <2> QED
        BY <2>2, <2>3
<1> QED
    BY <1>2, <1>3, StepOfNone

\* The script, of an item or of cron.
LEMMA GeoSteps ==
    ASSUME NopInv, NEW g \in GeoRuns, GeoBegins(g) \/ GeoInstalls(g) \/ GeoApplies(g) \/ GeoFails(g)
    PROVE  NopInv'
<1>0. /\ NopTyped /\ geo \in [GeoRuns -> GeoRun] /\ geo[g] \in GeoRun /\ hst \in NopHost
      /\ release \in 0..NopReleases /\ (g \in NopItems => PatchInv(g))
    <2>1. release \in 1..NopReleases /\ NopReleases \in Nat
        BY NopAssumption DEF NopInv, NopTyped
    <2> QED
        BY <2>1 DEF NopInv, ItemInv, NopTyped
<1>1. CASE GeoBegins(g)
    <2>1. HostQuiet /\ geo[g].pc \in GeoActive
          /\ UNCHANGED <<row, item, upd, edit, release, faults, edits, rival>>
        BY <1>1, HostWritten DEF GeoBegins, GeoActive
    <2>2. CASE GeoLocked
        <3> DEFINE new == [geo[g] EXCEPT !.pc = "failed"]
        <3>1. geo' = [geo EXCEPT ![g] = new]
            BY <1>0, <1>1, <2>2 DEF GeoBegins
        <3>2. new \in GeoRun /\ new.pc = "failed"
            BY <1>0 DEF GeoRun
        <3> HIDE DEF new
        <3> QED
            BY <2>1, <3>1, <3>2, RunGoesOn DEF GeoActive
    <2>3. CASE ~GeoLocked
        <3> DEFINE new == [geo[g] EXCEPT !.pc = "site", !.got = release]
        <3>1. geo' = [geo EXCEPT ![g] = new]
            BY <1>0, <1>1, <2>3 DEF GeoBegins
        <3>2. new \in GeoRun /\ new.pc = "site" /\ new.force = geo[g].force
            BY <1>0 DEF GeoRun
        <3> HIDE DEF new
        <3> QED
            BY <2>1, <3>1, <3>2, RunGoesOn DEF GeoActive
    <2> QED
        BY <2>2, <2>3
<1>2. CASE GeoInstalls(g)
    <2> DEFINE f == IF geo[g].pc = "site" THEN "geosite" ELSE "geoip"
               data == [hst.data EXCEPT ![f] = geo[g].got]
               to == IF geo[g].pc = "site" THEN "ip" ELSE "up"
               ch == geo[g].changed \/ hst.data[f] # geo[g].got
               new == [geo[g] EXCEPT !.pc = to, !.changed = ch]
    <2>1. geo' = [geo EXCEPT ![g] = new]
        BY <1>0, <1>2 DEF GeoInstalls
    <2>2. hst' = [hst EXCEPT !.data = data]
        BY <1>0, <1>2 DEF GeoInstalls
    <2>3. f \in Files
        BY DEF Files
    <2> HIDE DEF f
    <2>4. data \in [Files -> 0..NopReleases]
        BY <1>0, <2>3 DEF NopHost, GeoRun
    <2>5. ch \in BOOLEAN /\ to \in {"ip", "up"}
        BY <1>0 DEF GeoRun
    <2> HIDE DEF ch, to, data
    <2>6. new \in GeoRun /\ new.pc = to /\ new.force = geo[g].force
        BY <1>0, <2>5 DEF GeoRun
    <2> HIDE DEF new
    <2>7. HostQuiet
        BY <2>2, <2>4, HostWritten
    <2>8. geo[g].pc \in GeoActive /\ to \in GeoActive /\ to # "ok"
          /\ UNCHANGED <<row, item, upd, edit, release, faults, edits, rival>>
        BY <1>2, <2>5 DEF GeoInstalls, GeoActive
    <2> QED
        BY <2>1, <2>5, <2>6, <2>7, <2>8, RunGoesOn
<1>3. CASE GeoApplies(g)
    <2> DEFINE new == [geo[g] EXCEPT !.pc = "ok"]
    <2>1. geo' = [geo EXCEPT ![g] = new]
        BY <1>0, <1>3 DEF GeoApplies
    <2>2. new \in GeoRun /\ new.pc = "ok"
        BY <1>0 DEF GeoRun
    <2> HIDE DEF new
    <2>3. HostQuiet /\ geo[g].pc = "up"
          /\ UNCHANGED <<row, item, upd, edit, release, faults, edits, rival>>
        BY <1>3, HostWritten DEF GeoApplies
    <2>4. g \in NopItems /\ item[g].patched => hst'.mounted
        BY <1>0, <1>3, <2>3 DEF GeoApplies, PatchInv, GeoActive, NopHost
    <2> QED
        BY <2>1, <2>2, <2>3, <2>4, RunGoesOn DEF GeoActive
<1>4. CASE GeoFails(g)
    <2> DEFINE new == [geo[g] EXCEPT !.pc = "failed"]
    <2>1. geo' = [geo EXCEPT ![g] = new]
        BY <1>0, <1>4 DEF GeoFails
    <2>2. new \in GeoRun /\ new.pc = "failed"
        BY <1>0 DEF GeoRun
    <2> HIDE DEF new
    <2>3. HostQuiet /\ geo[g].pc \in GeoActive /\ Faulty
          /\ UNCHANGED <<row, item, upd, edit, release, edits, rival>>
        BY <1>4, HostWritten DEF GeoFails, GeoActive
    <2> QED
        BY <2>1, <2>2, <2>3, RunGoesOn DEF GeoActive
<1> QED
    BY <1>1, <1>2, <1>3, <1>4

LEMMA CronSteps ==
    ASSUME NopInv, CronRuns \/ Publish
    PROVE  NopInv'
<1>0. NopTyped /\ Cron \in GeoRuns /\ Cron \notin NopItems
    BY NopAssumption DEF NopInv, GeoRuns, Cron
<1>1. CASE CronRuns
    <2> DEFINE new == [NoRun EXCEPT !.pc = "begin"]
    <2>1. new \in GeoRun /\ new.pc = "begin"
        BY NoRunTyped DEF GeoRun
    <2>2. geo' = [geo EXCEPT ![Cron] = new]
        BY <1>1 DEF CronRuns
    <2> HIDE DEF new
    <2>3. HostQuiet /\ UNCHANGED <<row, item, upd, edit, release, faults, edits, rival>>
        BY <1>1, HostWritten DEF CronRuns
    <2> QED
        BY <1>0, <2>1, <2>2, <2>3, RunGoesOn
<1>2. CASE Publish
    <2>1. HostQuiet /\ UNCHANGED <<row, item, upd, geo, edit, faults, edits, rival, hst>>
        BY <1>2, HostWritten DEF Publish
    <2>2. OthersTyped
        BY <1>0, <1>2, NopAssumption DEF Publish, NopTyped, OthersTyped
    <2>3. \A j \in NopItems : PatchInv(j)'
        BY <2>1 DEF PatchInv, NopInv, ItemInv
    <2> QED
        BY <2>1, <2>2, <2>3, StepOfNone
<1> QED
    BY <1>1, <1>2

------------------------------------------------------------------------------
(* Deployments *)

\* What a step of a deployment leaves of the others: they are in the way of one another.
LEMMA DeployStep ==
    ASSUME NopInv, NEW i \in NopItems, item[i].pc \in DeployPcs, OnlyRow(i),
           item'[i].kind = item[i].kind, item'[i].patched = item[i].patched,
           (item'[i].pc \in DeployPcs /\ item'[i].res = item[i].res) \/ item'[i].pc = "end",
           HostGrows, OthersTyped, UNCHANGED <<upd, geo, edit, rival>>, DeployInv(i)'
    PROVE  NopInv'
<1>0. NopTyped /\ NopTyped' /\ KindOf(i) /\ DoneInv(i) /\ PatchInv(i)
    BY DEF NopInv, ItemInv, NopTyped, OnlyRow, HostGrows, OthersTyped
<1>1. IsDeploy(i) /\ i \in Deploying /\ ~item[i].patched
    BY <1>0 DEF KindOf, PatchInv, DeployPcs, IsDeploy, Deploying
<1>2. Deploying' \subseteq Deploying
    BY <1>1 DEF Deploying, IsDeploy, OnlyRow
<1>3. RivalInv'
    BY <1>2 DEF NopInv, RivalInv
<1>4. \A j \in NopItems \ {i} : KindOf(j)' /\ DoneInv(j)' /\ PatchInv(j)'
    BY OthersKept DEF OnlyRow
<1>5. \A j \in NopItems \ {i} : DeployInv(j)'
    BY <1>1, <1>2 DEF DeployInv, NopInv, RivalInv
<1>6. KindOf(i)'
    BY <1>1 DEF KindOf, DeployPcs, IsDeploy
<1>7. DoneInv(i)'
    BY <1>0, <1>1 DEF DoneInv, DeployPcs, IsDeploy
<1>8. PatchInv(i)'
    BY <1>0, <1>1 DEF PatchInv, DeployPcs
<1> QED
    BY <1>0, <1>3, <1>4, <1>5, <1>6, <1>7, <1>8 DEF NopInv, ItemInv, HostGrows

\* executeItem: an item begins with what the row says.
LEMMA BeginStep ==
    ASSUME NopInv, NEW i \in NopItems, Begin(i)
    PROVE  NopInv'
<1>0. /\ NopTyped /\ DoneInv(i) /\ PatchInv(i) /\ item[i] \in NopRow /\ row \in NodeRow
      /\ item \in [NopItems -> NopRow] /\ rival \subseteq NopItems
    BY DEF NopInv, ItemInv, NopTyped
<1>1. /\ item[i].pc = "idle" /\ UNCHANGED <<hst, row, upd, geo, edit, release, faults, edits>>
      /\ item' = [item EXCEPT ![i].pc = FirstStep[item[i].kind], ![i].row = row]
      /\ rival' = IF IsDeploy(i) /\ (Deploying # {} \/ edit.busy)
                  THEN rival \cup {i} \cup Deploying ELSE rival
    BY DEF Begin, Step
<1> DEFINE to == FirstStep[item[i].kind]
           new == [item[i] EXCEPT !.pc = to, !.row = row]
<1>2. /\ to \in Pcs \ {"idle", "wait", "end", "confirm"}
      /\ to \in {"probe"} \cup {"ask", "update", "compose", "run", "detect"}
      /\ to = "probe" <=> item[i].kind = "deploy"
      /\ to = "ask" => item[i].kind \in {"rebootAgent", "restartAgent"}
      /\ to = "update" => item[i].kind \in {"rebootSSH", "updateAgent", "updateSSH"}
      /\ to = "compose" => item[i].kind = "remnaInstall"
      /\ to = "run" => item[i].kind = "remnaRun"
      /\ to = "detect" => item[i].kind = "vlfProto"
    <2>1. item[i].kind \in OpKinds
        BY <1>0 DEF NopRow
    <2>2. CASE item[i].kind = "deploy"
        <3>1. to = "probe"
            BY <2>1, <2>2 DEF FirstStep
        <3> QED
            BY <2>2, <3>1 DEF Pcs
    <2>3. CASE item[i].kind \in {"rebootAgent", "restartAgent"}
        <3>1. to = "ask"
            BY <2>1, <2>3 DEF FirstStep
        <3> QED
            BY <2>3, <3>1 DEF Pcs
    <2>4. CASE item[i].kind \in {"rebootSSH", "updateAgent", "updateSSH"}
        <3>1. to = "update"
            BY <2>1, <2>4 DEF FirstStep
        <3> QED
            BY <2>4, <3>1 DEF Pcs
    <2>5. CASE item[i].kind = "remnaInstall"
        <3>1. to = "compose"
            BY <2>1, <2>5 DEF FirstStep
        <3> QED
            BY <2>5, <3>1 DEF Pcs
    <2>6. CASE item[i].kind = "remnaRun"
        <3>1. to = "run"
            BY <2>1, <2>6 DEF FirstStep
        <3> QED
            BY <2>6, <3>1 DEF Pcs
    <2>7. CASE item[i].kind = "vlfProto"
        <3>1. to = "detect"
            BY <2>1, <2>7 DEF FirstStep
        <3> QED
            BY <2>7, <3>1 DEF Pcs
    <2> QED
        BY <2>1, <2>2, <2>3, <2>4, <2>5, <2>6, <2>7 DEF OpKinds
<1>3. item' = [item EXCEPT ![i] = new]
    BY <1>0, <1>1
<1> HIDE DEF to
<1>4. /\ new \in NopRow /\ new.pc = to /\ new.res = item[i].res /\ new.row = row
      /\ new.kind = item[i].kind /\ new.patched = item[i].patched
    BY <1>0, <1>2 DEF NopRow
<1> HIDE DEF new
<1>5. OnlyRow(i) /\ item'[i] = new
    BY <1>0, <1>3, <1>4, RowWritten DEF OnlyRow
<1>6. HostGrows
    BY <1>1, HostSame
<1>7. Deploying' = IF IsDeploy(i) THEN Deploying \cup {i} ELSE Deploying
    BY <1>1, <1>2, <1>4, <1>5 DEF Deploying, IsDeploy, OnlyRow
<1>8. rival' \subseteq NopItems /\ rival \subseteq rival'
    BY <1>0, <1>1 DEF Deploying
<1>9. NopTyped'
    BY <1>1, <1>5, <1>8 DEF NopInv, NopTyped, OnlyRow
<1>10. RivalInv'
    BY <1>1, <1>7 DEF NopInv, RivalInv
<1>11. ASSUME NEW j \in NopItems \ {i} PROVE KindOf(j)' /\ DoneInv(j)' /\ PatchInv(j)' /\ DeployInv(j)'
    <2>1. KindOf(j)' /\ DoneInv(j)' /\ PatchInv(j)'
        BY <1>1, <1>5, <1>6, OthersKept DEF OnlyRow
    <2>2. j \in (Deploying \ rival)' => j \in Deploying \ rival
        BY <1>7, <1>8
    <2>3. DeployInv(j)'
        BY <1>1, <1>5, <2>2 DEF DeployInv, NopInv, ItemInv, OnlyRow
    <2> QED
        BY <2>1, <2>3
<1>12. KindOf(i)' /\ DoneInv(i)' /\ PatchInv(i)' /\ DeployInv(i)'
    <2>1. KindOf(i)'
        BY <1>2, <1>4, <1>5 DEF KindOf, DeployPcs
    <2>2. DoneInv(i)'
        BY <1>0, <1>1, <1>2, <1>4, <1>5 DEF DoneInv
    <2>3. PatchInv(i)'
        BY <1>0, <1>1, <1>2, <1>4, <1>5 DEF PatchInv
    <2>4. DeployInv(i)'
        BY <1>1, <1>2, <1>4, <1>5 DEF DeployInv
    <2> QED
        BY <2>1, <2>2, <2>3, <2>4
<1> QED
    BY <1>6, <1>9, <1>10, <1>11, <1>12 DEF NopInv, ItemInv, HostGrows

\* An agent that starts takes the token of the config or ends; nothing else changes.
LEMMA Started ==
    ASSUME NEW h \in NopHost, NEW started \in AgentStarts(h)
    PROVE  /\ started \in NopHost /\ started.agent \in {0, h.conf}
           /\ started.conf = h.conf /\ started.tmp = h.tmp /\ started.unit = h.unit
           /\ started.boot = h.boot /\ started.compose = h.compose /\ started.mounted = h.mounted
<1>1. PICK token \in {h.conf, 0} : started = [h EXCEPT !.agent = token]
    BY DEF AgentStarts
<1>2. token \in Tokens
    BY DEF NopHost, Tokens
<1> QED
    BY <1>1, <1>2 DEF NopHost

\* What the steps of DeployAgent do to the host.
LEMMA OnHostDone ==
    ASSUME NopInv, NEW i \in NopItems, item[i].pc \in DeploySteps, hst' \in OnHost(i),
           item[i].pc = "installConf" => hst.tmp # 0
    PROVE  /\ HostGrows
           /\ item[i].pc = "uploadConf" => hst'.tmp = i
           /\ item[i].pc = "installConf" => hst'.conf = hst.tmp
           /\ item[i].pc = "enable" => hst'.conf = hst.conf /\ hst'.unit
           /\ item[i].pc = "restart" =>
                 hst'.conf = hst.conf /\ hst'.agent \in {0, hst.conf} /\ hst'.unit = hst.unit
<1>0. hst \in NopHost /\ hst.boot \in Nat /\ (hst.mounted => hst.compose) /\ i \in Tokens
    BY NopAssumption DEF NopInv, NopTyped, NopHost, Tokens
<1>1. CASE item[i].pc = "binary"
    BY <1>0, <1>1, HostSame DEF OnHost, Step
<1>2. CASE item[i].pc = "uploadConf"
    <2>1. hst' = [hst EXCEPT !.tmp = i]
        BY <1>2 DEF OnHost, Step
    <2> QED
        BY <1>0, <1>2, <2>1 DEF HostGrows, NopHost
<1>3. CASE item[i].pc = "installConf"
    <2>1. hst' = [hst EXCEPT !.conf = hst.tmp]
        BY <1>3 DEF OnHost, Step
    <2> QED
        BY <1>0, <1>3, <2>1 DEF HostGrows, NopHost
<1>4. CASE item[i].pc = "enable"
    <2> DEFINE yes == TRUE
               on == [hst EXCEPT !.unit = yes]
    <2>1. hst' \in IF hst.agent = 0 THEN AgentStarts(on) ELSE {on}
        BY <1>4 DEF OnHost, Step
    <2>2. yes \in BOOLEAN /\ yes
        OBVIOUS
    <2> HIDE DEF yes
    <2>3. /\ on \in NopHost /\ on.boot = hst.boot /\ on.compose = hst.compose
          /\ on.mounted = hst.mounted /\ on.conf = hst.conf
        BY <1>0, <2>2 DEF NopHost
    <2>4. on.unit = yes
        BY <1>0 DEF NopHost
    <2> HIDE DEF on
    <2>5. /\ hst' \in NopHost /\ hst'.boot = hst.boot /\ hst'.compose = hst.compose
          /\ hst'.mounted = hst.mounted /\ hst'.conf = hst.conf /\ hst'.unit = yes
        BY <2>1, <2>3, <2>4, Started
    <2> QED
        BY <1>0, <1>4, <2>2, <2>5 DEF HostGrows
<1>5. CASE item[i].pc = "restart"
    <2>1. hst' \in AgentStarts(hst)
        BY <1>5 DEF OnHost, Step
    <2>2. /\ hst' \in NopHost /\ hst'.agent \in {0, hst.conf}
          /\ hst'.conf = hst.conf /\ hst'.unit = hst.unit
          /\ hst'.boot = hst.boot /\ hst'.compose = hst.compose /\ hst'.mounted = hst.mounted
        BY <1>0, <2>1, Started
    <2> QED
        BY <1>0, <1>5, <2>2 DEF HostGrows
<1> QED
    BY <1>1, <1>2, <1>3, <1>4, <1>5 DEF DeploySteps

LEMMA DeployAgentSteps ==
    ASSUME NopInv, NEW i \in NopItems, DeployAgentStep(i) \/ DeployAgentFails(i)
    PROVE  NopInv'
<1>0. /\ NopTyped /\ DeployInv(i) /\ item[i] \in NopRow /\ item[i].pc \in DeployPcs
      /\ item[i].pc \in DeploySteps
    BY DEF NopInv, ItemInv, NopTyped, DeployAgentStep, DeployAgentFails, DeploySteps, DeployPcs
<1>1. CASE DeployAgentStep(i)
    <2>1. HostGrows
          /\ (item[i].pc = "uploadConf" => hst'.tmp = i)
          /\ (item[i].pc = "installConf" => hst'.conf = hst.tmp /\ hst.tmp # 0)
          /\ (item[i].pc = "enable" => hst'.conf = hst.conf /\ hst'.unit)
          /\ (item[i].pc = "restart" =>
                 hst'.conf = hst.conf /\ hst'.agent \in {0, hst.conf} /\ hst'.unit = hst.unit)
        BY <1>0, <1>1, OnHostDone DEF DeployAgentStep, Step
    <2>2. /\ item[i].pc = "binary" => AfterStep(i) = "uploadConf"
          /\ item[i].pc = "uploadConf" => AfterStep(i) = "installConf"
          /\ item[i].pc = "installConf" => AfterStep(i) = "enable"
          /\ item[i].pc = "enable" => AfterStep(i) = "restart"
          /\ item[i].pc = "restart" => AfterStep(i) \in {"contact", "persist"}
        BY DEF AfterStep, Step
    <2>3. AfterStep(i) \in Pcs /\ AfterStep(i) \in DeployPcs
        BY <1>0, <2>2 DEF Pcs, DeploySteps, DeployPcs
    <2>4. OnlyRow(i) /\ SameBut(item'[i], item[i]) /\ item'[i].res = item[i].res
          /\ item'[i].pc = AfterStep(i)
        BY <1>0, <1>1, <2>3, Moved DEF DeployAgentStep
    <2>5. UNCHANGED <<row, upd, geo, edit, release, faults, edits, rival>>
        BY <1>1 DEF DeployAgentStep
    <2>6. OthersTyped
        BY <1>0, <2>5, OthersSame
    <2>7. DeployInv(i)'
        <3> SUFFICES ASSUME i \in (Deploying \ rival)' PROVE DeployInv(i)'
            BY DEF DeployInv
        <3>1. i \in Deploying \ rival
            BY <1>0, <2>4, <2>5 DEF Deploying, IsDeploy, SameBut, DeployPcs
        <3> QED
            BY <1>0, <2>1, <2>2, <2>4, <2>5, <3>1 DEF DeployInv, SameBut, DeploySteps
    <2> QED
        BY <1>0, <2>1, <2>3, <2>4, <2>5, <2>6, <2>7, DeployStep DEF SameBut
<1>2. CASE DeployAgentFails(i)
    <2>1. HostGrows
        BY <1>0, <1>2, OnHostDone, HostSame DEF DeployAgentFails, Step
    <2>2. "failed" \in Results /\ Ends(i, "failed") /\ Faulty
          /\ UNCHANGED <<row, upd, geo, edit, release, edits, rival>>
        BY <1>2 DEF DeployAgentFails, Results
    <2>3. OnlyRow(i) /\ SameBut(item'[i], item[i]) /\ item'[i].pc = "end"
        BY <1>0, <2>2, Ended
    <2>4. OthersTyped
        BY <1>0, <2>2, OthersSame
    <2>5. DeployInv(i)'
        BY <2>3 DEF DeployInv, Deploying
    <2> QED
        BY <1>0, <2>1, <2>2, <2>3, <2>4, <2>5, DeployStep DEF SameBut
<1> QED
    BY <1>1, <1>2

LEMMA DeployEnds ==
    ASSUME NopInv, NEW i \in NopItems,
           BuildDeployParams(i) \/ FirstContact(i) \/ persistAgentSettings(i)
    PROVE  NopInv'
<1>0. /\ NopTyped /\ DeployInv(i) /\ item[i] \in NopRow /\ item[i].pc \in DeployPcs
      /\ item \in [NopItems -> NopRow] /\ row \in NodeRow /\ i \in Tokens
    BY DEF NopInv, ItemInv, NopTyped, BuildDeployParams, FirstContact, persistAgentSettings,
           DeployPcs, Step, Tokens
<1>R. {"failed", "success"} \subseteq Results /\ {"binary", "persist"} \subseteq Pcs
      /\ {"binary", "persist"} \subseteq DeployPcs
    BY DEF Results, Pcs, DeployPcs
<1>1. CASE BuildDeployParams(i)
    <2>1. UNCHANGED <<hst, row, upd, geo, edit, release, faults, edits, rival>>
        BY <1>1 DEF BuildDeployParams
    <2>2. PICK check \in BOOLEAN : item' = [item EXCEPT ![i].pc = "binary", ![i].check = check]
        BY <1>1 DEF BuildDeployParams
    <2> DEFINE to == "binary"
               new == [item[i] EXCEPT !.pc = to, !.check = check]
    <2>3. to \in Pcs /\ to = "binary"
        BY <1>R
    <2>4. item' = [item EXCEPT ![i] = new]
        BY <1>0, <2>2
    <2> HIDE DEF to
    <2>5. /\ new \in NopRow /\ new.pc = to /\ new.res = item[i].res /\ new.row = item[i].row
          /\ new.kind = item[i].kind /\ new.patched = item[i].patched
        BY <1>0, <2>3 DEF NopRow
    <2> HIDE DEF new
    <2>6. OnlyRow(i) /\ item'[i] = new
        BY <1>0, <2>4, <2>5, RowWritten DEF OnlyRow
    <2>7. HostGrows /\ OthersTyped
        BY <1>0, <2>1, HostSame, OthersSame
    <2>8. DeployInv(i)'
        <3> SUFFICES ASSUME i \in (Deploying \ rival)' PROVE DeployInv(i)'
            BY DEF DeployInv
        <3>1. i \in Deploying \ rival
            BY <1>0, <2>1, <2>5, <2>6 DEF Deploying, IsDeploy, DeployPcs
        <3> QED
            BY <1>0, <2>1, <2>3, <2>5, <2>6, <3>1 DEF DeployInv
    <2> QED
        BY <1>0, <1>R, <2>1, <2>3, <2>5, <2>6, <2>7, <2>8, DeployStep
<1>2. CASE FirstContact(i)
    <2>1. UNCHANGED <<hst, upd, geo, edit, release, faults, edits, rival>>
          /\ item[i].pc = "contact" /\ Moves(i, "persist")
        BY <1>2 DEF FirstContact, Step
    <2>2. row' \in NodeRow /\ row'.token = row.token
        BY <1>0, <1>2 DEF FirstContact, persistAgentContact, NodeRow
    <2>3. OnlyRow(i) /\ SameBut(item'[i], item[i]) /\ item'[i].res = item[i].res
          /\ item'[i].pc = "persist"
        BY <1>0, <1>R, <2>1, Moved
    <2>4. HostGrows /\ OthersTyped
        BY <1>0, <2>1, <2>2, HostSame DEF OthersTyped, NopTyped
    <2>5. DeployInv(i)'
        <3> SUFFICES ASSUME i \in (Deploying \ rival)' PROVE DeployInv(i)'
            BY DEF DeployInv
        <3>1. i \in Deploying \ rival
            BY <1>0, <2>1, <2>3 DEF Deploying, IsDeploy, SameBut
        <3> QED
            BY <1>0, <2>1, <2>2, <2>3, <3>1 DEF DeployInv, SameBut
    <2> QED
        BY <1>0, <1>R, <2>1, <2>3, <2>4, <2>5, DeployStep DEF SameBut
<1>3. CASE persistAgentSettings(i)
    <2>1. UNCHANGED <<hst, upd, geo, edit, release, edits, rival>>
          /\ (UNCHANGED faults \/ Faulty)
        BY <1>3 DEF persistAgentSettings
    <2>2. PICK res \in Results : Ends(i, res)
        BY <1>3, <1>R DEF persistAgentSettings
    <2>3. row' \in NodeRow
        <3>1. ASSUME NEW on \in BOOLEAN, on PROVE [row EXCEPT !.token = i, !.enabled = on] \in NodeRow
            BY <1>0, <3>1 DEF NodeRow
        <3> QED
            BY <1>0, <1>3, <3>1 DEF persistAgentSettings
    <2>4. OnlyRow(i) /\ SameBut(item'[i], item[i]) /\ item'[i].pc = "end"
        BY <1>0, <2>2, Ended
    <2>5. faults' \in 0..NopFaults
        BY <1>0, <2>1, NopAssumption DEF NopTyped, Faulty
    <2>6. HostGrows /\ OthersTyped
        BY <1>0, <2>1, <2>3, <2>5, HostSame DEF OthersTyped, NopTyped
    <2>7. DeployInv(i)'
        BY <2>4 DEF DeployInv, Deploying
    <2> QED
        BY <1>0, <2>1, <2>4, <2>6, <2>7, DeployStep DEF SameBut
<1> QED
    BY <1>1, <1>2, <1>3

\* UpdateNode: an edit is in the way of every deployment between its read and its save.
LEMMA UpdateNodeSteps ==
    ASSUME NopInv, UpdateNodeReads \/ UpdateNodeSaves
    PROVE  NopInv'
<1>0. NopTyped /\ row \in NodeRow /\ edit \in [busy : BOOLEAN, row : NodeRow]
    BY DEF NopInv, NopTyped
<1>1. HostGrows /\ Deploying' = Deploying
    BY HostSame DEF UpdateNodeReads, UpdateNodeSaves, Deploying, IsDeploy
<1>2. \A j \in NopItems : KindOf(j)' /\ DoneInv(j)' /\ PatchInv(j)'
    BY <1>1, OthersKept DEF UpdateNodeReads, UpdateNodeSaves
<1>3. CASE UpdateNodeReads
    <2>1. Deploying \subseteq rival' /\ rival' \subseteq NopItems
        BY <1>0, <1>3 DEF UpdateNodeReads, NopTyped, Deploying
    <2>2. OthersTyped
        <3>1. edits' \in 0..NopEdits
            BY <1>0, <1>3, NopAssumption DEF UpdateNodeReads, NopTyped
        <3>2. edit' \in [busy : BOOLEAN, row : NodeRow]
            <4>1. ASSUME NEW b \in BOOLEAN PROVE [busy |-> b, row |-> row] \in [busy : BOOLEAN, row : NodeRow]
                BY <1>0
            <4> QED
                BY <1>3, <4>1 DEF UpdateNodeReads
        <3> QED
            BY <1>0, <1>3, <2>1, <3>1, <3>2 DEF UpdateNodeReads, NopTyped, OthersTyped
    <2>3. NopTyped'
        BY <1>0, <1>1, <1>3, <2>2 DEF UpdateNodeReads, NopTyped, OthersTyped, HostGrows
    <2>4. RivalInv' /\ \A j \in NopItems : DeployInv(j)'
        BY <1>1, <2>1 DEF RivalInv, DeployInv
    <2> QED
        BY <1>1, <1>2, <2>3, <2>4 DEF NopInv, ItemInv, HostGrows
<1>4. CASE UpdateNodeSaves
    <2>1. edit.busy /\ UNCHANGED <<hst, item, upd, geo, release, faults, edits, rival>>
        BY <1>4 DEF UpdateNodeSaves
    <2>2. row' \in NodeRow
        BY <1>0, <1>4 DEF UpdateNodeSaves, NodeRow
    <2>3. edit' \in [busy : BOOLEAN, row : NodeRow] /\ ~edit'.busy
        <3>1. NoAgent \in NodeRow
            <4>1. ASSUME NEW b \in BOOLEAN, NEW z \in Tokens
                  PROVE  [token |-> z, enabled |-> b, installed |-> b] \in NodeRow
                BY DEF NodeRow
            <4>2. 0 \in Tokens
                BY DEF Tokens
            <4> QED
                BY <4>1, <4>2 DEF NoAgent
        <3>2. ASSUME NEW b \in BOOLEAN, NEW r \in NodeRow
              PROVE  [busy |-> b, row |-> r] \in [busy : BOOLEAN, row : NodeRow]
            OBVIOUS
        <3>3. edit' = [busy |-> FALSE, row |-> NoAgent]
            BY <1>4 DEF UpdateNodeSaves
        <3> QED
            BY <3>1, <3>2, <3>3
    <2>4. NopTyped'
        BY <1>0, <2>1, <2>2, <2>3 DEF NopTyped
    <2>5. Deploying \subseteq rival'
        BY <2>1 DEF NopInv, RivalInv
    <2>6. RivalInv' /\ \A j \in NopItems : DeployInv(j)'
        BY <1>1, <2>5 DEF RivalInv, DeployInv
    <2> QED
        BY <1>1, <1>2, <2>4, <2>6 DEF NopInv, ItemInv, HostGrows
<1> QED
    BY <1>3, <1>4

\* rebootHandler, restartServiceHandler: what the host does a moment later.
LEMMA RebootSteps ==
    ASSUME NopInv, AgentRestarts \/ SystemdStartsAgent \/ HostReboots
    PROVE  NopInv'
<1>0. /\ NopTyped /\ hst \in NopHost /\ (hst.mounted => hst.compose) /\ hst.boot \in 0..NopReboots
      /\ upd \in [NopItems -> {"off", "run", "ok", "died", "failed"}] /\ geo \in [GeoRuns -> GeoRun]
      /\ NopReboots \in Nat
    BY NopAssumption DEF NopInv, NopTyped, NopHost
<1>1. CASE AgentRestarts \/ SystemdStartsAgent
    <2> DEFINE pending == hst.pending \ {"agent"}
               done == [hst EXCEPT !.pending = pending]
    <2>0. /\ done \in NopHost /\ done.agent = hst.agent /\ done.conf = hst.conf /\ done.tmp = hst.tmp
          /\ done.unit = hst.unit /\ done.boot = hst.boot /\ done.mounted = hst.mounted
          /\ done.compose = hst.compose
        <3>1. pending \in SUBSET {"reboot", "agent"}
            BY <1>0 DEF NopHost
        <3> HIDE DEF pending
        <3> QED
            BY <1>0, <3>1 DEF NopHost
    <2>1. /\ \/ hst' \in AgentStarts(hst)
             \/ hst' \in IF hst.unit THEN AgentStarts(done) ELSE {done}
          /\ UNCHANGED <<row, item, upd, geo, edit, release, faults, edits, rival>>
        BY <1>1 DEF AgentRestarts, SystemdStartsAgent
    <2> HIDE DEF done
    <2>2. /\ hst' \in NopHost /\ hst'.conf = hst.conf /\ hst'.tmp = hst.tmp
          /\ hst'.unit = hst.unit /\ hst'.boot = hst.boot
          /\ hst'.mounted = hst.mounted /\ hst'.compose = hst.compose
          /\ hst.unit => hst'.agent \in {0, hst.conf}
        BY <1>0, <2>0, <2>1, Started
    <2>3. HostGrows
        BY <1>0, <2>2 DEF HostGrows
    <2>4. NopTyped'
        BY <1>0, <2>1, <2>3 DEF NopTyped, HostGrows
    <2>5. \A j \in NopItems : KindOf(j)' /\ DoneInv(j)' /\ PatchInv(j)'
        BY <2>1, <2>3, OthersKept
    <2>6. Deploying' = Deploying
        BY <2>1 DEF Deploying, IsDeploy
    <2>7. RivalInv'
        BY <2>1, <2>6 DEF NopInv, RivalInv
    <2>8. ASSUME NEW j \in NopItems PROVE DeployInv(j)'
        <3>1. DeployInv(j)
            BY DEF NopInv, ItemInv
        <3> QED
            BY <2>1, <2>2, <2>6, <3>1 DEF DeployInv
    <2> QED
        BY <2>3, <2>4, <2>5, <2>7, <2>8 DEF NopInv, ItemInv, HostGrows
<1>2. CASE HostReboots
    <2> DEFINE boot == hst.boot + 1
               nothing == {}
               zero == 0
               down == [hst EXCEPT !.boot = boot, !.pending = nothing, !.tmp = zero, !.agent = zero]
    <2>1. hst' \in (IF hst.unit THEN AgentStarts(down) ELSE {down})
          /\ UNCHANGED <<row, item, edit, release, faults, edits, rival>>
        BY <1>2 DEF HostReboots
    <2>2. /\ boot \in 0..NopReboots /\ boot >= hst.boot /\ zero \in Tokens /\ zero = 0
          /\ nothing \in SUBSET {"reboot", "agent"}
        BY <1>0, <1>2 DEF NopHost, HostReboots, Tokens
    <2> HIDE DEF boot, nothing, zero
    <2>0. /\ down \in NopHost /\ down.agent = 0 /\ down.conf = hst.conf /\ down.tmp = 0
          /\ down.unit = hst.unit /\ down.boot >= hst.boot /\ down.mounted = hst.mounted
          /\ down.compose = hst.compose
        <3>1. down \in NopHost
            BY <1>0, <2>2 DEF NopHost
        <3> QED
            BY <1>0, <2>2, <3>1 DEF NopHost
    <2> HIDE DEF down
    <2>3. /\ HostGrows /\ hst'.agent \in {0, hst.conf} /\ hst'.conf = hst.conf /\ hst'.tmp = 0
          /\ hst'.unit = hst.unit
        BY <1>0, <2>0, <2>1, Started DEF HostGrows
    <2>4. upd' \in [NopItems -> {"off", "run", "ok", "died", "failed"}]
        BY <1>0, <1>2 DEF HostReboots
    <2>5. geo' = [g \in GeoRuns |-> IF geo[g].pc \in GeoActive
                                    THEN [geo[g] EXCEPT !.pc = "failed"] ELSE geo[g]]
        BY <1>2 DEF HostReboots, GeoActive
    <2>6. ASSUME NEW g \in GeoRuns
          PROVE  geo'[g] \in GeoRun /\ (geo'[g] = geo[g] \/ (geo[g].pc \in GeoActive /\ geo'[g].pc = "failed"))
        <3>1. geo[g] \in GeoRun
            BY <1>0
        <3> DEFINE late == [geo[g] EXCEPT !.pc = "failed"]
        <3>2. late \in GeoRun /\ late.pc = "failed"
            BY <3>1 DEF GeoRun
        <3>3. geo'[g] = IF geo[g].pc \in GeoActive THEN late ELSE geo[g]
            BY <2>5
        <3> HIDE DEF late
        <3> QED
            BY <3>1, <3>2, <3>3
    <2>7. geo' \in [GeoRuns -> GeoRun]
        BY <2>5, <2>6
    <2>8. NopTyped'
        BY <1>0, <2>1, <2>3, <2>4, <2>7 DEF NopTyped, HostGrows
    <2>9. ASSUME NEW j \in NopItems PROVE KindOf(j)' /\ DoneInv(j)' /\ PatchInv(j)'
        <3>1. KindOf(j) /\ DoneInv(j) /\ PatchInv(j) /\ item'[j] = item[j]
            BY <2>1 DEF NopInv, ItemInv
        <3>2. KindOf(j)'
            BY <3>1 DEF KindOf
        <3>3. item[j].boot \in Nat /\ hst.boot \in Nat /\ hst'.boot \in Nat
            BY <1>0, <2>8 DEF NopTyped, NopRow, NopHost
        <3>4. DoneInv(j)'
            BY <2>3, <3>1, <3>3 DEF DoneInv, HostGrows
        <3>5. geo'[j] = geo[j] \/ (geo[j].pc \in GeoActive /\ geo'[j].pc = "failed")
            BY <2>6 DEF GeoRuns
        <3>6. PatchInv(j)'
            BY <2>3, <3>1, <3>5 DEF PatchInv, HostGrows, GeoActive
        <3> QED
            BY <3>2, <3>4, <3>6
    <2>10. Deploying' = Deploying
        BY <2>1 DEF Deploying, IsDeploy
    <2>11. RivalInv'
        BY <2>1, <2>10 DEF NopInv, RivalInv
    <2>12. ASSUME NEW j \in NopItems PROVE DeployInv(j)'
        <3>1. DeployInv(j)
            BY DEF NopInv, ItemInv
        <3> QED
            BY <2>1, <2>3, <2>10, <3>1 DEF DeployInv
    <2> QED
        BY <2>3, <2>8, <2>9, <2>11, <2>12 DEF NopInv, ItemInv, HostGrows
<1> QED
    BY <1>1, <1>2

LEMMA NopStarts == NopInit => NopInv
<1> SUFFICES ASSUME NopInit PROVE NopInv
    OBVIOUS
<1>K. PICK kinds \in NopKindSets :
        item = [i \in NopItems |->
                  [kind |-> kinds[i], pc |-> "idle", row |-> NoAgent, boot |-> 0,
                   check |-> TRUE, patched |-> FALSE, plan |-> "none", res |-> "none"]]
    BY DEF NopInit
<1>C. /\ 0 \in Tokens /\ 0 \in 0..NopReboots /\ 0 \in 0..NopFaults /\ 0 \in 0..NopEdits
      /\ 0 \in 0..NopReleases /\ 1 \in 1..NopReleases
    BY NopAssumption DEF Tokens
<1>1. NoAgent \in NodeRow
    <2>1. ASSUME NEW b \in BOOLEAN, NEW z \in Tokens
          PROVE  [token |-> z, enabled |-> b, installed |-> b] \in NodeRow
        BY DEF NodeRow
    <2> QED
        BY <1>C, <2>1 DEF NoAgent
<1>2. hst \in NopHost /\ ~hst.mounted
    <2>1. ASSUME NEW no \in BOOLEAN, NEW z \in Tokens, NEW n \in 0..NopReboots,
                 NEW d \in [Files -> 0..NopReleases], NEW p \in SUBSET {"reboot", "agent"},
                 NEW v \in {"none"}
          PROVE  [boot |-> n, agent |-> z, conf |-> z, tmp |-> z, unit |-> no, pending |-> p,
                  compose |-> no, script |-> no, mounted |-> no, data |-> d, vlf |-> v]
                 \in NopHost
        BY DEF NopHost
    <2>2. [f \in Files |-> 0] \in [Files -> 0..NopReleases]
        BY <1>C
    <2> QED
        BY <1>C, <2>1, <2>2 DEF NopInit
<1>3. ASSUME NEW i \in NopItems
      PROVE  item[i] \in NopRow /\ item[i].pc = "idle" /\ item[i].res = "none" /\ ~item[i].patched
    <2>1. kinds[i] \in OpKinds
        BY NopAssumption
    <2>2. ASSUME NEW k \in OpKinds, NEW p \in Pcs, NEW r \in NodeRow, NEW b \in 0..NopReboots,
                 NEW yes \in BOOLEAN, NEW no \in BOOLEAN, NEW plan \in Plans, NEW res \in Results
          PROVE  [kind |-> k, pc |-> p, row |-> r, boot |-> b, check |-> yes, patched |-> no,
                  plan |-> plan, res |-> res] \in NopRow
        BY DEF NopRow
    <2>3. "idle" \in Pcs /\ "none" \in Plans /\ "none" \in Results
        BY DEF Pcs, Plans, Results
    <2> QED
        BY <1>K, <1>C, <1>1, <2>1, <2>2, <2>3
<1>4. item \in [NopItems -> NopRow]
    BY <1>K, <1>3
<1>5. /\ edit \in [busy : BOOLEAN, row : NodeRow] /\ ~edit.busy
      /\ row \in NodeRow
    <2>1. ASSUME NEW b \in BOOLEAN, NEW r \in NodeRow
          PROVE  [busy |-> b, row |-> r] \in [busy : BOOLEAN, row : NodeRow]
        OBVIOUS
    <2> QED
        BY <1>1, <2>1 DEF NopInit
<1>6. geo \in [GeoRuns -> GeoRun] /\ \A i \in NopItems : geo[i].pc = "off"
    BY NoRunTyped DEF NopInit, GeoRuns, NoRun
<1>7. NopTyped
    BY <1>C, <1>2, <1>4, <1>5, <1>6 DEF NopInit, NopTyped
<1>8. Deploying = {}
    BY <1>3 DEF Deploying
<1>9. \A i \in NopItems : ItemInv(i)
    BY <1>3, <1>6, <1>8 DEF ItemInv, KindOf, DoneInv, PatchInv, DeployInv, DeployPcs
<1> QED
    BY <1>2, <1>5, <1>7, <1>8, <1>9 DEF NopInv, RivalInv

LEMMA NopStep == NopInv /\ [NopNext]_nopVars => NopInv'
<1> SUFFICES ASSUME NopInv, [NopNext]_nopVars PROVE NopInv'
    OBVIOUS
<1>1. ASSUME NEW i \in NopItems, NopItem(i) PROVE NopInv'
    BY <1>1, BeginStep, PlainEnds, UpdateSteps, KeepsSteps, ScriptSteps, DeployAgentSteps, DeployEnds
    DEF NopItem
<1>2. ASSUME NEW g \in GeoRuns, GeoBegins(g) \/ GeoInstalls(g) \/ GeoApplies(g) \/ GeoFails(g)
      PROVE  NopInv'
    BY <1>2, GeoSteps
<1>3. CASE CronRuns \/ Publish
    BY <1>3, CronSteps
<1>4. CASE UpdateNodeReads \/ UpdateNodeSaves
    BY <1>4, UpdateNodeSteps
<1>5. CASE AgentRestarts \/ SystemdStartsAgent \/ HostReboots
    BY <1>5, RebootSteps
<1>6. CASE UNCHANGED nopVars
    <2>1. UNCHANGED <<hst, row, item, upd, geo, edit, release, faults, edits, rival>>
        BY <1>6 DEF nopVars
    <2>2. NopTyped' /\ RivalInv'
        BY <2>1 DEF NopInv, NopTyped, RivalInv, Deploying, IsDeploy
    <2>3. ASSUME NEW i \in NopItems PROVE ItemInv(i)'
        BY <2>1 DEF NopInv, ItemInv, KindOf, DoneInv, PatchInv, DeployInv, Deploying, IsDeploy
    <2> QED
        BY <2>1, <2>2, <2>3 DEF NopInv
<1> QED
    BY <1>1, <1>2, <1>3, <1>4, <1>5, <1>6 DEF NopNext

LEMMA NopInvHolds == NopSpec => []NopInv
BY NopStarts, NopStep, PTL DEF NopSpec

------------------------------------------------------------------------------
(* Theorems *)

LEMMA NopEnough == NopInv => NopTypeOK /\ NopRebootDone /\ NopPatchApplied
<1>1. NopInv => NopTypeOK
    BY NopTypeHolds DEF NopInv
<1>2. NopInv => NopRebootDone
    BY DEF NopInv, ItemInv, DoneInv, NopRebootDone
<1>3. NopInv => NopPatchApplied
    BY DEF NopInv, ItemInv, PatchInv, NopPatchApplied
<1> QED
    BY <1>1, <1>2, <1>3

\* Every step on the host, every edit of the node: types, for any number of items.
THEOREM NopTypesHold == NopSpec => []NopTypeOK
BY NopEnough, NopInvHolds, PTL

\* waitForReboot: a reboot through the agent that is reported as done was done,
\* whatever the other items ask of the host and whoever reboots it.
THEOREM RebootsDone == NopSpec => []NopRebootDone
BY NopEnough, NopInvHolds, PTL

\* ensureRemnaComposeMounts, composeChanged: the container has the mounts when an
\* installation that changed the compose file is done.
THEOREM PatchesApplied == NopSpec => []NopPatchApplied
BY NopEnough, NopInvHolds, PTL

\* Who ends a deployment with success.
LEMMA Succeeds ==
    ASSUME NopInv, [NopNext]_nopVars, NEW i \in NopItems,
           IsDeploy(i), item[i].res = "none", item'[i].res = "success"
    PROVE  AlreadyInstalled(i) \/ persistAgentSettings(i)
<1>0. NopTyped /\ KindOf(i) /\ item \in [NopItems -> NopRow] /\ item[i] \in NopRow
    BY DEF NopInv, ItemInv, NopTyped
<1>C. item' # item
    OBVIOUS
<1>R. {"success", "failed"} \subseteq Results
    BY DEF Results
<1>E. ASSUME NEW j \in NopItems, NEW res \in Results, Ends(j, res) PROVE j = i /\ res = "success"
    BY <1>0, <1>E, Ended DEF OnlyRow
<1>M. ASSUME NEW j \in NopItems, NEW to, Moves(j, to) PROVE FALSE
    <2> DEFINE new == [item[j] EXCEPT !.pc = to]
    <2>1. item' = [item EXCEPT ![j] = new] /\ item[j] \in NopRow
        BY <1>0, <1>M DEF Moves
    <2>2. new.res = item[j].res
        BY <2>1 DEF NopRow
    <2> HIDE DEF new
    <2> QED
        BY <1>0, <2>1, <2>2
<1>1. ASSUME NEW j \in NopItems, NopItem(j) PROVE AlreadyInstalled(i) \/ persistAgentSettings(i)
    <2>1. CASE Begin(j) \/ BuildDeployParams(j) \/ RebootAsked(j) \/ PatchCompose(j)
               \/ DetectVLFProto(j)
        <3> SUFFICES item'[i].res = item[i].res
            OBVIOUS
        <3>1. CASE Begin(j)
            <4> DEFINE to == FirstStep[item[j].kind]
            <4>1. item' = [item EXCEPT ![j].pc = to, ![j].row = row]
                BY <3>1 DEF Begin
            <4> HIDE DEF to
            <4> QED
                BY <1>0, <4>1 DEF NopRow
        <3>2. CASE BuildDeployParams(j)
            <4>1. PICK check \in BOOLEAN : item' = [item EXCEPT ![j].pc = "binary", ![j].check = check]
                BY <3>2 DEF BuildDeployParams
            <4> QED
                BY <1>0, <4>1 DEF NopRow
        <3>3. CASE RebootAsked(j)
            <4>1. \/ item' = [item EXCEPT ![j].boot = hst.boot, ![j].pc = "confirm"]
                  \/ Ends(j, "failed")
                BY <3>3 DEF RebootAsked
            <4> QED
                BY <1>0, <1>R, <1>E, <4>1 DEF NopRow
        <3>4. CASE PatchCompose(j)
            <4> DEFINE yes == TRUE
            <4>1. item' = [item EXCEPT ![j].pc = "script", ![j].patched = yes]
                BY <3>4 DEF PatchCompose
            <4> HIDE DEF yes
            <4> QED
                BY <1>0, <4>1 DEF NopRow
        <3>5. CASE DetectVLFProto(j)
            <4>1. \E plan \in Plans : item' = [item EXCEPT ![j].pc = "vlf", ![j].plan = plan]
                BY <3>5 DEF DetectVLFProto, chooseVLFProtoCommandPlan, Plans
            <4> QED
                BY <1>0, <4>1 DEF NopRow
        <3> QED
            BY <2>1, <3>1, <3>2, <3>3, <3>4, <3>5
    <2>2. CASE AlreadyInstalled(j) \/ persistAgentSettings(j)
        BY <1>E, <1>R, <2>2 DEF AlreadyInstalled, persistAgentSettings
    <2>3. CASE DeployAgentStep(j) \/ FirstContact(j) \/ UpdateBySSH(j) \/ UpdateByAgent(j)
               \/ ReadCompose(j) \/ InstallScript(j) \/ RunScript(j)
        BY <1>E, <1>M, <1>R, <2>3
        DEF DeployAgentStep, FirstContact, UpdateBySSH, UpdateByAgent, StartsUpdate, ReadCompose,
            InstallScript, RunScript
    <2>4. CASE DeployAgentFails(j) \/ NoContact(j) \/ AgentRefuses(j) \/ RemnaStepFails(j)
        BY <1>E, <1>R, <2>4 DEF DeployAgentFails, NoContact, AgentRefuses, RemnaStepFails
    <2>5. CASE RestartAsked(j) \/ WaitForReboot(j) \/ RebootSSH(j) \/ UpdateAnswer(j)
               \/ ScriptAnswer(j) \/ InstallVLFProto(j)
        <3>1. \E res \in Results : Ends(j, res)
            BY <1>R, <2>5 DEF RestartAsked, WaitForReboot, RebootSSH, UpdateAnswer, ScriptAnswer,
                              InstallVLFProto
        <3>2. j = i
            BY <1>E, <3>1
        <3>3. item[i].kind # "deploy"
            BY <1>0, <2>5, <3>2 DEF RestartAsked, WaitForReboot, RebootSSH, UpdateAnswer,
                                    ScriptAnswer, InstallVLFProto, KindOf, Step
        <3> QED
            BY <3>3 DEF IsDeploy
    <2>6. CASE NothingToUpdate(j)
        <3>1. PICK why \in {"skip", "precheck"} :
                item' = [item EXCEPT ![j].pc = "end", ![j].res = "success", ![j].plan = why]
            BY <2>6 DEF NothingToUpdate
        <3>2. j = i
            BY <1>0, <3>1
        <3>3. item[i].kind # "deploy"
            BY <1>0, <2>6, <3>2 DEF NothingToUpdate, KindOf, Step
        <3> QED
            BY <3>3 DEF IsDeploy
    <2>7. CASE UpdateEnds(j)
        BY <1>C, <2>7 DEF UpdateEnds
    <2> QED
        BY <1>1, <2>1, <2>2, <2>3, <2>4, <2>5, <2>6, <2>7 DEF NopItem
<1>2. CASE \/ \E g \in GeoRuns : GeoBegins(g) \/ GeoInstalls(g) \/ GeoApplies(g) \/ GeoFails(g)
           \/ CronRuns \/ Publish \/ UpdateNodeReads \/ UpdateNodeSaves
           \/ AgentRestarts \/ SystemdStartsAgent \/ HostReboots \/ UNCHANGED nopVars
    BY <1>C, <1>2 DEF GeoBegins, GeoInstalls, GeoApplies, GeoFails, CronRuns, Publish,
                      UpdateNodeReads, UpdateNodeSaves, AgentRestarts, SystemdStartsAgent,
                      HostReboots, nopVars
<1> QED
    BY <1>1, <1>2 DEF NopNext

\* DeployAgent, persistAgentSettings: the agent that runs, or is started next, takes the
\* token of the backend at the end of a deployment that nobody got in the way of.
THEOREM DeploymentsTold == NopSpec => NopDeployTold
<1>1. NopInv /\ [NopNext]_nopVars =>
        [\A i \in NopItems :
            IsDeploy(i) /\ item[i].res = "none" /\ item'[i].res = "success" /\ i \notin rival'
            => /\ row'.token # 0 /\ hst'.agent \in {0, row'.token}
               /\ hst'.agent = 0 => hst'.unit /\ hst'.conf = row'.token]_nopVars
    <2> SUFFICES ASSUME NopInv, [NopNext]_nopVars, NEW i \in NopItems, IsDeploy(i),
                        item[i].res = "none", item'[i].res = "success", i \notin rival'
                 PROVE  /\ row'.token # 0 /\ hst'.agent \in {0, row'.token}
                        /\ hst'.agent = 0 => hst'.unit /\ hst'.conf = row'.token
        OBVIOUS
    <2>0. DeployInv(i) /\ item[i] \in NopRow /\ item \in [NopItems -> NopRow] /\ i # 0
          /\ row \in NodeRow /\ NopTyped
        BY NopAssumption DEF NopInv, ItemInv, NopTyped
    <2>1. CASE AlreadyInstalled(i)
        <3>1. i \in Deploying \ rival
            BY <2>1 DEF AlreadyInstalled, Step, Deploying
        <3> QED
            BY <2>0, <2>1, <3>1 DEF AlreadyInstalled, DeployInv, AgentAnswers, authOK
    <2>2. CASE persistAgentSettings(i)
        <3>1. i \in Deploying \ rival
            BY <2>2 DEF persistAgentSettings, Step, Deploying
        <3>2. hst.agent \in {0, i} /\ hst.unit /\ hst.conf = i /\ hst' = hst
            BY <2>0, <2>2, <3>1 DEF persistAgentSettings, Step, DeployInv
        <3>3. ~Ends(i, "failed")
            <4>1. "failed" \in Results
                BY DEF Results
            <4> QED
                BY <2>0, <4>1, Ended
        <3>4. row' = [row EXCEPT !.token = i, !.enabled = TRUE]
            BY <2>2, <3>3 DEF persistAgentSettings
        <3>5. row'.token = i
            BY <2>0, <3>4 DEF NodeRow
        <3> QED
            BY <2>0, <3>2, <3>5
    <2> QED
        BY <2>1, <2>2, Succeeds
<1> QED
    BY <1>1, NopInvHolds, PTL DEF NopSpec, NopDeployTold

------------------------------------------------------------------------------
(* MCFleet: items or terminals move, the others rest. *)

FleetInv == NopInv /\ SlotInv

\* What the run checks, for any values of the constants: the types of hosts, items and
\* sessions, and what is said of items and of the count, in the product of the two.
THEOREM FleetHolds ==
    MCSpec => [](FleetTypeOK /\ NopRebootDone /\ NopPatchApplied /\ SshSlotsExact)
<1>1. MCInit => FleetInv
    BY NopStarts, SshInitHolds DEF MCInit, FleetInv
<1>2. FleetInv /\ [MCNext]_<<nopVars, sshVars, focus>> => FleetInv'
    <2> SUFFICES ASSUME FleetInv, [MCNext]_<<nopVars, sshVars, focus>> PROVE FleetInv'
        OBVIOUS
    <2>1. [NopNext]_nopVars /\ [SshNext]_sshVars
        BY DEF MCNext, Operate, Terminals
    <2> QED
        BY <2>1, NopStep, SlotInvStep DEF FleetInv
<1>3. FleetInv => FleetTypeOK /\ NopRebootDone /\ NopPatchApplied /\ SshSlotsExact
    BY NopEnough DEF FleetInv, SlotInv, FleetTypeOK
<1> QED
    BY <1>1, <1>2, <1>3, PTL DEF MCSpec
==============================================================================
