# A verification of the 3x-ui aggregator

The aggregator is a control panel for fleets of VPN nodes: a Go backend (`backend/`,
Postgres through gorm, one process started by `cmd/api/main.go`), a small Go agent on the
nodes (`backend/cmd/node-agent`) and a React frontend. The backend runs bulk operations on
nodes, makes backups on a schedule, watches nodes and services and tells Telegram, streams
progress to browsers, and keeps users, organisations and nodes.

What is hard in it is not any single handler but what happens between them: goroutines that
outlive the request that started them, rows that are read, changed in memory and saved as a
whole, statements whose errors are dropped, contexts that are cancelled while they are still
needed, channels with a bound, hosts that are rebooted while they are operated on, and a
process that is restarted by Docker (`restart: unless-stopped`) with no repair of what it left
behind.

## 1. Inventory

| Component | State | Operations | Hard behaviours | What makes it correct |
|---|---|---|---|---|
| Bulk operations: queue, dispatcher, runners (`services/ops/service.go`) | `ops_jobs`, `ops_job_items`; one goroutine per running job with a worker pool | CreateJob, tick (pickAndRun), pickQueuedJob, runJob, executeItem, finishItem | slots counted from rows, started in bulk on one count; crash leaves rows; dropped write errors; lost commit acknowledgement | at most 3 running, FIFO, no target executed twice, the final status is true, slots are lost to faults only |
| Bulk operations: executors (`ops/ssh_executor.go`, `agent_executor.go`, `service.go` 519-1358) and the agent's side (`cmd/node-agent`) | the host: agent, its configuration, compose file, geodata; agent settings in `nodes` | deploy, reboot, restart, update, geodata installation and run, vlf-proto | a remote step is done and the local save fails; reboot in the middle; answers of the old boot; two items on one host; retries find half of the work done | what is reported as done was done; the stored token is the agent's |
| Progress streaming (`ops/stream.go`, `http/ops_stream.go`, `App.jsx`) | hub map, one channel of 100 events per subscriber, sockets, dialog state | Subscribe, Publish, unsubscribe, websocket loop, onmessage, polls | publishers race the handler to close a channel; a reader that stalls; late answers | closed once, no gaps, the job never waits, handlers leave, the dialog ends up right |
| Dashboard (`services/dashboard`, `http/dashboard.go`) | latest reading per node, hub, one channel per page | collectOnce, providers with fallback, store, publish, subscribe, snapshot | nodes collected in parallel; an SSH server that stops to answer; a page joins between store and publish; a full channel | an open page is not left behind; polling goes on |
| Backup Center: runs, scheduler (`services/backup/runner.go`, `scheduler.go`) | `backup_jobs`, `backup_runs`, `backup_run_items`; `Service.running` (cancel functions); workdir; remote storage | TriggerRun, RetryRun, CancelRun, executeRun, scheduler | cancellation of the context the run writes with; whole-row saves of stale rows; check-then-create; retention; sources of one name; crash | a stored status can be relied on for a restore; one active run per job |
| Backup Center: configuration (`services/backup/{service,validation,catalog,templates}.go`, `http/backup.go`) | `backup_storage_targets`, `backup_jobs`, `backup_sources`, `backup_templates` | create, edit, test, enable, delete, apply a template | look-up, then insert; a test that dials between read and whole-row save; several inserts of one request | what a job refers to exists and is complete |
| Alerts (`services/alerts/service.go`, `http/{alerts,incidents,telegram_webhook}.go`) | `alert_states`, `incidents`, `Service.mutedUntil` | maybeSendAlert, mute, acknowledge, retry, recovery | partial recoveries, mutes in memory and in the row, rows that lose their incident, chats rotated, sends that fail | nobody is told too early or never; mutes hold; recoveries only of what was told |
| Checks and connection workers (`services/checks`, `services/nodecheck`, `http/{services,bots,checks}.go`) | `services`, `bots`, `checks`, `check_results` | tick, probe, run now, suppression, edits | rows read at the start of a tick, or not at all when the query fails; edits that save deleted rows; manual runs; SSH servers that stop to answer | a service stays watched, intervals are kept, checks go on, failures reach somebody |
| Authentication (`http/auth*.go`, `webauthn.go`, `users.go`) | `users`, `auth_refresh_tokens`, `webauthn_credentials`, `webauthn_challenges` | login, refresh, logout, TOTP, recovery, passkeys, administration | requests hold the row of the user they save later; deletions whose error is dropped | nobody is locked out by a stale save; logout is final; a challenge is answered once |
| Invites, registration, agents (`http/{invites,agent_auth,orgs}.go`) | `invites`, `node_registration_tokens`, `agent_credentials` | create, revoke, sign up, register, authenticate | look-up and commit are two steps; the count of changed rows is ignored; users are deleted and come back | invites and accounts agree; a revoked agent stays out |
| Organisation export and import (`http/org_backup.go`) | all rows of an organisation | export, import | a torn export; purge and inserts under READ COMMITTED; column defaults; nodes deleted meanwhile | replaced as a whole; no dangling references |
| SSH terminal (`http/ssh_ws.go`, `services/sshws`) | the count of sessions; per session a mutex, a `sync.Once`, five threads | open, pumps, idle timer, closeAll | closing while a write blocks; early returns after the place was taken | the count is exact; every thread ends |
| Metrics worker, files, settings, audit, Prometheus, catalogs, rendering | single rows or single remote calls | CRUD, reads | none beyond the row | – |

How they meet: request handlers write rows and start goroutines; the dispatcher, the scheduler
and the workers find rows by polling; the ops service publishes into the hub from which
websocket handlers read; workers hand samples to the alert service, which writes alert and
incident rows and calls Telegram; Telegram's buttons come back as webhook requests that mute or
acknowledge. All share Postgres; nothing else is shared between goroutines except the hubs,
`Service.running`, `Service.mutedUntil` and the counts of sessions.

## 2. Modules

| Module | Models | Extends / instantiates |
|---|---|---|
| `OpsJobs` | dispatcher, runners and rows of bulk operations, crash and restart | instantiates `JobQueue` |
| `JobQueue` | abstract: a bounded FIFO queue | – |
| `OpsStream` | hub, websocket handler, progress dialog | – |
| `NodeOps` | what the items of bulk operations do on one host, and the agent there | – |
| `BackupRuns` | Backup Center's runs, triggers, cancellation | – |
| `BackupConfig` | Backup Center's targets, jobs, sources, templates | – |
| `AlertState` | one alert: `maybeSendAlert`, mutes, Telegram | – |
| `Checks` | checks worker, connection worker, the handlers that edit what they read | – |
| `Dashboard` | collector, hub and page of the live dashboard | – |
| `SshTerminal` | sessions of the SSH terminal | – |
| `Accounts` | one account: sessions, 2FA, passkeys, administration | – |
| `Enrolment` | invites and sign-up, registration tokens and agents | – |
| `OrgTransfer` | export and import of an organisation | – |
| `OpsJobsProofs`, `OpsStreamProofs` | theorems about bulk operations and the stream | `OpsJobs`, `OpsStream` |
| `BackupRunsProofs`, `AlertStateProofs`, `SshTerminalProofs` | theorems about those modules | the module of that name |
| `WatchProofs` | theorems about `Checks`, `Dashboard` and `MCWatch` | `MCWatch`, `SshTerminalProofs` |
| `NodeOpsProofs` | theorems about `NodeOps` and `MCFleet` | `MCFleet`, `SshTerminalProofs` |
| `PeopleProofs` | theorems about `Accounts`, `Enrolment`, `OrgTransfer`, `BackupConfig` and `MCPeople` | `MCPeople` |
| `MCOpsJobs`, `MCOpsStream`, `MCBackupRuns`, `MCAlertState` | values of the constants for TLC | the module of that name |
| `MCWatch` | what must go on for ever | `Checks`, `SshTerminal`, `Dashboard` |
| `MCFleet` | what operators do to hosts | `NodeOps`, `SshTerminal` |
| `MCPeople` | what people do through the API | `Accounts`, `Enrolment`, `OrgTransfer`, `BackupConfig` |

The last three put components into one specification. Those components share no row whose
change matters to another, so the product of their states would show nothing that the parts do
not: a variable `focus`, chosen in the initial state, says which one a behaviour is about, and the
others rest. `SshTerminal` is in two of them: with two sessions over one place for the count
(`MCFleet`), with one session and messages for liveness (`MCWatch`).

Definitions with a comment that starts "Mutant:" are wrong on purpose: each is a plausible
defect of the definition after it, and is used to see that a property notices it.

Two facts about gorm 1.30 are used in every module with rows. `Save` is an UPDATE of all columns,
and an INSERT when there was no such row, which a foreign key refuses when the parent is gone: an
edit that has read a row brings it back after a deletion. And an INSERT writes the default where
the struct has the zero value: a `bool` with `default:true` is inserted as TRUE whatever the request
said. Rows that are created disabled, and disabled rows that a `Save` brings back, are enabled.

### OpsJobs

`job`, `par`, `item` are the columns `status`, `parallelism` of `ops_jobs` and `status` of
`ops_job_items`; rows are numbered by `created_at`. `slots` is what is left of the count
`pickAndRun` took at the beginning of its tick. `runner[j]` says where the goroutine `runJob` is
(reading its items, or working), `work[j][i]` where an item is inside the worker pool, `failed[j]`
the counter under the mutex. `begun`, `result`, `crashes` and `dbErrors` are history.

One action is one statement or transaction together with what the code does up to the next:
`Tick` (the count), `pickQueuedJob` (SELECT ... FOR UPDATE SKIP LOCKED, save, commit, start of
the goroutine), `LoadItems`, `StartItem`, `ExecutorReturns`, `finishItem`, `SaveJob`, plus
`CreateJob`, `Crash` and `Start`. Every statement may fail, and then the code's own reaction is
taken (the error is dropped, or the function returns); a commit may also have happened although
it is reported as failed. `Crash` loses every goroutine and counter and no row; `Start` does what
`main` does, which is nothing to the rows.

An executor call is one step that ends well or badly; what it does on the host is `NodeOps`.

### OpsStream

`subs` is the map of the hub for one job, `buf[c]` the channel of client `c`, `closes[c]` how often
it was closed. `pub[p]` is a publisher inside `Publish`: `todo` are the channels it took under the
read lock and has not served, `drop` the one it is about to unsubscribe. `srv`, `link` and `wire`
are the handler, the connection and the messages on it (a write blocks when `wire` is full). `open`,
`view`, `stopped` and `poll` are the dialog: `stopped` is the flag of the effect, and several polls
may be under way because `setInterval` does not wait. Of the dialog's data only the job's status is
kept. The deploy and the task dialog have the same code; one is modelled.

### NodeOps

`hst` is one host: number of boots, token of the running agent, of its configuration file and of
the one uploaded to `/tmp`, whether the unit is enabled, restarts that are pending, compose file,
script, mounts of the container, geodata and vlf-proto. `row` is the node's row as far as the agent is
concerned; `item[i]` an item inside `executeItem` with the row it has loaded; `upd` and `geo` are the
processes that its commands have started on the host and that live on when the backend has given
up; `edit` is an `UpdateNode` that saves the whole row. Tokens are the numbers of the items that
generated them. Kinds of items are the operations of `executeItem`, over SSH or through the agent.

An action is one remote command or request with what it leaves on the host (`DeployAgentStep`,
`RebootAsked`, `UpdateBySSH`, `PatchCompose`, `InstallScript`, `GeoInstalls`, ...), or one
statement (`persistAgentSettings`). The text of shell scripts is modelled by what they do: which files
they replace, which lock they take (`Flock`, `GeoLocked`), what makes them restart the container.
The unit is `Type=simple`, so a restart succeeds although the agent may end right after
(`AgentStarts`: a bad configuration or allow list, a port that is taken), and systemd starts it again
later (`SystemdStartsAgent`). The updater runs under an `expect` script that ends with 0 also when its
program ends early, so `UpdateEnds` reports an updater that died as a success; nothing is claimed of
updates. A fault makes a step fail, before or after it took effect; a reboot kills what runs on the host and empties
`/tmp`; cron runs the geodata script at any time.

### BackupRuns

`st`, `creq`, `item` and `job` are rows. `pc[r]` is where the trigger of run `r`, then its goroutine,
is; `mem[r]` is what the goroutine remembers: the rows as it loaded them (they are saved whole at the
end), whether its context is cancelled, what was collected and uploaded, and which source's content
each file and each stored object holds. `cancel` holds the requests inside
`CancelRun`, each with the row it has read; `edit` the same for `UpdateJob` and `SetJobEnabled`.
Statements under the run's context fail once it is cancelled. When cron makes a job due is left open:
the scheduler may find it due at any time. The names that `renderSourceScript` makes for the sources are
chosen from `Namings` when a run loads its sources; nothing keeps them apart. `applyRetention`
lets every run of the job, its own included, lose any of its stored objects, since clocks and
`retention_days` are not modelled; what was lost is kept in `expired`.

### BackupConfig

`btarget`, `bjob` and `bsrc` are functions from the ids there are to rows; `breq[q]` is a request
with the row it is about to write. Of a configuration it is kept which fields are filled in, which
is what `ValidateStorageConfig`, `ValidateSourceConfig` and `mergeStorageConfig` look at. A look-up and
the write that relies on it are two actions; a write may be refused, by the foreign keys of
migration 0046 (`TargetKey`, `JobKey`, `InUse`) or because the statement fails. `TestStorageTarget`
holds the row while it dials. `CreateJobFromTemplate` adds the sources one by one and leaves what
there is when one fails. `retyped` marks a source whose type an edit changed without a
configuration, which `UpdateSource` stores unchecked.

### AlertState

One fingerprint; samples are evaluated one after the other. `row` is the alert's row, `age` the time
since `first_seen`, and `rowMute`, `memMute`, `chkMute` the time left of the three mutes: the row's,
`Service.mutedUntil`, and `mute_until` of the check. `inc` is the incident. `Sample` is what a worker
reports (`Notify*`) together with the decision of `maybeSendAlert` from top to bottom;
`DeliverAlert` and `sendRecovery` are Telegram, `Store` writes incident and row. Operators act through
the page (`MuteAlert`, `RetryAlert`, `AckIncident`) and through the buttons under a message
(`TelegramWebhook`, `HandleCallback`), whose mute goes to the wrong key when the alert cannot be
looked up (`MuteByWrongKey`). Whether the row has its `incident_id` is `row.linked`: a sample under a
mute of the check, or an ok sample before the recovery, stores the row without it (`Unlinked`), and
an acknowledgement by the incident then finds no row to mute. How long a mute lasts comes from the organisation's settings
(`policyForState`, `normalizePolicyMinutes`). Samples are free, so flapping is included. `seen` is history,
kept from the samples themselves and not from the row. Time is in ticks and occurrences saturate
at `MinFails`, beyond which the code does not look at them. Incident and row are written in one
step; a crash between the two is not modelled, a failure of either is.

### Checks

One node with one service and one bot. `wk` is the checks worker with the rows it read at the
start of its tick, `man` a manual run, `ed` a request that has read a row and will save or delete it,
`conn` the connection worker with what it found and what it reported. `age[c]` is the age of the
newest result up to the moment the check is due; `wage`, `withheld` and `unwatched` are history. A
tick is `TickChecks` (rows), `TickMaps` (results, targets, nodes; `isDue`; any of these queries may fail,
and without results every check is due: `wk.blind`), then `RunNext` and `RunCheck` for
each due check; a probe ends with an answer that depends on the kind and on SSH
(`executeServiceCheck`, `executeBotCheck`), and `shouldSuppressGenericAlert` decides whether the
failure is reported. The SSH port of the node is up, down or stuck: a server that takes the connection
and says nothing more holds the probe until it comes to itself. Alerts end here at the sample that
`AlertState` takes up.

### Dashboard

`round` is a `collectOnce` with the nodes it has not handed out, `work[w]` a worker: reading through
the providers in their order (`CollectMetrics`, then `CollectOverSsh`, which waits while the node is in
`hung`), storing, publishing, active users. A reading is a
number. `page[p]` is a websocket: joined (subscribed), open (snapshot sent), dropped (channel closed).
The hub is one step here, since `OpsStream` takes the same structure apart.

### SshTerminal

`th[s][t]` is what thread `t` of session `s` is doing: the handler, two pumps, the wait for the
shell, the idle timer. `writeMu` and `closeOnce` are the mutex of `writeWS` and the `sync.Once` of
`closeAll`; a write waits while the browser is stalled and the socket open. `active` is the Manager's
count. All ways into `closeAll` are there, and all early returns before it.

### Accounts

One user name. `acct` is the row of `users` (role, secret, enabled, recovery code; secrets and
codes are numbers), `keys`, `chal`, `tokens` the rows of the other tables, `req[q]` a request with the
row it has read. Handlers are split where other requests can come between their statements:
`Login`-`CountPasskeys`-`Issue`, `RefreshRead`-`resolveRole`-`RefreshTouch`, `LoginVerify`-`CheckAssertion`-`Grant`-
`deleteWebAuthnChallenge`, and for TOTP and administration the read and `AccSave`. A request is made by
somebody who knows what the row asks for; all others are refused without a change. Storing a refresh
token or a challenge and deleting a challenge may fail; the error of the deletion is dropped. `budget` bounds
what a behaviour may make.

### Enrolment

`invite`, `reg`, `cred` are rows; `job[q]` is a `Signup` or `AgentRegister` between its look-up and its
transaction. `users` are the accounts by id, with the invite they came with: administrators add and
delete them, and a request that has read one brings it back (`ReturnUser`). `hits` is the rate limiter. `dead` collects the agent tokens that `RevokeAgent` has met.

### OrgTransfer

`tables` are the committed rows of nodes, services, bots, checks and keys of two organisations; `exp` is
an export that reads one table after the other, `file` the last complete one, `imp[t]` an import: the rows its
transaction has deleted (locked for others), those it waits for, and the file it inserts.
READ COMMITTED is in `View`, `Locked` and `PurgeResumes`. A row says whether a column with a default is
zero; `Created` is the insert that replaces this. `DeleteNode` is two steps (`RemoveChecks` with the rows it
holds in `removing`, then `RemoveNode` or a rollback), `DeleteOrgNode` one that leaves the checks
(`DropNode`, `dropped`). `disturbed` marks organisations where an edit or a second import met an
import, or a new service met the deletion of its node.

## 3. Runs

Twelve runs, each of less than four minutes on two workers; eight must pass, and in four the program does
not do what a text of the repository says of it. Runs of systems that come to rest (all jobs
finished, all requests answered, the dialog closed) switch deadlock checking off; the alert runs
never rest and keep it on.

| Run | Module, configuration | Constants | Shows |
|---|---|---|---|
| `ops` | `MCOpsJobs`, `Ops.cfg` | 3 jobs of at most 2 targets, 2 slots, 1 crash, 1 failing statement; fairness | `AtMostOnce`, `StatusTruth`, `SlotBound`, `OrphansStay`, `ImplementsQueue`, `EveryJobSettles` |
| `stream_hub` | `MCOpsStream`, `StreamHub.cfg` | the runner and 2 workers, 3 events, a channel of 2, a break; only the job is fair | `ClosedOnce`, `NoGaps`, `JobNeverWaits` |
| `stream_dialog` | `StreamDialog.cfg` | one poll at a time, one failing poll, a channel large enough, a connection that blocks; fairness | `HandlersLeave`, `FreshView` |
| `stream_late_poll` | `StreamLatePoll.cfg` | two polls under way | **violates** `FreshView` |
| `backup` | `MCBackupRuns`, `Backup.cfg` | 1 job, 2 runs, 2 sources with two names or one, 1 failing statement, a crash, an edit, a cancel | `RunStatusTruth`, `UncancelledRunsEnd`, `JobSuccessBacked`, `OrphanRunsStay` |
| `backup_cancel_stuck` | `BackupCancelStuck.cfg` | 1 run, a cancel | **violates** `EndedRunsAreFinal` |
| `alerts` | `MCAlertState`, `Alerts.cfg` | 2 chats, a minimum of 2 fails, mutes of alert and check, a crash or a failing statement; fairness | `NoEarlyAlert`, `MuteHolds`, `RecoveryOnlyIfTold`, `OutageIsTold` |
| `alert_stale_thread` | `AlertStaleThread.cfg` | mutes of the check, no faults | **violates** `NewAlertAfterMinFails` |
| `watch` | `MCWatch`, `Watch.cfg` | *checks*: 2 ids, interval of 1, 2 edits; *terminal*: 1 session, 1 message; *dashboard*: 1 node, 2 workers, 1 page, a channel of 1, 2 readings; fairness | `WatchTypeOK`, `ChkServiceWatched`, `ChkSpacing`, `ChecksGoOn`, `SshAllThreadsEnd`, `DshPageCurrent`, `NodesArePolled` |
| `check_root_cause` | `CheckRootCause.cfg` | as `watch`, 3 edits | **violates** `ChkRootCauseTold` |
| `people` | `MCPeople`, `People.cfg` | 2 overlapping requests; *accounts*: four budgets; *enrolment*: 2 invites, 2 users, 2 registration tokens, 3 agents; *transfer*: 2 importers, 14 ids, 1 export, 2 edits; *backups*: 2 targets, 1 job, 2 sources, 4 requests; symmetric requests | `PeopleTypeOK`, `AccEnabledSecretProven`, `AccLogoutFinal`, `AccAnsweredChallengeGone`, `EnrInviteAccounting`, `EnrRevokedAgentOut`, `TrfNoDangling`, `TrfReplaces`, `BcfUsable` |
| `fleet` | `MCFleet`, `Fleet.cfg` | pairs of operations on one host, 1 fault, 1 reboot, 1 edit, 2 releases; 2 terminals over 1 place | `FleetTypeOK`, `NopRebootDone`, `NopPatchApplied`, `NopDeployTold`, `SshSlotsExact` |

The largest are `fleet`, `people` and `backup` (1.2 to 1.3 million states each) and `alerts` (0.5
million).

*Two cases in one run.* `Ops.cfg`, `Backup.cfg` and `Alerts.cfg` have a state constraint that is a
disjunction: a behaviour has several items in a job, or several jobs (`ItemsOrSlots`); the length of a
run with its faults, or two runs that overlap (`PipelineOrRows`); two chats, or faults
(`ChatsOrFaults`). The combination of both would multiply the states and is the product of parts that
do not meet. For liveness a constraint is sound if no fair action leaves it: here only requests,
faults, mutes and triggers do, none of which is fair.

*Why the bounds are enough.* **Bulk operations**: two targets are the least for "some failed"
and for targets in every stage of the pool; two slots and three jobs let a tick start two jobs on one count
while the third waits; one crash plus one failing statement reach every combination of leaks for two
slots. **Stream**: a channel of two and three events overflow in every way, with two publishers and
the handler racing to close; subscribers share only the map, so one is enough. **Backups**: two
sources make partial failures and may share a name, two runs overlap; runs of different jobs share nothing.
**Alerts**: with a minimum of 2 a counter has a value below, at and beyond its threshold;
two chats are the least for "some but not all have a thread". **Checks**: two ids let a check be deleted
and another take its place under the eyes of a tick; two edits let one request save what another
deleted. **Terminal**: two sessions over one place meet every order of taking and giving back; a
session's threads do not touch another's. **Dashboard**: two workers race over one node's successive
readings; a channel of one is full after one. **Accounts**: every property is about two requests that
overlap, or three steps of one; a budget gives each kind of row two instances where two can be told
apart. **Enrolment**: two requests with one code, one code for two requests, a node registered
twice, three agent tokens. **Transfer**: two importers block each other at each table; beside edits there is one import at a time,
of organisation 1 with one edit or of organisation 2 with two, and an export at any moment. The
three together are left to the proofs.
**Configuration**: two requests overlap with up to two more before and after; two targets are needed
to move a job. **Hosts**: two items on one host, one fault and one reboot are in every order.

*Types.* Where the type invariant is proved (section 4) no run repeats it, except where modules
share a run (`WatchTypeOK`, `FleetTypeOK`, `PeopleTypeOK`). `RowsAgree`, `LeaksAreFaults` and
`DeadWhenAllOrphaned` of `OpsJobs` are proved and not run either.

### What the violated runs show

1. **A cancelled backup is stuck** (`backup/runner.go:246`, `675`). The final save runs under the context
   that was cancelled. The row stays queued or running, and `isJobRunning` refuses every later
   trigger. `docs/backup-center.md:16` says run and job status are persisted.
2. **A mute of the check leaves a stale thread** (`alerts/service.go:474`): the first fail of the
   next outage is sent at once, against `ALERT_MIN_CONSECUTIVE_FAILS` in README.md. For the
   same reason `RecoveryOnlyIfTold` makes an exception of checks that were muted.
3. **Polling does not keep the status fresh** (`App.jsx:2713`): an overlapping older answer is shown
   after the polling has stopped. A smaller channel or a connection that breaks does the same through
   the socket, which is why `stream_dialog` excludes both.
4. **Two rules that withhold alerts cancel each other** (`nodecheck/worker.go:176`). The failure of a
   docker check whose SSH transport failed is left to the connection alert
   (`checks/worker.go:495`: "connection alert carries the root cause"); the connection alert is
   withheld while the agent of the node was seen lately. The service is not probed and nobody is
   told.

### Remarks

Behaviours of the code that the models contain, or that were met on the way. No run is about them; the
properties are stated so that they allow for them, and say where.

Five differ from what a document says:

- Sources of one name share one artifact (`backup/runner.go:402`): the second is uploaded over the first and
  the run is a success. `docs/backup-center.md:13` says they are collected "into separate artifacts".
  `RunStatusTruth` and `JobSuccessBacked` therefore speak of a file under the name of every source.
- An acknowledgement may mute nothing (`http/incidents.go:165`): a sample under a mute of the check has
  unlinked the row from its incident. README.md:740 says that an acknowledgement "mutes linked alert
  state". `MuteHolds` speaks of mutes that reached the row or the memory.
- An SSH server that stops to answer stops the checks, whatever their `timeout` (README.md:691), and the
  dashboard, whatever `DASHBOARD_COLLECT_TIMEOUT` (README.md:68; read and used nowhere): the handshake and
  the opening of a session have no deadline (`sshclient/client.go:53`), one goroutine probes all checks
  (`checks/worker.go:669`), and a round waits for all its workers. `ChecksGoOn` and `NodesArePolled` have
  the hypothesis that no SSH server is stuck for ever.
- A retried installation leaves the container without its mounts (`ops/ssh_executor.go:365`): the first attempt
  patched the compose file and failed later, the second finds nothing to change and does not force the
  script to recreate the container. README.md:241 says what `install` does. `NopPatchApplied` is about
  the attempt that patches.
- An import is not quite the "replace mode" of README.md:746: `tx.Create` replaces zeros by column defaults, so
  what was off is switched on (`http/org_backup.go:478`, `522`, `556`, `610`), and two imports at a
  time leave both sets of rows (line 405), since a purge does not see what another transaction has not
  committed. `TrfReplaces` is about imports that nothing met, and compares up to the defaults.

Others no document contradicts:

- `MaxConcurrentRuns` of Backup Center is set and never read (`backup/service.go:73`).
- Two triggers that both look before either creates give a job two active runs; `CancelRun` saves a row it
  read earlier and can put a finished run back to running (the exemption in `OrphanRunsStay`).
- Retention deletes by age whatever lies under the job's prefix, the run's own objects included.
- A query of the last results that fails makes every check due at once (`checks/worker.go:146`;
  exempted in `ChkSpacing`).
- `DeleteOrgNode` leaves the checks of the node (`orgs.go:371`), and `deleteNodeRecords` those of a service
  that is added between its statements (exempted in `TrfNoDangling`).
- The deletion of an answered challenge may fail, and it may then be answered again
  (`webauthn.go:287`; exempted in `AccAnsweredChallengeGone`). An invite may name a user who is
  gone: `used_by_user_id` has no foreign key.
- An updater that dies is reported as a success (`ssh_executor.go:1377`).
- `UpdateSource` with a type and no configuration stores the old configuration under the new type
  unchecked (the exemption in `BcfUsable`). `TestStorageTarget` saves the row it has read before dialling:
  it undoes an edit made meanwhile, and brings back a target that was deleted.
- `UpdateBot` brings back a deleted bot without its check; `UpdateCheck` saves the whole row.
- Rows created as disabled are enabled, because gorm inserts the default TRUE.
- A reboot over SSH takes the loss of the connection for success. Two deployments to one node may
  overlap; the later save wins. The host lock of the update scripts keeps two updates apart, except
  the one of the docker panel, which takes no lock.
- The nodes a dashboard page may see are fixed when it connects. The composite provider falls back
  to SSH when the agent does not answer (README.md:372 of the repository says SSH is not used);
  its rates are computed from the last reading taken over SSH, however old (`dashboard/providers.go:134`).
- An invite can make two accounts, and a registration token two credentials: the number of updated rows
  is not looked at (`invites.go:198`, `agent_auth.go:85`).
- The next fail sample sets an acknowledged incident back to open (`alerts/service.go:1158`).

### Fairness

- `OpsJobs!Fairness`: the dispatcher's ticker fires again and again; every goroutine that can run
  does; an executor call ends since it runs under a timeout; the container is restarted
  (`docker-compose.yml`). Requests, failures and crashes are not fair.
- `OpsStream!JobSpec`: only the job's goroutines. `FairSpec` adds the handlers, the browser's event
  loop, the interval and the answers to polls (answered or failed). Opening a socket, closing the
  dialog and breaking a connection are not fair.
- `AlertState!FairSpec`: checks are run periodically, calls of an evaluation return (HTTP client
  and database have timeouts), time passes. Telegram being reachable is not assumed: it is in
  the hypothesis of `OutageIsTold`.
- `Checks!ChkFairness`: the ticker fires, and the worker gets on. Probes over HTTP, FTP and TCP have
  deadlines; one over SSH ends only while the server is not stuck, and no fairness says that it
  comes to itself: `ChecksGoOn` has that as a hypothesis.
  Edits and manual runs are not fair.
- `SshTerminal`: goroutines run, the idle timer fires unless it is reset (weak fairness per
  thread); a writer that waits for the mutex or for room gets on when it could again and again (strong
  fairness: Go's mutex does not starve); a browser that takes nothing comes back or its connection
  breaks (TCP gives up in the end). Nothing is assumed of what a shell does with its input.
- `Dashboard`: the collector's ticker and the workers. Calls of Prometheus and of agents have timeouts;
  over SSH it is as with the checks, and `NodesArePolled` has the same hypothesis.

`MCWatch` states, for each behaviour, the fairness of the component in focus. `BackupRuns` has no
liveness property: `runRemote` has no timeout, so a run need not end. `NodeOps`, `Accounts`, `Enrolment`,
`OrgTransfer` and `BackupConfig` have none either: what they do is done when a request is.

## 4. Proofs

For every number of jobs, targets, slots, workers, clients, runs, sources, chats, tokens, challenges,
sessions, names, codes, nodes, rows, requests, crashes and failing statements, and for every capacity
and threshold, allowed by the assumptions of the modules:

| Theorem | Says |
|---|---|
| `OpsJobsProofs!TypeCorrect` | `Spec => []TypeOK` |
| `OpsJobsProofs!SlotBoundHolds` | never more than `MaxConcurrentJobs` running rows |
| `OpsJobsProofs!AtMostOnceHolds` | no target is executed twice |
| `OpsJobsProofs!StatusTruthHolds` | the status of a finished job is true |
| `OpsJobsProofs!RowsAgreeHolds` | without failed statements the item rows of a finished job are final and right |
| `OpsJobsProofs!LeaksAreFaultsHolds` | before the first crash at most one slot is lost per failed statement |
| `OpsJobsProofs!OrphansStayHolds`, `DeadHolds` | orphaned slots are lost for good; with all of them lost nothing starts |
| `OpsJobsProofs!QueueRefinement` | `Spec => Queue!Spec` |
| `OpsStreamProofs!TypeCorrect` | `Spec => []TypeOK`: channels keep their capacity |
| `OpsStreamProofs!ClosedOnceHolds` | no channel is closed twice |
| `OpsStreamProofs!NoGapsHolds` | no event of a publisher is skipped: a slow subscriber is cut off |
| `BackupRunsProofs!BackupTyped` | `Spec => []TypeOK` |
| `BackupRunsProofs!RunsTellTheTruth`, `JobsTellTheTruth` | a stored success has a file under the name of every source in the storage, less what retention deleted, a partial success misses something and has something; a job's success is that of a run, however sources are named |
| `BackupRunsProofs!RunsEndFinal` | an uncancelled run ends in a final status, unless a statement fails |
| `BackupRunsProofs!OrphansStay` | an active row without a goroutine stays active (action property) |
| `AlertStateProofs!AlertTyped` | `Spec => []TypeOK` |
| `AlertStateProofs!NoAlertTooEarly` | no first message before the minimum of fails and the delay |
| `AlertStateProofs!MutesHold` | no alert while a mute lasts that reached the row or the memory |
| `AlertStateProofs!RecoveriesOnlyIfTold` | a recovery only for an outage that was told |
| `SshTerminalProofs!SlotsExactHolds` | the count of sessions is exact and within the limit; types |
| `WatchProofs!DashboardTyped` | `DshSpec => []DshTypeOK`, with at least one node |
| `WatchProofs!PagesCurrent` | an open page that has read its queue shows nothing older than what is stored |
| `WatchProofs!ChecksTyped` | `ChkSpec => []ChkTypeOK` |
| `WatchProofs!ServicesWatched` | a service keeps a check unless a user deletes one of its checks |
| `WatchProofs!ResultsSpaced` | the worker's results of a check are an interval apart, except in ticks whose query of results failed (action property) |
| `NodeOpsProofs!NopTypesHold` | `NopSpec => []NopTypeOK` |
| `NodeOpsProofs!RebootsDone` | a reboot that is reported as done was done |
| `NodeOpsProofs!PatchesApplied` | the container has the mounts when an installation that changed the compose file is done |
| `NodeOpsProofs!DeploymentsTold` | a deployment that nobody met and that ends well leaves the node's token with the agent that runs, or with the one systemd starts next (action property) |
| `PeopleProofs!AccountsTyped` | `AccSpec => []AccTypeOK` |
| `PeopleProofs!EnabledSecretsProven` | one-time codes are asked for a secret that was shown to work |
| `PeopleProofs!LogoutIsFinal` | a token that was logged out stays revoked |
| `PeopleProofs!AnsweredChallengesGone` | an answered challenge stays gone, unless its deletion failed |
| `PeopleProofs!InviteAccountingHolds` | accounts and invites agree, through the deletion and return of users |
| `PeopleProofs!RevokedAgentOutHolds` | a revoked agent token is never accepted again |
| `PeopleProofs!TransferTyped` | `TrfSpec => []TrfTypeOK` |
| `PeopleProofs!NoDangling` | nothing refers to a row that is gone or another organisation's; of checks, where nothing met an import or a deletion and `DeleteOrgNode` did not drop the target |
| `PeopleProofs!Replaces` | an import that nothing met leaves the rows of the file, with defaults for zeros, and nothing else, and no import touches another organisation (action property) |
| `PeopleProofs!ConfigurationTyped` | `BcfSpec => []BcfTypeOK` |
| `PeopleProofs!UsableHolds` | targets of jobs exist; targets and sources have what their type asks for |
| `WatchProofs!WatchHolds`, `NodeOpsProofs!FleetHolds`, `PeopleProofs!PeopleHolds` | all invariants of the runs `watch`, `fleet` and `people` in the products that these runs check |

*The bound.* `SlotBound` is not inductive: a tick still has slots to give. `SlotInv` adds them:
slots left plus running rows never exceed the maximum. Only the dispatcher raises the second, and it
lowers the first; runners can only lower the second. The cardinality facts are two lemmas about adding
or removing one job. `DeadHolds` follows: if all slots are orphaned, `SlotInv` leaves no slot to give.

*Executions and statuses.* `OwnerInv` (a runner's row says running, so a row is never picked
while it has a runner), `FreshInv` (nothing of a queued or just picked job was executed, and a
pending item was not) and `ResultInv` (what the pool knows, and the failure counter, agree with
what the executors did) are each needed for the next, and together they carry `AtMostOnce` and `StatusTruth`
through crashes: a crash makes their premises false for the lost runners and never requeues a row.
`RowsAgree` needs `RowInv`, the same statement for the items a live runner is done with.
`LeaksAreFaults` needs only a lemma that names, step by step, which ones can orphan a row.

*The queue.* The refinement mapping is the identity on `ops_jobs.status`. Every dispatch is a `Begin`
since `SlotInv` gives the free slot; a lost acknowledgement is a `Begin` as well; all else is a
`Submit`, a `Finish` or a stutter.

*The hub.* `HubInv`: a registered channel is open, a client without a handler has no channel.
Whoever closes must first find the channel registered, under the lock.

*No gaps.* `NoGaps` says nothing of what a publisher will send next, so it is not inductive.
`StreamInv` adds `Numbered` and `LastIs`: while a channel is open, the last event of a publisher that
is on the way or received is the one it sent last (`Due`: one less while the subscriber is still in its
list), or none. `Publish` thus appends the successor or cuts the subscriber off; a channel that is
closed gets nothing more, and its reader meets the end behind the last event. The rest ties the
handler to its channel (`HandlerInv`) and a publisher to its list (`PubInv`). Gaps are stated by
positions in the sequence of events on the way, since the provers know nothing of `SelectSeq`; the
lemmas about `Append` and `Tail` of such a sequence carry the proof.

*Backup runs.* `Flow` says, for each step of a goroutine, what its memory must be there: nothing
uploaded before the upload loop, an error flag exactly when an item failed, and, as long as nothing
failed, under the name of a collected source a whole file of a source of that name in the workdir and,
once uploaded, in the storage unless it has expired (`FilesMatch`, `StoredMatch`). A success is then
derived only when everything is stored, and `Late` goroutines change their memory no more; the
retention of any run of the job takes objects away from all of them, which `Kept` allows and no later
step undoes. The rows are the
harder part: `CancelRun`, `UpdateJob`, `SetJobEnabled` and the goroutine itself save rows they read long ago, so
`TruthInv` and `JobInv` say of every such copy what the property says of the row, and `RowsInv` that a
copy was a row once (otherwise a save would invent a job). `EndInv` follows a run nobody
cancelled: its context lives and its last save succeeds. No theorem assumes that names differ: what
they claim is a file under the name of each source, which may be another source's. That a loop with items left has a first one is proved with the least-element
theorem for well-founded orders, not by induction.

*Alerts.* The three properties speak of the evaluation that sends. `AlertInv` carries them from one
evaluation to the next through the row: the row never counts more fails, and is never older, than the
samples since the last good one (`OutageInv`); its message ids belong to an outage that was told
(`ThreadInv`); `muted_until` is what the operator was promised (`MuteInv`). Each has exactly the
exemption of its property: a lost evaluation breaks the second, a mute of the check the third, a
failed statement the first. `MuteInv` counts as promised only what was written: an acknowledgement
of an incident that the row is not linked to promises nothing. The last two say during an evaluation what they say of the row
at rest of the row it will write.

*Accounts.* `AccInv` says of what each request holds what the properties say of the tables: the row
it will save is enabled only with a secret that was shown, the challenge it answers and the token it extends
exist. The touch of a refresh and the storing of a challenge write single columns or new rows, so
neither undoes a revocation or a deletion; a challenge whose deletion failed does not count as
answered away, as in the property; challenges are numbered downwards by the budget, which makes a
new one differ from all answered ones.

*The dashboard.* `DshPageCurrent` speaks of a page that has read everything. `DshInv` says of every page
what it will show: the last reading of a node in its channel, or the one on the page if there is none,
is no older than the stored one, unless a worker is still publishing that. This needs `OneWorkerEach` (a
node is in one worker's hands at most, and not in the rest of the round as well: that is what the
round's wait for its workers gives) and `Newest` (the worker's reading is the newest there is, so a
store never goes back). A page that joins is subscribed before it reads the snapshot, so what is
published between the two is in its channel. `DashboardTyped` alone assumes a node: a worker at rest is
given one.

*Checks.* A request saves or deletes a check that it read earlier, and meanwhile the target may have
gone and come back. `EditInv` says that an id keeps its target, so the save puts back a check of the
target the row had; `KindInv` that targets keep to their kinds, which decide the check that is made for
them. `ChkSpacing` needs `TickInv`: a manual run makes a check's age younger but not the worker's record
of its own results, so what was due at the start of the tick is due by that record, and stays so until
the worker itself runs it, once; of a tick without results (`wk.blind`) it says nothing. The new id (`NextId`) and the newest check (`RunNowRead`) are the least
and the greatest of nonempty sets, by the theorem for well-founded orders.

*Items on a host.* The host never takes back what the properties need: boots only grow, a compose file
that is patched stays patched, and a mount stays once the container was recreated with it. `DoneInv`
says this of the item that asks for a reboot (it began at a boot no later than the present one), `PatchInv` of the
item that patched: its script runs after it and with force, so whichever run ends well has recreated the
container. `DeployInv` follows a deployment nobody met through the host: the uploaded configuration,
then the installed one, then the unit, then the running agent, if it still runs, have its token, and the
node still has the token it had. An agent that systemd starts meanwhile reads the installed
configuration, which is why `DeployInv` says from which step on this has the token. `RivalInv` is what lets that stand: of two deployments each has marked the other, and an
edit that holds a row has marked all. The lemmas `HostGrows` and `StepOf` say once what an item's step
leaves of the others.

*The transfer.* `TrfNoDangling` is a statement about rows, but an import deletes and inserts many of
them in one step. `RowInv` says that a row refers, if to anything, to a row of its organisation and of a
table that fits, also when `UpdateNode` brings that back; only checks may refer to nothing, those that
`DeleteOrgNode` left or where something was met. `ImportInv` says what a transaction has
deleted: rows of its organisation, of the tables whose statements are done, and unless somebody met it
all of these that still has its target (what the purge finds, it finds through the target). `RemovingInv` says
that a deletion of a node holds all checks that its second step would leave without a target, unless a
service came. `ApartInv` that two transactions delete different rows, and that of two of one
organisation one has met the other. At the commit all five tables are done, so nothing that stays refers
to what goes (services and bots go with their node by foreign key: `Closed`); the new ids are above all old ones and different from each other (`NewIdIs`, from
cardinalities of subsets), so what is inserted refers to what is inserted (`InsertedIs`). `TrfReplaces`
is read off the same two facts.

*The terminals.* `SlotInv` is the property with the types. The lemma `Border` sorts the steps:
one handler takes a place, one gives it back, or no handler crosses the border and the count stays. Since the
count equals the cardinality of a set that is not empty when somebody gives a place back, `releaseSlot`
never meets its guard against zero.

*Invites and agents.* `EnrInviteAccounting` needs `SignupInv`: a sign-up under way has a code that was
made (an invite is never unmade). Ids of users are given out once and rows keep the invite they came
with, so an invite that names an id names the account it made even after that was deleted
(`UserRows`). `EnrRevokedAgentOut` needs `AgentTokenInv`: a token is
given to one node only, is at most the number of tokens generated, and so are the revoked ones; a new
registration therefore brings a token that was never revoked.

*Configuration.* `BcfInv` strengthens `BcfUsable` by the requests: the row a request is about to
write is good already, since nothing looks at it again. With that, a save that brings an old row back is
harmless; the foreign keys do the rest.

*Products.* In `MCWatch`, `MCFleet` and `MCPeople` a step is a step of one component and leaves the variables of
the others alone, so the invariants of the components, each with its own steps and stutters, are one
of the product.

The constants are assumed to be what their declarations say (numbers natural, limits positive,
sessions finite, a template not empty, `RegNode` a function, the kinds of items what `executeItem`
knows); nothing else is assumed, apart from a node for the dashboard.

Every invariant and every action property that a passing run checks is proved, and so is the refinement
of `JobQueue`. Only model-checked is what must happen eventually, since the prover has neither
fairness nor `ENABLED`: `EveryJobSettles`, `JobNeverWaits`, `HandlersLeave`, `FreshView`, `OutageIsTold`,
`ChecksGoOn`, `SshAllThreadsEnd`, `NodesArePolled`. What a recursive definition computes for every
input is out of the prover's reach; no module declares a `RECURSIVE` operator.

## 5. Not modelled

- Files on nodes (`http/files.go`, `fs_agent.go`), settings, audit, the list handlers, Prometheus
  queries (`observability_prom.go`): one remote call or one row, with no state between requests.
- The metrics worker and the collection of values on the nodes: numbers are read and stored. Of the agent
  (`cmd/node-agent`) only what `NodeOps` needs of its jobs is there.
- Rendering of messages, parsing of configuration, catalogs of services, validation of the requests
  of bulk operations, storage adapters (FTP, SFTP, WebDAV, S3, local), the SSH client: formatting and I/O.
- Creation of organisations, memberships, scopes and keys: who may do what is a check at the beginning
  of each handler; the models' requests are the ones that were let through.
- Clocks of the storage and `retention_days`: which objects retention finds too old is left open. The
  order of sources is not kept.
- `runRemote` reads its output buffers while the session may still write them; it affects log text.
- Several backend processes: `docker-compose.yml` starts one; `SKIP LOCKED` is not exercised.
- `AlertState` and `Checks` are not composed: a manual run that overlaps the worker on one alert row is
  in neither.
- The frontend, apart from the progress dialog.

## 6. Plan

1. Done: `OpsJobs`, `JobQueue`, `OpsStream`, `BackupRuns`, `AlertState`; the first theorems.
2. Done: `NodeOps`, `Checks`, `Dashboard`, `SshTerminal`, `Accounts`, `Enrolment`, `OrgTransfer`,
   `BackupConfig`; theorems about three of them.
3. Done: theorems about every module, and about the products that the runs check.
4. Proofs next: the safety half of what is only model-checked, for instance that a job, a session or a
   tick that has not ended always has a step left to take.
5. A module for organisations (memberships, scopes) and one for the validation of requests, as
   operators against a reference definition.
