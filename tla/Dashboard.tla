------------------------------- MODULE Dashboard -------------------------------
(***************************************************************************)
(* The live dashboard: the collector that polls all nodes                  *)
(* (backend/internal/services/dashboard/collector.go and its providers),   *)
(* the hub (stream.go) and the websocket that tells a page                 *)
(* (internal/http/dashboard.go).                                           *)
(*                                                                         *)
(* A reading of a node is stored, then published; a page is sent what is   *)
(* stored and from then on what is published. Readings are numbered per    *)
(* node in the order they are taken, 0 stands for none. Publishing is one  *)
(* step here: OpsStream takes the same hub apart.                          *)
(***************************************************************************)
EXTENDS Naturals, Sequences, FiniteSets

CONSTANTS
    DshNodes,       \* nodes
    DshWorkers,     \* goroutines of a round, DASHBOARD_COLLECT_PARALLELISM
    DshPages,       \* websockets
    DshBuffer,      \* eventBufferSize
    DshReadings,    \* bound on readings of a node
    DshPrefer,      \* DASHBOARD_AGENT_PREFER
    DshEdits        \* bound on edits of nodes and of reconnections

ASSUME DshAssumption ==
    /\ DshWorkers # {} /\ DshBuffer \in Nat \ {0}
    /\ DshReadings \in Nat /\ DshEdits \in Nat /\ DshPrefer \in BOOLEAN

VARIABLES
    nd,       \* the rows of nodes
    taken,    \* readings taken of a node
    stored,   \* node_metrics_latest
    hung,     \* nodes whose SSH server accepts and says nothing more
    lseen,    \* agent_last_seen_at: seen by the collector, or never
    round,    \* collectOnce: the rows it has yet to hand to a worker
    work,     \* the workers
    page,     \* the websockets
    dshEdits

dshVars == <<nd, hung, taken, stored, lseen, round, work, page, dshEdits>>

Sources == {"prometheus", "agent", "ssh", "none"}
DshNode == [live : BOOLEAN, enabled : BOOLEAN, agent : BOOLEAN]
Reading == 0..DshReadings
Resting == [pc |-> "rest", node |-> CHOOSE n \in DshNodes : TRUE, agent |-> FALSE,
            from |-> "none", reading |-> 0]
NoPage == [st |-> "off", allowed |-> {}, queue |-> <<>>, told |-> FALSE,
           shown |-> [n \in DshNodes |-> 0]]

DshTypeOK ==
    /\ nd \in [DshNodes -> DshNode] /\ hung \subseteq DshNodes
    /\ taken \in [DshNodes -> Reading] /\ stored \in [DshNodes -> Reading]
    /\ lseen \in [DshNodes -> BOOLEAN]
    /\ round \in [on : BOOLEAN, left : SUBSET [node : DshNodes, agent : BOOLEAN]]
    /\ work \in [DshWorkers -> [pc : {"rest", "metrics", "ssh", "store", "publish", "users"},
                                node : DshNodes, agent : BOOLEAN, from : Sources,
                                reading : Reading]]
    /\ \A p \in DshPages :
          /\ page[p].st \in {"off", "joined", "open", "dropped"}
          /\ page[p].allowed \subseteq DshNodes /\ page[p].told \in BOOLEAN
          /\ Len(page[p].queue) <= DshBuffer
          /\ page[p].shown \in [DshNodes -> Reading]
    /\ dshEdits \in 0..DshEdits

DshInit ==
    /\ nd = [n \in DshNodes |-> [live |-> TRUE, enabled |-> TRUE, agent |-> TRUE]] /\ hung = {}
    /\ taken = [n \in DshNodes |-> 0] /\ stored = [n \in DshNodes |-> 0]
    /\ lseen = [n \in DshNodes |-> FALSE]
    /\ round = [on |-> FALSE, left |-> {}]
    /\ work = [w \in DshWorkers |-> Resting]
    /\ page = [p \in DshPages |-> NoPage]
    /\ dshEdits = 0

------------------------------------------------------------------------------
(* Hub *)

Subscribed(p) == page[p].st \in {"joined", "open"}

\* trySend: a page whose buffer is full is dropped, its channel closed.
hubSend(pg, event) ==
    IF Len(pg.queue) < DshBuffer THEN [pg EXCEPT !.queue = Append(@, event)]
    ELSE [pg EXCEPT !.st = "dropped"]

hubPublish(event) ==
    page' = [p \in DshPages |-> IF Subscribed(p) THEN hubSend(page[p], event) ELSE page[p]]

------------------------------------------------------------------------------
(* A round of the collector *)

\* The ticker: the enabled nodes are read. The query may fail.
CollectOnce ==
    /\ ~round.on
    /\ LET rows == {[node |-> n, agent |-> nd[n].agent] :
                       n \in {m \in DshNodes : nd[m].live /\ nd[m].enabled}}
       IN  rows # {} /\ round' = [on |-> TRUE, left |-> rows]
    /\ UNCHANGED <<nd, hung, taken, stored, lseen, work, page, dshEdits>>

\* ch <- node: it waits until a worker takes it.
HandOut(w) ==
    /\ work[w].pc = "rest"
    /\ \E r \in round.left :
          /\ round' = [round EXCEPT !.left = @ \ {r}]
          /\ work' = [work EXCEPT ![w] = [Resting EXCEPT !.pc = "metrics", !.node = r.node,
                                                         !.agent = r.agent]]
    /\ UNCHANGED <<nd, hung, taken, stored, lseen, page, dshEdits>>

\* Mutant: the round does not wait for its workers.
RoundEndsEarly ==
    /\ round.on /\ round.left = {}
    /\ round' = [round EXCEPT !.on = FALSE]
    /\ UNCHANGED <<nd, hung, taken, stored, lseen, work, page, dshEdits>>

\* wg.Wait.
RoundEnds ==
    /\ round.on /\ round.left = {} /\ \A w \in DshWorkers : work[w].pc = "rest"
    /\ round' = [round EXCEPT !.on = FALSE]
    /\ UNCHANGED <<nd, hung, taken, stored, lseen, work, page, dshEdits>>

------------------------------------------------------------------------------
(* collectForNode, with the row that was read *)

\* Each provider gives a reading or an error.
promCollect(row) == IF row.agent THEN {"prometheus", "none"} ELSE {"none"}
agentCollect(row) == IF row.agent THEN {"agent", "none"} ELSE {"none"}
sshCollect == {"ssh", "none"}

\* An agent that is preferred and enabled is not passed over for SSH.
OverSsh(row) == ~(row.agent /\ DshPrefer)

FromAgent(from) == from \in {"prometheus", "agent"}

\* With a reading the worker goes on to store it, without one to the users.
Collected(w, from) ==
    LET n == work[w].node
    IN  IF from # "none" /\ taken[n] < DshReadings
        THEN /\ taken' = [taken EXCEPT ![n] = @ + 1]
             /\ work' = [work EXCEPT ![w].pc = "store", ![w].from = from,
                                     ![w].reading = taken[n] + 1]
        ELSE work' = [work EXCEPT ![w].pc = "users"] /\ UNCHANGED taken

\* CompositeMetricsProvider: Prometheus, then the agent, over HTTP with a timeout,
CollectMetrics(w) ==
    /\ work[w].pc = "metrics"
    /\ \E from \in promCollect(work[w]) \cup agentCollect(work[w]) :
          IF from = "none" /\ OverSsh(work[w])
          THEN work' = [work EXCEPT ![w].pc = "ssh"] /\ UNCHANGED taken
          ELSE Collected(w, from)
    /\ UNCHANGED <<nd, hung, stored, lseen, round, page, dshEdits>>

\* then over SSH. RunWithOutput looks at its context and its timeout when it dials and
\* when the command runs, not while it shakes hands: a server that says no more holds it.
CollectOverSsh(w) ==
    /\ work[w].pc = "ssh" /\ work[w].node \notin hung
    /\ \E from \in sshCollect : Collected(w, from)
    /\ UNCHANGED <<nd, hung, stored, lseen, round, page, dshEdits>>

\* upsertMetrics; its error (a failing statement, a node that is gone) is dropped.
upsertMetrics(w) ==
    /\ work[w].pc = "store"
    /\ \/ /\ nd[work[w].node].live
          /\ stored' = [stored EXCEPT ![work[w].node] = work[w].reading]
       \/ UNCHANGED stored
    /\ work' = [work EXCEPT ![w].pc = "publish"]
    /\ UNCHANGED <<nd, hung, taken, lseen, round, page, dshEdits>>

\* updateAgentLastSeen, updateAgentInstalled, updateAgentVersion, of a node that is
\* still there and unless the statement fails.
updateAgentLastSeen(w) ==
    \/ /\ work[w].agent /\ nd[work[w].node].live
       /\ lseen' = [lseen EXCEPT ![work[w].node] = TRUE]
    \/ UNCHANGED lseen

PublishMetrics(w) ==
    /\ work[w].pc = "publish"
    /\ IF FromAgent(work[w].from) THEN updateAgentLastSeen(w) ELSE UNCHANGED lseen
    /\ hubPublish([node |-> work[w].node, reading |-> work[w].reading])
    /\ work' = [work EXCEPT ![w].pc = "users"]
    /\ UNCHANGED <<nd, hung, taken, stored, round, dshEdits>>

\* CompositeActiveUsersProvider asks the agent, if it is enabled: its users, or
\* "failed" when it does not answer or has none to tell.
collectActiveUsers(row) == IF row.agent THEN {"agent", "failed"} ELSE {"no_source"}

\* The users' event, in which a page finds no reading.
UsersTold(w, src) ==
    /\ hubPublish([node |-> work[w].node, reading |-> 0])
    /\ IF src = "agent" THEN updateAgentLastSeen(w) ELSE UNCHANGED lseen

\* Mutant: the worker ends with a node it got no users from.
CollectUsersStops(w) ==
    /\ work[w].pc = "users"
    /\ \E src \in collectActiveUsers(work[w]) :
          /\ UsersTold(w, src)
          /\ work' = IF src = "failed" THEN work ELSE [work EXCEPT ![w] = Resting]
    /\ UNCHANGED <<nd, hung, taken, stored, round, dshEdits>>

\* CollectActiveUsers. The users' rows (replaceActiveUsers) and where they came from
\* (setActiveUsersSource) are shown, and no step depends on them: they are left out.
CollectUsers(w) ==
    /\ work[w].pc = "users"
    /\ \E src \in collectActiveUsers(work[w]) : UsersTold(w, src)
    /\ work' = [work EXCEPT ![w] = Resting]
    /\ UNCHANGED <<nd, hung, taken, stored, round, dshEdits>>

------------------------------------------------------------------------------
(* DashboardStream *)

\* accessibleNodeIDs, then Subscribe.
Join(p) ==
    /\ page[p].st = "off"
    /\ page' = [page EXCEPT ![p] = [NoPage EXCEPT !.st = "joined",
                                       !.allowed = {n \in DshNodes : nd[n].live}]]
    /\ UNCHANGED <<nd, hung, taken, stored, lseen, round, work, dshEdits>>

\* loadNodesWithMetrics, and of that the nodes the page may see.
filterDashboardSnapshot(p) ==
    [n \in DshNodes |-> IF n \in page[p].allowed THEN stored[n] ELSE 0]

\* LoadSnapshot; when it fails the page gets none.
LoadSnapshot(p) ==
    /\ page[p].st = "joined"
    /\ \/ page' = [page EXCEPT ![p].st = "open", ![p].told = TRUE,
                               ![p].shown = filterDashboardSnapshot(p)]
       \/ page' = [page EXCEPT ![p].st = "open"]
    /\ UNCHANGED <<nd, hung, taken, stored, lseen, round, work, dshEdits>>

dashboardEventAllowed(p, event) == event.node \in page[p].allowed

\* An event of the channel, also of one that is closed already.
WriteEvent(p) ==
    /\ page[p].st \in {"open", "dropped"} /\ page[p].queue # <<>>
    /\ LET event == Head(page[p].queue)
       IN  page' = [page EXCEPT ![p].queue = Tail(@),
                       ![p].shown = IF dashboardEventAllowed(p, event) /\ event.reading # 0
                                    THEN [@ EXCEPT ![event.node] = event.reading] ELSE @]
    /\ UNCHANGED <<nd, hung, taken, stored, lseen, round, work, dshEdits>>

\* The channel is closed and empty, a write fails or the page is gone; a page that
\* was cut off connects again.
StreamEnds(p) ==
    /\ \/ page[p].st = "dropped" /\ page[p].queue = <<>> /\ UNCHANGED dshEdits
       \/ page[p].st = "open" /\ dshEdits < DshEdits /\ dshEdits' = dshEdits + 1
    /\ page' = [page EXCEPT ![p] = NoPage]
    /\ UNCHANGED <<nd, hung, taken, stored, lseen, round, work>>

------------------------------------------------------------------------------
(* Edits of nodes *)

DshEditNode(n, row) ==
    /\ dshEdits < DshEdits /\ dshEdits' = dshEdits + 1
    /\ nd[n].live /\ nd[n] # row
    /\ nd' = [nd EXCEPT ![n] = row]
    /\ stored' = IF row.live THEN stored ELSE [stored EXCEPT ![n] = 0]
    /\ lseen' = IF row.live THEN lseen ELSE [lseen EXCEPT ![n] = FALSE]
    /\ UNCHANGED <<hung, taken, round, work, page>>

\* The SSH server of a node stops to answer, or comes to itself.
SshHangs(n) ==
    /\ IF n \in hung THEN UNCHANGED dshEdits
       ELSE dshEdits < DshEdits /\ dshEdits' = dshEdits + 1
    /\ hung' = IF n \in hung THEN hung \ {n} ELSE hung \cup {n}
    /\ UNCHANGED <<nd, taken, stored, lseen, round, work, page>>

------------------------------------------------------------------------------
DshWorker(w) ==
    \/ HandOut(w) \/ CollectMetrics(w) \/ CollectOverSsh(w) \/ upsertMetrics(w)
    \/ PublishMetrics(w) \/ CollectUsers(w)

DshCollector == CollectOnce \/ RoundEnds

DshNext ==
    \/ DshCollector
    \/ \E w \in DshWorkers : DshWorker(w)
    \/ \E p \in DshPages : Join(p) \/ LoadSnapshot(p) \/ WriteEvent(p) \/ StreamEnds(p)
    \/ \E n \in DshNodes, row \in DshNode : DshEditNode(n, row)
    \/ \E n \in DshNodes : SshHangs(n)

DshSpec == DshInit /\ [][DshNext]_dshVars

------------------------------------------------------------------------------
(* Properties *)

\* A page that is connected and has got everything that was queued for it shows of
\* every node it may see a reading no older than the stored one, however its
\* subscription, its snapshot and the workers' stores and publications interleave;
\* unless the snapshot could not be loaded, or the worker is about to publish.
DshPageCurrent ==
    \A p \in DshPages : page[p].st = "open" /\ page[p].told /\ page[p].queue = <<>> =>
        \A n \in page[p].allowed :
            \/ \E w \in DshWorkers : work[w].node = n /\ work[w].pc = "publish"
            \/ page[p].shown[n] >= stored[n]

\* A node that stays enabled is polled again and again: no provider's error, no
\* failing statement and no page that does not read keeps the collector - but one node
\* whose SSH server is stuck for ever would.
DshPolled ==
    \A n \in DshNodes :
        <>[](nd[n].live /\ nd[n].enabled /\ hung = {})
        => []<>(\E w \in DshWorkers : work[w].node = n /\ work[w].pc = "metrics")
==============================================================================
