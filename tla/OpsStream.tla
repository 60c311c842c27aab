------------------------------ MODULE OpsStream ------------------------------
(***************************************************************************)
(* How the progress of one bulk job reaches a browser: the publishing      *)
(* goroutines (the runner and its workers), the hub with one bounded       *)
(* channel per subscriber (ops/stream.go), the websocket handler           *)
(* (http/ops_stream.go), and the progress dialog of frontend/src/App.jsx,  *)
(* which listens to the socket and polls the row at the same time.         *)
(*                                                                         *)
(* Rows and faults of the job itself are OpsJobs' subject: here the job is *)
(* picked, works and is saved. Events carry their publisher and a number;  *)
(* the runner's first event says "running", its second one "success".      *)
(***************************************************************************)
EXTENDS Integers, Sequences

CONSTANTS
    Workers,      \* goroutines that publish an item's events
    Runner,       \* the dispatcher and runJob, which publish job_status
    Clients,      \* open dialogs: each has a socket, so a channel of its own
    ItemEvents,   \* events a worker publishes
    BufferSize,   \* eventBufferSize, 100 in the code
    WireSize,     \* messages a connection holds before a write blocks
    PollSlots,    \* polls of one dialog that may be under way together
    MaxBreaks,    \* bound on broken connections
    MaxPollFails  \* bound on failing polls

ASSUME StreamAssumption ==
    /\ Runner \notin Workers
    /\ ItemEvents \in Nat /\ BufferSize \in Nat \ {0} /\ WireSize \in Nat \ {0}
    /\ PollSlots \in Nat /\ MaxBreaks \in Nat /\ MaxPollFails \in Nat

VARIABLES
    row,      \* ops_jobs.status
    pub,      \* a publisher inside Hub.Publish
    subs,     \* Hub.subs of the job
    buf,      \* the channel of a subscriber
    closes,   \* how often that channel was closed
    srv,      \* OpsJobStream of a client, with the event it writes
    link,     \* the connection: "up", "closed" by an end, or "broken"
    wire,     \* messages on their way to the browser
    open,     \* is the dialog open?
    view,     \* the status it shows
    stopped,  \* the poll effect's flag
    poll,     \* polls under way
    got,      \* history: number of the last event received, per publisher
    breaks, pollFails

hub == <<subs, buf, closes>>
dialog == <<open, view, stopped, poll, pollFails>>
vars == <<row, pub, subs, buf, closes, srv, link, wire, open, view, stopped,
          poll, got, breaks, pollFails>>

Publishers == Workers \cup {Runner}
Slots == 1..PollSlots
Status == {"queued", "running", "success"}
None == [from |-> Runner, n |-> 0]
Event == [from : Publishers, n : Nat]
StatusOf(n) == IF n = 1 THEN "running" ELSE "success"

TypeOK ==
    /\ row \in Status
    /\ pub \in [Publishers -> [n : Nat, todo : SUBSET Clients, drop : SUBSET Clients]]
    /\ subs \subseteq Clients
    /\ buf \in [Clients -> Seq(Event)] /\ wire \in [Clients -> Seq(Event)]
    /\ \A c \in Clients : Len(buf[c]) <= BufferSize /\ Len(wire[c]) <= WireSize
    /\ closes \in [Clients -> Nat]
    /\ srv \in [Clients -> [pc : {"none", "loop", "write", "ended"}, hand : Event]]
    /\ link \in [Clients -> {"up", "closed", "broken"}]
    /\ open \in [Clients -> BOOLEAN]
    /\ view \in [Clients -> Status]
    /\ stopped \in [Clients -> BOOLEAN]
    /\ poll \in [Clients -> [Slots ->
                    [pc : {"idle", "asked", "answered", "items"}, val : Status]]]
    /\ got \in [Clients -> [Publishers -> Nat]]
    /\ breaks \in 0..MaxBreaks /\ pollFails \in 0..MaxPollFails

\* The request that created the job opens the dialog with the status "queued".
Init ==
    /\ row = "queued"
    /\ pub = [p \in Publishers |-> [n |-> 0, todo |-> {}, drop |-> {}]]
    /\ subs = {}
    /\ buf = [c \in Clients |-> <<>>]
    /\ closes = [c \in Clients |-> 0]
    /\ srv = [c \in Clients |-> [pc |-> "none", hand |-> None]]
    /\ link = [c \in Clients |-> "up"]
    /\ wire = [c \in Clients |-> <<>>]
    /\ open = [c \in Clients |-> TRUE]
    /\ view = [c \in Clients |-> "queued"]
    /\ stopped = [c \in Clients |-> FALSE]
    /\ poll = [c \in Clients |-> [k \in Slots |-> [pc |-> "idle", val |-> "queued"]]]
    /\ got = [c \in Clients |-> [p \in Publishers |-> 0]]
    /\ breaks = 0 /\ pollFails = 0

------------------------------------------------------------------------------
(* Hub *)

\* Mutant: the channel is closed whether or not it is still registered.
unsubscribeUnchecked(c) ==
    /\ subs' = subs \ {c}
    /\ closes' = [closes EXCEPT ![c] = closes[c] + 1]

\* Under the lock: whoever takes the channel out of the map closes it.
unsubscribe(c) ==
    IF c \in subs
    THEN /\ subs' = subs \ {c}
         /\ closes' = [closes EXCEPT ![c] = closes[c] + 1]
    ELSE UNCHANGED <<subs, closes>>

\* Publish takes the subscribers under the read lock ...
Publish(p) ==
    pub' = [pub EXCEPT ![p] = [n |-> pub[p].n + 1, todo |-> subs, drop |-> {}]]

Returned(p) == pub[p].todo = {} /\ pub[p].drop = {}

\* Mutant: a full channel blocks the publisher.
trySendBlocks(p, c) ==
    /\ c \in pub[p].todo /\ pub[p].drop = {}
    /\ closes[c] > 0 \/ Len(buf[c]) < BufferSize
    /\ IF closes[c] = 0
       THEN /\ buf' = [buf EXCEPT ![c] = Append(buf[c], [from |-> p, n |-> pub[p].n])]
            /\ pub' = [pub EXCEPT ![p].todo = pub[p].todo \ {c}]
       ELSE /\ pub' = [pub EXCEPT ![p].todo = pub[p].todo \ {c}, ![p].drop = {c}]
            /\ UNCHANGED buf
    /\ UNCHANGED <<row, subs, closes, srv, link, wire, dialog, got, breaks>>

\* Mutant: an event that does not fit is skipped, the subscriber stays.
trySendSkips(p, c) ==
    /\ c \in pub[p].todo /\ pub[p].drop = {}
    /\ pub' = [pub EXCEPT ![p].todo = pub[p].todo \ {c}]
    /\ IF closes[c] = 0 /\ Len(buf[c]) < BufferSize
       THEN buf' = [buf EXCEPT ![c] = Append(buf[c], [from |-> p, n |-> pub[p].n])]
       ELSE UNCHANGED buf
    /\ UNCHANGED <<row, subs, closes, srv, link, wire, dialog, got, breaks>>

\* ... and sends to each without the lock, in any order. A channel that is full,
\* or by now closed (the panic is recovered), is to be unsubscribed.
trySend(p, c) ==
    /\ c \in pub[p].todo /\ pub[p].drop = {}
    /\ IF closes[c] = 0 /\ Len(buf[c]) < BufferSize
       THEN /\ buf' = [buf EXCEPT ![c] = Append(buf[c], [from |-> p, n |-> pub[p].n])]
            /\ pub' = [pub EXCEPT ![p].todo = pub[p].todo \ {c}]
       ELSE /\ pub' = [pub EXCEPT ![p].todo = pub[p].todo \ {c}, ![p].drop = {c}]
            /\ UNCHANGED buf
    /\ UNCHANGED <<row, subs, closes, srv, link, wire, dialog, got, breaks>>

DropSubscriber(p, c) ==
    /\ c \in pub[p].drop
    /\ unsubscribe(c)
    /\ pub' = [pub EXCEPT ![p].drop = {}]
    /\ UNCHANGED <<row, buf, srv, link, wire, dialog, got, breaks>>

------------------------------------------------------------------------------
(* The job: pickAndRun, executeItem and finishItem, runJob *)

PickJob ==
    /\ row = "queued"
    /\ row' = "running"
    /\ Publish(Runner)
    /\ UNCHANGED <<hub, srv, link, wire, dialog, got, breaks>>

WorkerPublishes(w) ==
    /\ row = "running" /\ Returned(Runner)
    /\ Returned(w) /\ pub[w].n < ItemEvents
    /\ Publish(w)
    /\ UNCHANGED <<row, hub, srv, link, wire, dialog, got, breaks>>

\* wg.Wait is over: the row is saved, then the status published.
FinishJob ==
    /\ row = "running" /\ Returned(Runner)
    /\ \A w \in Workers : Returned(w) /\ pub[w].n = ItemEvents
    /\ row' = "success"
    /\ Publish(Runner)
    /\ UNCHANGED <<hub, srv, link, wire, dialog, got, breaks>>

------------------------------------------------------------------------------
(* OpsJobStream *)

Subscribe(c) ==
    /\ srv[c].pc = "none" /\ open[c] /\ link[c] = "up"
    /\ srv' = [srv EXCEPT ![c].pc = "loop"]
    /\ subs' = subs \cup {c}
    /\ UNCHANGED <<row, pub, buf, closes, link, wire, dialog, got, breaks>>

\* A closed channel is drained first.
ReceiveEvent(c) ==
    /\ srv[c].pc = "loop" /\ buf[c] # <<>>
    /\ srv' = [srv EXCEPT ![c] = [pc |-> "write", hand |-> Head(buf[c])]]
    /\ buf' = [buf EXCEPT ![c] = Tail(buf[c])]
    /\ UNCHANGED <<row, pub, subs, closes, link, wire, dialog, got, breaks>>

writeEvent(c) ==
    /\ srv[c].pc = "write" /\ link[c] = "up" /\ Len(wire[c]) < WireSize
    /\ srv' = [srv EXCEPT ![c] = [pc |-> "loop", hand |-> None]]
    /\ wire' = [wire EXCEPT ![c] = Append(wire[c], srv[c].hand)]
    /\ UNCHANGED <<row, pub, hub, link, dialog, got, breaks>>

\* Mutant: the handler returns without its deferred unsubscribe.
ReturnKeepsChannel(c) ==
    /\ \/ srv[c].pc = "loop" /\ buf[c] = <<>> /\ closes[c] > 0
       \/ srv[c].pc \in {"loop", "write"} /\ link[c] # "up"
    /\ srv' = [srv EXCEPT ![c] = [pc |-> "ended", hand |-> None]]
    /\ link' = [link EXCEPT ![c] = IF link[c] = "up" THEN "closed" ELSE link[c]]
    /\ UNCHANGED <<row, pub, hub, wire, dialog, got, breaks>>

\* The handler returns: its channel was closed, the reader saw the connection
\* end, or a write (of an event or a heartbeat) failed. The deferred calls
\* unsubscribe and close the socket; what was written still arrives.
Return(c) ==
    /\ \/ srv[c].pc = "loop" /\ buf[c] = <<>> /\ closes[c] > 0
       \/ srv[c].pc \in {"loop", "write"} /\ link[c] # "up"
    /\ srv' = [srv EXCEPT ![c] = [pc |-> "ended", hand |-> None]]
    /\ unsubscribe(c)
    /\ link' = [link EXCEPT ![c] = IF link[c] = "up" THEN "closed" ELSE link[c]]
    /\ UNCHANGED <<row, pub, buf, wire, dialog, got, breaks>>

\* The network fails; nobody reconnects (ws.onclose).
Break(c) ==
    /\ link[c] = "up" /\ breaks < MaxBreaks
    /\ link' = [link EXCEPT ![c] = "broken"]
    /\ wire' = [wire EXCEPT ![c] = <<>>]
    /\ breaks' = breaks + 1
    /\ UNCHANGED <<row, pub, hub, srv, dialog, got>>

------------------------------------------------------------------------------
(* The progress dialog *)

\* ws.onmessage
onMessage(c) ==
    /\ open[c] /\ wire[c] # <<>>
    /\ LET e == Head(wire[c])
       IN  /\ view' = [view EXCEPT ![c] =
                          IF e.from = Runner THEN StatusOf(e.n) ELSE view[c]]
           /\ got' = [got EXCEPT ![c][e.from] = e.n]
    /\ wire' = [wire EXCEPT ![c] = Tail(wire[c])]
    /\ UNCHANGED <<row, pub, hub, srv, link, open, stopped, poll, breaks, pollFails>>

\* setInterval(poll): the flag is looked at here and nowhere else.
pollStart(c, k) ==
    /\ open[c] /\ ~stopped[c]
    /\ poll[c][k].pc = "idle"
    /\ poll' = [poll EXCEPT ![c][k] = [pc |-> "asked", val |-> "queued"]]
    /\ UNCHANGED <<row, pub, hub, srv, link, wire, open, view, stopped, got,
                   breaks, pollFails>>

\* GET /ops/jobs/:id reads the row, and its answer travels.
pollServe(c, k) ==
    /\ poll[c][k].pc = "asked"
    /\ poll' = [poll EXCEPT ![c][k] = [pc |-> "answered", val |-> row]]
    /\ UNCHANGED <<row, pub, hub, srv, link, wire, open, view, stopped, got,
                   breaks, pollFails>>

\* The answer is shown, whatever is shown already.
pollReply(c, k) ==
    /\ poll[c][k].pc = "answered"
    /\ view' = [view EXCEPT ![c] = poll[c][k].val]
    /\ poll' = [poll EXCEPT ![c][k].pc = "items"]
    /\ UNCHANGED <<row, pub, hub, srv, link, wire, open, stopped, got,
                   breaks, pollFails>>

\* Mutant: the first answer ends the polling.
pollItemsStops(c, k) ==
    /\ poll[c][k].pc = "items"
    /\ poll' = [poll EXCEPT ![c][k] = [pc |-> "idle", val |-> "queued"]]
    /\ stopped' = [stopped EXCEPT ![c] = TRUE]
    /\ UNCHANGED <<row, pub, hub, srv, link, wire, open, view, got, breaks, pollFails>>

\* The items arrived too; a final status ends the polling.
pollItems(c, k) ==
    /\ poll[c][k].pc = "items"
    /\ poll' = [poll EXCEPT ![c][k] = [pc |-> "idle", val |-> "queued"]]
    /\ stopped' = [stopped EXCEPT ![c] = stopped[c] \/ poll[c][k].val = "success"]
    /\ UNCHANGED <<row, pub, hub, srv, link, wire, open, view, got, breaks, pollFails>>

\* Either request of a poll fails: it only counts the failure.
pollError(c, k) ==
    /\ poll[c][k].pc \in {"asked", "items"}
    /\ pollFails < MaxPollFails /\ pollFails' = pollFails + 1
    /\ poll' = [poll EXCEPT ![c][k] = [pc |-> "idle", val |-> "queued"]]
    /\ UNCHANGED <<row, pub, hub, srv, link, wire, open, view, stopped, got, breaks>>

\* Closing the dialog closes the socket and stops the polling.
closeDeployProgress(c) ==
    /\ open[c]
    /\ open' = [open EXCEPT ![c] = FALSE]
    /\ stopped' = [stopped EXCEPT ![c] = TRUE]
    /\ link' = [link EXCEPT ![c] = IF link[c] = "up" THEN "closed" ELSE link[c]]
    /\ wire' = [wire EXCEPT ![c] = <<>>]
    /\ UNCHANGED <<row, pub, hub, srv, view, poll, got, breaks, pollFails>>

------------------------------------------------------------------------------
JobStep ==
    \/ PickJob \/ FinishJob
    \/ \E w \in Workers : WorkerPublishes(w)
    \/ \E p \in Publishers, c \in Clients : trySend(p, c) \/ DropSubscriber(p, c)

HandlerStep(c) == ReceiveEvent(c) \/ writeEvent(c) \/ Return(c)

PollStep(c, k) == pollServe(c, k) \/ pollReply(c, k) \/ pollItems(c, k)

Next ==
    \/ JobStep
    \/ \E c \in Clients :
          \/ Subscribe(c) \/ HandlerStep(c) \/ Break(c)
          \/ onMessage(c) \/ closeDeployProgress(c)
          \/ \E k \in Slots : pollStart(c, k) \/ PollStep(c, k) \/ pollError(c, k)

Spec == Init /\ [][Next]_vars

\* Only the job's own goroutines are scheduled; browsers may stall for ever.
JobSpec == Spec /\ WF_vars(JobStep)

\* Every goroutine is scheduled, the interval fires, requests are answered or
\* fail, and the browser handles its messages. A socket need not be opened.
FairSpec ==
    /\ JobSpec
    /\ \A c \in Clients :
          /\ WF_vars(HandlerStep(c)) /\ WF_vars(onMessage(c))
          /\ \A k \in Slots : WF_vars(pollStart(c, k)) /\ WF_vars(PollStep(c, k))

------------------------------------------------------------------------------
(* Properties *)

\* A channel is closed at most once, however the publishers that find it full
\* race each other and the handler's deferred unsubscribe: a second close would
\* panic outside trySend's recover and end the process.
ClosedOnce == \A c \in Clients : closes[c] <= 1

\* What is on its way from the hub to the browser, oldest first.
InFlight(c) ==
    wire[c] \o (IF srv[c].pc = "write" THEN <<srv[c].hand>> ELSE <<>>) \o buf[c]

\* The events of p in s, after number g was received, follow each other without
\* a gap. The first one that is received at all may have any number: the socket
\* may have been opened late.
GapFree(s, p, g) ==
    \A k \in 1..Len(s) : s[k].from = p =>
        \/ /\ \A i \in 1..(k - 1) : s[i].from # p
           /\ g = 0 \/ s[k].n = g + 1
        \/ \E j \in 1..(k - 1) :
              /\ s[j].from = p /\ s[k].n = s[j].n + 1
              /\ \A i \in (j + 1)..(k - 1) : s[i].from # p

\* A subscriber sees the events of each goroutine in order and without a gap:
\* one that cannot follow is cut off, never skipped (Publish, unsubscribe).
NoGaps ==
    \A c \in Clients, p \in Publishers :
        link[c] # "broken" /\ open[c] => GapFree(InFlight(c), p, got[c][p])

\* A browser that stops reading never holds up the job: it ends, with all its
\* events published, when only its own goroutines are scheduled (trySend).
JobNeverWaits == <>(row = "success" /\ \A p \in Publishers : Returned(p))

\* A handler whose connection is gone returns, and leaves nothing in the hub.
HandlersLeave ==
    \A c \in Clients :
        srv[c].pc \in {"loop", "write"} /\ link[c] # "up"
            ~> srv[c].pc = "ended" /\ c \notin subs

\* "WS is optional; polling will keep status fresh." (App.jsx): from some time
\* on an open dialog shows the status of the row.
FreshView == \A c \in Clients : <>[](open[c] => view[c] = row)

------------------------------------------------------------------------------
(* The inductive invariant behind ClosedOnce *)

\* A registered channel is open, and a client that has no handler yet has no
\* channel.
HubInv ==
    \A c \in Clients :
        /\ c \in subs => closes[c] = 0
        /\ srv[c].pc = "none" => c \notin subs /\ closes[c] = 0
        /\ closes[c] <= 1
==============================================================================
