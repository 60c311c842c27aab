------------------------------ MODULE WatchProofs ------------------------------
(* Theorems about the dashboard and the checks worker, for any number of nodes,  *)
(* workers, pages and events, of checks and edits, and about MCWatch.            *)
EXTENDS MCWatch, SshTerminalProofs, SequenceTheorems, WellFoundedInduction

------------------------------------------------------------------------------
(* Dashboard: the inductive invariant *)

DshEvent == [node : DshNodes, reading : Reading]
DshPage == [st : {"off", "joined", "open", "dropped"}, allowed : SUBSET DshNodes,
            queue : Seq(DshEvent), told : BOOLEAN, shown : [DshNodes -> Reading]]

\* A worker at rest may have no node at all, if there is none.
DshWork == [pc : {"rest", "metrics", "ssh", "store", "publish", "users"},
            node : DshNodes \cup {Resting.node}, agent : BOOLEAN, from : Sources,
            reading : Reading]

DshTyped ==
    /\ nd \in [DshNodes -> DshNode] /\ hung \in SUBSET DshNodes
    /\ taken \in [DshNodes -> Reading] /\ stored \in [DshNodes -> Reading]
    /\ lseen \in [DshNodes -> BOOLEAN]
    /\ round \in [on : BOOLEAN, left : SUBSET [node : DshNodes, agent : BOOLEAN]]
    /\ work \in [DshWorkers -> DshWork]
    /\ page \in [DshPages -> DshPage]
    /\ \A p \in DshPages : Len(page[p].queue) <= DshBuffer
    /\ dshEdits \in 0..DshEdits

\* A node is with one worker, or waits to be handed out, or neither; a round waits
\* for its workers.
OneWorkerEach ==
    /\ \A w \in DshWorkers : work[w].pc # "rest" => round.on /\ work[w].node \in DshNodes
    /\ \A v, w \in DshWorkers :
          work[v].pc # "rest" /\ work[w].pc # "rest" /\ work[v].node = work[w].node => v = w
    /\ \A w \in DshWorkers, r \in round.left : work[w].pc # "rest" => r.node # work[w].node
    /\ \A r, s \in round.left : r.node = s.node => r = s
    /\ round.left # {} => round.on

\* What a worker is going to store or publish is the newest reading of its node.
Newest ==
    /\ \A n \in DshNodes : stored[n] <= taken[n]
    /\ \A w \in DshWorkers : work[w].pc \in {"store", "publish"} =>
          work[w].reading > 0 /\ work[w].reading = taken[work[w].node]

Publishing(n) == \E w \in DshWorkers : work[w].node = n /\ work[w].pc = "publish"

\* A reading of n; the events of users bring none.
ReadingOf(e, n) == e.node = n /\ e.reading # 0
NoReading(s, n) == \A k \in 1..Len(s) : ~ReadingOf(s[k], n)

\* The last reading of n in s is no older than v.
LastReading(s, n, v) ==
    \A k \in 1..Len(s) :
        ReadingOf(s[k], n) /\ (\A i \in (k + 1)..Len(s) : ~ReadingOf(s[i], n))
        => s[k].reading >= v

\* What the page will show of n once it has taken its queue, from the moment it
\* subscribed; the property is about the moment its queue is empty.
PageInv(p, n) ==
    Subscribed(p) /\ ~Publishing(n) =>
        /\ LastReading(page[p].queue, n, stored[n])
        /\ page[p].told /\ n \in page[p].allowed /\ NoReading(page[p].queue, n)
              => page[p].shown[n] >= stored[n]

DshInv ==
    /\ DshTyped
    /\ OneWorkerEach
    /\ Newest
    /\ \A p \in DshPages : page[p].st = "joined" => ~page[p].told
    /\ \A p \in DshPages, n \in DshNodes : PageInv(p, n)

------------------------------------------------------------------------------
(* Dashboard: queues *)

LEMMA AppendEvent ==
    ASSUME NEW s \in Seq(DshEvent), NEW e \in DshEvent, NEW n \in DshNodes, NEW v \in Reading
    PROVE  /\ Append(s, e) \in Seq(DshEvent) /\ Len(Append(s, e)) = Len(s) + 1
           /\ ReadingOf(e, n) /\ e.reading >= v => LastReading(Append(s, e), n, v)
           /\ ~ReadingOf(e, n) /\ LastReading(s, n, v) => LastReading(Append(s, e), n, v)
           /\ NoReading(Append(s, e), n) => NoReading(s, n) /\ ~ReadingOf(e, n)
<1> DEFINE t == Append(s, e)
<1>1. /\ t \in Seq(DshEvent) /\ Len(t) = Len(s) + 1 /\ Len(s) \in Nat
      /\ \A k \in 1..Len(s) : t[k] = s[k]
      /\ t[Len(s) + 1] = e
    BY AppendProperties, LenProperties
<1> HIDE DEF t
<1>2. ASSUME ReadingOf(e, n), e.reading >= v PROVE LastReading(t, n, v)
    BY <1>1, <1>2 DEF LastReading
<1>3. ASSUME ~ReadingOf(e, n), LastReading(s, n, v) PROVE LastReading(t, n, v)
    <2> SUFFICES ASSUME NEW k \in 1..Len(t), ReadingOf(t[k], n),
                        \A i \in (k + 1)..Len(t) : ~ReadingOf(t[i], n)
                 PROVE  t[k].reading >= v
        BY DEF LastReading
    <2>1. k \in 1..Len(s) /\ t[k] = s[k]
        BY <1>1, <1>3
    <2>2. \A i \in (k + 1)..Len(s) : i \in (k + 1)..Len(t) /\ t[i] = s[i]
        BY <1>1, <2>1
    <2> QED
        BY <1>3, <2>1, <2>2 DEF LastReading
<1>4. NoReading(t, n) => NoReading(s, n) /\ ~ReadingOf(e, n)
    BY <1>1 DEF NoReading
<1> QED
    BY <1>1, <1>2, <1>3, <1>4 DEF t

LEMMA TailEvent ==
    ASSUME NEW s \in Seq(DshEvent), s # <<>>, NEW n \in DshNodes, NEW v \in Reading,
           LastReading(s, n, v)
    PROVE  /\ LastReading(Tail(s), n, v)
           /\ NoReading(Tail(s), n) =>
                 IF ReadingOf(Head(s), n) THEN Head(s).reading >= v ELSE NoReading(s, n)
<1> DEFINE t == Tail(s)
<1>1. Len(s) \in Nat /\ Len(s) # 0
    BY EmptySeq, LenProperties
<1>2. /\ Len(t) = Len(s) - 1
      /\ \A k \in 1..Len(t) : t[k] = s[k + 1]
      /\ Head(s) = s[1]
    BY <1>1, HeadTailProperties
<1> HIDE DEF t
<1>3. LastReading(t, n, v)
    <2> SUFFICES ASSUME NEW k \in 1..Len(t), ReadingOf(t[k], n),
                        \A i \in (k + 1)..Len(t) : ~ReadingOf(t[i], n)
                 PROVE  t[k].reading >= v
        BY DEF LastReading
    <2>1. k + 1 \in 1..Len(s) /\ t[k] = s[k + 1]
        BY <1>1, <1>2
    <2>2. ASSUME NEW i \in ((k + 1) + 1)..Len(s) PROVE ~ReadingOf(s[i], n)
        <3>1. i - 1 \in (k + 1)..Len(t) /\ i - 1 \in 1..Len(t) /\ (i - 1) + 1 = i
            BY <1>1, <1>2
        <3> QED
            BY <1>2, <3>1
    <2> QED
        BY <2>1, <2>2 DEF LastReading
<1>4. ASSUME NoReading(t, n) PROVE \A k \in 2..Len(s) : ~ReadingOf(s[k], n)
    <2> SUFFICES ASSUME NEW k \in 2..Len(s) PROVE ~ReadingOf(s[k], n)
        OBVIOUS
    <2>1. k - 1 \in 1..Len(t) /\ (k - 1) + 1 = k
        BY <1>1, <1>2
    <2> QED
        BY <1>2, <1>4, <2>1 DEF NoReading
<1>5. ASSUME NoReading(t, n)
      PROVE  IF ReadingOf(s[1], n) THEN s[1].reading >= v ELSE NoReading(s, n)
    <2>1. CASE ReadingOf(s[1], n)
        <3>1. 1 \in 1..Len(s) /\ 1 + 1 = 2
            BY <1>1
        <3> QED
            BY <1>4, <1>5, <2>1, <3>1 DEF LastReading
    <2>2. CASE ~ReadingOf(s[1], n)
        BY <1>1, <1>4, <1>5, <2>2 DEF NoReading
    <2> QED
        BY <2>1, <2>2
<1> QED
    BY <1>2, <1>3, <1>5 DEF t

------------------------------------------------------------------------------
(* Dashboard: steps *)

\* hubPublish: a page that is not subscribed is left alone, one that is gets the event
\* or is cut off.
LEMMA HubPublishes ==
    ASSUME DshTyped, NEW e \in DshEvent, hubPublish(e)
    PROVE  /\ page' \in [DshPages -> DshPage]
           /\ \A p \in DshPages :
                 /\ Len(page'[p].queue) <= DshBuffer
                 /\ \/ ~Subscribed(p) /\ page'[p] = page[p]
                    \/ Subscribed(p) /\ page'[p].st = "dropped"
                    \/ /\ Subscribed(p) /\ page'[p].st = page[p].st
                       /\ page'[p].told = page[p].told
                       /\ page'[p].allowed = page[p].allowed
                       /\ page'[p].shown = page[p].shown
                       /\ page'[p].queue = Append(page[p].queue, e)
<1>0. page \in [DshPages -> DshPage] /\ DshBuffer \in Nat
    BY DshAssumption DEF DshTyped
<1>1. ASSUME NEW p \in DshPages
      PROVE  LET pg == hubSend(page[p], e)
             IN  /\ pg \in DshPage /\ Len(pg.queue) <= DshBuffer
                 /\ \/ pg.st = "dropped"
                    \/ /\ pg.st = page[p].st /\ pg.told = page[p].told
                       /\ pg.allowed = page[p].allowed /\ pg.shown = page[p].shown
                       /\ pg.queue = Append(page[p].queue, e)
    <2>1. page[p] \in DshPage /\ page[p].queue \in Seq(DshEvent)
          /\ Len(page[p].queue) \in Nat /\ Len(page[p].queue) <= DshBuffer
        BY <1>0, LenProperties DEF DshTyped, DshPage
    <2>2. CASE Len(page[p].queue) < DshBuffer
        <3>1. /\ Append(page[p].queue, e) \in Seq(DshEvent)
              /\ Len(Append(page[p].queue, e)) = Len(page[p].queue) + 1
            BY <2>1, AppendProperties
        <3>2. hubSend(page[p], e) = [page[p] EXCEPT !.queue = Append(page[p].queue, e)]
            BY <2>2 DEF hubSend
        <3> DEFINE t == Append(page[p].queue, e)
        <3> HIDE DEF t
        <3>3. [page[p] EXCEPT !.queue = t] \in DshPage
            BY <2>1, <3>1 DEF DshPage, t
        <3>4. /\ [page[p] EXCEPT !.queue = t].queue = t
              /\ [page[p] EXCEPT !.queue = t].st = page[p].st
              /\ [page[p] EXCEPT !.queue = t].told = page[p].told
              /\ [page[p] EXCEPT !.queue = t].allowed = page[p].allowed
              /\ [page[p] EXCEPT !.queue = t].shown = page[p].shown
            BY <2>1 DEF DshPage
        <3>5. Len(t) <= DshBuffer
            BY <1>0, <2>1, <2>2, <3>1 DEF t
        <3> QED
            BY <3>2, <3>3, <3>4, <3>5 DEF t
    <2>3. CASE ~(Len(page[p].queue) < DshBuffer)
        <3>1. hubSend(page[p], e) = [page[p] EXCEPT !.st = "dropped"]
            BY <2>3 DEF hubSend
        <3> QED
            BY <2>1, <3>1 DEF DshPage
    <2> QED
        BY <2>2, <2>3
<1>2. \A p \in DshPages :
         page'[p] = IF Subscribed(p) THEN hubSend(page[p], e) ELSE page[p]
    BY DEF hubPublish
<1>3. page' \in [DshPages -> DshPage]
    <2>1. \A p \in DshPages :
             (IF Subscribed(p) THEN hubSend(page[p], e) ELSE page[p]) \in DshPage
        BY <1>0, <1>1
    <2> QED
        BY <2>1 DEF hubPublish
<1>4. \A p \in DshPages : Len(page[p].queue) <= DshBuffer
    BY DEF DshTyped
<1> QED
    BY <1>1, <1>2, <1>3, <1>4

\* Nothing changes for a page of which nothing changes, as long as no newer reading is
\* stored.
LEMMA PageKept ==
    ASSUME NEW p \in DshPages, NEW n \in DshNodes, PageInv(p, n), DshTyped,
           page'[p] = page[p], stored'[n] \in Reading,
           Publishing(n)' \/ (~Publishing(n) /\ stored'[n] <= stored[n])
    PROVE  PageInv(p, n)'
<1>1. CASE Publishing(n)'
    BY <1>1 DEF PageInv
<1>2. CASE ~Publishing(n) /\ stored'[n] <= stored[n] /\ Subscribed(p)'
    <2>1. Subscribed(p) /\ stored[n] \in Nat /\ stored'[n] \in Nat
        BY <1>2, DshAssumption DEF Subscribed, DshTyped, Reading
    <2>2. page[p] \in DshPage /\ page[p].shown[n] \in Nat
        BY DshAssumption DEF DshTyped, DshPage, Reading
    <2>3. \A k \in 1..Len(page[p].queue) : page[p].queue[k].reading \in Nat
        <3>1. page[p].queue \in Seq(DshEvent)
            BY <2>2 DEF DshPage
        <3>2. \A k \in 1..Len(page[p].queue) : page[p].queue[k] \in DshEvent
            BY <3>1, ElementOfSeq
        <3> QED
            BY <3>2, DshAssumption DEF DshEvent, Reading
    <2>4. LastReading(page[p].queue, n, stored[n])
        BY <1>2, <2>1 DEF PageInv
    <2>5. LastReading(page[p].queue, n, stored'[n])
        BY <1>2, <2>1, <2>3, <2>4 DEF LastReading
    <2>6. page[p].told /\ n \in page[p].allowed /\ NoReading(page[p].queue, n)
             => page[p].shown[n] >= stored'[n]
        BY <1>2, <2>1, <2>2 DEF PageInv
    <2> QED
        BY <2>5, <2>6 DEF PageInv
<1>3. CASE ~Subscribed(p)'
    BY <1>3 DEF PageInv
<1> QED
    BY <1>1, <1>2, <1>3

\* A page that gets an event, of whatever node.
LEMMA PageTold ==
    ASSUME NEW p \in DshPages, NEW n \in DshNodes, PageInv(p, n), DshTyped, DshTyped',
           NEW e \in DshEvent, hubPublish(e), stored' = stored,
           IF ReadingOf(e, n) THEN e.reading >= stored[n]
           ELSE Publishing(n)' \/ ~Publishing(n)
    PROVE  PageInv(p, n)'
<1> SUFFICES ASSUME Subscribed(p)', ~Publishing(n)'
             PROVE  /\ LastReading(page'[p].queue, n, stored[n])
                    /\ page'[p].told /\ n \in page'[p].allowed /\ NoReading(page'[p].queue, n)
                         => page'[p].shown[n] >= stored[n]
    BY DEF PageInv
<1>1. /\ Subscribed(p)
      /\ page'[p].told = page[p].told
      /\ page'[p].allowed = page[p].allowed
      /\ page'[p].shown = page[p].shown
      /\ page'[p].queue = Append(page[p].queue, e)
    BY HubPublishes DEF Subscribed
<1>2. page[p].queue \in Seq(DshEvent) /\ stored[n] \in Reading
    BY DEF DshTyped, DshPage
<1>3. CASE ReadingOf(e, n)
    BY <1>1, <1>2, <1>3, AppendEvent
<1>4. CASE ~ReadingOf(e, n)
    <2>1. ~Publishing(n)
        BY <1>4
    <2>2. /\ LastReading(page[p].queue, n, stored[n])
          /\ page[p].told /\ n \in page[p].allowed /\ NoReading(page[p].queue, n)
                => page[p].shown[n] >= stored[n]
        BY <1>1, <2>1 DEF PageInv
    <2> QED
        BY <1>1, <1>2, <1>4, <2>2, AppendEvent
<1> QED
    BY <1>3, <1>4

\* If the pages, what is stored and who publishes stay the same, so does what pages
\* will show.
LEMMA PagesKept ==
    ASSUME DshInv, DshTyped', page' = page, stored' = stored,
           \A n \in DshNodes : Publishing(n)' = Publishing(n)
    PROVE  /\ \A p \in DshPages : page'[p].st = "joined" => ~page'[p].told
           /\ \A p \in DshPages, n \in DshNodes : PageInv(p, n)'
<1>1. ASSUME NEW p \in DshPages, NEW n \in DshNodes PROVE PageInv(p, n)'
    <2>1. stored[n] \in Reading /\ stored[n] <= stored[n]
        BY DshAssumption DEF DshInv, DshTyped, Reading
    <2>2. PageInv(p, n) /\ DshTyped
        BY DEF DshInv
    <2> QED
        BY <2>1, <2>2, PageKept
<1> QED
    BY <1>1 DEF DshInv

LEMMA RoundSteps ==
    ASSUME DshInv, CollectOnce \/ RoundEnds
    PROVE  DshInv'
<1>0. DshTyped /\ OneWorkerEach /\ Newest
    BY DEF DshInv
<1>1. CASE CollectOnce
    <2> DEFINE rows == {[node |-> n, agent |-> nd[n].agent] :
                           n \in {m \in DshNodes : nd[m].live /\ nd[m].enabled}}
    <2>1. /\ round' = [on |-> TRUE, left |-> rows] /\ ~round.on
          /\ UNCHANGED <<nd, hung, taken, stored, lseen, work, page, dshEdits>>
        BY <1>1 DEF CollectOnce
    <2>2. rows \in SUBSET [node : DshNodes, agent : BOOLEAN]
        BY <1>0 DEF DshTyped, DshNode
    <2>3. \A r, s \in rows : r.node = s.node => r = s
        OBVIOUS
    <2> HIDE DEF rows
    <2>4. DshTyped'
        BY <1>0, <2>1, <2>2 DEF DshTyped
    <2>5. OneWorkerEach'
        BY <1>0, <2>1, <2>3 DEF OneWorkerEach
    <2>6. Newest' /\ \A n \in DshNodes : Publishing(n)' = Publishing(n)
        BY <1>0, <2>1 DEF Newest, Publishing
    <2> QED
        BY <2>1, <2>4, <2>5, <2>6, PagesKept DEF DshInv
<1>2. CASE RoundEnds
    <2>1. /\ round' = [round EXCEPT !.on = FALSE]
          /\ round.left = {} /\ \A w \in DshWorkers : work[w].pc = "rest"
          /\ UNCHANGED <<nd, hung, taken, stored, lseen, work, page, dshEdits>>
        BY <1>2 DEF RoundEnds
    <2>2. round' = [on |-> FALSE, left |-> {}]
        BY <1>0, <2>1 DEF DshTyped
    <2>4. DshTyped'
        BY <1>0, <2>1, <2>2 DEF DshTyped
    <2>5. OneWorkerEach'
        BY <1>0, <2>1, <2>2 DEF OneWorkerEach
    <2>6. Newest' /\ \A n \in DshNodes : Publishing(n)' = Publishing(n)
        BY <1>0, <2>1 DEF Newest, Publishing
    <2> QED
        BY <2>1, <2>4, <2>5, <2>6, PagesKept DEF DshInv
<1> QED
    BY <1>1, <1>2

LEMMA HandOutStep ==
    ASSUME DshInv, NEW w \in DshWorkers, HandOut(w)
    PROVE  DshInv'
<1>0. DshTyped /\ OneWorkerEach /\ Newest
    BY DEF DshInv
<1>1. PICK r \in round.left :
         /\ round' = [round EXCEPT !.left = @ \ {r}]
         /\ work' = [work EXCEPT ![w] = [Resting EXCEPT !.pc = "metrics", !.node = r.node,
                                                        !.agent = r.agent]]
    BY DEF HandOut
<1>2. /\ work[w].pc = "rest"
      /\ UNCHANGED <<nd, hung, taken, stored, lseen, page, dshEdits>>
    BY DEF HandOut
<1> DEFINE new == [Resting EXCEPT !.pc = "metrics", !.node = r.node, !.agent = r.agent]
<1>3. r.node \in DshNodes /\ r.agent \in BOOLEAN /\ round.on
    BY <1>0 DEF DshTyped, OneWorkerEach
<1>4. new \in DshWork /\ new.pc = "metrics" /\ new.node = r.node
    <2> DEFINE a == r.agent
               row == [pc |-> "metrics", node |-> r.node, agent |-> a, from |-> "none",
                       reading |-> 0]
    <2> DEFINE some == CHOOSE n \in DshNodes : TRUE
               no == FALSE
    <2>0. Resting = [pc |-> "rest", node |-> some, agent |-> no, from |-> "none",
                     reading |-> 0]
        BY DEF Resting
    <2>a. new = [Resting EXCEPT !.pc = "metrics", !.node = r.node, !.agent = a]
        OBVIOUS
    <2> HIDE DEF some, no, a, new
    <2>1. new = row
        BY <2>0, <2>a
    <2>2. a \in BOOLEAN /\ 0 \in Reading
        BY <1>3, DshAssumption DEF Reading, a
    <2>3. row \in DshWork
        BY <1>3, <2>2 DEF DshWork, Sources
    <2> QED
        BY <2>1, <2>3
<1> HIDE DEF new
<1>5. /\ work' \in [DshWorkers -> DshWork] /\ work'[w] = new
      /\ \A v \in DshWorkers : v # w => work'[v] = work[v]
    BY <1>0, <1>1, <1>4 DEF DshTyped, new
<1>6. round'.on /\ round'.left = round.left \ {r}
      /\ round' \in [on : BOOLEAN, left : SUBSET [node : DshNodes, agent : BOOLEAN]]
    BY <1>0, <1>1, <1>3 DEF DshTyped
<1>7. DshTyped'
    BY <1>0, <1>2, <1>5, <1>6 DEF DshTyped
<1>8. OneWorkerEach'
    <2>1. \A v \in DshWorkers : work[v].pc # "rest" => work[v].node # r.node
        BY <1>0 DEF OneWorkerEach
    <2>2. \A q \in round'.left : q \in round.left /\ q.node # r.node
        BY <1>0, <1>6 DEF OneWorkerEach
    <2>3. \A v \in DshWorkers : work'[v].pc # "rest" =>
             \/ v = w /\ work'[v].node = r.node
             \/ v # w /\ work'[v] = work[v] /\ work'[v].node # r.node
        BY <1>4, <1>5, <2>1
    <2>4. \A v \in DshWorkers : work'[v].pc # "rest" =>
             round'.on /\ work'[v].node \in DshNodes
        BY <1>0, <1>3, <1>6, <2>3 DEF OneWorkerEach
    <2>5. \A u, v \in DshWorkers :
             work'[u].pc # "rest" /\ work'[v].pc # "rest" /\ work'[u].node = work'[v].node
             => u = v
        BY <1>0, <2>3 DEF OneWorkerEach
    <2>6. \A v \in DshWorkers, q \in round'.left :
             work'[v].pc # "rest" => q.node # work'[v].node
        BY <1>0, <2>2, <2>3 DEF OneWorkerEach
    <2>7. /\ \A q, s \in round'.left : q.node = s.node => q = s
          /\ round'.left # {} => round'.on
        BY <1>0, <1>6, <2>2 DEF OneWorkerEach
    <2> QED
        BY <2>4, <2>5, <2>6, <2>7 DEF OneWorkerEach
<1>9. Newest' /\ \A n \in DshNodes : Publishing(n)' = Publishing(n)
    BY <1>0, <1>2, <1>4, <1>5 DEF Newest, Publishing
<1> QED
    BY <1>2, <1>7, <1>8, <1>9, PagesKept DEF DshInv

\* A worker goes on with its node, or is done with it.
LEMMA WorkerGoesOn ==
    ASSUME DshTyped, OneWorkerEach, NEW w \in DshWorkers, NEW new \in DshWork,
           work[w].pc # "rest", new.pc = "rest" \/ new.node = work[w].node,
           work' = [work EXCEPT ![w] = new], round' = round
    PROVE  /\ work' \in [DshWorkers -> DshWork] /\ work'[w] = new
           /\ \A v \in DshWorkers : v # w => work'[v] = work[v]
           /\ OneWorkerEach'
<1>1. /\ work' \in [DshWorkers -> DshWork] /\ work'[w] = new
      /\ \A v \in DshWorkers : v # w => work'[v] = work[v]
    BY DEF DshTyped
<1>2. \A v \in DshWorkers : work'[v].pc # "rest" =>
         work[v].pc # "rest" /\ work'[v].node = work[v].node
    BY <1>1
<1>3. OneWorkerEach'
    BY <1>1, <1>2 DEF OneWorkerEach
<1> QED
    BY <1>1, <1>3

\* A provider has answered, with a reading or without.
LEMMA CollectedStep ==
    ASSUME DshInv, NEW w \in DshWorkers, NEW from \in Sources,
           work[w].pc \in {"metrics", "ssh"}, Collected(w, from),
           UNCHANGED <<nd, hung, stored, lseen, round, page, dshEdits>>
    PROVE  DshInv'
<1>0. DshTyped /\ OneWorkerEach /\ Newest
    BY DEF DshInv
<1> DEFINE n == work[w].node
<1>1. work[w].pc \in {"metrics", "ssh"} /\ work[w].pc # "rest" /\ work[w].pc # "publish"
    OBVIOUS
<1>2. work[w] \in DshWork /\ n \in DshNodes /\ taken[n] \in Reading
    BY <1>0, <1>1 DEF DshTyped, OneWorkerEach
<1>3. IF from # "none" /\ taken[n] < DshReadings
      THEN /\ taken' = [taken EXCEPT ![n] = @ + 1]
           /\ work' = [work EXCEPT ![w].pc = "store", ![w].from = from,
                                   ![w].reading = taken[n] + 1]
      ELSE work' = [work EXCEPT ![w].pc = "users"] /\ UNCHANGED taken
    BY DEF Collected
<1>5. CASE from # "none" /\ taken[n] < DshReadings
    <2> DEFINE new == [work[w] EXCEPT !.pc = "store", !.from = from, !.reading = taken[n] + 1]
    <2>1. work' = [work EXCEPT ![w] = new] /\ taken' = [taken EXCEPT ![n] = taken[n] + 1]
        BY <1>0, <1>3, <1>5 DEF DshTyped
    <2>2. taken[n] + 1 \in Reading /\ taken[n] + 1 > 0 /\ taken[n] \in Nat
        BY <1>2, <1>5, DshAssumption DEF Reading
    <2>3. new \in DshWork /\ new.pc = "store" /\ new.node = n /\ new.reading = taken[n] + 1
        BY <1>2, <2>2 DEF DshWork
    <2> HIDE DEF new
    <2>4. /\ work' \in [DshWorkers -> DshWork] /\ work'[w] = new
          /\ \A v \in DshWorkers : v # w => work'[v] = work[v]
          /\ OneWorkerEach'
        BY <1>0, <1>1, <2>1, <2>3, WorkerGoesOn
    <2>5. /\ taken' \in [DshNodes -> Reading] /\ taken'[n] = taken[n] + 1
          /\ \A m \in DshNodes : m # n => taken'[m] = taken[m]
        BY <1>0, <1>2, <2>1, <2>2 DEF DshTyped
    <2>6. DshTyped'
        BY <1>0, <1>1, <2>4, <2>5 DEF DshTyped
    <2>7. \A m \in DshNodes : stored'[m] <= taken'[m]
        <3>1. \A m \in DshNodes : stored[m] \in Nat /\ taken[m] \in Nat
            BY <1>0, DshAssumption DEF DshTyped, Reading
        <3> QED
            BY <1>0, <1>1, <2>2, <2>5, <3>1 DEF Newest
    <2>8. ASSUME NEW v \in DshWorkers, work'[v].pc \in {"store", "publish"}
          PROVE  work'[v].reading > 0 /\ work'[v].reading = taken'[work'[v].node]
        <3>1. CASE v = w
            BY <2>2, <2>3, <2>4, <2>5, <3>1
        <3>2. CASE v # w
            <4>1. work'[v] = work[v] /\ work[v].node # n /\ work[v].node \in DshNodes
                BY <1>0, <1>1, <2>4, <2>8, <3>2 DEF OneWorkerEach
            <4> QED
                BY <1>0, <2>5, <2>8, <4>1 DEF Newest
        <3> QED
            BY <3>1, <3>2
    <2>9. \A m \in DshNodes : Publishing(m)' = Publishing(m)
        BY <1>1, <2>3, <2>4 DEF Publishing
    <2> QED
        BY <1>1, <2>4, <2>6, <2>7, <2>8, <2>9, PagesKept DEF DshInv, Newest
<1>6. CASE ~(from # "none" /\ taken[n] < DshReadings)
    <2> DEFINE new == [work[w] EXCEPT !.pc = "users"]
    <2>1. work' = [work EXCEPT ![w] = new] /\ taken' = taken
        BY <1>0, <1>3, <1>6 DEF DshTyped
    <2>3. new \in DshWork /\ new.pc = "users" /\ new.node = n
        BY <1>2 DEF DshWork
    <2> HIDE DEF new
    <2>4. /\ work' \in [DshWorkers -> DshWork] /\ work'[w] = new
          /\ \A v \in DshWorkers : v # w => work'[v] = work[v]
          /\ OneWorkerEach'
        BY <1>0, <1>1, <2>1, <2>3, WorkerGoesOn
    <2>6. DshTyped'
        BY <1>0, <1>1, <2>1, <2>4 DEF DshTyped
    <2>8. Newest' /\ \A m \in DshNodes : Publishing(m)' = Publishing(m)
        BY <1>0, <1>1, <2>1, <2>3, <2>4 DEF Newest, Publishing
    <2> QED
        BY <1>1, <2>4, <2>6, <2>8, PagesKept DEF DshInv
<1> QED
    BY <1>5, <1>6

LEMMA CollectSteps ==
    ASSUME DshInv, NEW w \in DshWorkers, CollectMetrics(w) \/ CollectOverSsh(w)
    PROVE  DshInv'
<1>0. DshTyped /\ OneWorkerEach /\ Newest
    BY DEF DshInv
<1>1. UNCHANGED <<nd, hung, stored, lseen, round, page, dshEdits>>
    BY DEF CollectMetrics, CollectOverSsh
<1>2. work[w].pc \in {"metrics", "ssh"}
    BY DEF CollectMetrics, CollectOverSsh
<1>3. CASE \E from \in Sources : Collected(w, from)
    BY <1>1, <1>2, <1>3, CollectedStep
<1>4. CASE work' = [work EXCEPT ![w].pc = "ssh"] /\ UNCHANGED taken
    <2> DEFINE new == [work[w] EXCEPT !.pc = "ssh"]
    <2>1. work' = [work EXCEPT ![w] = new]
        BY <1>0, <1>4 DEF DshTyped
    <2>2. new \in DshWork /\ new.pc = "ssh" /\ new.node = work[w].node
        BY <1>0 DEF DshTyped, DshWork
    <2> HIDE DEF new
    <2>3. /\ work' \in [DshWorkers -> DshWork] /\ work'[w] = new
          /\ \A v \in DshWorkers : v # w => work'[v] = work[v]
          /\ OneWorkerEach'
        BY <1>0, <1>1, <1>2, <2>1, <2>2, WorkerGoesOn
    <2>4. DshTyped'
        BY <1>0, <1>1, <1>4, <2>3 DEF DshTyped
    <2>5. Newest' /\ \A m \in DshNodes : Publishing(m)' = Publishing(m)
        BY <1>0, <1>1, <1>2, <1>4, <2>2, <2>3 DEF Newest, Publishing
    <2> QED
        BY <1>1, <1>4, <2>3, <2>4, <2>5, PagesKept DEF DshInv
<1>5. \/ \E from \in Sources : Collected(w, from)
      \/ work' = [work EXCEPT ![w].pc = "ssh"] /\ UNCHANGED taken
    <2>1. /\ promCollect(work[w]) \cup agentCollect(work[w]) \subseteq Sources
          /\ sshCollect \subseteq Sources
        BY DEF promCollect, agentCollect, sshCollect, Sources
    <2> QED
        BY <2>1 DEF CollectMetrics, CollectOverSsh
<1> QED
    BY <1>3, <1>4, <1>5

LEMMA upsertMetricsStep ==
    ASSUME DshInv, NEW w \in DshWorkers, upsertMetrics(w)
    PROVE  DshInv'
<1>0. DshTyped /\ OneWorkerEach /\ Newest
    BY DEF DshInv
<1> DEFINE n == work[w].node
           new == [work[w] EXCEPT !.pc = "publish"]
<1>1. /\ work[w].pc = "store" /\ round' = round
      /\ UNCHANGED <<nd, hung, taken, lseen, page, dshEdits>>
      /\ stored' = [stored EXCEPT ![n] = work[w].reading] \/ stored' = stored
    BY DEF upsertMetrics
<1>2. work[w] \in DshWork /\ n \in DshNodes /\ work[w].reading \in Reading
      /\ work[w].reading = taken[n] /\ work[w].reading > 0
    BY <1>0, <1>1 DEF DshTyped, OneWorkerEach, DshWork, Newest
<1>3. work' = [work EXCEPT ![w] = new]
    BY <1>0 DEF upsertMetrics, DshTyped
<1>4. new \in DshWork /\ new.pc = "publish" /\ new.node = n /\ new.reading = work[w].reading
    BY <1>2 DEF DshWork
<1> HIDE DEF new
<1>5. /\ work' \in [DshWorkers -> DshWork] /\ work'[w] = new
      /\ \A v \in DshWorkers : v # w => work'[v] = work[v]
      /\ OneWorkerEach'
    BY <1>0, <1>1, <1>3, <1>4, WorkerGoesOn
<1>6. /\ stored' \in [DshNodes -> Reading]
      /\ \A m \in DshNodes : m # n => stored'[m] = stored[m]
      /\ stored'[n] = work[w].reading \/ stored'[n] = stored[n]
    BY <1>0, <1>1, <1>2 DEF DshTyped
<1>7. DshTyped'
    BY <1>0, <1>1, <1>5, <1>6 DEF DshTyped
<1>8. Newest'
    <2>1. \A m \in DshNodes : stored[m] \in Nat /\ taken[m] \in Nat
        BY <1>0, DshAssumption DEF DshTyped, Reading
    <2>2. \A m \in DshNodes : stored'[m] <= taken'[m]
        BY <1>0, <1>1, <1>2, <1>6, <2>1 DEF Newest
    <2>3. \A v \in DshWorkers : work'[v].pc \in {"store", "publish"} =>
             work'[v].reading > 0 /\ work'[v].reading = taken'[work'[v].node]
        BY <1>0, <1>1, <1>2, <1>4, <1>5 DEF Newest
    <2> QED
        BY <2>2, <2>3 DEF Newest
<1>9. ASSUME NEW p \in DshPages, NEW m \in DshNodes PROVE PageInv(p, m)'
    <2>1. stored'[m] \in Reading /\ PageInv(p, m) /\ page'[p] = page[p]
        BY <1>1, <1>6 DEF DshInv
    <2>2. CASE m = n
        <3>1. Publishing(m)'
            BY <1>4, <1>5, <2>2 DEF Publishing
        <3> QED
            BY <1>0, <2>1, <3>1, PageKept
    <2>3. CASE m # n
        <3>1. Publishing(m)' = Publishing(m)
            BY <1>1, <1>4, <1>5, <2>3 DEF Publishing
        <3>2. stored'[m] <= stored[m]
            BY <1>0, <1>6, <2>3, DshAssumption DEF DshTyped, Reading
        <3>3. CASE Publishing(m)
            BY <1>0, <2>1, <3>1, <3>3, PageKept
        <3>4. CASE ~Publishing(m)
            BY <1>0, <2>1, <3>2, <3>4, PageKept
        <3> QED
            BY <3>3, <3>4
    <2> QED
        BY <2>2, <2>3
<1> QED
    BY <1>1, <1>5, <1>7, <1>8, <1>9 DEF DshInv

\* The publications: of a reading, or of the users.
LEMMA Published ==
    ASSUME DshInv, NEW w \in DshWorkers, NEW new \in DshWork, NEW r \in Reading,
           work[w].pc # "rest", new.pc \in {"rest", "users"},
           new.pc = "rest" \/ new.node = work[w].node,
           work[w].pc = "publish" => r = work[w].reading,
           work[w].pc # "publish" => r = 0,
           work' = [work EXCEPT ![w] = new],
           hubPublish([node |-> work[w].node, reading |-> r]),
           UNCHANGED <<nd, hung, taken, stored, round, dshEdits>>,
           lseen' \in [DshNodes -> BOOLEAN]
    PROVE  DshInv'
<1>0. DshTyped /\ OneWorkerEach /\ Newest
    BY DEF DshInv
<1> DEFINE n == work[w].node
           e == [node |-> n, reading |-> r]
<1>1. n \in DshNodes /\ e \in DshEvent /\ e.node = n /\ e.reading = r
    BY <1>0 DEF OneWorkerEach, DshEvent
<1>2. hubPublish(e)
    OBVIOUS
<1> HIDE DEF e
<1>3. /\ work' \in [DshWorkers -> DshWork] /\ work'[w] = new
      /\ \A v \in DshWorkers : v # w => work'[v] = work[v]
      /\ OneWorkerEach'
    BY <1>0, WorkerGoesOn
<1>4. /\ page' \in [DshPages -> DshPage]
      /\ \A p \in DshPages : Len(page'[p].queue) <= DshBuffer
      /\ \A p \in DshPages :
            \/ page'[p].st = "dropped"
            \/ page'[p].st = page[p].st /\ page'[p].told = page[p].told
    BY <1>0, <1>1, <1>2, HubPublishes
<1>5. DshTyped'
    BY <1>0, <1>3, <1>4 DEF DshTyped
<1>6. Newest'
    BY <1>0, <1>3 DEF Newest
<1>7. \A p \in DshPages : page'[p].st = "joined" => ~page'[p].told
    BY <1>4 DEF DshInv
<1>8. ASSUME NEW p \in DshPages, NEW m \in DshNodes PROVE PageInv(p, m)'
    <2>1. PageInv(p, m) /\ stored' = stored
        BY DEF DshInv
    <2>2. CASE ReadingOf(e, m)
        <3>1. m = n /\ r # 0 /\ work[w].pc = "publish"
            BY <1>1, <2>2 DEF ReadingOf
        <3>2. e.reading = taken[m] /\ stored[m] <= taken[m] /\ stored[m] \in Nat
              /\ taken[m] \in Nat
            BY <1>0, <1>1, <3>1, DshAssumption DEF Newest, DshTyped, Reading
        <3>3. e.reading >= stored[m]
            BY <3>2
        <3> QED
            BY <1>0, <1>1, <1>2, <1>5, <2>1, <2>2, <3>3, PageTold
    <2>3. CASE ~ReadingOf(e, m)
        <3>1. Publishing(m) => Publishing(m)'
            <4>1. SUFFICES ASSUME NEW v \in DshWorkers, work[v].node = m,
                                  work[v].pc = "publish"
                           PROVE  Publishing(m)'
                BY DEF Publishing
            <4>2. v # w
                BY <1>0, <1>1, <2>3, <4>1 DEF Newest, ReadingOf
            <4> QED
                BY <1>3, <4>1, <4>2 DEF Publishing
        <3>2. Publishing(m)' \/ ~Publishing(m)
            BY <3>1
        <3> QED
            BY <1>0, <1>1, <1>2, <1>5, <2>1, <2>3, <3>2, PageTold
    <2> QED
        BY <2>2, <2>3
<1> QED
    BY <1>3, <1>5, <1>6, <1>7, <1>8 DEF DshInv

LEMMA PublishSteps ==
    ASSUME DshInv, NEW w \in DshWorkers, PublishMetrics(w) \/ CollectUsers(w)
    PROVE  DshInv'
<1>0. DshTyped
    BY DEF DshInv
<1>1. work[w] \in DshWork /\ work[w].reading \in Reading /\ 0 \in Reading
    BY <1>0, DshAssumption DEF DshTyped, DshWork, Reading
<1>2. ASSUME updateAgentLastSeen(w) \/ UNCHANGED lseen
      PROVE  lseen' \in [DshNodes -> BOOLEAN]
    BY <1>0, <1>2 DEF updateAgentLastSeen, DshTyped
<1>3. CASE PublishMetrics(w)
    <2> DEFINE new == [work[w] EXCEPT !.pc = "users"]
    <2>1. work' = [work EXCEPT ![w] = new]
        BY <1>0, <1>3 DEF PublishMetrics, DshTyped
    <2>2. new \in DshWork /\ new.pc = "users" /\ new.node = work[w].node
        BY <1>1 DEF DshWork
    <2> HIDE DEF new
    <2>3. /\ work[w].pc = "publish"
          /\ hubPublish([node |-> work[w].node, reading |-> work[w].reading])
          /\ UNCHANGED <<nd, hung, taken, stored, round, dshEdits>>
          /\ lseen' \in [DshNodes -> BOOLEAN]
        BY <1>2, <1>3 DEF PublishMetrics
    <2> QED
        BY <1>1, <2>1, <2>2, <2>3, Published
<1>4. CASE CollectUsers(w)
    <2>1. Resting \in DshWork /\ Resting.pc = "rest"
        <3> DEFINE some == CHOOSE n \in DshNodes : TRUE
                   no == FALSE
        <3>1. no \in BOOLEAN
            OBVIOUS
        <3>2. Resting = [pc |-> "rest", node |-> some, agent |-> no, from |-> "none",
                         reading |-> 0]
            BY DEF Resting
        <3> HIDE DEF some, no
        <3>3. Resting.node = some
            BY <3>2
        <3> QED
            BY <1>1, <3>1, <3>2, <3>3 DEF DshWork, Sources
    <2>2. /\ work[w].pc = "users" /\ work' = [work EXCEPT ![w] = Resting]
          /\ hubPublish([node |-> work[w].node, reading |-> 0])
          /\ UNCHANGED <<nd, hung, taken, stored, round, dshEdits>>
          /\ lseen' \in [DshNodes -> BOOLEAN]
        BY <1>2, <1>4 DEF CollectUsers, UsersTold
    <2> QED
        BY <1>1, <2>1, <2>2, Published
<1> QED
    BY <1>3, <1>4

\* What a page does of its own.
LEMMA PageStep ==
    ASSUME DshInv, NEW p \in DshPages, NEW new \in DshPage, page' = [page EXCEPT ![p] = new],
           Len(new.queue) <= DshBuffer,
           new.st = "joined" => ~new.told,
           UNCHANGED <<nd, hung, taken, stored, lseen, round, work>>, dshEdits' \in 0..DshEdits,
           \A n \in DshNodes : new.st \in {"joined", "open"} /\ ~Publishing(n) =>
              /\ LastReading(new.queue, n, stored[n])
              /\ new.told /\ n \in new.allowed /\ NoReading(new.queue, n)
                    => new.shown[n] >= stored[n]
    PROVE  DshInv'
<1>0. DshTyped /\ OneWorkerEach /\ Newest
    BY DEF DshInv
<1>1. /\ page' \in [DshPages -> DshPage] /\ page'[p] = new
      /\ \A q \in DshPages : q # p => page'[q] = page[q]
    BY <1>0 DEF DshTyped
<1>2. DshTyped'
    BY <1>0, <1>1 DEF DshTyped
<1>3. OneWorkerEach' /\ Newest' /\ \A n \in DshNodes : Publishing(n)' = Publishing(n)
    BY <1>0 DEF OneWorkerEach, Newest, Publishing
<1>4. \A q \in DshPages : page'[q].st = "joined" => ~page'[q].told
    BY <1>1 DEF DshInv
<1>5. ASSUME NEW q \in DshPages, NEW n \in DshNodes PROVE PageInv(q, n)'
    <2>1. CASE q = p
        BY <1>1, <1>3, <2>1 DEF PageInv, Subscribed
    <2>2. CASE q # p
        <3>1. PageInv(q, n) /\ stored'[n] \in Reading /\ stored'[n] <= stored[n]
            BY <1>0, DshAssumption DEF DshInv, DshTyped, Reading
        <3>2. CASE Publishing(n)'
            BY <1>0, <1>1, <2>2, <3>1, <3>2, PageKept
        <3>3. CASE ~Publishing(n)'
            BY <1>0, <1>1, <1>3, <2>2, <3>1, <3>3, PageKept
        <3> QED
            BY <3>2, <3>3
    <2> QED
        BY <2>1, <2>2
<1> QED
    BY <1>2, <1>3, <1>4, <1>5 DEF DshInv

\* An empty channel: of a page that is not connected, or has just subscribed.
LEMMA EmptyChannel ==
    ASSUME NEW S \in SUBSET DshNodes
    PROVE  LET new == [NoPage EXCEPT !.st = "joined", !.allowed = S]
           IN  /\ new \in DshPage /\ Len(new.queue) = 0 /\ new.st = "joined" /\ ~new.told
               /\ NoPage \in DshPage /\ NoPage.st = "off" /\ Len(NoPage.queue) = 0
               /\ \A n \in DshNodes, v \in Reading : LastReading(new.queue, n, v)
<1> DEFINE zero == [n \in DshNodes |-> 0]
           no == FALSE
           none == <<>>
           nobody == {}
           new == [NoPage EXCEPT !.st = "joined", !.allowed = S]
<1>1. zero \in [DshNodes -> Reading] /\ no \in BOOLEAN /\ ~no /\ nobody \in SUBSET DshNodes
    BY DshAssumption DEF Reading
<1>2. none \in Seq(DshEvent) /\ Len(none) = 0
    OBVIOUS
<1>3. NoPage = [st |-> "off", allowed |-> nobody, queue |-> none, told |-> no, shown |-> zero]
    BY DEF NoPage
<1>n. new = [NoPage EXCEPT !.st = "joined", !.allowed = S]
    OBVIOUS
<1> HIDE DEF zero, no, none, nobody, new
<1>4. new = [st |-> "joined", allowed |-> S, queue |-> none, told |-> no, shown |-> zero]
    BY <1>3, <1>n
<1>5. NoPage \in DshPage /\ NoPage.st = "off" /\ NoPage.queue = none
    BY <1>1, <1>2, <1>3 DEF DshPage
<1>6. new \in DshPage /\ new.st = "joined" /\ new.queue = none /\ new.told = no
    BY <1>1, <1>2, <1>4 DEF DshPage
<1>7. \A n \in DshNodes, v \in Reading : LastReading(new.queue, n, v)
    BY <1>2, <1>6 DEF LastReading
<1>8. Len(new.queue) = 0 /\ ~new.told /\ Len(NoPage.queue) = 0
    BY <1>1, <1>2, <1>5, <1>6
<1> QED
    BY <1>5, <1>6, <1>7, <1>8 DEF new

LEMMA JoinSteps ==
    ASSUME DshInv, NEW p \in DshPages, Join(p) \/ StreamEnds(p)
    PROVE  DshInv'
<1>0. DshTyped /\ DshBuffer \in Nat /\ DshEdits \in Nat
    BY DshAssumption DEF DshInv
<1>1. CASE Join(p)
    <2> DEFINE S == {n \in DshNodes : nd[n].live}
               new == [NoPage EXCEPT !.st = "joined", !.allowed = S]
    <2>1. page' = [page EXCEPT ![p] = new] /\ dshEdits' \in 0..DshEdits
          /\ UNCHANGED <<nd, hung, taken, stored, lseen, round, work>>
        BY <1>0, <1>1 DEF Join, DshTyped
    <2>2. S \in SUBSET DshNodes
        OBVIOUS
    <2> HIDE DEF S
    <2>3. /\ new \in DshPage /\ Len(new.queue) = 0 /\ new.st = "joined" /\ ~new.told
          /\ \A n \in DshNodes, v \in Reading : LastReading(new.queue, n, v)
        BY <2>2, EmptyChannel
    <2> HIDE DEF new
    <2>4. \A n \in DshNodes : stored[n] \in Reading
        BY <1>0 DEF DshTyped
    <2>5. Len(new.queue) <= DshBuffer
        BY <1>0, <2>3
    <2> QED
        BY <2>1, <2>3, <2>4, <2>5, PageStep
<1>2. CASE StreamEnds(p)
    <2>1. page' = [page EXCEPT ![p] = NoPage] /\ dshEdits' \in 0..DshEdits
          /\ UNCHANGED <<nd, hung, taken, stored, lseen, round, work>>
        BY <1>0, <1>2 DEF StreamEnds, DshTyped
    <2>2. NoPage \in DshPage /\ NoPage.st = "off" /\ Len(NoPage.queue) = 0
        BY EmptyChannel
    <2>3. Len(NoPage.queue) <= DshBuffer
        BY <1>0, <2>2
    <2> QED
        BY <2>1, <2>2, <2>3, PageStep
<1> QED
    BY <1>1, <1>2

LEMMA LoadSnapshotStep ==
    ASSUME DshInv, NEW p \in DshPages, LoadSnapshot(p)
    PROVE  DshInv'
<1>0. DshTyped
    BY DEF DshInv
<1>1. page[p] \in DshPage /\ page[p].st = "joined" /\ page[p].told \in BOOLEAN /\ ~page[p].told
      /\ Len(page[p].queue) <= DshBuffer
    BY <1>0 DEF LoadSnapshot, DshTyped, DshPage, DshInv
<1>2. dshEdits' \in 0..DshEdits /\ UNCHANGED <<nd, hung, taken, stored, lseen, round, work>>
    BY <1>0 DEF LoadSnapshot, DshTyped
<1>3. \A n \in DshNodes : /\ stored[n] \in Nat /\ stored[n] \in Reading
                          /\ ~Publishing(n) => LastReading(page[p].queue, n, stored[n])
    BY <1>0, <1>1, DshAssumption DEF DshTyped, Reading, DshInv, PageInv, Subscribed
<1>4. CASE page' = [page EXCEPT ![p].st = "open", ![p].told = TRUE,
                                ![p].shown = filterDashboardSnapshot(p)]
    <2> DEFINE shown == filterDashboardSnapshot(p)
               yes == TRUE
               new == [page[p] EXCEPT !.st = "open", !.told = yes, !.shown = shown]
    <2>1. page' = [page EXCEPT ![p] = new]
        BY <1>0, <1>4 DEF DshTyped
    <2>2. shown \in [DshNodes -> Reading]
          /\ \A n \in page[p].allowed : n \in DshNodes => shown[n] = stored[n]
        BY <1>3, DshAssumption DEF filterDashboardSnapshot, Reading
    <2>3. yes \in BOOLEAN
        OBVIOUS
    <2> HIDE DEF shown, yes
    <2>4. /\ new \in DshPage /\ new.st = "open" /\ new.queue = page[p].queue
          /\ new.shown = shown /\ new.allowed = page[p].allowed
        BY <1>1, <2>2, <2>3 DEF DshPage
    <2> HIDE DEF new
    <2>5. \A n \in DshNodes : n \in new.allowed => new.shown[n] >= stored[n]
        BY <1>3, <2>2, <2>4
    <2> QED
        BY <1>1, <1>2, <1>3, <2>1, <2>4, <2>5, PageStep
<1>5. CASE page' = [page EXCEPT ![p].st = "open"]
    <2> DEFINE new == [page[p] EXCEPT !.st = "open"]
    <2>1. page' = [page EXCEPT ![p] = new]
        BY <1>0, <1>5 DEF DshTyped
    <2>2. /\ new \in DshPage /\ new.st = "open" /\ new.queue = page[p].queue
          /\ new.told = page[p].told
        BY <1>1 DEF DshPage
    <2> HIDE DEF new
    <2> QED
        BY <1>1, <1>2, <1>3, <2>1, <2>2, PageStep
<1> QED
    BY <1>4, <1>5 DEF LoadSnapshot

LEMMA WriteEventStep ==
    ASSUME DshInv, NEW p \in DshPages, WriteEvent(p)
    PROVE  DshInv'
<1>0. DshTyped
    BY DEF DshInv
<1> DEFINE queue == page[p].queue
           event == Head(queue)
           shown == IF dashboardEventAllowed(p, event) /\ event.reading # 0
                    THEN [page[p].shown EXCEPT ![event.node] = event.reading]
                    ELSE page[p].shown
           rest == Tail(queue)
           new == [page[p] EXCEPT !.queue = rest, !.shown = shown]
<1>1. /\ page[p] \in DshPage /\ page[p].st \in {"open", "dropped"} /\ queue # <<>>
      /\ queue \in Seq(DshEvent) /\ page[p].shown \in [DshNodes -> Reading]
      /\ Len(queue) <= DshBuffer
    BY <1>0 DEF WriteEvent, DshTyped, DshPage
<1>2. /\ Len(queue) \in Nat /\ event \in DshEvent /\ rest \in Seq(DshEvent)
      /\ Len(rest) = Len(queue) - 1
    <2>1. Len(queue) \in Nat /\ Len(queue) # 0
        BY <1>1, EmptySeq, LenProperties
    <2>2. rest \in Seq(DshEvent) /\ event \in DshEvent
        BY <1>1, HeadTailProperties
    <2>3. Len(rest) = Len(queue) - 1
        BY <1>1, <2>1, HeadTailProperties
    <2> QED
        BY <2>1, <2>2, <2>3
<1>3. page' = [page EXCEPT ![p] = new] /\ dshEdits' \in 0..DshEdits
      /\ UNCHANGED <<nd, hung, taken, stored, lseen, round, work>>
    BY <1>0 DEF WriteEvent, DshTyped
<1>4. /\ shown \in [DshNodes -> Reading]
      /\ \A n \in DshNodes : n \in page[p].allowed =>
            shown[n] = IF ReadingOf(event, n) THEN event.reading ELSE page[p].shown[n]
    BY <1>1, <1>2 DEF dashboardEventAllowed, ReadingOf, DshEvent
<1>5. \A n \in DshNodes : /\ stored[n] \in Reading
                          /\ page[p].st = "open" /\ ~Publishing(n) =>
                                /\ LastReading(queue, n, stored[n])
                                /\ page[p].told /\ n \in page[p].allowed /\ NoReading(queue, n)
                                      => page[p].shown[n] >= stored[n]
    BY <1>0 DEF DshTyped, DshInv, PageInv, Subscribed
<1>6. ASSUME NEW n \in DshNodes, LastReading(queue, n, stored[n])
      PROVE  /\ LastReading(rest, n, stored[n])
             /\ NoReading(rest, n) => IF ReadingOf(event, n) THEN event.reading >= stored[n]
                                      ELSE NoReading(queue, n)
    BY <1>1, <1>5, <1>6, TailEvent
<1> HIDE DEF shown, rest, event
<1>7. /\ new \in DshPage /\ new.st = page[p].st /\ new.queue = rest /\ new.told = page[p].told
      /\ new.allowed = page[p].allowed /\ new.shown = shown
    BY <1>1, <1>2, <1>4 DEF DshPage
<1> HIDE DEF new
<1>8. ASSUME NEW n \in DshNodes, new.st \in {"joined", "open"}, ~Publishing(n)
      PROVE  /\ LastReading(new.queue, n, stored[n])
             /\ new.told /\ n \in new.allowed /\ NoReading(new.queue, n)
                   => new.shown[n] >= stored[n]
    <2>1. page[p].st = "open" /\ LastReading(queue, n, stored[n])
        BY <1>1, <1>5, <1>7, <1>8
    <2> QED
        BY <1>4, <1>5, <1>6, <1>7, <1>8, <2>1
<1>9. Len(new.queue) <= DshBuffer
    BY <1>1, <1>2, <1>7, DshAssumption
<1> QED
    BY <1>1, <1>3, <1>7, <1>8, <1>9, PageStep

LEMMA DshEditNodeStep ==
    ASSUME DshInv, NEW n \in DshNodes, NEW r \in DshNode, DshEditNode(n, r)
    PROVE  DshInv'
<1>0. DshTyped /\ OneWorkerEach /\ Newest /\ DshEdits \in Nat
    BY DshAssumption DEF DshInv
<1>1. /\ nd' \in [DshNodes -> DshNode] /\ lseen' \in [DshNodes -> BOOLEAN]
      /\ dshEdits' \in 0..DshEdits
      /\ UNCHANGED <<hung, taken, round, work, page>>
    BY <1>0 DEF DshEditNode, DshTyped
<1>2. \A m \in DshNodes : stored[m] \in Nat /\ taken[m] \in Nat /\ 0 \in Reading
    BY <1>0, DshAssumption DEF DshTyped, Reading
<1>3. /\ stored' \in [DshNodes -> Reading]
      /\ \A m \in DshNodes : stored'[m] = stored[m] \/ stored'[m] = 0
    BY <1>0, <1>2 DEF DshEditNode, DshTyped
<1>4. \A m \in DshNodes : stored'[m] <= stored[m] /\ stored'[m] \in Reading
    BY <1>2, <1>3
<1>5. DshTyped'
    BY <1>0, <1>1, <1>3 DEF DshTyped
<1>6. OneWorkerEach' /\ Newest' /\ \A m \in DshNodes : Publishing(m)' = Publishing(m)
    BY <1>0, <1>1, <1>2, <1>3 DEF OneWorkerEach, Newest, Publishing
<1>7. ASSUME NEW p \in DshPages, NEW m \in DshNodes PROVE PageInv(p, m)'
    <2>1. PageInv(p, m) /\ page'[p] = page[p]
        BY <1>1 DEF DshInv
    <2>2. CASE Publishing(m)'
        BY <1>0, <1>4, <2>1, <2>2, PageKept
    <2>3. CASE ~Publishing(m)'
        BY <1>0, <1>4, <1>6, <2>1, <2>3, PageKept
    <2> QED
        BY <2>2, <2>3
<1> QED
    BY <1>1, <1>5, <1>6, <1>7 DEF DshInv

LEMMA SshHangsStep ==
    ASSUME DshInv, NEW n \in DshNodes, SshHangs(n)
    PROVE  DshInv'
<1>1. UNCHANGED <<nd, taken, stored, lseen, round, work, page>> /\ hung' \in SUBSET DshNodes
    BY DEF SshHangs, DshInv, DshTyped
<1>2. dshEdits' \in 0..DshEdits
    BY DshAssumption DEF SshHangs, DshInv, DshTyped
<1>3. DshTyped' /\ OneWorkerEach' /\ Newest'
    BY <1>1, <1>2 DEF DshInv, DshTyped, OneWorkerEach, Newest
<1> QED
    BY <1>1, <1>3 DEF DshInv, PageInv, Publishing, Subscribed

LEMMA DshStarts == DshInit => DshInv
<1> SUFFICES ASSUME DshInit PROVE DshInv
    OBVIOUS
<1> USE DshAssumption
<1>1. Resting \in DshWork /\ Resting.pc = "rest"
    <2> DEFINE some == CHOOSE n \in DshNodes : TRUE
               no == FALSE
    <2>1. no \in BOOLEAN /\ 0 \in Reading
        BY DEF Reading
    <2>2. Resting = [pc |-> "rest", node |-> some, agent |-> no, from |-> "none",
                     reading |-> 0]
        BY DEF Resting
    <2> HIDE DEF some, no
    <2>3. Resting.node = some
        BY <2>2
    <2> QED
        BY <2>1, <2>2, <2>3 DEF DshWork, Sources
<1>2. NoPage \in DshPage /\ NoPage.st = "off" /\ Len(NoPage.queue) = 0
    BY EmptyChannel
<1>3. /\ \A w \in DshWorkers : work[w] = Resting
      /\ \A p \in DshPages : page[p] = NoPage
      /\ round.on = FALSE /\ round.left = {}
      /\ \A n \in DshNodes : stored[n] = 0 /\ taken[n] = 0
    BY DEF DshInit
<1>4. DshTyped
    <2>1. work \in [DshWorkers -> DshWork] /\ page \in [DshPages -> DshPage]
        BY <1>1, <1>2 DEF DshInit
    <2>2. nd \in [DshNodes -> DshNode] /\ hung \in SUBSET DshNodes
        BY DEF DshInit, DshNode
    <2>3. round \in [on : BOOLEAN, left : SUBSET [node : DshNodes, agent : BOOLEAN]]
        BY DEF DshInit
    <2>4. \A p \in DshPages : Len(page[p].queue) <= DshBuffer
        BY <1>2, <1>3
    <2>5. /\ taken \in [DshNodes -> Reading] /\ stored \in [DshNodes -> Reading]
          /\ lseen \in [DshNodes -> BOOLEAN] /\ dshEdits \in 0..DshEdits
        BY DEF DshInit, Reading
    <2> QED
        BY <2>1, <2>2, <2>3, <2>4, <2>5 DEF DshTyped
<1>5. OneWorkerEach
    BY <1>1, <1>3 DEF OneWorkerEach
<1>6. Newest
    BY <1>1, <1>3 DEF Newest
<1> QED
    BY <1>2, <1>3, <1>4, <1>5, <1>6 DEF DshInv, PageInv, Subscribed

LEMMA DshStep == DshInv /\ [DshNext]_dshVars => DshInv'
<1> SUFFICES ASSUME DshInv, [DshNext]_dshVars PROVE DshInv'
    OBVIOUS
<1>1. CASE DshCollector
    BY <1>1, RoundSteps DEF DshCollector
<1>2. ASSUME NEW w \in DshWorkers, DshWorker(w) PROVE DshInv'
    BY <1>2, HandOutStep, CollectSteps, upsertMetricsStep, PublishSteps DEF DshWorker
<1>3. ASSUME NEW p \in DshPages, Join(p) \/ LoadSnapshot(p) \/ WriteEvent(p) \/ StreamEnds(p)
      PROVE  DshInv'
    BY <1>3, JoinSteps, LoadSnapshotStep, WriteEventStep
<1>4. ASSUME NEW n \in DshNodes, NEW row \in DshNode, DshEditNode(n, row) PROVE DshInv'
    BY <1>4, DshEditNodeStep
<1>5. CASE UNCHANGED dshVars
    BY <1>5 DEF dshVars, DshInv, DshTyped, OneWorkerEach, Newest, PageInv, Publishing, Subscribed
<1>6. ASSUME NEW n \in DshNodes, SshHangs(n) PROVE DshInv'
    BY <1>6, SshHangsStep
<1> QED
    BY <1>1, <1>2, <1>3, <1>4, <1>5, <1>6 DEF DshNext

LEMMA DshInvHolds == DshSpec => []DshInv
BY DshStarts, DshStep, PTL DEF DshSpec

LEMMA DshTypeHolds ==
    ASSUME DshNodes # {}
    PROVE  DshInv => DshTypeOK
<1> SUFFICES ASSUME DshInv PROVE DshTypeOK
    OBVIOUS
<1>1. Resting.node \in DshNodes
    <2>1. (CHOOSE n \in DshNodes : TRUE) \in DshNodes
        OBVIOUS
    <2> QED
        BY <2>1 DEF Resting
<1>2. work \in [DshWorkers -> [pc : {"rest", "metrics", "ssh", "store", "publish", "users"},
                               node : DshNodes, agent : BOOLEAN, from : Sources,
                               reading : Reading]]
    <2>1. DshNodes \cup {Resting.node} = DshNodes
        BY <1>1
    <2> QED
        BY <2>1 DEF DshInv, DshTyped, DshWork
<1>3. ASSUME NEW p \in DshPages
      PROVE  /\ page[p].st \in {"off", "joined", "open", "dropped"}
             /\ page[p].allowed \subseteq DshNodes /\ page[p].told \in BOOLEAN
             /\ page[p].shown \in [DshNodes -> Reading]
    <2>1. page[p] \in DshPage
        BY DEF DshInv, DshTyped
    <2> QED
        BY <2>1 DEF DshPage
<1> QED
    BY <1>2, <1>3 DEF DshInv, DshTyped, DshTypeOK

\* Every operation of the dashboard: with at least one node (a worker at rest is given
\* one), every variable has its type, and no page's channel holds more than it can.
THEOREM DashboardTyped ==
    ASSUME DshNodes # {}
    PROVE  DshSpec => []DshTypeOK
BY DshTypeHolds, DshInvHolds, PTL

LEMMA DshCurrent == DshInv => DshPageCurrent
<1> SUFFICES ASSUME DshInv, NEW p \in DshPages, page[p].st = "open", page[p].told,
                    page[p].queue = <<>>, NEW n \in page[p].allowed, ~Publishing(n)
             PROVE  page[p].shown[n] >= stored[n]
    BY DEF DshPageCurrent, Publishing
<1>1. n \in DshNodes
    BY DEF DshInv, DshTyped, DshPage
<1>2. NoReading(page[p].queue, n)
    BY DEF NoReading
<1> QED
    BY <1>1, <1>2 DEF DshInv, PageInv, Subscribed

\* LoadSnapshot, upsertMetrics, Publish: for any number of nodes, workers and pages and
\* any size of the channels, a page that has taken everything queued for it shows of
\* each node a reading no older than the stored one, unless it is being published.
THEOREM PagesCurrent == DshSpec => []DshPageCurrent
BY DshCurrent, DshInvHolds, PTL

------------------------------------------------------------------------------
(* Checks: the inductive invariant *)

ChkWk == [pc : {"start", "idle", "maps", "run", "probe"}, rows : [Ids -> Check],
          todo : SUBSET Ids, cur : Ids \cup {0}, agent : 0..2,
          blind : BOOLEAN]
ChkMan == [pc : {"idle", "create", "probe"}, target : Things, id : Ids \cup {0},
           type : Types, agent : 0..2]
ChkEd == [pc : {"idle", "saveTarget", "saveCheck", "deleteCheck"},
          id : Ids \cup {0}, row : Check, target : Things, thing : Thing]
ChkConn == [pc : {"idle", "probe"}, agent : 0..2,
            raw : {"none", "ok", "fail"}, told : {"none", "ok", "fail"}]

ChkTyped ==
    /\ host \in Host
    /\ target \in [Things -> Thing]
    /\ chk \in [Ids -> Check]
    /\ age \in [Ids -> 0..Due] /\ wage \in [Ids -> 0..Due]
    /\ wk \in ChkWk
    /\ man \in ChkMan
    /\ ed \in ChkEd
    /\ conn \in ChkConn
    /\ withheld \in SUBSET Ids
    /\ unwatched \in SUBSET Things
    /\ chkEdits \in 0..ChkEdits

\* A row and a request that is going to save one have a kind of their table.
KindInv ==
    /\ \A t \in Things : target[t].kind \in Kinds(t)
    /\ ed.pc = "saveTarget" => ed.thing.kind \in Kinds(ed.target)

\* A request that has read a check holds the id of a row that was made; the row it is
\* going to save belongs to the target that the stored one belongs to.
EditInv ==
    /\ ed.pc \in {"saveCheck", "deleteCheck"} => ed.id \in Ids /\ chk[ed.id].st # "none"
    /\ ed.pc = "saveCheck" => ed.row.st = "live" /\ ed.row.target = chk[ed.id].target

\* What is left of a tick that knew the results was due when the tick looked, and
\* nobody but the worker makes it younger in the worker's own record.
TickInv ==
    /\ \A c \in Ids : age[c] <= wage[c]
    /\ wk.pc \in {"run", "probe"} /\ ~wk.blind => \A c \in wk.todo : wage[c] = Due
    /\ wk.pc = "probe" => /\ wk.cur \in Ids /\ wk.cur \notin wk.todo
                          /\ wk.blind \/ wage[wk.cur] = Due

ChkInv ==
    /\ ChkTyped
    /\ KindInv
    /\ EditInv
    /\ man.pc = "probe" => man.id \in Ids
    /\ TickInv
    /\ ChkServiceWatched

------------------------------------------------------------------------------
(* Checks: rows *)

LEMMA CheckRows ==
    /\ NoCheck \in Check
    /\ \A t \in Things \cup {"node"}, type \in Types :
          /\ NewCheck(t, type) \in Check
          /\ NewCheck(t, type).st = "live" /\ NewCheck(t, type).target = t
    /\ \A row \in Check :
          /\ [row EXCEPT !.st = "gone"] \in Check
          /\ [row EXCEPT !.st = "gone"].st = "gone"
          /\ [row EXCEPT !.st = "gone"].target = row.target
          /\ \A type \in Types :
                /\ [row EXCEPT !.type = type] \in Check
                /\ [row EXCEPT !.type = type].st = row.st
                /\ [row EXCEPT !.type = type].target = row.target
<1> DEFINE yes == TRUE
<1>1. yes \in BOOLEAN
    OBVIOUS
<1>2. /\ NoCheck = [st |-> "none", target |-> "service", type |-> "http", enabled |-> yes]
      /\ \A t, type : NewCheck(t, type) =
            [st |-> "live", target |-> t, type |-> type, enabled |-> yes]
    BY DEF NoCheck, NewCheck
<1> HIDE DEF yes
<1>3. NoCheck \in Check
    BY <1>1, <1>2 DEF Check, Things, Types
<1>4. ASSUME NEW t \in Things \cup {"node"}, NEW type \in Types
      PROVE  /\ NewCheck(t, type) \in Check
             /\ NewCheck(t, type).st = "live" /\ NewCheck(t, type).target = t
    BY <1>1, <1>2 DEF Check
<1>5. ASSUME NEW row \in Check
      PROVE  /\ [row EXCEPT !.st = "gone"] \in Check
             /\ [row EXCEPT !.st = "gone"].st = "gone"
             /\ [row EXCEPT !.st = "gone"].target = row.target
             /\ \A type \in Types :
                   /\ [row EXCEPT !.type = type] \in Check
                   /\ [row EXCEPT !.type = type].st = row.st
                   /\ [row EXCEPT !.type = type].target = row.target
    BY DEF Check
<1> QED
    BY <1>3, <1>4, <1>5

LEMMA CheckTypes ==
    ASSUME NEW t \in Things, NEW kind \in Kinds(t)
    PROVE  DefaultType(t, kind) \in Types
BY DEF Things, Kinds, DefaultType, ServiceCheckType, Types

LEMMA LeastId ==
    ASSUME NEW S \in SUBSET Ids, S # {}
    PROVE  \E c \in S : \A d \in S : c <= d
<1> DEFINE R == {ss \in Nat \X Nat : ss[1] < ss[2]}
<1>1. IsWellFoundedOn(R, Nat)
    BY NatLessThanWellFounded DEF OpToRel
<1>2. S \in SUBSET Nat
    BY ChkAssumption DEF Ids
<1>3. PICK c \in S : \A d \in S : ~(<<d, c>> \in R)
    BY <1>1, <1>2, WFMin
<1>4. \A d \in S : c \in Nat /\ d \in Nat /\ ~(d < c)
    BY <1>2, <1>3
<1> QED
    BY <1>4

LEMMA GreatestId ==
    ASSUME NEW S \in SUBSET Ids, S # {}
    PROVE  \E c \in S : \A d \in S : d <= c
<1> DEFINE m(c) == (ChkIds + 1) - c
           T == {m(c) : c \in S}
<1>1. \A c \in S : c \in Int /\ m(c) \in Ids
    BY ChkAssumption DEF Ids
<1>2. T \in SUBSET Ids /\ T # {}
    BY <1>1
<1>3. PICK x \in T : \A y \in T : x <= y
    BY <1>2, LeastId
<1>4. PICK c \in S : x = m(c)
    OBVIOUS
<1>5. \A d \in S : m(c) <= m(d)
    BY <1>3, <1>4
<1>6. \A d \in S : d <= c
    BY <1>1, <1>5, ChkAssumption
<1> QED
    BY <1>6

LEMMA NextIdUnused ==
    ASSUME Unused # {}
    PROVE  NextId \in Ids /\ chk[NextId].st = "none"
<1>1. Unused \in SUBSET Ids
    BY DEF Unused
<1>2. \E c \in Unused : \A d \in Unused : c <= d
    BY <1>1, LeastId
<1>3. NextId \in Unused
    BY <1>2 DEF NextId
<1> QED
    BY <1>3 DEF Unused

\* A new row: no other changes.
LEMMA NewCheckRow ==
    ASSUME ChkTyped, Unused # {}, NEW t \in Things \cup {"node"}, NEW type \in Types,
           chk' = [chk EXCEPT ![NextId] = NewCheck(t, type)]
    PROVE  /\ chk' \in [Ids -> Check]
           /\ chk'[NextId].st = "live" /\ chk'[NextId].target = t /\ NextId \in Ids
           /\ \A c \in Ids : chk[c].st # "none" => chk'[c] = chk[c]
<1> DEFINE new == NewCheck(t, type)
<1>1. new \in Check /\ new.st = "live" /\ new.target = t
    BY CheckRows
<1>2. NextId \in Ids /\ chk[NextId].st = "none" /\ chk \in [Ids -> Check]
    BY NextIdUnused DEF ChkTyped
<1> HIDE DEF new
<1>3. chk' \in [Ids -> Check] /\ chk'[NextId] = new
      /\ \A c \in Ids : c # NextId => chk'[c] = chk[c]
    BY <1>1, <1>2 DEF new
<1> QED
    BY <1>1, <1>2, <1>3

\* What no step but a deletion does to rows: ids keep their targets, and checks of the
\* service stay.
RowsKept == \A c \in Ids : chk[c].st # "none" =>
                chk'[c].st # "none" /\ chk'[c].target = chk[c].target
ServiceKept == \A c \in Ids : chk[c].st = "live" /\ chk[c].target = "service" =>
                   chk'[c].st = "live" /\ chk'[c].target = "service"

\* WithDefault and WithSynced.
LEMMA Synced ==
    ASSUME ChkInv, NEW t \in Things, NEW kind \in Kinds(t),
           ChecksOf(t) = {} => Unused # {},
           \/ chk' = WithDefault(chk, t, kind)
           \/ chk' = WithSynced(t, kind)
    PROVE  /\ chk' \in [Ids -> Check] /\ RowsKept /\ ServiceKept
           /\ t = "service" => ChecksOf(t)' # {}
<1>0. ChkTyped /\ chk \in [Ids -> Check]
    BY DEF ChkInv, ChkTyped
<1> DEFINE type == DefaultType(t, kind)
<1>1. type \in Types
    BY CheckTypes
<1>2. CASE ChecksOf(t) = {} /\ chk' = [chk EXCEPT ![NextId] = NewCheck(t, type)]
    <2>1. /\ chk' \in [Ids -> Check]
          /\ chk'[NextId].st = "live" /\ chk'[NextId].target = t /\ NextId \in Ids
          /\ \A c \in Ids : chk[c].st # "none" => chk'[c] = chk[c]
        BY <1>0, <1>1, <1>2, NewCheckRow
    <2> QED
        BY <2>1 DEF RowsKept, ServiceKept, ChecksOf
<1>3. CASE ChecksOf(t) # {} /\ chk' = chk
    BY <1>0, <1>3 DEF RowsKept, ServiceKept, ChecksOf
<1>4. CASE /\ ChecksOf(t) # {} \/ t # "service"
           /\ chk' = [c \in Ids |-> IF c \in ChecksOf(t) THEN [chk[c] EXCEPT !.type = type]
                                    ELSE chk[c]]
    <2>1. \A c \in Ids : /\ [chk[c] EXCEPT !.type = type] \in Check
                         /\ [chk[c] EXCEPT !.type = type].st = chk[c].st
                         /\ [chk[c] EXCEPT !.type = type].target = chk[c].target
        BY <1>0, <1>1, CheckRows
    <2>2. \A c \in Ids : chk'[c] \in Check /\ chk'[c].st = chk[c].st
                         /\ chk'[c].target = chk[c].target
        BY <1>0, <1>4, <2>1
    <2>3. chk' \in [Ids -> Check]
        BY <1>4, <2>2
    <2> QED
        BY <1>4, <2>2, <2>3 DEF RowsKept, ServiceKept, ChecksOf
<1> QED
    BY <1>2, <1>3, <1>4 DEF WithDefault, WithSynced

\* Dropped.
LEMMA DroppedRows ==
    ASSUME ChkInv, NEW C \in SUBSET Ids, \A c \in C : chk[c].st = "live", chk' = Dropped(C)
    PROVE  /\ chk' \in [Ids -> Check] /\ RowsKept
           /\ \A c \in Ids : c \notin C => chk'[c] = chk[c]
<1>0. chk \in [Ids -> Check]
    BY DEF ChkInv, ChkTyped
<1>1. \A c \in Ids : /\ [chk[c] EXCEPT !.st = "gone"] \in Check
                     /\ [chk[c] EXCEPT !.st = "gone"].st = "gone"
                     /\ [chk[c] EXCEPT !.st = "gone"].target = chk[c].target
    BY <1>0, CheckRows
<1>2. \A c \in Ids : chk'[c] = IF c \in C THEN [chk[c] EXCEPT !.st = "gone"] ELSE chk[c]
    BY DEF Dropped
<1>3. chk' \in [Ids -> Check]
    BY <1>0, <1>1 DEF Dropped
<1> QED
    BY <1>1, <1>2, <1>3 DEF RowsKept

\* Forgets.
LEMMA ForgetsResults ==
    ASSUME ChkInv, NEW C \in SUBSET Ids, Forgets(C), wk' = wk
    PROVE  /\ age' \in [Ids -> 0..Due] /\ wage' \in [Ids -> 0..Due]
           /\ withheld' \in SUBSET Ids /\ TickInv'
<1>0. /\ age \in [Ids -> 0..Due] /\ wage \in [Ids -> 0..Due] /\ withheld \in SUBSET Ids
      /\ wk \in ChkWk /\ Due \in Nat /\ TickInv
    BY ChkAssumption DEF ChkInv, ChkTyped, Due
<1>1. \A c \in Ids : /\ age[c] \in Nat /\ wage[c] \in Nat
                     /\ age'[c] = IF c \in C THEN Due ELSE age[c]
                     /\ wage'[c] = IF c \in C THEN Due ELSE wage[c]
    BY <1>0 DEF Forgets
<1>2. /\ age' \in [Ids -> 0..Due] /\ wage' \in [Ids -> 0..Due] /\ withheld' \in SUBSET Ids
    BY <1>0 DEF Forgets
<1>3. \A c \in Ids : age'[c] <= wage'[c]
    BY <1>0, <1>1 DEF TickInv
<1>4. wk.todo \in SUBSET Ids
    BY <1>0 DEF ChkWk
<1>5. TickInv'
    BY <1>0, <1>1, <1>3, <1>4 DEF TickInv
<1> QED
    BY <1>2, <1>5

\* The counter of edits.
LEMMA EditCounted ==
    ASSUME ChkInv, Edits \/ chkEdits' = chkEdits
    PROVE  chkEdits' \in 0..ChkEdits
BY ChkAssumption DEF ChkInv, ChkTyped, Edits

LEMMA IdleEdit == NoEdit \in ChkEd /\ NoEdit.pc = "idle"
<1> DEFINE yes == TRUE
           thing == [live |-> yes, enabled |-> yes, kind |-> "web"]
<1>1. yes \in BOOLEAN
    OBVIOUS
<1>2. NoEdit = [pc |-> "idle", id |-> 0, row |-> NoCheck, target |-> "service", thing |-> thing]
    BY DEF NoEdit
<1> HIDE DEF yes
<1>3. thing \in Thing
    BY <1>1 DEF Thing
<1> HIDE DEF thing
<1> QED
    BY <1>2, <1>3, CheckRows DEF ChkEd, Things

LEMMA StillWatched ==
    ASSUME ServiceKept, ChkServiceWatched,
           target'["service"].live => target["service"].live,
           "service" \notin unwatched' => "service" \notin unwatched
    PROVE  ChkServiceWatched'
<1> SUFFICES ASSUME target'["service"].live, "service" \notin unwatched'
             PROVE  ChecksOf("service")' # {}
    BY DEF ChkServiceWatched
<1>1. PICK c \in Ids : chk[c].st = "live" /\ chk[c].target = "service"
    BY DEF ChkServiceWatched, ChecksOf
<1> QED
    BY <1>1 DEF ServiceKept, ChecksOf

\* Steps that change no target and make no request.
LEMMA RowsFrame ==
    ASSUME ChkInv, RowsKept, ServiceKept, target' = target, unwatched' = unwatched,
           ed' = ed \/ ed' = NoEdit
    PROVE  KindInv' /\ EditInv' /\ ChkServiceWatched' /\ ed' \in ChkEd
<1>0. ChkTyped /\ KindInv /\ EditInv /\ ChkServiceWatched
    BY DEF ChkInv
<1>1. ed' \in ChkEd /\ (ed' = ed \/ ed'.pc = "idle")
    BY <1>0, IdleEdit DEF ChkTyped
<1>2. KindInv'
    BY <1>0, <1>1 DEF KindInv
<1>3. EditInv'
    BY <1>0, <1>1 DEF EditInv, RowsKept
<1>4. ChkServiceWatched'
    BY <1>0, StillWatched
<1> QED
    BY <1>1, <1>2, <1>3, <1>4

LEMMA RowsSame ==
    ASSUME chk' = chk
    PROVE  RowsKept /\ ServiceKept
BY DEF RowsKept, ServiceKept

LEMMA TickSame ==
    ASSUME ChkInv, UNCHANGED <<age, wage, wk>>
    PROVE  TickInv' /\ age' \in [Ids -> 0..Due] /\ wage' \in [Ids -> 0..Due] /\ wk' \in ChkWk
BY DEF ChkInv, ChkTyped, TickInv

\* Built.
LEMMA BuiltRow ==
    ASSUME NEW t \in Things, NEW kind \in Kinds(t), NEW on \in BOOLEAN
    PROVE  Built(kind, on) \in Thing /\ Built(kind, on).kind = kind
<1>1. kind \in {"web", "ftp", "http", "docker"}
    BY DEF Kinds
<1> DEFINE yes == TRUE
<1>2. yes \in BOOLEAN
    OBVIOUS
<1>3. Built(kind, on) = [live |-> yes, enabled |-> on, kind |-> kind]
    BY DEF Built
<1> HIDE DEF yes
<1> QED
    BY <1>1, <1>2, <1>3 DEF Thing

LEMMA CreateTargetStep ==
    ASSUME ChkInv, NEW t \in Things, NEW kind \in Kinds(t), CreateTarget(t, kind)
    PROVE  ChkInv'
<1>0. ChkTyped /\ KindInv /\ EditInv /\ ChkServiceWatched
    BY DEF ChkInv
<1> DEFINE new == Built(kind, TRUE)
<1>1. /\ target' = [target EXCEPT ![t] = new]
      /\ chk' = WithDefault(chk, t, kind) /\ Unused # {}
      /\ UNCHANGED <<host, age, wage, wk, man, ed, conn, withheld, unwatched>>
    BY DEF CreateTarget
<1>2. new \in Thing /\ new.kind = kind
    BY BuiltRow
<1> HIDE DEF new
<1>3. /\ target' \in [Things -> Thing] /\ target'[t].kind = kind
      /\ \A u \in Things : u # t => target'[u] = target[u]
    BY <1>0, <1>1, <1>2 DEF ChkTyped
<1>4. /\ chk' \in [Ids -> Check] /\ RowsKept /\ ServiceKept
      /\ t = "service" => ChecksOf(t)' # {}
    BY <1>1, Synced
<1>5. chkEdits' \in 0..ChkEdits
    BY EditCounted DEF CreateTarget
<1>6. ChkTyped'
    BY <1>0, <1>1, <1>3, <1>4, <1>5 DEF ChkTyped
<1>7. KindInv' /\ EditInv'
    BY <1>0, <1>1, <1>3, <1>4 DEF KindInv, EditInv, RowsKept
<1>8. ChkServiceWatched'
    <2>1. CASE t = "service"
        BY <1>4, <2>1 DEF ChkServiceWatched
    <2>2. CASE t # "service"
        <3>1. target'["service"] = target["service"]
            BY <1>3, <2>2 DEF Things
        <3> QED
            BY <1>0, <1>1, <1>4, <3>1, StillWatched
    <2> QED
        BY <2>1, <2>2
<1>9. TickInv' /\ (man'.pc = "probe" => man'.id \in Ids)
    BY <1>1, TickSame DEF ChkInv
<1> QED
    BY <1>6, <1>7, <1>8, <1>9 DEF ChkInv

LEMMA UpdateTargetStep ==
    ASSUME ChkInv, NEW t \in Things, NEW kind \in Kinds(t), NEW on \in BOOLEAN,
           UpdateTarget(t, kind, on)
    PROVE  ChkInv'
<1>0. ChkTyped /\ KindInv /\ EditInv /\ ChkServiceWatched
    BY DEF ChkInv
<1> DEFINE new == Built(kind, on)
<1>1. /\ ed' = [NoEdit EXCEPT !.pc = "saveTarget", !.target = t, !.thing = new]
      /\ UNCHANGED <<host, target, chk, age, wage, wk, man, conn, withheld, unwatched>>
    BY DEF UpdateTarget
<1>2. new \in Thing /\ new.kind = kind
    BY BuiltRow
<1> HIDE DEF new
<1>3. ed' \in ChkEd /\ ed'.pc = "saveTarget" /\ ed'.target = t /\ ed'.thing = new
    BY <1>1, <1>2, IdleEdit DEF ChkEd
<1>5. chkEdits' \in 0..ChkEdits
    BY EditCounted DEF UpdateTarget
<1>6. ChkTyped'
    BY <1>0, <1>1, <1>3, <1>5 DEF ChkTyped
<1>7. KindInv' /\ EditInv'
    BY <1>0, <1>1, <1>2, <1>3 DEF KindInv, EditInv
<1>8. ChkServiceWatched'
    BY <1>0, <1>1, RowsSame, StillWatched
<1>9. TickInv' /\ (man'.pc = "probe" => man'.id \in Ids)
    BY <1>1, TickSame DEF ChkInv
<1> QED
    BY <1>6, <1>7, <1>8, <1>9 DEF ChkInv

LEMMA SaveTargetStep ==
    ASSUME ChkInv, SaveTarget
    PROVE  ChkInv'
<1>0. ChkTyped /\ KindInv /\ EditInv /\ ChkServiceWatched
    BY DEF ChkInv
<1>1. /\ ed.pc = "saveTarget" /\ ed' = NoEdit
      /\ UNCHANGED <<host, age, wage, wk, man, conn, withheld, unwatched, chkEdits>>
    BY DEF SaveTarget
<1>2. ed \in ChkEd /\ ed.target \in Things /\ ed.thing \in Thing
      /\ ed.thing.kind \in Kinds(ed.target)
    BY <1>0, <1>1 DEF ChkTyped, ChkEd, KindInv
<1>9. TickInv' /\ (man'.pc = "probe" => man'.id \in Ids)
    BY <1>1, TickSame DEF ChkInv
<1>3. CASE ~host.live
    <2>1. target' = target /\ chk' = chk
        BY <1>3 DEF SaveTarget
    <2>2. KindInv' /\ EditInv' /\ ChkServiceWatched' /\ ed' \in ChkEd
        BY <1>1, <2>1, RowsFrame, RowsSame
    <2>3. ChkTyped'
        BY <1>0, <1>1, <2>1, <2>2 DEF ChkTyped
    <2> QED
        BY <1>9, <2>2, <2>3 DEF ChkInv
<1>4. CASE host.live
    <2>0. PICK t \in Things : t = ed.target
        BY <1>2
    <2>k. PICK kind \in Kinds(t) : kind = ed.thing.kind
        BY <1>2, <2>0
    <2> DEFINE on == ed.thing.enabled \/ ~target[t].live
               new == [ed.thing EXCEPT !.enabled = on]
    <2>1. /\ target' = [target EXCEPT ![t] = new]
          /\ chk' = WithSynced(t, kind) /\ (ChecksOf(t) = {} => Unused # {})
        BY <1>4, <2>0, <2>k DEF SaveTarget, Saved
    <2>2. on \in BOOLEAN
        OBVIOUS
    <2> HIDE DEF on
    <2>3. new \in Thing /\ new.kind = ed.thing.kind
        BY <1>2, <2>2 DEF Thing
    <2> HIDE DEF new
    <2>4. /\ target' \in [Things -> Thing] /\ target'[t] = new
          /\ \A u \in Things : u # t => target'[u] = target[u]
        BY <1>0, <2>1, <2>3 DEF ChkTyped
    <2>5. /\ chk' \in [Ids -> Check] /\ RowsKept /\ ServiceKept
          /\ t = "service" => ChecksOf(t)' # {}
        BY <2>1, Synced
    <2>6. ChkTyped'
        BY <1>0, <1>1, <2>4, <2>5, IdleEdit DEF ChkTyped
    <2>7. KindInv' /\ EditInv'
        BY <1>0, <1>1, <1>2, <2>0, <2>3, <2>4, IdleEdit DEF KindInv, EditInv
    <2>8. ChkServiceWatched'
        <3>1. CASE t = "service"
            BY <2>5, <3>1 DEF ChkServiceWatched
        <3>2. CASE t # "service"
            <4>1. target'["service"] = target["service"]
                BY <2>4, <3>2 DEF Things
            <4> QED
                BY <1>0, <1>1, <2>5, <4>1, StillWatched
        <3> QED
            BY <3>1, <3>2
    <2> QED
        BY <1>9, <2>6, <2>7, <2>8 DEF ChkInv
<1> QED
    BY <1>3, <1>4

LEMMA DeleteTargetStep ==
    ASSUME ChkInv, NEW t \in Things, DeleteTarget(t)
    PROVE  ChkInv'
<1>0. ChkTyped /\ KindInv /\ EditInv /\ ChkServiceWatched
    BY DEF ChkInv
<1> DEFINE no == FALSE
           new == [target[t] EXCEPT !.live = no]
           C == ChecksOf(t)
<1>1. /\ chk' = Dropped(C) /\ Forgets(C) /\ unwatched' = unwatched \ {t}
      /\ UNCHANGED <<host, wk, man, ed, conn>>
    BY DEF DeleteTarget
<1>2. target' = [target EXCEPT ![t] = new] /\ no \in BOOLEAN /\ ~no
    BY <1>0 DEF DeleteTarget, ChkTyped
<1> HIDE DEF no
<1>3. target[t] \in Thing /\ new \in Thing /\ new.kind = target[t].kind /\ new.live = no
    BY <1>0, <1>2 DEF ChkTyped, Thing
<1> HIDE DEF new
<1>4. /\ target' \in [Things -> Thing] /\ target'[t] = new
      /\ \A u \in Things : u # t => target'[u] = target[u]
    BY <1>0, <1>2, <1>3 DEF ChkTyped
<1>5. C \in SUBSET Ids /\ \A c \in C : chk[c].st = "live" /\ chk[c].target = t
    BY DEF ChecksOf
<1> HIDE DEF C
<1>6. chk' \in [Ids -> Check] /\ RowsKept /\ \A c \in Ids : c \notin C => chk'[c] = chk[c]
    BY <1>1, <1>5, DroppedRows
<1>7. /\ age' \in [Ids -> 0..Due] /\ wage' \in [Ids -> 0..Due]
      /\ withheld' \in SUBSET Ids /\ TickInv'
    BY <1>1, <1>5, ForgetsResults
<1>8. ChkTyped'
    <2>1. chkEdits' \in 0..ChkEdits
        BY EditCounted DEF DeleteTarget
    <2> QED
        BY <1>0, <1>1, <1>4, <1>6, <1>7, <2>1 DEF ChkTyped
<1>9. KindInv' /\ EditInv'
    BY <1>0, <1>1, <1>3, <1>4, <1>6 DEF KindInv, EditInv, RowsKept
<1>10. ChkServiceWatched'
    <2>1. CASE t = "service"
        BY <1>2, <1>3, <1>4, <2>1 DEF ChkServiceWatched
    <2>2. CASE t # "service"
        <3>1. target'["service"] = target["service"]
            BY <1>4, <2>2 DEF Things
        <3>2. ServiceKept
            BY <1>5, <1>6, <2>2 DEF ServiceKept
        <3>3. "service" \notin unwatched' => "service" \notin unwatched
            BY <1>1, <2>2
        <3> QED
            BY <1>0, <3>1, <3>2, <3>3, StillWatched
    <2> QED
        BY <2>1, <2>2
<1> QED
    BY <1>1, <1>7, <1>8, <1>9, <1>10 DEF ChkInv

LEMMA DeleteNodeStep ==
    ASSUME ChkInv, DeleteNode
    PROVE  ChkInv'
<1>0. ChkTyped /\ KindInv /\ EditInv /\ ChkServiceWatched
    BY DEF ChkInv
<1> DEFINE no == FALSE
           C == {c \in Ids : chk[c].st = "live"
                             /\ (chk[c].target = "node" \/ target[chk[c].target].live)}
<1>1. /\ chk' = Dropped(C) /\ Forgets(C) /\ unwatched' = {}
      /\ UNCHANGED <<wk, man, ed, conn>>
    BY DEF DeleteNode
<1>2. /\ host' = [host EXCEPT !.live = no] /\ no \in BOOLEAN /\ ~no
      /\ target' = [t \in Things |-> [target[t] EXCEPT !.live = no]]
    BY DEF DeleteNode
<1> HIDE DEF no
<1>3. /\ host' \in Host
      /\ \A t \in Things : /\ [target[t] EXCEPT !.live = no] \in Thing
                           /\ [target[t] EXCEPT !.live = no].kind = target[t].kind
                           /\ [target[t] EXCEPT !.live = no].live = no
    BY <1>0, <1>2 DEF ChkTyped, Thing, Host
<1>4. /\ target' \in [Things -> Thing]
      /\ \A t \in Things : target'[t].kind = target[t].kind /\ target'[t].live = no
    BY <1>2, <1>3
<1>5. C \in SUBSET Ids /\ \A c \in C : chk[c].st = "live"
    OBVIOUS
<1> HIDE DEF C
<1>6. chk' \in [Ids -> Check] /\ RowsKept
    BY <1>1, <1>5, DroppedRows
<1>7. /\ age' \in [Ids -> 0..Due] /\ wage' \in [Ids -> 0..Due]
      /\ withheld' \in SUBSET Ids /\ TickInv'
    BY <1>1, <1>5, ForgetsResults
<1>8. ChkTyped'
    <2>1. chkEdits' \in 0..ChkEdits
        BY EditCounted DEF DeleteNode
    <2> QED
        BY <1>0, <1>1, <1>3, <1>4, <1>6, <1>7, <2>1 DEF ChkTyped
<1>9. KindInv' /\ EditInv'
    BY <1>0, <1>1, <1>4, <1>6 DEF KindInv, EditInv, RowsKept
<1>10. ChkServiceWatched'
    BY <1>2, <1>4 DEF ChkServiceWatched, Things
<1> QED
    BY <1>1, <1>7, <1>8, <1>9, <1>10 DEF ChkInv

\* The node's switch, its port and its agent.
LEMMA HostSteps ==
    ASSUME ChkInv,
           \/ \E on \in BOOLEAN : EnableNode(on)
           \/ \E s \in Ports : SshPort(s)
           \/ \E a \in 0..2 : AgentSeen(a)
    PROVE  ChkInv'
<1>0. ChkTyped
    BY DEF ChkInv
<1>1. host' \in Host
    BY <1>0 DEF EnableNode, SshPort, AgentSeen, ChkTyped, Host, Ports
<1>2. UNCHANGED <<target, chk, age, wage, wk, man, ed, conn, withheld, unwatched>>
    BY DEF EnableNode, SshPort, AgentSeen
<1>3. chkEdits' \in 0..ChkEdits
    BY EditCounted DEF EnableNode, SshPort, AgentSeen
<1>4. ChkTyped'
    BY <1>0, <1>1, <1>2, <1>3 DEF ChkTyped
<1>5. KindInv' /\ EditInv' /\ ChkServiceWatched'
    BY <1>2, RowsSame, RowsFrame
<1>6. TickInv'
    BY <1>2, TickSame
<1> QED
    BY <1>2, <1>4, <1>5, <1>6 DEF ChkInv

LEMMA InsertCheckStep ==
    ASSUME ChkInv, NEW t \in Things \cup {"node"}, NEW type \in Types, InsertCheck(t, type)
    PROVE  ChkInv'
<1>0. ChkTyped
    BY DEF ChkInv
<1>1. /\ chk' = [chk EXCEPT ![NextId] = NewCheck(t, type)] /\ Unused # {}
      /\ UNCHANGED <<host, target, age, wage, wk, man, ed, conn, withheld, unwatched>>
    BY DEF InsertCheck
<1>2. chk' \in [Ids -> Check] /\ \A c \in Ids : chk[c].st # "none" => chk'[c] = chk[c]
    BY <1>0, <1>1, NewCheckRow
<1>3. RowsKept /\ ServiceKept
    BY <1>2 DEF RowsKept, ServiceKept
<1>4. chkEdits' \in 0..ChkEdits
    BY EditCounted DEF InsertCheck
<1>5. ChkTyped'
    BY <1>0, <1>1, <1>2, <1>4 DEF ChkTyped
<1>6. KindInv' /\ EditInv' /\ ChkServiceWatched'
    BY <1>1, <1>3, RowsFrame
<1>7. TickInv'
    BY <1>1, TickSame
<1> QED
    BY <1>1, <1>5, <1>6, <1>7 DEF ChkInv

LEMMA UpdateCheckStep ==
    ASSUME ChkInv, NEW c \in Ids, NEW type \in Types, NEW on \in BOOLEAN,
           UpdateCheck(c, type, on)
    PROVE  ChkInv'
<1>0. ChkTyped /\ KindInv /\ ChkServiceWatched
    BY DEF ChkInv
<1> DEFINE new == [chk[c] EXCEPT !.type = type, !.enabled = on]
<1>1. /\ ed' = [NoEdit EXCEPT !.pc = "saveCheck", !.id = c, !.row = new]
      /\ chk[c].st = "live"
      /\ UNCHANGED <<host, target, chk, age, wage, wk, man, conn, withheld, unwatched>>
    BY DEF UpdateCheck
<1>2. chk[c] \in Check /\ new \in Check /\ new.st = chk[c].st /\ new.target = chk[c].target
    BY <1>0 DEF ChkTyped, Check
<1> HIDE DEF new
<1>3. ed' \in ChkEd /\ ed'.pc = "saveCheck" /\ ed'.id = c /\ ed'.row = new
    BY <1>1, <1>2, IdleEdit DEF ChkEd
<1>4. chkEdits' \in 0..ChkEdits
    BY EditCounted DEF UpdateCheck
<1>5. ChkTyped'
    BY <1>0, <1>1, <1>3, <1>4 DEF ChkTyped
<1>6. KindInv' /\ EditInv'
    BY <1>0, <1>1, <1>2, <1>3 DEF KindInv, EditInv
<1>7. ChkServiceWatched'
    BY <1>0, <1>1, RowsSame, StillWatched
<1>8. TickInv'
    BY <1>1, TickSame
<1> QED
    BY <1>1, <1>5, <1>6, <1>7, <1>8 DEF ChkInv

LEMMA SaveCheckStep ==
    ASSUME ChkInv, SaveCheck
    PROVE  ChkInv'
<1>0. ChkTyped /\ KindInv /\ EditInv /\ ChkServiceWatched
    BY DEF ChkInv
<1>1. /\ ed.pc = "saveCheck" /\ ed' = NoEdit
      /\ UNCHANGED <<host, target, age, wage, wk, man, conn, withheld, unwatched, chkEdits>>
    BY DEF SaveCheck
<1>2. PICK c \in Ids : c = ed.id /\ ed.row.st = "live" /\ ed.row.target = chk[c].target
    BY <1>0, <1>1 DEF EditInv
<1> DEFINE on == ed.row.enabled \/ ~(chk[c].st = "live")
           new == [ed.row EXCEPT !.enabled = on]
<1>3. chk' = [chk EXCEPT ![c] = new] /\ on \in BOOLEAN
    BY <1>2 DEF SaveCheck, Saved
<1> HIDE DEF on
<1>4. ed.row \in Check /\ new \in Check /\ new.st = "live" /\ new.target = chk[c].target
    BY <1>0, <1>2, <1>3 DEF ChkTyped, ChkEd, Check
<1> HIDE DEF new
<1>5. /\ chk' \in [Ids -> Check] /\ chk'[c] = new
      /\ \A d \in Ids : d # c => chk'[d] = chk[d]
    BY <1>0, <1>3, <1>4 DEF ChkTyped
<1>6. RowsKept /\ ServiceKept
    BY <1>4, <1>5 DEF RowsKept, ServiceKept
<1>7. KindInv' /\ EditInv' /\ ChkServiceWatched' /\ ed' \in ChkEd
    BY <1>1, <1>6, RowsFrame
<1>8. ChkTyped'
    BY <1>0, <1>1, <1>5, <1>7 DEF ChkTyped
<1>9. TickInv'
    BY <1>1, TickSame
<1> QED
    BY <1>1, <1>7, <1>8, <1>9 DEF ChkInv

LEMMA DeleteCheckSteps ==
    ASSUME ChkInv, DeleteCheck \/ \E c \in Ids : DeleteResults(c)
    PROVE  ChkInv'
<1>0. ChkTyped /\ KindInv /\ EditInv /\ ChkServiceWatched
    BY DEF ChkInv
<1>1. ASSUME NEW c \in Ids, DeleteResults(c) PROVE ChkInv'
    <2>1. /\ Forgets({c}) /\ chk[c].st = "live"
          /\ ed' = [NoEdit EXCEPT !.pc = "deleteCheck", !.id = c]
          /\ UNCHANGED <<host, target, chk, wk, man, conn, unwatched>>
        BY <1>1 DEF DeleteResults
    <2>2. ed' \in ChkEd /\ ed'.pc = "deleteCheck" /\ ed'.id = c
        BY <2>1, IdleEdit DEF ChkEd
    <2>3. /\ age' \in [Ids -> 0..Due] /\ wage' \in [Ids -> 0..Due]
          /\ withheld' \in SUBSET Ids /\ TickInv'
        BY <2>1, ForgetsResults
    <2>4. chkEdits' \in 0..ChkEdits
        BY <1>1, EditCounted DEF DeleteResults
    <2>5. ChkTyped'
        BY <1>0, <2>1, <2>2, <2>3, <2>4 DEF ChkTyped
    <2>6. KindInv' /\ EditInv'
        BY <1>0, <2>1, <2>2 DEF KindInv, EditInv
    <2>7. ChkServiceWatched'
        BY <1>0, <2>1, RowsSame, StillWatched
    <2> QED
        BY <2>1, <2>3, <2>5, <2>6, <2>7 DEF ChkInv
<1>2. CASE DeleteCheck
    <2>1. /\ ed.pc = "deleteCheck" /\ ed' = NoEdit
          /\ UNCHANGED <<host, target, wk, man, conn, chkEdits>>
        BY <1>2 DEF DeleteCheck
    <2>2. PICK c \in Ids : c = ed.id
        BY <1>0, <2>1 DEF EditInv
    <2>3. ed' \in ChkEd /\ ed'.pc = "idle"
        BY <2>1, IdleEdit
    <2>4. CASE UNCHANGED <<chk, age, wage, withheld, unwatched>>
        <3>1. KindInv' /\ EditInv' /\ ChkServiceWatched'
            BY <2>1, <2>4, RowsSame, RowsFrame
        <3>2. TickInv'
            BY <2>1, <2>4, TickSame
        <3>3. ChkTyped'
            BY <1>0, <2>1, <2>3, <2>4 DEF ChkTyped
        <3> QED
            BY <2>1, <3>1, <3>2, <3>3 DEF ChkInv
    <2>5. CASE /\ chk' = Dropped({ed.id} \cap {d \in Ids : chk[d].st = "live"})
               /\ Forgets({ed.id})
               /\ unwatched' = unwatched \cup ({chk[ed.id].target} \cap Things)
        <3> DEFINE C == {c} \cap {d \in Ids : chk[d].st = "live"}
        <3>1. C \in SUBSET Ids /\ (\A d \in C : chk[d].st = "live") /\ chk' = Dropped(C)
            BY <2>2, <2>5
        <3>2. chk' \in [Ids -> Check] /\ RowsKept /\ \A d \in Ids : d \notin C => chk'[d] = chk[d]
            BY <3>1, DroppedRows
        <3>3. /\ age' \in [Ids -> 0..Due] /\ wage' \in [Ids -> 0..Due]
              /\ withheld' \in SUBSET Ids /\ TickInv'
            <4>1. Forgets({c}) /\ {c} \in SUBSET Ids
                BY <2>2, <2>5
            <4> QED
                BY <2>1, <4>1, ForgetsResults
        <3>4. ChkTyped'
            BY <1>0, <2>1, <2>3, <2>5, <3>2, <3>3 DEF ChkTyped
        <3>5. KindInv' /\ EditInv'
            BY <1>0, <2>1, <2>3 DEF KindInv, EditInv
        <3>6. ChkServiceWatched'
            <4>1. CASE chk[c].target = "service"
                <5>1. "service" \in unwatched'
                    BY <2>2, <2>5, <4>1 DEF Things
                <5> QED
                    BY <5>1 DEF ChkServiceWatched
            <4>2. CASE chk[c].target # "service"
                <5>1. ServiceKept
                    BY <3>2, <4>2 DEF ServiceKept
                <5>2. "service" \notin unwatched' => "service" \notin unwatched
                    BY <2>5
                <5> QED
                    BY <1>0, <2>1, <5>1, <5>2, StillWatched
            <4> QED
                BY <4>1, <4>2
        <3> QED
            BY <2>1, <3>3, <3>4, <3>5, <3>6 DEF ChkInv
    <2> QED
        BY <1>2, <2>4, <2>5 DEF DeleteCheck
<1> QED
    BY <1>1, <1>2

\* The worker's own steps that leave results alone.
LEMMA TickLooks ==
    ASSUME ChkInv, wk' \in ChkWk,
           UNCHANGED <<host, target, chk, age, wage, man, ed, conn, withheld, unwatched>>,
           chkEdits' \in 0..ChkEdits,
           wk'.pc \in {"run", "probe"} /\ ~wk'.blind => \A c \in wk'.todo : wage[c] = Due,
           wk'.pc = "probe" => /\ wk'.cur \in Ids /\ wk'.cur \notin wk'.todo
                               /\ wk'.blind \/ wage[wk'.cur] = Due
    PROVE  ChkInv'
<1>0. ChkTyped /\ TickInv
    BY DEF ChkInv
<1>1. ChkTyped'
    BY <1>0 DEF ChkTyped
<1>2. KindInv' /\ EditInv' /\ ChkServiceWatched'
    BY RowsSame, RowsFrame
<1>3. TickInv'
    BY <1>0 DEF TickInv
<1> QED
    BY <1>1, <1>2, <1>3 DEF ChkInv

LEMMA RestsIdle ==
    ASSUME ChkInv, Rests
    PROVE  wk' \in ChkWk /\ wk'.pc = "idle"
<1> DEFINE none == [c \in Ids |-> NoCheck]
<1>1. none \in [Ids -> Check]
    BY CheckRows
<1> DEFINE late == 2
           no == FALSE
<1>2. wk \in ChkWk /\ wk' = [wk EXCEPT !.pc = "idle", !.todo = {}, !.cur = 0, !.agent = late,
                                       !.blind = no, !.rows = none]
    BY DEF ChkInv, ChkTyped, Rests
<1>3. late \in 0..2 /\ no \in BOOLEAN
    OBVIOUS
<1> HIDE DEF none, late, no
<1> QED
    BY <1>1, <1>2, <1>3 DEF ChkWk

LEMMA BackfillStep ==
    ASSUME ChkInv, Backfill
    PROVE  ChkInv'
<1>0. ChkTyped /\ KindInv
    BY DEF ChkInv
<1>1. Rests /\ UNCHANGED <<host, target, age, wage, man, ed, conn, withheld, unwatched, chkEdits>>
    BY DEF Backfill
<1>2. PICK bare \in SUBSET Things :
         chk' = [c \in Ids |->
             IF c \in Unused /\ \E t \in bare :
                   c = NextId + (IF t = "bot" /\ "service" \in bare THEN 1 ELSE 0)
             THEN LET t == CHOOSE t \in bare :
                         c = NextId + (IF t = "bot" /\ "service" \in bare THEN 1 ELSE 0)
                  IN  NewCheck(t, DefaultType(t, target[t].kind))
             ELSE chk[c]]
    BY DEF Backfill
<1>3. ASSUME NEW c \in Ids
      PROVE  chk'[c] \in Check /\ (chk[c].st # "none" => chk'[c] = chk[c])
    <2> DEFINE Its(t) == c = NextId + (IF t = "bot" /\ "service" \in bare THEN 1 ELSE 0)
               t == CHOOSE t \in bare : Its(t)
    <2>1. chk'[c] = IF c \in Unused /\ \E u \in bare : Its(u)
                    THEN NewCheck(t, DefaultType(t, target[t].kind)) ELSE chk[c]
        BY <1>2
    <2>2. (\E u \in bare : Its(u)) => t \in bare
        OBVIOUS
    <2> HIDE DEF Its, t
    <2>3. CASE c \in Unused /\ \E u \in bare : Its(u)
        <3>1. t \in Things /\ target[t].kind \in Kinds(t)
            BY <1>0, <2>2, <2>3 DEF KindInv
        <3>2. DefaultType(t, target[t].kind) \in Types
            BY <3>1, CheckTypes
        <3>3. NewCheck(t, DefaultType(t, target[t].kind)) \in Check
            BY <3>1, <3>2, CheckRows
        <3> QED
            BY <2>1, <2>3, <3>3 DEF Unused
    <2>4. CASE ~(c \in Unused /\ \E u \in bare : Its(u))
        BY <1>0, <2>1, <2>4 DEF ChkTyped
    <2> QED
        BY <2>3, <2>4
<1>4. chk' \in [Ids -> Check]
    BY <1>2, <1>3
<1>5. RowsKept /\ ServiceKept
    BY <1>3 DEF RowsKept, ServiceKept
<1>6. wk' \in ChkWk /\ wk'.pc = "idle"
    BY <1>1, RestsIdle
<1>7. KindInv' /\ EditInv' /\ ChkServiceWatched'
    BY <1>1, <1>5, RowsFrame
<1>8. ChkTyped'
    BY <1>0, <1>1, <1>4, <1>6 DEF ChkTyped
<1>9. TickInv'
    BY <1>1, <1>6 DEF ChkInv, TickInv
<1> QED
    BY <1>1, <1>7, <1>8, <1>9 DEF ChkInv

LEMMA TickSteps ==
    ASSUME ChkInv, TickChecks \/ TickMaps \/ RunNext
    PROVE  ChkInv'
<1>0. /\ wk \in ChkWk /\ TickInv /\ host \in Host /\ chk \in [Ids -> Check]
      /\ age \in [Ids -> 0..Due] /\ wage \in [Ids -> 0..Due]
      /\ wk.todo \in SUBSET Ids
    BY DEF ChkInv, ChkTyped, ChkWk
<1>1. /\ UNCHANGED <<host, target, chk, age, wage, man, ed, conn, withheld, unwatched>>
      /\ chkEdits' \in 0..ChkEdits
    BY EditCounted DEF TickChecks, TickMaps, RunNext
<1>2. CASE TickChecks
    <2> DEFINE todo == {c \in Ids : chk[c].st = "live" /\ chk[c].enabled /\ chk[c].target \in Things}
               rows == [c \in Ids |-> IF c \in todo THEN chk[c] ELSE NoCheck]
    <2>1. wk' = [wk EXCEPT !.pc = "maps", !.todo = todo, !.rows = rows]
        BY <1>2 DEF TickChecks
    <2>2. todo \in SUBSET Ids /\ rows \in [Ids -> Check]
        BY <1>0, CheckRows
    <2> HIDE DEF todo, rows
    <2>3. wk' \in ChkWk /\ wk'.pc = "maps"
        BY <1>0, <2>1, <2>2 DEF ChkWk
    <2> QED
        BY <1>1, <2>3, TickLooks
<1>3. CASE TickMaps
    <2>0. PICK lost \in SUBSET (Things \cup {"nodes", "results"}) :
             wk' = [wk EXCEPT !.pc = "run", !.agent = host.agent, !.blind = "results" \in lost,
                              !.todo = {c \in wk.todo : /\ isDue(c) \/ "results" \in lost
                                                        /\ Read(c, lost)}]
        BY <1>3 DEF TickMaps
    <2> DEFINE blind == "results" \in lost
               todo == {c \in wk.todo : (isDue(c) \/ "results" \in lost) /\ Read(c, lost)}
    <2>1. wk' = [wk EXCEPT !.pc = "run", !.agent = host.agent, !.blind = blind, !.todo = todo]
        BY <2>0
    <2>2. /\ todo \in SUBSET Ids /\ blind \in BOOLEAN
          /\ \A c \in todo : c \in Ids /\ (isDue(c) \/ blind)
        BY <1>0
    <2> HIDE DEF todo, blind
    <2>3. wk' \in ChkWk /\ wk'.pc = "run" /\ wk'.todo = todo /\ wk'.blind = blind
        BY <1>0, <2>1, <2>2 DEF ChkWk, Host
    <2>4. ASSUME NEW c \in todo, ~blind PROVE wage[c] = Due
        <3>1. c \in Ids /\ age[c] > ChkInterval /\ age[c] <= wage[c]
            BY <1>0, <2>2, <2>4 DEF isDue, TickInv
        <3>2. age[c] \in 0..Due /\ wage[c] \in 0..Due /\ ChkInterval \in Nat
            BY <1>0, <3>1, ChkAssumption
        <3> QED
            BY <3>1, <3>2 DEF Due
    <2> QED
        BY <1>1, <2>3, <2>4, TickLooks
<1>4. CASE RunNext
    <2>1. wk.pc = "run" /\ (~wk.blind => \A c \in wk.todo : wage[c] = Due)
        BY <1>0, <1>4 DEF RunNext, TickInv
    <2>2. CASE wk.todo = {}
        <3>1. wk' \in ChkWk /\ wk'.pc = "idle"
            BY <1>4, <2>2, RestsIdle DEF RunNext
        <3> QED
            BY <1>1, <3>1, TickLooks
    <2>3. CASE wk.todo # {}
        <3>1. PICK c \in wk.todo :
                 wk' = [wk EXCEPT !.pc = "probe", !.cur = c, !.todo = wk.todo \ {c}]
            BY <1>4, <2>3 DEF RunNext
        <3> DEFINE todo == wk.todo \ {c}
        <3>2. todo \in SUBSET Ids /\ c \in Ids /\ c \notin todo /\ todo \subseteq wk.todo
            BY <1>0
        <3>3. wk' = [wk EXCEPT !.pc = "probe", !.cur = c, !.todo = todo]
            BY <3>1
        <3> HIDE DEF todo
        <3>4. wk' \in ChkWk /\ wk'.pc = "probe" /\ wk'.cur = c /\ wk'.todo = todo
              /\ wk'.blind = wk.blind
            BY <1>0, <3>2, <3>3 DEF ChkWk
        <3> QED
            BY <1>1, <2>1, <3>2, <3>4, TickLooks
    <2> QED
        BY <2>2, <2>3
<1> QED
    BY <1>2, <1>3, <1>4

\* A result that is stored.
LEMMA Stored ==
    ASSUME ChkInv, NEW c \in Ids, NEW fails \in BOOLEAN, storeResult(c, fails)
    PROVE  /\ age' \in [Ids -> 0..Due] /\ chkEdits' \in 0..ChkEdits
           /\ \A d \in Ids : d # c => age'[d] = age[d]
           /\ age'[c] = IF chk[c].st = "live" /\ ~fails THEN 0 ELSE age[c]
BY ChkAssumption, EditCounted DEF storeResult, ChkInv, ChkTyped, Due

LEMMA RunCheckStep ==
    ASSUME ChkInv, RunCheck
    PROVE  ChkInv' /\ \A d \in Ids : wage'[d] = 0 /\ wage[d] # 0 => wage[d] = Due \/ wk.blind
<1>0. /\ ChkTyped /\ wk \in ChkWk /\ TickInv /\ withheld \in SUBSET Ids
      /\ age \in [Ids -> 0..Due] /\ wage \in [Ids -> 0..Due]
    BY DEF ChkInv, ChkTyped
<1>1. PICK c \in Ids : c = wk.cur /\ c \notin wk.todo /\ (wk.blind \/ wage[c] = Due)
    BY <1>0 DEF RunCheck, TickInv
<1>2. PICK fails \in BOOLEAN :
      /\ storeResult(c, fails) /\ storedByWorker(c, fails)
      /\ wk.pc = "probe" /\ wk' = [wk EXCEPT !.pc = "run"]
      /\ UNCHANGED <<host, target, chk, man, ed, conn, unwatched>>
    BY <1>1 DEF RunCheck
<1>3. withheld' \in SUBSET Ids
    BY <1>0, <1>1 DEF RunCheck, Notify
<1>4. /\ age' \in [Ids -> 0..Due] /\ chkEdits' \in 0..ChkEdits
      /\ \A d \in Ids : d # c => age'[d] = age[d]
      /\ age'[c] = IF chk[c].st = "live" /\ ~fails THEN 0 ELSE age[c]
    BY <1>2, Stored
<1>5. /\ wage' \in [Ids -> 0..Due]
      /\ \A d \in Ids : d # c => wage'[d] = wage[d]
      /\ wage'[c] = IF chk[c].st = "live" /\ ~fails THEN 0 ELSE wage[c]
    BY <1>0, <1>2, ChkAssumption DEF Due, storedByWorker
<1>6. wk' \in ChkWk /\ wk'.pc = "run" /\ wk'.todo = wk.todo /\ wk'.blind = wk.blind /\ wk.todo \in SUBSET Ids
    BY <1>0, <1>2 DEF ChkWk
<1>7. ChkTyped'
    BY <1>0, <1>2, <1>3, <1>4, <1>5, <1>6 DEF ChkTyped
<1>8. KindInv' /\ EditInv' /\ ChkServiceWatched'
    BY <1>2, RowsSame, RowsFrame
<1>9. TickInv'
    <2>1. \A d \in Ids : age'[d] <= wage'[d]
        BY <1>0, <1>4, <1>5 DEF TickInv
    <2>2. ~wk.blind => \A d \in wk'.todo : wage'[d] = Due
        BY <1>0, <1>1, <1>2, <1>5, <1>6 DEF TickInv
    <2> QED
        BY <1>6, <2>1, <2>2 DEF TickInv
<1> QED
    BY <1>1, <1>2, <1>5, <1>7, <1>8, <1>9 DEF ChkInv

LEMMA RunNowReadStep ==
    ASSUME ChkInv, NEW t \in Things, RunNowRead(t)
    PROVE  ChkInv'
<1>0. /\ ChkTyped /\ host \in Host /\ chk \in [Ids -> Check] /\ target[t].kind \in Kinds(t)
    BY DEF ChkInv, ChkTyped, KindInv
<1> DEFINE on == {c \in ChecksOf(t) : chk[c].enabled}
           newest == CHOOSE c \in on : \A d \in on : d <= c
           fresh == DefaultType(t, target[t].kind)
<1>1. man' = [pc |-> IF on = {} THEN "create" ELSE "probe",
              target |-> t, agent |-> host.agent,
              id |-> IF on = {} THEN 0 ELSE newest,
              type |-> IF on = {} THEN fresh ELSE chk[newest].type]
    BY DEF RunNowRead
<1>2. UNCHANGED <<host, target, chk, age, wage, wk, ed, conn, withheld, unwatched>>
    BY DEF RunNowRead
<1>3. on # {} => newest \in Ids
    <2>1. on \in SUBSET Ids
        BY DEF ChecksOf
    <2> HIDE DEF on
    <2>2. on # {} => \E c \in on : \A d \in on : d <= c
        BY <2>1, GreatestId
    <2> QED
        BY <2>1, <2>2
<1>4. fresh \in Types
    BY <1>0, CheckTypes
<1> HIDE DEF on, newest, fresh
<1>5. man' \in ChkMan /\ (man'.pc = "probe" => man'.id \in Ids)
    <2>1. on # {} => chk[newest].type \in Types
        BY <1>0, <1>3 DEF Check
    <2>2. host.agent \in 0..2
        BY <1>0 DEF Host
    <2> QED
        BY <1>1, <1>3, <1>4, <2>1, <2>2 DEF ChkMan
<1>6. chkEdits' \in 0..ChkEdits
    BY EditCounted DEF RunNowRead
<1>7. ChkTyped'
    BY <1>0, <1>2, <1>5, <1>6 DEF ChkTyped
<1>8. KindInv' /\ EditInv' /\ ChkServiceWatched'
    BY <1>2, RowsSame, RowsFrame
<1>9. TickInv'
    BY <1>2, TickSame
<1> QED
    BY <1>5, <1>7, <1>8, <1>9 DEF ChkInv

LEMMA RunNowCreateStep ==
    ASSUME ChkInv, RunNowCreate
    PROVE  ChkInv'
<1>0. ChkTyped /\ man \in ChkMan
    BY DEF ChkInv, ChkTyped
<1>1. /\ chk' = [chk EXCEPT ![NextId] = NewCheck(man.target, man.type)] /\ Unused # {}
      /\ man' = [man EXCEPT !.pc = "probe", !.id = NextId]
      /\ UNCHANGED <<host, target, age, wage, wk, ed, conn, withheld, unwatched, chkEdits>>
    BY DEF RunNowCreate
<1>2. PICK t \in Things \cup {"node"}, type \in Types : t = man.target /\ type = man.type
    BY <1>0 DEF ChkMan
<1>3. /\ chk' \in [Ids -> Check] /\ NextId \in Ids
      /\ \A c \in Ids : chk[c].st # "none" => chk'[c] = chk[c]
    <2>1. chk' = [chk EXCEPT ![NextId] = NewCheck(t, type)]
        BY <1>1, <1>2
    <2> QED
        BY <1>0, <1>1, <2>1, NewCheckRow
<1>4. RowsKept /\ ServiceKept
    BY <1>3 DEF RowsKept, ServiceKept
<1>5. man' \in ChkMan /\ man'.id \in Ids
    BY <1>0, <1>1, <1>3 DEF ChkMan
<1>6. ChkTyped'
    BY <1>0, <1>1, <1>3, <1>5 DEF ChkTyped
<1>7. KindInv' /\ EditInv' /\ ChkServiceWatched'
    BY <1>1, <1>4, RowsFrame
<1>8. TickInv'
    BY <1>1, TickSame
<1> QED
    BY <1>5, <1>6, <1>7, <1>8 DEF ChkInv

LEMMA IdleMan == NoMan \in ChkMan /\ NoMan.pc = "idle"
BY DEF NoMan, ChkMan, Things, Types

LEMMA RunNowProbeStep ==
    ASSUME ChkInv, RunNowProbe
    PROVE  ChkInv'
<1>0. /\ ChkTyped /\ TickInv /\ withheld \in SUBSET Ids /\ wk \in ChkWk
      /\ age \in [Ids -> 0..Due] /\ wage \in [Ids -> 0..Due]
    BY DEF ChkInv, ChkTyped
<1>1. PICK c \in Ids : c = man.id
    BY DEF RunNowProbe, ChkInv
<1>2. PICK fails \in BOOLEAN :
      /\ storeResult(c, fails) /\ man' = NoMan
      /\ UNCHANGED <<host, target, chk, wage, wk, ed, conn, unwatched>>
    BY <1>1 DEF RunNowProbe
<1>3. withheld' \in SUBSET Ids
    BY <1>0, <1>1 DEF RunNowProbe, Notify
<1>4. /\ age' \in [Ids -> 0..Due] /\ chkEdits' \in 0..ChkEdits
      /\ \A d \in Ids : d # c => age'[d] = age[d]
      /\ age'[c] = IF chk[c].st = "live" /\ ~fails THEN 0 ELSE age[c]
    BY <1>2, Stored
<1>5. ChkTyped'
    BY <1>0, <1>2, <1>3, <1>4, IdleMan DEF ChkTyped
<1>6. KindInv' /\ EditInv' /\ ChkServiceWatched'
    BY <1>2, RowsSame, RowsFrame
<1>7. TickInv'
    <2>1. \A d \in Ids : age'[d] <= wage'[d]
        BY <1>0, <1>2, <1>4 DEF TickInv
    <2> QED
        BY <1>0, <1>2, <2>1 DEF TickInv
<1> QED
    BY <1>2, <1>5, <1>6, <1>7, IdleMan DEF ChkInv

LEMMA ConnSteps ==
    ASSUME ChkInv, ConnRead \/ ConnNotify
    PROVE  ChkInv'
<1>0. ChkTyped /\ conn \in ChkConn /\ host \in Host
    BY DEF ChkInv, ChkTyped
<1>1. UNCHANGED <<host, target, chk, age, wage, wk, man, ed, withheld, unwatched, chkEdits>>
    BY DEF ConnRead, ConnNotify
<1>2. conn' \in ChkConn
    <2> DEFINE late == 2
    <2>1. late \in 0..2
        OBVIOUS
    <2>2. CASE ConnRead
        BY <1>0, <2>2 DEF ConnRead, ChkConn, Host
    <2>3. CASE ConnNotify
        <3>1. PICK raw \in {"ok", "fail"}, told \in {"ok", "fail"} :
                 conn' = [pc |-> "idle", agent |-> late, raw |-> raw, told |-> told]
            BY <2>3 DEF ConnNotify
        <3> HIDE DEF late
        <3> QED
            BY <2>1, <3>1 DEF ChkConn
    <2> QED
        BY <2>2, <2>3
<1>3. ChkTyped'
    BY <1>0, <1>1, <1>2 DEF ChkTyped
<1>4. KindInv' /\ EditInv' /\ ChkServiceWatched' /\ TickInv'
    BY <1>1, RowsSame, RowsFrame, TickSame
<1> QED
    BY <1>1, <1>3, <1>4 DEF ChkInv

LEMMA TimeStep ==
    ASSUME ChkInv, ChkTick
    PROVE  ChkInv'
<1>0. /\ ChkTyped /\ TickInv /\ wk \in ChkWk /\ Due \in Nat
      /\ age \in [Ids -> 0..Due] /\ wage \in [Ids -> 0..Due]
    BY ChkAssumption DEF ChkInv, ChkTyped, Due
<1>1. /\ age' = [c \in Ids |-> Older(age[c])] /\ wage' = [c \in Ids |-> Older(wage[c])]
      /\ UNCHANGED <<host, target, chk, wk, man, ed, conn, withheld, unwatched, chkEdits>>
    BY DEF ChkTick
<1>2. \A n \in 0..Due : Older(n) \in 0..Due
    BY <1>0 DEF Older
<1>3. \A m, n \in 0..Due : m <= n => Older(m) <= Older(n)
    BY <1>0 DEF Older
<1>4. Older(Due) = Due
    BY <1>0 DEF Older
<1>5. age' \in [Ids -> 0..Due] /\ wage' \in [Ids -> 0..Due]
      /\ \A c \in Ids : age'[c] = Older(age[c]) /\ wage'[c] = Older(wage[c])
    BY <1>0, <1>1, <1>2
<1>6. ChkTyped'
    BY <1>0, <1>1, <1>5 DEF ChkTyped
<1>7. KindInv' /\ EditInv' /\ ChkServiceWatched'
    BY <1>1, RowsSame, RowsFrame
<1>8. TickInv'
    <2>1. \A c \in Ids : age'[c] <= wage'[c]
        BY <1>0, <1>3, <1>5 DEF TickInv
    <2>2. \A c \in Ids : wage[c] = Due => wage'[c] = Due
        BY <1>4, <1>5
    <2>3. wk.todo \in SUBSET Ids
        BY <1>0 DEF ChkWk
    <2> QED
        BY <1>0, <1>1, <2>1, <2>2, <2>3 DEF TickInv
<1> QED
    BY <1>1, <1>6, <1>7, <1>8 DEF ChkInv

LEMMA RestartStep ==
    ASSUME ChkInv, ChkRestart
    PROVE  ChkInv'
<1>0. ChkTyped /\ conn \in ChkConn
    BY DEF ChkInv, ChkTyped
<1> DEFINE none == [c \in Ids |-> NoCheck]
<1>1. /\ wk' = [pc |-> "start", rows |-> none, todo |-> {}, cur |-> 0, agent |-> 2,
                blind |-> FALSE]
      /\ man' = NoMan /\ ed' = NoEdit /\ conn' = [conn EXCEPT !.pc = "idle", !.agent = 2]
      /\ UNCHANGED <<host, target, chk, age, wage, withheld, unwatched>>
    BY DEF ChkRestart
<1>2. none \in [Ids -> Check]
    BY CheckRows
<1> HIDE DEF none
<1>3. wk' \in ChkWk /\ wk'.pc = "start"
    BY <1>1, <1>2 DEF ChkWk
<1>4. conn' \in ChkConn
    <2> DEFINE late == 2
    <2>1. late \in 0..2 /\ conn' = [conn EXCEPT !.pc = "idle", !.agent = late]
        BY <1>1
    <2> HIDE DEF late
    <2> QED
        BY <1>0, <2>1 DEF ChkConn
<1>5. chkEdits' \in 0..ChkEdits
    BY EditCounted DEF ChkRestart
<1>6. KindInv' /\ EditInv' /\ ChkServiceWatched' /\ ed' \in ChkEd
    BY <1>1, RowsSame, RowsFrame
<1>7. ChkTyped'
    BY <1>0, <1>1, <1>3, <1>4, <1>5, <1>6, IdleMan DEF ChkTyped
<1>8. TickInv'
    BY <1>1, <1>3 DEF ChkInv, TickInv
<1> QED
    BY <1>1, <1>6, <1>7, <1>8, IdleMan DEF ChkInv

LEMMA UsersSteps ==
    ASSUME ChkInv, ChkUsers
    PROVE  ChkInv'
<1> USE DEF Things, Types
<1>1. ASSUME NEW kind \in Kinds("service"),
             CreateServiceGlobal(kind) \/ CreateService(kind)
             \/ \E on \in BOOLEAN : UpdateService(kind, on)
      PROVE  ChkInv'
    <2>1. CASE CreateTarget("service", kind)
        BY <2>1, CreateTargetStep
    <2>2. ASSUME NEW on \in BOOLEAN, UpdateTarget("service", kind, on) PROVE ChkInv'
        BY <2>2, UpdateTargetStep
    <2> QED
        BY <1>1, <2>1, <2>2 DEF CreateServiceGlobal, CreateService, UpdateService
<1>2. ASSUME NEW kind \in Kinds("bot"),
             CreateBot(kind) \/ \E on \in BOOLEAN : UpdateBot(kind, on)
      PROVE  ChkInv'
    <2>1. CASE CreateTarget("bot", kind)
        BY <2>1, CreateTargetStep
    <2>2. ASSUME NEW on \in BOOLEAN, UpdateTarget("bot", kind, on) PROVE ChkInv'
        BY <2>2, UpdateTargetStep
    <2> QED
        BY <1>2, <2>1, <2>2 DEF CreateBot, UpdateBot
<1>3. CASE DeleteService \/ DeleteBot
    BY <1>3, DeleteTargetStep DEF DeleteService, DeleteBot
<1>4. CASE RunNowService \/ RunNowBot
    BY <1>4, RunNowReadStep DEF RunNowService, RunNowBot
<1>5. CASE DeleteNode
    BY <1>5, DeleteNodeStep
<1>6. CASE \E on \in BOOLEAN : EnableNode(on)
    BY <1>6, HostSteps
<1>7. ASSUME NEW type \in {"http", "ftp"}, CreateNodeCheck(type) \/ CreateServiceCheck(type)
      PROVE  ChkInv'
    BY <1>7, InsertCheckStep DEF CreateNodeCheck, CreateServiceCheck
<1>8. ASSUME NEW c \in Ids, NEW type \in Types, NEW on \in BOOLEAN, UpdateCheck(c, type, on)
      PROVE  ChkInv'
    BY <1>8, UpdateCheckStep
<1>9. ASSUME NEW c \in Ids, DeleteResults(c) PROVE ChkInv'
    BY <1>9, DeleteCheckSteps
<1>10. CASE ChkRestart
    BY <1>10, RestartStep
<1> QED
    BY <1>1, <1>2, <1>3, <1>4, <1>5, <1>6, <1>7, <1>8, <1>9, <1>10 DEF ChkUsers

LEMMA ChkStarts == ChkInit => ChkInv
<1> SUFFICES ASSUME ChkInit PROVE ChkInv
    OBVIOUS
<1> DEFINE none == [c \in Ids |-> NoCheck]
           late == 2
           yes == TRUE
           no == FALSE
           Live(t) == t = "service"
           Kind(t) == IF t = "service" THEN "web" ELSE "docker"
<1>1. /\ host = [live |-> yes, enabled |-> yes, ssh |-> "up", agent |-> late]
      /\ target = [t \in Things |-> [live |-> Live(t), enabled |-> yes, kind |-> Kind(t)]]
      /\ chk = [c \in Ids |-> IF c = 1 THEN NewCheck("service", "http") ELSE NoCheck]
      /\ age = [c \in Ids |-> Due] /\ wage = [c \in Ids |-> Due]
      /\ wk = [pc |-> "start", rows |-> none, todo |-> {}, cur |-> 0, agent |-> late, blind |-> no]
      /\ man = NoMan /\ ed = NoEdit
      /\ conn = [pc |-> "idle", agent |-> late, raw |-> "none", told |-> "none"]
      /\ withheld = {} /\ unwatched = {} /\ chkEdits = 0
    BY DEF ChkInit
<1>2. /\ none \in [Ids -> Check] /\ late \in 0..2 /\ yes \in BOOLEAN /\ no \in BOOLEAN
      /\ \A t \in Things : Live(t) \in BOOLEAN
      /\ \A t \in Things : Kind(t) \in {"web", "docker"} /\ Kind(t) \in Kinds(t)
    BY CheckRows DEF Things, Kinds
<1> HIDE DEF none, late, yes, no, Live, Kind
<1>3. host \in Host /\ conn \in ChkConn /\ wk \in ChkWk /\ wk.pc = "start"
    BY <1>1, <1>2 DEF Host, Ports, ChkConn, ChkWk
<1>4. /\ \A t \in Things : [live |-> Live(t), enabled |-> yes, kind |-> Kind(t)] \in Thing
      /\ \A t \in Things : target[t].kind = Kind(t)
    BY <1>1, <1>2 DEF Thing
<1>5. target \in [Things -> Thing]
    BY <1>1, <1>4
<1>6. /\ chk \in [Ids -> Check] /\ 1 \in Ids
      /\ chk[1].st = "live" /\ chk[1].target = "service"
    <2>1. 1 \in Ids /\ "service" \in Things /\ "http" \in Types
        BY ChkAssumption DEF Ids, Things, Types
    <2>2. /\ NewCheck("service", "http") \in Check /\ NoCheck \in Check
          /\ NewCheck("service", "http").st = "live"
          /\ NewCheck("service", "http").target = "service"
        BY <2>1, CheckRows
    <2> QED
        BY <1>1, <2>1, <2>2
<1>7. age \in [Ids -> 0..Due] /\ wage \in [Ids -> 0..Due] /\ chkEdits \in 0..ChkEdits
      /\ Due \in Nat
    BY <1>1, ChkAssumption DEF Due
<1>8. ChkTyped
    BY <1>1, <1>3, <1>5, <1>6, <1>7, IdleMan, IdleEdit DEF ChkTyped
<1>9. KindInv /\ EditInv
    BY <1>1, <1>2, <1>4, IdleEdit DEF KindInv, EditInv
<1>10. TickInv
    BY <1>1, <1>3, <1>7 DEF TickInv
<1>11. ChkServiceWatched
    BY <1>6 DEF ChkServiceWatched, ChecksOf
<1> QED
    BY <1>1, <1>8, <1>9, <1>10, <1>11, IdleMan DEF ChkInv

LEMMA ChkStep == ChkInv /\ [ChkNext]_chkVars => ChkInv'
<1> SUFFICES ASSUME ChkInv, [ChkNext]_chkVars PROVE ChkInv'
    OBVIOUS
<1>1. CASE ChkWorker
    BY <1>1, BackfillStep, TickSteps, RunCheckStep DEF ChkWorker
<1>2. CASE ChkUsers
    BY <1>2, UsersSteps
<1>3. CASE SaveTarget \/ SaveCheck \/ DeleteCheck
    BY <1>3, SaveTargetStep, SaveCheckStep, DeleteCheckSteps
<1>4. CASE RunNowCreate \/ RunNowProbe \/ ConnRead \/ ConnNotify
    BY <1>4, RunNowCreateStep, RunNowProbeStep, ConnSteps
<1>5. CASE \/ \E s \in Ports : SshPort(s)
           \/ \E a \in 0..2 : AgentSeen(a)
    BY <1>5, HostSteps
<1>6. CASE ChkTick
    BY <1>6, TimeStep
<1>7. CASE UNCHANGED chkVars
    <2>1. UNCHANGED <<host, target, chk, age, wage, wk, man, ed, conn, withheld,
                      unwatched, chkEdits>>
        BY <1>7 DEF chkVars
    <2>2. ChkTyped'
        BY <2>1 DEF ChkInv, ChkTyped
    <2>3. KindInv' /\ EditInv' /\ ChkServiceWatched' /\ TickInv'
        BY <2>1, RowsSame, RowsFrame, TickSame
    <2> QED
        BY <2>1, <2>2, <2>3 DEF ChkInv
<1> QED
    BY <1>1, <1>2, <1>3, <1>4, <1>5, <1>6, <1>7 DEF ChkNext

LEMMA ChkInvHolds == ChkSpec => []ChkInv
BY ChkStarts, ChkStep, PTL DEF ChkSpec

LEMMA ChkTypeHolds == ChkInv => ChkTypeOK
BY DEF ChkInv, ChkTyped, ChkTypeOK, ChkWk, ChkMan, ChkEd, ChkConn

\* Every step of the worker, of requests and of time keeps rows, requests and results of
\* their types.
THEOREM ChecksTyped == ChkSpec => []ChkTypeOK
BY ChkTypeHolds, ChkInvHolds, PTL

\* createDefaultCheck, syncServiceChecks, Save: for any number of rows and edits, a
\* service has a check unless a user deleted one of its checks.
THEOREM ServicesWatched == ChkSpec => []ChkServiceWatched
<1>1. ChkInv => ChkServiceWatched
    BY DEF ChkInv
<1> QED
    BY <1>1, ChkInvHolds, PTL

\* runOnce, isDue: for any interval the worker's results of a check are further apart
\* than interval_sec, whatever runs by hand, deletions and failing statements come
\* between; but for a tick whose query for the results failed.
THEOREM ResultsSpaced == ChkSpec => ChkSpacing
<1> DEFINE Spaced == \A c \in Ids :
                        wage'[c] = 0 /\ wage[c] # 0 => wage[c] = Due \/ wk.blind
<1>1. ChkInv /\ [ChkNext]_chkVars => Spaced
    <2> SUFFICES ASSUME ChkInv, [ChkNext]_chkVars PROVE Spaced
        OBVIOUS
    <2>0. wage \in [Ids -> 0..Due] /\ Due \in Nat /\ Due # 0
        BY ChkAssumption DEF ChkInv, ChkTyped, Due
    <2>1. CASE RunCheck
        BY <2>1, RunCheckStep
    <2>2. CASE ChkTick
        <3>1. \A c \in Ids : wage'[c] = Older(wage[c]) /\ wage[c] \in Nat
            BY <2>0, <2>2 DEF ChkTick
        <3> QED
            BY <2>0, <3>1 DEF Older
    <2>3. ASSUME NEW C, Forgets(C) PROVE Spaced
        BY <2>0, <2>3 DEF Forgets
    <2>4. CASE \/ \E t \in Things : DeleteTarget(t)
               \/ DeleteNode \/ DeleteCheck \/ \E c \in Ids : DeleteResults(c)
        <3>1. wage' = wage \/ \E C \in SUBSET Ids : Forgets(C)
            <4>1. \A c \in Ids : {c} \in SUBSET Ids
                OBVIOUS
            <4>2. \A t \in Things : ChecksOf(t) \in SUBSET Ids
                BY DEF ChecksOf
            <4>3. ed.pc = "deleteCheck" => {ed.id} \in SUBSET Ids
                BY DEF ChkInv, EditInv
            <4> QED
                BY <2>4, <4>1, <4>2, <4>3 DEF DeleteTarget, DeleteNode, DeleteCheck, DeleteResults
        <3> QED
            BY <2>3, <3>1
    <2>5. CASE UNCHANGED wage
        BY <2>5
    <2> QED
        <3>1. \/ RunCheck \/ ChkTick \/ UNCHANGED wage
              \/ \E t \in Things : DeleteTarget(t)
              \/ DeleteNode \/ DeleteCheck \/ \E c \in Ids : DeleteResults(c)
            <4>1. CASE ChkWorker
                BY <4>1 DEF ChkWorker, Backfill, TickChecks, TickMaps, RunNext
            <4>2. CASE ChkUsers
                BY <4>2 DEF ChkUsers, CreateServiceGlobal, CreateService, CreateBot, CreateTarget,
                            UpdateService, UpdateBot, UpdateTarget, DeleteService, DeleteBot,
                            RunNowService, RunNowBot, RunNowRead, EnableNode, CreateNodeCheck,
                            CreateServiceCheck, InsertCheck, UpdateCheck, ChkRestart, Things
            <4>3. CASE SaveTarget \/ SaveCheck
                BY <4>3 DEF SaveTarget, SaveCheck
            <4>4. CASE RunNowCreate \/ RunNowProbe \/ ConnRead \/ ConnNotify
                BY <4>4 DEF RunNowCreate, RunNowProbe, ConnRead, ConnNotify
            <4>5. CASE \/ \E s \in Ports : SshPort(s)
                       \/ \E a \in 0..2 : AgentSeen(a)
                BY <4>5 DEF SshPort, AgentSeen
            <4>6. CASE UNCHANGED chkVars
                BY <4>6 DEF chkVars
            <4> QED
                BY <4>1, <4>2, <4>3, <4>4, <4>5, <4>6 DEF ChkNext
        <3> QED
            BY <2>1, <2>2, <2>4, <2>5, <3>1
<1> QED
    BY <1>1, ChkInvHolds, PTL DEF ChkSpec, ChkSpacing

------------------------------------------------------------------------------
(* MCWatch: one component moves, the others rest. *)

WatchInv == ChkInv /\ SlotInv /\ DshInv

\* What the run checks, for any values of the constants: the types of rows, sessions
\* and pages, and what is said of services and pages, in the product of the three.
THEOREM WatchHolds ==
    ASSUME DshNodes # {}
    PROVE  MCSpec => [](WatchTypeOK /\ ChkServiceWatched /\ DshPageCurrent)
<1>1. MCInit => WatchInv
    BY ChkStarts, SshInitHolds, DshStarts DEF MCInit, WatchInv
<1>2. WatchInv /\ [MCNext]_<<chkVars, sshVars, dshVars, focus>> => WatchInv'
    <2> SUFFICES ASSUME WatchInv, [MCNext]_<<chkVars, sshVars, dshVars, focus>> PROVE WatchInv'
        OBVIOUS
    <2>1. [ChkNext]_chkVars /\ [SshNext]_sshVars /\ [DshNext]_dshVars
        BY DEF MCNext, Watch, Terminal, Board
    <2> QED
        BY <2>1, ChkStep, SlotInvStep, DshStep DEF WatchInv
<1>3. WatchInv => WatchTypeOK /\ ChkServiceWatched /\ DshPageCurrent
    BY ChkTypeHolds, DshTypeHolds, DshCurrent DEF WatchInv, SlotInv, WatchTypeOK, ChkInv
<1> QED
    BY <1>1, <1>2, <1>3, PTL DEF MCSpec
==============================================================================
