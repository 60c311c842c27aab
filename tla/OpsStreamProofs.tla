--------------------------- MODULE OpsStreamProofs ---------------------------
(***************************************************************************)
(* Type correctness of OpsStream and the reasons why no channel of the hub *)
(* is closed twice and no subscriber misses an event, for any number of    *)
(* publishers, subscribers and polls and any buffer size.                  *)
(***************************************************************************)
EXTENDS OpsStream, SequenceTheorems, TLAPS

PubType == [n : Nat, todo : SUBSET Clients, drop : SUBSET Clients]
SrvType == [pc : {"none", "loop", "write", "ended"}, hand : Event]
PollType == [pc : {"idle", "asked", "answered", "items"}, val : Status]

\* Events are made of a publisher and its counter (Publish, trySend).
LEMMA EventType ==
    /\ None \in Event
    /\ \A p \in Publishers, n \in Nat : [from |-> p, n |-> n] \in Event
BY DEF None, Event, Publishers

\* Hub.unsubscribe keeps the types of the map and of the channels.
LEMMA UnsubscribeType ==
    ASSUME TypeOK, NEW c \in Clients, unsubscribe(c)
    PROVE  subs' \subseteq Clients /\ closes' \in [Clients -> Nat]
<1>1. CASE c \in subs
  <2>1. closes[c] + 1 \in Nat
    BY DEF TypeOK
  <2>2. subs' = subs \ {c} /\ closes' = [closes EXCEPT ![c] = closes[c] + 1]
    BY <1>1 DEF unsubscribe
  <2> QED BY <2>1, <2>2 DEF TypeOK
<1>2. CASE c \notin subs
  BY <1>2 DEF TypeOK, unsubscribe
<1> QED BY <1>1, <1>2

\* The goroutines of the job: pickAndRun, executeItem, runJob inside the hub.
LEMMA JobStepType ==
    ASSUME TypeOK, JobStep
    PROVE  TypeOK'
<1> USE StreamAssumption
<1>1. ASSUME NEW p \in Publishers, Publish(p)
      PROVE  pub' \in [Publishers -> PubType]
  <2>1. pub[p] \in PubType
    BY <1>1 DEF TypeOK, PubType
  <2> QED BY <1>1, <2>1 DEF TypeOK, Publish, PubType
<1>2. Runner \in Publishers /\ Workers \subseteq Publishers
  BY DEF Publishers
<1>3. CASE PickJob
  <2>1. pub' \in [Publishers -> PubType]
    BY <1>1, <1>2, <1>3 DEF PickJob
  <2> QED BY <1>3, <2>1 DEF TypeOK, PickJob, PubType, Status, hub, dialog
<1>4. CASE FinishJob
  <2>1. pub' \in [Publishers -> PubType]
    BY <1>1, <1>2, <1>4 DEF FinishJob
  <2> QED BY <1>4, <2>1 DEF TypeOK, FinishJob, PubType, Status, hub, dialog
<1>5. ASSUME NEW w \in Workers, WorkerPublishes(w)
      PROVE  TypeOK'
  <2>1. pub' \in [Publishers -> PubType]
    BY <1>1, <1>2, <1>5 DEF WorkerPublishes
  <2> QED BY <1>5, <2>1 DEF TypeOK, WorkerPublishes, PubType, hub, dialog
<1>6. ASSUME NEW p \in Publishers, NEW c \in Clients, trySend(p, c)
      PROVE  TypeOK'
  <2>1. pub[p] \in PubType /\ pub[p].n \in Nat /\ buf[c] \in Seq(Event)
    BY DEF TypeOK, PubType
  <2>2. [from |-> p, n |-> pub[p].n] \in Event
    BY <2>1, EventType
  <2>3. pub' \in [Publishers -> PubType]
    <3>1. /\ [pub[p] EXCEPT !.todo = pub[p].todo \ {c}] \in PubType
          /\ [pub[p] EXCEPT !.todo = pub[p].todo \ {c}, !.drop = {c}] \in PubType
      BY <2>1 DEF PubType
    <3>2. PICK v \in PubType : pub' = [pub EXCEPT ![p] = v]
      BY <1>6, <3>1 DEF trySend
    <3> QED BY <3>2 DEF TypeOK, PubType
  <2>4. CASE closes[c] = 0 /\ Len(buf[c]) < BufferSize
    <3> DEFINE ev == [from |-> p, n |-> pub[p].n]
    <3>1. buf' = [buf EXCEPT ![c] = Append(buf[c], ev)]
      BY <1>6, <2>4 DEF trySend
    <3>2. Append(buf[c], ev) \in Seq(Event) /\ Len(Append(buf[c], ev)) <= BufferSize
      BY <2>1, <2>2, <2>4, AppendProperties DEF TypeOK
    <3> HIDE DEF ev
    <3>3. /\ buf' \in [Clients -> Seq(Event)]
          /\ \A d \in Clients : Len(buf'[d]) <= BufferSize
      BY <3>1, <3>2 DEF TypeOK
    <3> QED BY <1>6, <2>3, <3>3 DEF TypeOK, trySend, PubType, dialog
  <2>5. CASE ~(closes[c] = 0 /\ Len(buf[c]) < BufferSize)
    <3>1. buf' = buf
      BY <1>6, <2>5 DEF trySend
    <3> QED BY <1>6, <2>3, <3>1 DEF TypeOK, trySend, PubType, dialog
  <2> QED BY <2>4, <2>5
<1>7. ASSUME NEW p \in Publishers, NEW c \in Clients, DropSubscriber(p, c)
      PROVE  TypeOK'
  <2>1. pub' \in [Publishers -> PubType]
    <3>0. pub[p] \in PubType
      BY DEF TypeOK, PubType
    <3>1. [pub[p] EXCEPT !.drop = {}] \in PubType
      BY <3>0 DEF PubType
    <3>2. pub' = [pub EXCEPT ![p] = [pub[p] EXCEPT !.drop = {}]]
      BY <1>7 DEF DropSubscriber
    <3> QED BY <3>1, <3>2 DEF TypeOK, PubType
  <2>2. subs' \subseteq Clients /\ closes' \in [Clients -> Nat]
    BY <1>7, UnsubscribeType DEF DropSubscriber
  <2> QED BY <1>7, <2>1, <2>2 DEF TypeOK, DropSubscriber, PubType, dialog
<1> QED BY <1>3, <1>4, <1>5, <1>6, <1>7 DEF JobStep

\* The websocket handler OpsJobStream and its connection.
LEMMA HandlerStepType ==
    ASSUME TypeOK, NEW c \in Clients,
           Subscribe(c) \/ HandlerStep(c) \/ Break(c)
    PROVE  TypeOK'
<1> USE StreamAssumption
<1>0. /\ srv[c] \in SrvType /\ srv[c].hand \in Event
      /\ buf[c] \in Seq(Event) /\ wire[c] \in Seq(Event)
  BY DEF TypeOK, SrvType
<1>1. CASE Subscribe(c)
  <2>1. srv' \in [Clients -> SrvType]
    BY <1>0, <1>1 DEF TypeOK, Subscribe, SrvType
  <2> QED BY <1>1, <2>1 DEF TypeOK, Subscribe, SrvType, dialog
<1>2. CASE ReceiveEvent(c)
  <2>1. buf[c] # <<>>
    BY <1>2 DEF ReceiveEvent
  <2>2. /\ Head(buf[c]) \in Event /\ Tail(buf[c]) \in Seq(Event)
        /\ Len(Tail(buf[c])) = Len(buf[c]) - 1 /\ Len(buf[c]) \in Nat
    BY <1>0, <2>1, HeadTailProperties, EmptySeq, LenProperties
  <2>3. srv' \in [Clients -> SrvType]
    BY <1>2, <2>2 DEF TypeOK, ReceiveEvent, SrvType
  <2>4. /\ buf' \in [Clients -> Seq(Event)]
        /\ \A d \in Clients : Len(buf'[d]) <= BufferSize
    BY <1>2, <2>2 DEF TypeOK, ReceiveEvent
  <2> QED BY <1>2, <2>3, <2>4 DEF TypeOK, ReceiveEvent, SrvType, dialog
<1>3. CASE writeEvent(c)
  <2>1. srv' \in [Clients -> SrvType]
    BY <1>3, EventType DEF TypeOK, writeEvent, SrvType
  <2>2. /\ Append(wire[c], srv[c].hand) \in Seq(Event)
        /\ Len(Append(wire[c], srv[c].hand)) <= WireSize
    BY <1>0, <1>3, AppendProperties DEF writeEvent
  <2>3. /\ wire' \in [Clients -> Seq(Event)]
        /\ \A d \in Clients : Len(wire'[d]) <= WireSize
    BY <1>3, <2>2 DEF TypeOK, writeEvent
  <2> QED BY <1>3, <2>1, <2>3 DEF TypeOK, writeEvent, SrvType, hub, dialog
<1>4. CASE Return(c)
  <2>1. srv' \in [Clients -> SrvType]
    BY <1>4, EventType DEF TypeOK, Return, SrvType
  <2>2. subs' \subseteq Clients /\ closes' \in [Clients -> Nat]
    BY <1>4, UnsubscribeType DEF Return
  <2> QED BY <1>4, <2>1, <2>2 DEF TypeOK, Return, SrvType, dialog
<1>5. CASE Break(c)
  <2>1. /\ wire' \in [Clients -> Seq(Event)]
        /\ \A d \in Clients : Len(wire'[d]) <= WireSize
    BY <1>5 DEF TypeOK, Break
  <2>2. breaks' \in 0..MaxBreaks
    BY <1>5 DEF TypeOK, Break
  <2> QED BY <1>5, <2>1, <2>2 DEF TypeOK, Break, hub, dialog
<1> QED BY <1>1, <1>2, <1>3, <1>4, <1>5 DEF HandlerStep

\* The progress dialog: its socket and its polls.
LEMMA DialogStepType ==
    ASSUME TypeOK, NEW c \in Clients,
           \/ onMessage(c) \/ closeDeployProgress(c)
           \/ \E k \in Slots : pollStart(c, k) \/ PollStep(c, k) \/ pollError(c, k)
    PROVE  TypeOK'
<1> USE StreamAssumption
<1>0. wire[c] \in Seq(Event) /\ view[c] \in Status
  BY DEF TypeOK
<1>1. CASE onMessage(c)
  <2>1. wire[c] # <<>>
    BY <1>1 DEF onMessage
  <2>2. /\ Head(wire[c]) \in Event /\ Tail(wire[c]) \in Seq(Event)
        /\ Len(Tail(wire[c])) = Len(wire[c]) - 1 /\ Len(wire[c]) \in Nat
    BY <1>0, <2>1, HeadTailProperties, EmptySeq, LenProperties
  <2>3. /\ wire' \in [Clients -> Seq(Event)]
        /\ \A d \in Clients : Len(wire'[d]) <= WireSize
    BY <1>1, <2>2 DEF TypeOK, onMessage
  <2>4. view' \in [Clients -> Status]
    BY <1>0, <1>1 DEF TypeOK, onMessage, StatusOf, Status
  <2>5. Head(wire[c]).from \in Publishers /\ Head(wire[c]).n \in Nat
    BY <2>2 DEF Event
  <2>6. got' \in [Clients -> [Publishers -> Nat]]
    <3> DEFINE e == Head(wire[c])
    <3>1. got' = [got EXCEPT ![c][e.from] = e.n]
      BY <1>1 DEF onMessage
    <3>2. e.from \in Publishers /\ e.n \in Nat
      BY <2>5
    <3> HIDE DEF e
    <3> QED BY <3>1, <3>2 DEF TypeOK
  <2> QED BY <1>1, <2>3, <2>4, <2>6 DEF TypeOK, onMessage, hub
<1>2. CASE closeDeployProgress(c)
  <2>1. /\ wire' \in [Clients -> Seq(Event)]
        /\ \A d \in Clients : Len(wire'[d]) <= WireSize
    BY <1>2 DEF TypeOK, closeDeployProgress
  <2> QED BY <1>2, <2>1 DEF TypeOK, closeDeployProgress, hub
<1>3. ASSUME NEW k \in Slots,
             pollStart(c, k) \/ PollStep(c, k) \/ pollError(c, k)
      PROVE  TypeOK'
  <2>0. poll[c] \in [Slots -> PollType] /\ poll[c][k] \in PollType /\ row \in Status
    BY DEF TypeOK, PollType
  <2>1. "queued" \in Status
    BY DEF Status
  <2>2. poll' \in [Clients -> [Slots -> PollType]]
    <3>1. PICK v \in PollType : poll' = [poll EXCEPT ![c][k] = v]
      <4>1. CASE pollReply(c, k)
        <5>1. poll' = [poll EXCEPT ![c][k] = [poll[c][k] EXCEPT !.pc = "items"]]
          BY <4>1 DEF pollReply
        <5>2. [poll[c][k] EXCEPT !.pc = "items"] \in PollType
          BY <2>0 DEF PollType
        <5> QED BY <5>1, <5>2
      <4>2. CASE pollServe(c, k)
        BY <2>0, <4>2 DEF pollServe, PollType
      <4>3. CASE pollStart(c, k) \/ pollItems(c, k) \/ pollError(c, k)
        BY <2>1, <4>3 DEF pollStart, pollItems, pollError, PollType
      <4> QED BY <1>3, <4>1, <4>2, <4>3 DEF PollStep
    <3> QED BY <3>1 DEF TypeOK, PollType
  <2>3. view' \in [Clients -> Status]
    BY <1>3, <2>0 DEF TypeOK, PollType, PollStep, pollStart, pollServe, pollReply,
                      pollItems, pollError
  <2>4. stopped' \in [Clients -> BOOLEAN]
    BY <1>3 DEF TypeOK, PollStep, pollStart, pollServe, pollReply, pollItems, pollError
  <2>5. pollFails' \in 0..MaxPollFails
    BY <1>3 DEF TypeOK, PollStep, pollStart, pollServe, pollReply, pollItems, pollError
  <2>6. UNCHANGED <<row, pub, subs, buf, closes, srv, link, wire, open, got, breaks>>
    BY <1>3 DEF PollStep, pollStart, pollServe, pollReply, pollItems, pollError, hub
  <2> QED BY <2>2, <2>3, <2>4, <2>5, <2>6 DEF TypeOK, PollType
<1> QED BY <1>1, <1>2, <1>3

\* Type correctness of the hub, the handler and the dialog: no buffer of a
\* channel or of a connection exceeds its size.
THEOREM TypeCorrect == Spec => []TypeOK
<1>1. Init => TypeOK
  BY StreamAssumption, EventType, EmptySeq DEF Init, TypeOK, Status, Publishers
<1>2. TypeOK /\ [Next]_vars => TypeOK'
  <2> SUFFICES ASSUME TypeOK, [Next]_vars PROVE TypeOK'
    OBVIOUS
  <2>1. CASE JobStep
    BY <2>1, JobStepType
  <2>2. ASSUME NEW c \in Clients, Subscribe(c) \/ HandlerStep(c) \/ Break(c)
        PROVE  TypeOK'
    BY <2>2, HandlerStepType
  <2>3. ASSUME NEW c \in Clients,
               \/ onMessage(c) \/ closeDeployProgress(c)
               \/ \E k \in Slots : pollStart(c, k) \/ PollStep(c, k) \/ pollError(c, k)
        PROVE  TypeOK'
    BY <2>3, DialogStepType
  <2>4. CASE UNCHANGED vars
    BY <2>4 DEF TypeOK, vars
  <2> QED BY <2>1, <2>2, <2>3, <2>4 DEF Next
<1> QED BY <1>1, <1>2, PTL DEF Spec

\* Hub.unsubscribe closes a channel only while it is registered, so open.
LEMMA UnsubscribeInv ==
    ASSUME TypeOK, HubInv, NEW c \in Clients, unsubscribe(c),
           \A d \in Clients : srv'[d].pc = "none" => srv[d].pc = "none"
    PROVE  HubInv'
<1> SUFFICES ASSUME NEW d \in Clients
             PROVE  /\ d \in subs' => closes'[d] = 0
                    /\ srv'[d].pc = "none" => d \notin subs' /\ closes'[d] = 0
                    /\ closes'[d] <= 1
  BY DEF HubInv
<1>1. /\ d \in subs => closes[d] = 0
      /\ srv[d].pc = "none" => d \notin subs /\ closes[d] = 0
      /\ closes[d] <= 1
      /\ srv'[d].pc = "none" => srv[d].pc = "none"
      /\ closes \in [Clients -> Nat]
  BY DEF HubInv, TypeOK
<1>2. CASE c \in subs
  BY <1>1, <1>2 DEF unsubscribe
<1>3. CASE c \notin subs
  BY <1>1, <1>3 DEF unsubscribe
<1> QED BY <1>2, <1>3

\* A registered channel is open: publishers that find it full and the handler that
\* returns all go through the hub's map.
LEMMA HubHolds == Spec => []HubInv
<1>1. Init => HubInv
  BY DEF Init, HubInv
<1>2. TypeOK /\ HubInv /\ [Next]_vars => HubInv'
  <2> SUFFICES ASSUME TypeOK, HubInv, [Next]_vars PROVE HubInv'
    OBVIOUS
  <2>1. ASSUME UNCHANGED <<subs, closes, srv>> PROVE HubInv'
    BY <2>1 DEF HubInv
  <2>2. CASE PickJob \/ FinishJob \/ \E w \in Workers : WorkerPublishes(w)
    BY <2>1, <2>2 DEF PickJob, FinishJob, WorkerPublishes, hub
  <2>3. ASSUME NEW p \in Publishers, NEW c \in Clients, trySend(p, c)
        PROVE  HubInv'
    BY <2>1, <2>3 DEF trySend
  <2>4. ASSUME NEW p \in Publishers, NEW c \in Clients, DropSubscriber(p, c)
        PROVE  HubInv'
    BY <2>4, UnsubscribeInv DEF DropSubscriber
  <2>5. ASSUME NEW c \in Clients, Subscribe(c) PROVE HubInv'
    BY <2>5 DEF Subscribe, HubInv, TypeOK
  <2>6. ASSUME NEW c \in Clients, ReceiveEvent(c) \/ writeEvent(c) PROVE HubInv'
    <3>1. UNCHANGED <<subs, closes>>
      BY <2>6 DEF ReceiveEvent, writeEvent, hub
    <3>2. PICK v : v.pc # "none" /\ srv' = [srv EXCEPT ![c] = v]
      BY <2>6 DEF ReceiveEvent, writeEvent
    <3>3. \A d \in Clients : srv'[d].pc = "none" => srv[d].pc = "none"
      BY <3>2 DEF TypeOK
    <3> QED BY <3>1, <3>3 DEF HubInv
  <2>7. ASSUME NEW c \in Clients, Return(c) PROVE HubInv'
    <3>1. \A d \in Clients : srv'[d].pc = "none" => srv[d].pc = "none"
      BY <2>7 DEF Return, TypeOK
    <3> QED BY <2>7, <3>1, UnsubscribeInv DEF Return
  <2>8. ASSUME NEW c \in Clients,
               \/ Break(c) \/ onMessage(c) \/ closeDeployProgress(c)
               \/ \E k \in Slots : pollStart(c, k) \/ PollStep(c, k) \/ pollError(c, k)
        PROVE  HubInv'
    BY <2>1, <2>8 DEF Break, onMessage, closeDeployProgress, pollStart, PollStep,
                      pollServe, pollReply, pollItems, pollError, hub
  <2>9. CASE UNCHANGED vars
    BY <2>1, <2>9 DEF vars
  <2> QED BY <2>2, <2>3, <2>4, <2>5, <2>6, <2>7, <2>8, <2>9
          DEF Next, JobStep, HandlerStep
<1> QED BY <1>1, <1>2, TypeCorrect, PTL DEF Spec

\* No channel is closed twice (a panic that nothing recovers), whichever publishers
\* and handler race to close it.
THEOREM ClosedOnceHolds == Spec => []ClosedOnce
<1>1. HubInv => ClosedOnce
  BY DEF HubInv, ClosedOnce
<1> QED BY <1>1, HubHolds, PTL
------------------------------------------------------------------------------
(* NoGaps: the sequences *)

NoneOf(s, p) == \A k \in 1..Len(s) : s[k].from # p

\* n is the number of the last event of p that was sent: the last one in s, or the
\* one that was received.
LastIs(s, p, g, n) ==
    \/ NoneOf(s, p) /\ n = g
    \/ \E j \in 1..Len(s) :
          /\ s[j].from = p /\ s[j].n = n
          /\ \A i \in (j + 1)..Len(s) : s[i].from # p

\* Numbers start at one.
Numbered(s) == \A k \in 1..Len(s) : s[k].n > 0

\* Positions of a longer sequence.
LEMMA AppendAt ==
    ASSUME NEW s \in Seq(Event), NEW e \in Event
    PROVE  /\ Append(s, e) \in Seq(Event) /\ Len(Append(s, e)) = Len(s) + 1
           /\ Len(s) \in Nat
           /\ \A k \in 1..Len(s) : Append(s, e)[k] = s[k]
           /\ Append(s, e)[Len(s) + 1] = e
BY AppendProperties, LenProperties

LEMMA TailAt ==
    ASSUME NEW s \in Seq(Event), s # <<>>
    PROVE  /\ Tail(s) \in Seq(Event) /\ Len(Tail(s)) = Len(s) - 1
           /\ Len(s) \in Nat /\ Len(s) > 0
           /\ \A k \in 1..(Len(s) - 1) : Tail(s)[k] = s[k + 1]
           /\ Head(s) = s[1] /\ Head(s) \in Event
<1>1. Len(s) \in Nat /\ Len(s) # 0
  BY EmptySeq, LenProperties
<1> QED BY <1>1, HeadTailProperties

\* An event of another goroutine changes nothing.
LEMMA AppendOther ==
    ASSUME NEW s \in Seq(Event), NEW e \in Event, NEW p, NEW g \in Nat, NEW n \in Nat,
           e.from # p
    PROVE  /\ GapFree(s, p, g) => GapFree(Append(s, e), p, g)
           /\ LastIs(s, p, g, n) => LastIs(Append(s, e), p, g, n)
<1> DEFINE t == Append(s, e)
<1>1. /\ t \in Seq(Event) /\ Len(t) = Len(s) + 1 /\ Len(s) \in Nat
      /\ \A k \in 1..Len(s) : t[k] = s[k]
      /\ t[Len(s) + 1] = e
  BY AppendAt
<1> HIDE DEF t
<1>2. ASSUME GapFree(s, p, g) PROVE GapFree(t, p, g)
  <2> SUFFICES ASSUME NEW k \in 1..Len(t), t[k].from = p
               PROVE  \/ /\ \A i \in 1..(k - 1) : t[i].from # p
                         /\ g = 0 \/ t[k].n = g + 1
                      \/ \E j \in 1..(k - 1) :
                            /\ t[j].from = p /\ t[k].n = t[j].n + 1
                            /\ \A i \in (j + 1)..(k - 1) : t[i].from # p
    BY DEF GapFree
  <2>1. k \in 1..Len(s) /\ t[k] = s[k] /\ \A i \in 1..(k - 1) : i \in 1..Len(s) /\ t[i] = s[i]
    BY <1>1
  <2>2. \/ /\ \A i \in 1..(k - 1) : s[i].from # p
           /\ g = 0 \/ s[k].n = g + 1
        \/ \E j \in 1..(k - 1) :
              /\ s[j].from = p /\ s[k].n = s[j].n + 1
              /\ \A i \in (j + 1)..(k - 1) : s[i].from # p
    BY <1>2, <2>1 DEF GapFree
  <2> QED BY <2>1, <2>2
<1>3. ASSUME LastIs(s, p, g, n) PROVE LastIs(t, p, g, n)
  <2>1. CASE NoneOf(s, p) /\ n = g
    <3>1. NoneOf(t, p)
      BY <1>1, <2>1 DEF NoneOf
    <3> QED BY <2>1, <3>1 DEF LastIs
  <2>2. ASSUME NEW j \in 1..Len(s), s[j].from = p, s[j].n = n,
               \A i \in (j + 1)..Len(s) : s[i].from # p
        PROVE  LastIs(t, p, g, n)
    <3>1. j \in 1..Len(t) /\ t[j].from = p /\ t[j].n = n
      BY <1>1, <2>2
    <3>2. \A i \in (j + 1)..Len(t) : t[i].from # p
      BY <1>1, <2>2
    <3> QED BY <3>1, <3>2 DEF LastIs
  <2> QED BY <1>3, <2>1, <2>2 DEF LastIs
<1> QED BY <1>2, <1>3 DEF t

\* The next event of p, or the first one that is sent to this subscriber.
LEMMA AppendNext ==
    ASSUME NEW s \in Seq(Event), NEW e \in Event, NEW p, NEW g \in Nat, NEW n \in Nat,
           e.from = p, Numbered(s), GapFree(s, p, g), LastIs(s, p, g, n),
           n = 0 \/ e.n = n + 1
    PROVE  GapFree(Append(s, e), p, g) /\ LastIs(Append(s, e), p, g, e.n)
<1> DEFINE t == Append(s, e)
<1>1. /\ t \in Seq(Event) /\ Len(t) = Len(s) + 1 /\ Len(s) \in Nat
      /\ \A k \in 1..Len(s) : t[k] = s[k]
      /\ t[Len(s) + 1] = e
  BY AppendAt
<1> HIDE DEF t
<1>2. LastIs(t, p, g, e.n)
  BY <1>1 DEF LastIs
<1>3. GapFree(t, p, g)
  <2> SUFFICES ASSUME NEW k \in 1..Len(t), t[k].from = p
               PROVE  \/ /\ \A i \in 1..(k - 1) : t[i].from # p
                         /\ g = 0 \/ t[k].n = g + 1
                      \/ \E j \in 1..(k - 1) :
                            /\ t[j].from = p /\ t[k].n = t[j].n + 1
                            /\ \A i \in (j + 1)..(k - 1) : t[i].from # p
    BY DEF GapFree
  <2>1. CASE k \in 1..Len(s)
    <3>1. t[k] = s[k] /\ \A i \in 1..(k - 1) : i \in 1..Len(s) /\ t[i] = s[i]
      BY <1>1, <2>1
    <3>2. \/ /\ \A i \in 1..(k - 1) : s[i].from # p
             /\ g = 0 \/ s[k].n = g + 1
          \/ \E j \in 1..(k - 1) :
                /\ s[j].from = p /\ s[k].n = s[j].n + 1
                /\ \A i \in (j + 1)..(k - 1) : s[i].from # p
      BY <2>1, <3>1 DEF GapFree
    <3> QED BY <3>1, <3>2, SMTT(30)
  <2>2. CASE k = Len(s) + 1
    <3>1. t[k] = e /\ \A i \in 1..(k - 1) : i \in 1..Len(s) /\ t[i] = s[i]
      BY <1>1, <2>2
    <3>2. CASE NoneOf(s, p) /\ n = g
      BY <1>1, <2>2, <3>1, <3>2 DEF NoneOf
    <3>3. ASSUME NEW a \in 1..Len(s), s[a].from = p, s[a].n = n,
                 \A i \in (a + 1)..Len(s) : s[i].from # p
          PROVE  \E j \in 1..(k - 1) :
                    /\ t[j].from = p /\ t[k].n = t[j].n + 1
                    /\ \A i \in (j + 1)..(k - 1) : t[i].from # p
      <4>1. n # 0
        BY <3>3 DEF Numbered
      <4>2. a \in 1..(k - 1) /\ t[a] = s[a] /\ t[k].n = t[a].n + 1
        BY <1>1, <2>2, <3>1, <3>3, <4>1
      <4>3. \A i \in (a + 1)..(k - 1) : t[i].from # p
        BY <1>1, <2>2, <3>3
      <4> QED BY <3>3, <4>2, <4>3
    <3>4. CASE \E a \in 1..Len(s) :
                  /\ s[a].from = p /\ s[a].n = n
                  /\ \A i \in (a + 1)..Len(s) : s[i].from # p
      <4>1. \E j \in 1..(k - 1) :
               /\ t[j].from = p /\ t[k].n = t[j].n + 1
               /\ \A i \in (j + 1)..(k - 1) : t[i].from # p
        BY <3>3, <3>4
      <4> QED BY <4>1
    <3> QED BY <3>2, <3>4 DEF LastIs
  <2> QED BY <1>1, <2>1, <2>2
<1> QED BY <1>2, <1>3 DEF t

\* The browser receives the oldest event.
LEMMA TailNext ==
    ASSUME NEW s \in Seq(Event), s # <<>>, NEW p, NEW g \in Nat, NEW n \in Nat, NEW h \in Nat,
           h = IF Head(s).from = p THEN Head(s).n ELSE g
    PROVE  /\ GapFree(s, p, g) => GapFree(Tail(s), p, h)
           /\ LastIs(s, p, g, n) => LastIs(Tail(s), p, h, n)
<1> DEFINE t == Tail(s)
<1>1. /\ t \in Seq(Event) /\ Len(t) = Len(s) - 1 /\ Len(s) \in Nat /\ Len(s) > 0
      /\ \A k \in 1..(Len(s) - 1) : t[k] = s[k + 1]
      /\ Head(s) = s[1]
  BY TailAt
<1> HIDE DEF t
<1>2. ASSUME GapFree(s, p, g) PROVE GapFree(t, p, h)
  <2> SUFFICES ASSUME NEW k \in 1..Len(t), t[k].from = p
               PROVE  \/ /\ \A i \in 1..(k - 1) : t[i].from # p
                         /\ h = 0 \/ t[k].n = h + 1
                      \/ \E j \in 1..(k - 1) :
                            /\ t[j].from = p /\ t[k].n = t[j].n + 1
                            /\ \A i \in (j + 1)..(k - 1) : t[i].from # p
    BY DEF GapFree
  <2> DEFINE m == k + 1
  <2>1. /\ m \in 1..Len(s) /\ t[k] = s[m]
        /\ \A i \in 1..(k - 1) : i + 1 \in 1..Len(s) /\ t[i] = s[i + 1]
    <3>1. m \in 1..Len(s) /\ \A i \in 1..(k - 1) : i \in 1..Len(t) /\ i + 1 \in 1..Len(s)
      BY <1>1
    <3> QED BY <1>1, <3>1
  <2>2. \/ /\ \A i \in 1..(m - 1) : s[i].from # p
           /\ g = 0 \/ s[m].n = g + 1
        \/ \E j \in 1..(m - 1) :
              /\ s[j].from = p /\ s[m].n = s[j].n + 1
              /\ \A i \in (j + 1)..(m - 1) : s[i].from # p
    BY <1>2, <2>1 DEF GapFree
  <2>3. CASE /\ \A i \in 1..(m - 1) : s[i].from # p
             /\ g = 0 \/ s[m].n = g + 1
    <3>1. Head(s).from # p /\ h = g
      BY <1>1, <2>1, <2>3
    <3>2. ASSUME NEW i \in 1..(k - 1) PROVE t[i].from # p
      <4>1. t[i] = s[i + 1] /\ i + 1 \in 1..(m - 1)
        BY <2>1
      <4> QED BY <2>3, <4>1
    <3> QED BY <2>1, <2>3, <3>1, <3>2
  <2>4. ASSUME NEW j \in 1..(m - 1), s[j].from = p, s[m].n = s[j].n + 1,
               \A i \in (j + 1)..(m - 1) : s[i].from # p
        PROVE  \/ /\ \A i \in 1..(k - 1) : t[i].from # p
                  /\ h = 0 \/ t[k].n = h + 1
               \/ \E i \in 1..(k - 1) :
                     /\ t[i].from = p /\ t[k].n = t[i].n + 1
                     /\ \A l \in (i + 1)..(k - 1) : t[l].from # p
    <3>1. CASE j = 1
      <4>1. h = s[1].n
        BY <1>1, <2>4, <3>1
      <4>2. ASSUME NEW i \in 1..(k - 1) PROVE t[i].from # p
        <5>1. t[i] = s[i + 1] /\ i + 1 \in (j + 1)..(m - 1)
          BY <2>1, <3>1
        <5> QED BY <2>4, <5>1
      <4> QED BY <2>1, <2>4, <3>1, <4>1, <4>2
    <3>2. CASE j # 1
      <4>1. j - 1 \in 1..(k - 1) /\ t[j - 1] = s[j]
        BY <2>1, <3>2
      <4>2. ASSUME NEW l \in ((j - 1) + 1)..(k - 1) PROVE t[l].from # p
        <5>1. l \in 1..(k - 1) /\ l + 1 \in (j + 1)..(m - 1)
          OBVIOUS
        <5>2. t[l] = s[l + 1]
          BY <2>1, <5>1
        <5> QED BY <2>4, <5>1, <5>2
      <4> QED BY <2>1, <2>4, <4>1, <4>2
    <3> QED BY <3>1, <3>2
  <2> QED BY <2>2, <2>3, <2>4
<1>3. ASSUME LastIs(s, p, g, n) PROVE LastIs(t, p, h, n)
  <2>1. CASE NoneOf(s, p) /\ n = g
    <3>1. NoneOf(t, p) /\ h = g
      BY <1>1, <2>1 DEF NoneOf
    <3> QED BY <2>1, <3>1 DEF LastIs
  <2>2. ASSUME NEW j \in 1..Len(s), s[j].from = p, s[j].n = n,
               \A i \in (j + 1)..Len(s) : s[i].from # p
        PROVE  LastIs(t, p, h, n)
    <3>1. CASE j = 1
      <4>1. NoneOf(t, p)
        BY <1>1, <2>2, <3>1 DEF NoneOf
      <4>2. h = n
        BY <1>1, <2>2, <3>1
      <4> QED BY <4>1, <4>2 DEF LastIs
    <3>2. CASE j # 1
      <4>1. j - 1 \in 1..Len(t) /\ t[j - 1] = s[j]
        BY <1>1, <3>2
      <4>2. ASSUME NEW i \in ((j - 1) + 1)..Len(t) PROVE t[i].from # p
        <5>1. i \in 1..Len(t) /\ i + 1 \in (j + 1)..Len(s)
          BY <1>1, <4>1
        <5>2. t[i] = s[i + 1]
          BY <1>1, <5>1
        <5> QED BY <2>2, <5>1, <5>2
      <4> QED BY <2>2, <4>1, <4>2 DEF LastIs
    <3> QED BY <3>1, <3>2
  <2> QED BY <1>3, <2>1, <2>2 DEF LastIs
<1> QED BY <1>2, <1>3 DEF t

------------------------------------------------------------------------------
(* NoGaps: from the channel over the handler's hand to the wire *)

LEMMA Chain ==
    ASSUME NEW w \in Seq(Event), NEW h \in Seq(Event), NEW b \in Seq(Event)
    PROVE  /\ w \o h \o b \in Seq(Event)
           /\ Len(w \o h \o b) = Len(w) + Len(h) + Len(b)
           /\ Len(w) \in Nat /\ Len(h) \in Nat /\ Len(b) \in Nat
           /\ \A k \in 1..(Len(w) + Len(h) + Len(b)) : (w \o h \o b)[k] =
                 IF k <= Len(w) THEN w[k]
                 ELSE IF k <= Len(w) + Len(h) THEN h[k - Len(w)]
                 ELSE b[k - Len(w) - Len(h)]
<1> DEFINE v == w \o h
<1>1. /\ Len(w) \in Nat /\ Len(h) \in Nat /\ Len(b) \in Nat
      /\ v \in Seq(Event) /\ Len(v) = Len(w) + Len(h)
      /\ \A k \in 1..(Len(w) + Len(h)) : v[k] = IF k <= Len(w) THEN w[k] ELSE h[k - Len(w)]
  BY ConcatProperties, LenProperties
<1> HIDE DEF v
<1>2. /\ v \o b \in Seq(Event) /\ Len(v \o b) = Len(v) + Len(b)
      /\ \A k \in 1..(Len(v) + Len(b)) : (v \o b)[k] = IF k <= Len(v) THEN v[k] ELSE b[k - Len(v)]
  <2>1. v \in Seq(Event)
    BY <1>1
  <2> QED BY <2>1, ConcatProperties
<1>3. \A k \in 1..(Len(w) + Len(h) + Len(b)) : (v \o b)[k] =
         IF k <= Len(w) THEN w[k]
         ELSE IF k <= Len(w) + Len(h) THEN h[k - Len(w)]
         ELSE b[k - Len(w) - Len(h)]
  <2> SUFFICES ASSUME NEW k \in 1..(Len(w) + Len(h) + Len(b))
               PROVE  (v \o b)[k] = IF k <= Len(w) THEN w[k]
                                    ELSE IF k <= Len(w) + Len(h) THEN h[k - Len(w)]
                                    ELSE b[k - Len(w) - Len(h)]
    OBVIOUS
  <2>1. CASE k <= Len(w) + Len(h)
    BY <1>1, <1>2, <2>1
  <2>2. CASE ~(k <= Len(w) + Len(h))
    <3>1. k - Len(v) = k - Len(w) - Len(h)
      BY <1>1
    <3> QED BY <1>1, <1>2, <2>2, <3>1
  <2> QED BY <2>1, <2>2
<1> QED BY <1>1, <1>2, <1>3 DEF v
\* trySend: the event is the newest of all.
LEMMA ChainSend ==
    ASSUME NEW w \in Seq(Event), NEW h \in Seq(Event), NEW b \in Seq(Event), NEW e \in Event
    PROVE  w \o h \o Append(b, e) = Append(w \o h \o b, e)
<1> DEFINE bb == Append(b, e)
           s == w \o h \o bb
           v == w \o h \o b
           t == Append(v, e)
<1>1. /\ bb \in Seq(Event) /\ Len(bb) = Len(b) + 1 /\ bb[Len(b) + 1] = e
      /\ \A k \in 1..Len(b) : bb[k] = b[k]
  BY AppendAt
<1> HIDE DEF bb
<1>2. /\ s \in Seq(Event) /\ Len(s) = Len(w) + Len(h) + Len(bb)
      /\ \A k \in 1..(Len(w) + Len(h) + Len(bb)) : s[k] =
            IF k <= Len(w) THEN w[k]
            ELSE IF k <= Len(w) + Len(h) THEN h[k - Len(w)]
            ELSE bb[k - Len(w) - Len(h)]
  BY <1>1, Chain, ZenonT(40)
<1>3. /\ v \in Seq(Event) /\ Len(v) = Len(w) + Len(h) + Len(b)
      /\ Len(w) \in Nat /\ Len(h) \in Nat /\ Len(b) \in Nat
      /\ \A k \in 1..(Len(w) + Len(h) + Len(b)) : v[k] =
            IF k <= Len(w) THEN w[k]
            ELSE IF k <= Len(w) + Len(h) THEN h[k - Len(w)]
            ELSE b[k - Len(w) - Len(h)]
  BY Chain
<1> HIDE DEF s, v
<1>4. /\ t \in Seq(Event) /\ Len(t) = Len(v) + 1 /\ t[Len(v) + 1] = e
      /\ \A k \in 1..Len(v) : t[k] = v[k]
  BY <1>3, AppendAt
<1> HIDE DEF t
<1>5. Len(s) = Len(t)
  BY <1>1, <1>2, <1>3, <1>4
<1>6. ASSUME NEW k \in 1..Len(s) PROVE s[k] = t[k]
  <2>1. CASE k \in 1..Len(v)
    <3>1. t[k] = v[k]
      BY <1>4, <2>1
    <3>2. s[k] = v[k]
      <4>1. v[k] = IF k <= Len(w) THEN w[k]
                   ELSE IF k <= Len(w) + Len(h) THEN h[k - Len(w)]
                   ELSE b[k - Len(w) - Len(h)]
        BY <1>3, <2>1
      <4>2. s[k] = IF k <= Len(w) THEN w[k]
                   ELSE IF k <= Len(w) + Len(h) THEN h[k - Len(w)]
                   ELSE bb[k - Len(w) - Len(h)]
        BY <1>2
      <4>3. ~(k <= Len(w) + Len(h)) => k - Len(w) - Len(h) \in 1..Len(b)
        BY <1>3, <2>1
      <4>4. ~(k <= Len(w) + Len(h)) => bb[k - Len(w) - Len(h)] = b[k - Len(w) - Len(h)]
        BY <1>1, <4>3
      <4> QED BY <4>1, <4>2, <4>4
    <3> QED BY <3>1, <3>2
  <2>2. CASE k = Len(v) + 1
    <3>1. t[k] = e
      BY <1>4, <2>2
    <3>2. k - Len(w) - Len(h) = Len(b) + 1 /\ ~(k <= Len(w)) /\ ~(k <= Len(w) + Len(h))
      BY <1>3, <2>2
    <3>3. s[k] = bb[k - Len(w) - Len(h)]
      BY <1>1, <1>2, <1>3, <3>2
    <3> QED BY <1>1, <3>1, <3>2, <3>3
  <2> QED BY <1>1, <1>2, <1>3, <2>1, <2>2
<1>7. s = t
  BY <1>2, <1>4, <1>5, <1>6, SeqEqual
<1> QED BY <1>7 DEF s, t, v, bb

\* ReceiveEvent: the oldest event of the channel is in the handler's hand.
LEMMA ChainReceive ==
    ASSUME NEW w \in Seq(Event), NEW b \in Seq(Event), b # <<>>
    PROVE  w \o <<Head(b)>> \o Tail(b) = w \o <<>> \o b
<1> DEFINE h == <<Head(b)>>
           bb == Tail(b)
           none == <<>>
           s == w \o h \o bb
           t == w \o none \o b
<1>1. /\ bb \in Seq(Event) /\ Len(bb) = Len(b) - 1 /\ Len(b) \in Nat /\ Len(b) > 0
      /\ Head(b) = b[1] /\ Head(b) \in Event
      /\ \A k \in 1..(Len(b) - 1) : bb[k] = b[k + 1]
  BY TailAt
<1>2. /\ h \in Seq(Event) /\ Len(h) = 1 /\ h[1] = b[1]
      /\ none \in Seq(Event) /\ Len(none) = 0
  BY <1>1
<1> HIDE DEF h, bb, none
<1>3. /\ s \in Seq(Event) /\ Len(s) = Len(w) + Len(h) + Len(bb)
      /\ \A k \in 1..(Len(w) + Len(h) + Len(bb)) : s[k] =
            IF k <= Len(w) THEN w[k]
            ELSE IF k <= Len(w) + Len(h) THEN h[k - Len(w)]
            ELSE bb[k - Len(w) - Len(h)]
  BY <1>1, <1>2, Chain, ZenonT(40)
<1>4. /\ t \in Seq(Event) /\ Len(t) = Len(w) + Len(none) + Len(b) /\ Len(w) \in Nat
      /\ \A k \in 1..(Len(w) + Len(none) + Len(b)) : t[k] =
            IF k <= Len(w) THEN w[k]
            ELSE IF k <= Len(w) + Len(none) THEN none[k - Len(w)]
            ELSE b[k - Len(w) - Len(none)]
  BY <1>2, Chain
<1> HIDE DEF s, t
<1>5. Len(s) = Len(t)
  BY <1>1, <1>2, <1>3, <1>4
<1>6. ASSUME NEW k \in 1..Len(s) PROVE s[k] = t[k]
  <2>1. k \in 1..(Len(w) + Len(b)) /\ k \in Nat
    BY <1>1, <1>2, <1>3, <1>4
  <2>2. t[k] = IF k <= Len(w) THEN w[k] ELSE b[k - Len(w)]
    <3>1. k - Len(w) - Len(none) = k - Len(w)
      BY <1>2, <1>4, <2>1
    <3>2. t[k] = IF k <= Len(w) THEN w[k]
                 ELSE IF k <= Len(w) + Len(none) THEN none[k - Len(w)]
                 ELSE b[k - Len(w) - Len(none)]
      BY <1>4, <1>5
    <3>3. k <= Len(w) + Len(none) <=> k <= Len(w)
      BY <1>2, <1>4, <2>1
    <3> QED BY <3>1, <3>2, <3>3
  <2>3. CASE k <= Len(w)
    BY <1>1, <1>2, <1>3, <1>4, <2>1, <2>2, <2>3
  <2>4. CASE k = Len(w) + 1
    <3>1. k - Len(w) = 1 /\ ~(k <= Len(w)) /\ k <= Len(w) + Len(h)
      BY <1>2, <1>4, <2>4
    <3>2. s[k] = h[k - Len(w)]
      BY <1>1, <1>2, <1>3, <1>4, <2>1, <3>1
    <3> QED BY <1>2, <2>2, <3>1, <3>2
  <2>5. CASE k > Len(w) + 1
    <3>1. k - Len(w) - Len(h) \in 1..(Len(b) - 1) /\ (k - Len(w) - Len(h)) + 1 = k - Len(w)
      BY <1>1, <1>2, <1>4, <2>1, <2>5
    <3>2. s[k] = bb[k - Len(w) - Len(h)]
      BY <1>1, <1>2, <1>3, <1>4, <2>1, <2>5
    <3>3. bb[k - Len(w) - Len(h)] = b[(k - Len(w) - Len(h)) + 1]
      BY <1>1, <3>1
    <3>4. t[k] = b[k - Len(w)]
      BY <1>4, <2>1, <2>2, <2>5
    <3> QED BY <3>1, <3>2, <3>3, <3>4
  <2> QED BY <1>4, <2>1, <2>3, <2>4, <2>5
<1>7. s = t
  BY <1>3, <1>4, <1>5, <1>6, SeqEqual
<1> QED BY <1>7 DEF s, t, h, bb, none

\* writeEvent: the hand is empty again, and the wire longer.
LEMMA ChainWrite ==
    ASSUME NEW w \in Seq(Event), NEW b \in Seq(Event), NEW x \in Event
    PROVE  Append(w, x) \o <<>> \o b = w \o <<x>> \o b
<1>1. Append(w, x) \in Seq(Event) /\ <<x>> \in Seq(Event)
  BY AppendAt
<1>2. Append(w, x) \o <<>> = Append(w, x)
  BY <1>1, ConcatEmptySeq
<1>3. Append(w, x) = w \o <<x>>
  BY AppendIsConcat
<1> QED BY <1>2, <1>3

\* onMessage: the oldest event of the wire is the oldest of all.
LEMMA ChainTail ==
    ASSUME NEW w \in Seq(Event), NEW h \in Seq(Event), NEW b \in Seq(Event), w # <<>>
    PROVE  /\ w \o h \o b # <<>> /\ Head(w \o h \o b) = Head(w)
           /\ Tail(w) \o h \o b = Tail(w \o h \o b)
<1> DEFINE ww == Tail(w)
           s == ww \o h \o b
           v == w \o h \o b
           t == Tail(v)
<1>1. /\ ww \in Seq(Event) /\ Len(ww) = Len(w) - 1 /\ Len(w) \in Nat /\ Len(w) > 0
      /\ Head(w) = w[1]
      /\ \A k \in 1..(Len(w) - 1) : ww[k] = w[k + 1]
  BY TailAt
<1> HIDE DEF ww
<1>2. /\ s \in Seq(Event) /\ Len(s) = Len(ww) + Len(h) + Len(b)
      /\ \A k \in 1..(Len(ww) + Len(h) + Len(b)) : s[k] =
            IF k <= Len(ww) THEN ww[k]
            ELSE IF k <= Len(ww) + Len(h) THEN h[k - Len(ww)]
            ELSE b[k - Len(ww) - Len(h)]
  BY <1>1, Chain, ZenonT(40)
<1>3. /\ v \in Seq(Event) /\ Len(v) = Len(w) + Len(h) + Len(b)
      /\ Len(h) \in Nat /\ Len(b) \in Nat
      /\ \A k \in 1..(Len(w) + Len(h) + Len(b)) : v[k] =
            IF k <= Len(w) THEN w[k]
            ELSE IF k <= Len(w) + Len(h) THEN h[k - Len(w)]
            ELSE b[k - Len(w) - Len(h)]
  BY Chain
<1> HIDE DEF s, v
<1>4. v # <<>> /\ v[1] = w[1]
  BY <1>1, <1>3
<1>5. /\ t \in Seq(Event) /\ Len(t) = Len(v) - 1 /\ Head(v) = v[1]
      /\ \A k \in 1..(Len(v) - 1) : t[k] = v[k + 1]
  BY <1>3, <1>4, TailAt
<1> HIDE DEF t
<1>6. Len(s) = Len(t)
  BY <1>1, <1>2, <1>3, <1>5
<1>7. ASSUME NEW k \in 1..Len(s) PROVE s[k] = t[k]
  <2>1. k \in Nat /\ k + 1 \in 1..(Len(w) + Len(h) + Len(b)) /\ t[k] = v[k + 1]
    BY <1>1, <1>2, <1>3, <1>5
  <2>2. k <= Len(ww) <=> k + 1 <= Len(w)
    BY <1>1, <2>1
  <2>3. k <= Len(ww) + Len(h) <=> k + 1 <= Len(w) + Len(h)
    BY <1>1, <1>3, <2>1
  <2>4. k - Len(ww) = (k + 1) - Len(w) /\ k - Len(ww) - Len(h) = (k + 1) - Len(w) - Len(h)
    BY <1>1, <1>3, <2>1
  <2>5. k <= Len(ww) => ww[k] = w[k + 1]
    BY <1>1, <2>1, <2>2
  <2>6. s[k] = IF k <= Len(ww) THEN ww[k]
               ELSE IF k <= Len(ww) + Len(h) THEN h[k - Len(ww)]
               ELSE b[k - Len(ww) - Len(h)]
    BY <1>2
  <2>7. v[k + 1] = IF k + 1 <= Len(w) THEN w[k + 1]
                   ELSE IF k + 1 <= Len(w) + Len(h) THEN h[(k + 1) - Len(w)]
                   ELSE b[(k + 1) - Len(w) - Len(h)]
    BY <1>3, <2>1
  <2> QED BY <2>1, <2>2, <2>3, <2>4, <2>5, <2>6, <2>7
<1>8. s = t
  BY <1>2, <1>5, <1>6, <1>7, SeqEqual
<1> QED BY <1>1, <1>4, <1>5, <1>8 DEF s, t, v, ww
------------------------------------------------------------------------------
(* NoGaps: the inductive invariant *)

\* A handler's channel is registered until it is closed, and its connection is not
\* closed by anybody else while the dialog is open.
HandlerInv(c) ==
    /\ srv[c].pc \in {"loop", "write"} /\ closes[c] = 0 => c \in subs
    /\ srv[c].pc = "ended" => c \notin subs /\ closes[c] > 0
    /\ open[c] /\ srv[c].pc # "ended" => link[c] # "closed"
    /\ srv[c].pc = "none" =>
          buf[c] = <<>> /\ wire[c] = <<>> /\ \A p \in Publishers : got[c][p] = 0

\* p has still to send its event to c, or to cut c off.
Waits(p, c) == c \in pub[p].todo \/ c \in pub[p].drop

PubInv(p) ==
    /\ ~Returned(p) => pub[p].n > 0
    /\ \A c, d \in pub[p].drop : c = d
    /\ \A c \in Clients : Waits(p, c) => srv[c].pc # "none"

\* The number of the last event that a subscriber was sent, if any.
Due(p, c) == IF Waits(p, c) THEN pub[p].n - 1 ELSE pub[p].n

SentInv(c, p) ==
    link[c] # "broken" /\ open[c] =>
        /\ Numbered(InFlight(c))
        /\ GapFree(InFlight(c), p, got[c][p])
        /\ closes[c] = 0 =>
              \/ LastIs(InFlight(c), p, got[c][p], 0)
              \/ LastIs(InFlight(c), p, got[c][p], Due(p, c))

StreamInv ==
    /\ \A c \in Clients : HandlerInv(c)
    /\ \A p \in Publishers : PubInv(p)
    /\ row = "queued" => Returned(Runner)
    /\ \A c \in Clients, p \in Publishers : SentInv(c, p)

LEMMA InFlightParts ==
    ASSUME TypeOK, NEW c \in Clients
    PROVE  LET h == IF srv[c].pc = "write" THEN <<srv[c].hand>> ELSE <<>>
           IN  /\ wire[c] \in Seq(Event) /\ h \in Seq(Event) /\ buf[c] \in Seq(Event)
               /\ InFlight(c) = wire[c] \o h \o buf[c]
               /\ InFlight(c) \in Seq(Event)
<1>1. wire[c] \in Seq(Event) /\ buf[c] \in Seq(Event) /\ srv[c].hand \in Event
  BY DEF TypeOK
<1> DEFINE h == IF srv[c].pc = "write" THEN <<srv[c].hand>> ELSE <<>>
<1>2. h \in Seq(Event)
  BY <1>1
<1>3. InFlight(c) = wire[c] \o h \o buf[c]
  BY DEF InFlight
<1> HIDE DEF h
<1>4. wire[c] \o h \o buf[c] \in Seq(Event)
  BY <1>1, <1>2, Chain
<1> QED BY <1>1, <1>2, <1>3, <1>4 DEF h

\* Nothing was sent to a client that has not subscribed.
LEMMA NothingSent ==
    ASSUME TypeOK, NEW c \in Clients, HandlerInv(c), srv[c].pc = "none", NEW p \in Publishers
    PROVE  LastIs(InFlight(c), p, got[c][p], 0)
<1>1. InFlight(c) = <<>> \o <<>> \o <<>>
  BY DEF HandlerInv, InFlight
<1>2. Len(InFlight(c)) = 0
  <2>1. <<>> \in Seq(Event) /\ Len(<<>>) = 0
    OBVIOUS
  <2>2. Len(<<>> \o <<>> \o <<>>) = Len(<<>>) + Len(<<>>) + Len(<<>>)
    BY <2>1, Chain
  <2> QED BY <1>1, <2>1, <2>2
<1>3. got[c][p] = 0
  BY DEF HandlerInv
<1> QED BY <1>2, <1>3 DEF LastIs, NoneOf

\* A step after which the same is on its way.
LEMMA SentKept ==
    ASSUME NEW c \in Clients, NEW p \in Publishers, SentInv(c, p),
           InFlight(c)' = InFlight(c), got'[c][p] = got[c][p],
           link'[c] # "broken" /\ open'[c] => link[c] # "broken" /\ open[c],
           closes'[c] = 0 =>
              /\ closes[c] = 0
              /\ Due(p, c)' = Due(p, c) \/ LastIs(InFlight(c), p, got[c][p], 0)
    PROVE  SentInv(c, p)'
BY DEF SentInv

\* Publish: a new event waits for every registered subscriber.
LEMMA PublishSent ==
    ASSUME TypeOK, HubInv, StreamInv, NEW p \in Publishers, Publish(p), Returned(p),
           row' # "queued", UNCHANGED <<hub, srv, link, wire, dialog, got, breaks>>
    PROVE  StreamInv'
<1>1. pub[p] \in PubType /\ pub[p].n \in Nat
  BY DEF TypeOK, PubType
<1>2. /\ pub'[p] = [n |-> pub[p].n + 1, todo |-> subs, drop |-> {}]
      /\ \A q \in Publishers : q # p => pub'[q] = pub[q]
  BY DEF Publish, TypeOK
<1>3. pub'[p].n = pub[p].n + 1 /\ pub'[p].todo = subs /\ pub'[p].drop = {}
  BY <1>2
<1>4. UNCHANGED <<subs, buf, closes, srv, link, wire, open, got>>
  BY DEF hub, dialog
<1>5. ASSUME NEW c \in Clients PROVE HandlerInv(c)'
  BY <1>4 DEF StreamInv, HandlerInv
<1>6. ASSUME NEW q \in Publishers PROVE PubInv(q)'
  <2>1. CASE q = p
    <3>1. \A c \in Clients : Waits(p, c)' => c \in subs
      BY <1>3 DEF Waits
    <3>2. \A c \in Clients : c \in subs => srv'[c].pc # "none"
      BY <1>4 DEF HubInv
    <3> QED BY <1>1, <1>3, <2>1, <3>1, <3>2 DEF PubInv
  <2>2. CASE q # p
    BY <1>2, <1>4, <2>2 DEF StreamInv, PubInv, Waits, Returned
  <2> QED BY <2>1, <2>2
<1>7. ASSUME NEW c \in Clients, NEW q \in Publishers PROVE SentInv(c, q)'
  <2>1. InFlight(c)' = InFlight(c)
    BY <1>4 DEF InFlight
  <2>2. CASE q # p
    <3>1. Due(q, c)' = Due(q, c)
      BY <1>2, <2>2 DEF Due, Waits
    <3> QED BY <1>4, <2>1, <3>1, SentKept DEF StreamInv
  <2>3. CASE q = p /\ srv[c].pc = "none"
    <3>1. LastIs(InFlight(c), q, got[c][q], 0)
      BY <2>3, NothingSent DEF StreamInv
    <3> QED BY <1>4, <2>1, <3>1, SentKept DEF StreamInv
  <2>4. CASE q = p /\ srv[c].pc # "none"
    <3>1. ASSUME closes[c] = 0 PROVE Due(p, c)' = Due(p, c)
      <4>1. c \in subs
        <5>1. srv[c].pc \in {"loop", "write", "ended"}
          BY <2>4 DEF TypeOK
        <5> QED BY <3>1, <5>1 DEF StreamInv, HandlerInv
      <4>2. Waits(p, c)' /\ ~Waits(p, c)
        BY <1>3, <4>1 DEF Waits, Returned
      <4> QED BY <1>1, <1>3, <4>2 DEF Due
    <3> QED BY <1>4, <2>1, <2>4, <3>1, SentKept DEF StreamInv
  <2> QED BY <2>2, <2>3, <2>4
<1> QED BY <1>5, <1>6, <1>7 DEF StreamInv

\* trySend: the event that waited is the newest one on its way, or the subscriber is
\* to be cut off.
LEMMA TrySendSent ==
    ASSUME TypeOK, HubInv, StreamInv, NEW p \in Publishers, NEW c \in Clients, trySend(p, c)
    PROVE  StreamInv'
<1> DEFINE ev == [from |-> p, n |-> pub[p].n]
           fits == closes[c] = 0 /\ Len(buf[c]) < BufferSize
<1>1. /\ c \in pub[p].todo /\ pub[p].drop = {}
      /\ UNCHANGED <<row, subs, closes, srv, link, wire, open, got>>
  BY DEF trySend, dialog
<1>2. pub[p] \in PubType /\ pub[p].n \in Nat /\ pub[p].n > 0 /\ Waits(p, c)
  <2>1. pub[p] \in PubType /\ pub[p].n \in Nat
    BY DEF TypeOK, PubType
  <2> QED BY <1>1, <2>1 DEF StreamInv, PubInv, Returned, Waits
<1>3. /\ pub'[p].n = pub[p].n /\ pub'[p].todo = pub[p].todo \ {c}
      /\ pub'[p].drop = IF fits THEN {} ELSE {c}
      /\ \A q \in Publishers : q # p => pub'[q] = pub[q]
  <2>1. CASE fits
    <3>1. pub' = [pub EXCEPT ![p] = [pub[p] EXCEPT !.todo = pub[p].todo \ {c}]]
      BY <2>1 DEF trySend
    <3> QED BY <1>1, <1>2, <2>1, <3>1 DEF TypeOK, PubType
  <2>2. CASE ~fits
    <3>1. pub' = [pub EXCEPT ![p] = [pub[p] EXCEPT !.todo = pub[p].todo \ {c}, !.drop = {c}]]
      BY <2>2 DEF trySend
    <3> QED BY <1>1, <1>2, <2>2, <3>1 DEF TypeOK, PubType
  <2> QED BY <2>1, <2>2
<1>4. /\ \A d \in Clients : d # c => buf'[d] = buf[d]
      /\ buf'[c] = IF fits THEN Append(buf[c], ev) ELSE buf[c]
  BY DEF trySend, TypeOK
<1> HIDE DEF fits
<1>5. srv[c].pc # "none"
  BY <1>2 DEF StreamInv, PubInv
<1>6. ASSUME NEW d \in Clients PROVE HandlerInv(d)'
  BY <1>1, <1>4, <1>5 DEF StreamInv, HandlerInv
<1>7. \A q \in Publishers, d \in Clients : <<q, d>> # <<p, c>> => (Waits(q, d)' <=> Waits(q, d))
  BY <1>1, <1>3 DEF Waits
<1>8. ASSUME NEW q \in Publishers PROVE PubInv(q)'
  <2>1. \A d \in Clients : Waits(q, d)' => srv'[d].pc # "none"
    BY <1>1, <1>5, <1>7 DEF StreamInv, PubInv
  <2>2. CASE q = p
    BY <1>2, <1>3, <2>1, <2>2 DEF PubInv
  <2>3. CASE q # p
    BY <1>3, <2>1, <2>3 DEF StreamInv, PubInv, Returned
  <2> QED BY <2>2, <2>3
<1>9. row' = "queued" => Returned(Runner)'
  <2>1. row = "queued" => p # Runner
    BY <1>1 DEF StreamInv, Returned
  <2>2. Runner \in Publishers
    BY DEF Publishers
  <2> QED BY <1>1, <1>3, <2>1, <2>2 DEF StreamInv, Returned
<1>10. ASSUME NEW d \in Clients, NEW q \in Publishers, d # c PROVE SentInv(d, q)'
  <2>1. InFlight(d)' = InFlight(d)
    BY <1>1, <1>4, <1>10 DEF InFlight
  <2>2. Due(q, d)' = Due(q, d)
    <3>1. Waits(q, d)' <=> Waits(q, d)
      BY <1>7, <1>10
    <3>2. pub'[q].n = pub[q].n
      BY <1>3
    <3> QED BY <3>1, <3>2 DEF Due
  <2> QED BY <1>1, <2>1, <2>2, SentKept DEF StreamInv
<1>11. ASSUME NEW q \in Publishers, ~fits PROVE SentInv(c, q)'
  <2>1. InFlight(c)' = InFlight(c)
    BY <1>1, <1>4, <1>11 DEF InFlight
  <2>2. Due(q, c)' = Due(q, c)
    <3>1. Waits(q, c)' <=> Waits(q, c)
      BY <1>2, <1>3, <1>7, <1>11 DEF Waits
    <3>2. pub'[q].n = pub[q].n
      BY <1>3
    <3> QED BY <3>1, <3>2 DEF Due
  <2> QED BY <1>1, <2>1, <2>2, SentKept DEF StreamInv
<1>12. ASSUME NEW q \in Publishers, fits PROVE SentInv(c, q)'
  <2> DEFINE s == InFlight(c)
             g == got[c][q]
  <2>1. ev \in Event /\ ev.from = p /\ ev.n = pub[p].n
    BY <1>2, EventType
  <2> HIDE DEF ev
  <2>2. InFlight(c)' = Append(s, ev) /\ s \in Seq(Event)
    <3> DEFINE h == IF srv[c].pc = "write" THEN <<srv[c].hand>> ELSE <<>>
    <3>1. /\ wire[c] \in Seq(Event) /\ h \in Seq(Event) /\ buf[c] \in Seq(Event)
          /\ s = wire[c] \o h \o buf[c] /\ s \in Seq(Event)
      BY InFlightParts
    <3>2. InFlight(c)' = wire[c] \o h \o Append(buf[c], ev)
      BY <1>1, <1>4, <1>12 DEF InFlight
    <3> HIDE DEF h
    <3>3. wire[c] \o h \o Append(buf[c], ev) = Append(wire[c] \o h \o buf[c], ev)
      BY <2>1, <3>1, ChainSend, ZenonT(40)
    <3> QED BY <3>1, <3>2, <3>3
  <2> SUFFICES ASSUME link[c] # "broken", open[c]
               PROVE  /\ Numbered(Append(s, ev))
                      /\ GapFree(Append(s, ev), q, g)
                      /\ \/ LastIs(Append(s, ev), q, g, 0)
                         \/ LastIs(Append(s, ev), q, g, Due(q, c)')
    BY <1>1, <2>2 DEF SentInv
  <2>3. /\ Numbered(s) /\ GapFree(s, q, g) /\ g \in Nat
        /\ LastIs(s, q, g, 0) \/ LastIs(s, q, g, Due(q, c))
    BY <1>12 DEF StreamInv, SentInv, fits, TypeOK
  <2> HIDE DEF s, g
  <2>4. Numbered(Append(s, ev))
    BY <1>2, <2>1, <2>2, <2>3, AppendAt DEF Numbered
  <2>5. CASE q = p
    <3>1. Due(q, c) = pub[p].n - 1 /\ pub[p].n - 1 \in Nat
      BY <1>2, <2>5 DEF Due
    <3>2. Due(q, c)' = pub[p].n
      BY <1>3, <1>12, <2>5 DEF Due, Waits
    <3>3. PICK n \in Nat : LastIs(s, q, g, n) /\ (n = 0 \/ ev.n = n + 1)
      BY <1>2, <2>1, <2>3, <3>1
    <3>4. GapFree(Append(s, ev), q, g) /\ LastIs(Append(s, ev), q, g, ev.n)
      BY <2>1, <2>2, <2>3, <2>5, <3>3, AppendNext
    <3> QED BY <2>1, <2>4, <3>2, <3>4
  <2>6. CASE q # p
    <3>1. Due(q, c)' = Due(q, c) /\ Due(q, c) \in Nat
      <4>1. pub'[q] = pub[q] /\ pub[q].n \in Nat
        BY <1>3, <2>6 DEF TypeOK
      <4>2. Waits(q, c) => pub[q].n > 0
        BY DEF StreamInv, PubInv, Waits, Returned
      <4> QED BY <4>1, <4>2 DEF Due, Waits
    <3>2. PICK n \in {0, Due(q, c)} : LastIs(s, q, g, n)
      BY <2>3
    <3>3. GapFree(Append(s, ev), q, g) /\ LastIs(Append(s, ev), q, g, n)
      BY <2>1, <2>2, <2>3, <2>6, <3>1, <3>2, AppendOther
    <3> QED BY <2>4, <3>1, <3>2, <3>3
  <2> QED BY <2>5, <2>6
<1>13. ASSUME NEW d \in Clients, NEW q \in Publishers PROVE SentInv(d, q)'
  BY <1>10, <1>11, <1>12
<1> QED BY <1>6, <1>8, <1>9, <1>13 DEF StreamInv
\* unsubscribe, for the publisher that found the channel full or closed.
LEMMA DropSent ==
    ASSUME TypeOK, HubInv, StreamInv, NEW p \in Publishers, NEW c \in Clients, DropSubscriber(p, c)
    PROVE  StreamInv'
<1>1. /\ c \in pub[p].drop /\ unsubscribe(c)
      /\ UNCHANGED <<row, buf, srv, link, wire, open, got>>
  BY DEF DropSubscriber, dialog
<1>2. pub[p] \in PubType /\ srv[c].pc # "none"
  BY <1>1 DEF TypeOK, PubType, StreamInv, PubInv, Waits
<1>3. /\ pub'[p].n = pub[p].n /\ pub'[p].todo = pub[p].todo /\ pub'[p].drop = {}
      /\ \A q \in Publishers : q # p => pub'[q] = pub[q]
  <2>1. pub' = [pub EXCEPT ![p] = [pub[p] EXCEPT !.drop = {}]]
    BY DEF DropSubscriber
  <2> QED BY <1>2, <2>1 DEF TypeOK, PubType
<1>4. pub[p].drop = {c}
  BY <1>1 DEF StreamInv, PubInv
<1>5. /\ closes'[c] > 0 /\ c \notin subs'
      /\ \A d \in Clients : d # c => closes'[d] = closes[d] /\ (d \in subs' <=> d \in subs)
  <2>1. srv[c].pc \in {"loop", "write", "ended"} /\ closes[c] \in Nat
    BY <1>2 DEF TypeOK
  <2>2. CASE c \in subs
    BY <1>1, <2>1, <2>2 DEF unsubscribe, TypeOK
  <2>3. CASE c \notin subs
    <3>1. closes[c] # 0
      BY <2>1, <2>3 DEF StreamInv, HandlerInv
    <3> QED BY <1>1, <2>1, <2>3, <3>1 DEF unsubscribe
  <2> QED BY <2>2, <2>3
<1>6. ASSUME NEW d \in Clients PROVE HandlerInv(d)'
  BY <1>1, <1>2, <1>5 DEF StreamInv, HandlerInv
<1>7. \A q \in Publishers, d \in Clients : Waits(q, d)' => Waits(q, d)
  BY <1>3 DEF Waits
<1>8. ASSUME NEW q \in Publishers PROVE PubInv(q)'
  <2>1. \A d \in Clients : Waits(q, d)' => srv'[d].pc # "none"
    BY <1>1, <1>7 DEF StreamInv, PubInv
  <2>2. CASE q = p
    <3>1. pub[p].n > 0
      BY <1>1 DEF StreamInv, PubInv, Returned
    <3> QED BY <1>3, <2>1, <2>2, <3>1 DEF PubInv
  <2>3. CASE q # p
    BY <1>3, <2>1, <2>3 DEF StreamInv, PubInv, Returned
  <2> QED BY <2>2, <2>3
<1>9. row' = "queued" => Returned(Runner)'
  <2>1. Runner \in Publishers
    BY DEF Publishers
  <2> QED BY <1>1, <1>3, <2>1 DEF StreamInv, Returned
<1>10. ASSUME NEW d \in Clients, NEW q \in Publishers PROVE SentInv(d, q)'
  <2>1. InFlight(d)' = InFlight(d)
    BY <1>1 DEF InFlight
  <2>2. d # c => Due(q, d)' = Due(q, d)
    <3>1. d # c => (Waits(q, d)' <=> Waits(q, d))
      BY <1>3, <1>4 DEF Waits
    <3>2. pub'[q].n = pub[q].n
      BY <1>3
    <3> QED BY <3>1, <3>2 DEF Due
  <2>3. closes'[d] = 0 => closes[d] = 0 /\ Due(q, d)' = Due(q, d)
    BY <1>5, <2>2
  <2> QED BY <1>1, <2>1, <2>3, SentKept DEF StreamInv
<1> QED BY <1>6, <1>8, <1>9, <1>10 DEF StreamInv

\* A step of a handler, a connection or a dialog: the publishers are where they were.
LEMMA ClientSent ==
    ASSUME StreamInv, UNCHANGED <<row, pub>>,
           \A d \in Clients : srv'[d].pc = "none" => srv[d].pc = "none",
           \A d \in Clients : HandlerInv(d)',
           \A d \in Clients, q \in Publishers : SentInv(d, q)'
    PROVE  StreamInv'
<1>1. ASSUME NEW q \in Publishers PROVE PubInv(q)'
  BY DEF StreamInv, PubInv, Returned, Waits
<1>2. row' = "queued" => Returned(Runner)'
  BY DEF StreamInv, Returned
<1> QED BY <1>1, <1>2 DEF StreamInv

LEMMA SubscribeSent ==
    ASSUME TypeOK, HubInv, StreamInv, NEW c \in Clients, Subscribe(c)
    PROVE  StreamInv'
<1>1. /\ srv[c].pc = "none" /\ open[c] /\ link[c] = "up" /\ subs' = subs \cup {c}
      /\ UNCHANGED <<row, pub, buf, closes, link, wire, open, got>>
  BY DEF Subscribe, dialog
<1>2. srv'[c].pc = "loop" /\ \A d \in Clients : d # c => srv'[d] = srv[d]
  BY DEF Subscribe, TypeOK
<1>3. ASSUME NEW d \in Clients PROVE HandlerInv(d)'
  BY <1>1, <1>2 DEF StreamInv, HandlerInv
<1>4. ASSUME NEW d \in Clients, NEW q \in Publishers PROVE SentInv(d, q)'
  <2>1. InFlight(d)' = InFlight(d)
    BY <1>1, <1>2 DEF InFlight
  <2>2. Due(q, d)' = Due(q, d)
    BY <1>1 DEF Due, Waits
  <2> QED BY <1>1, <2>1, <2>2, SentKept DEF StreamInv
<1> QED BY <1>1, <1>2, <1>3, <1>4, ClientSent

\* From the channel into the hand, and from the hand onto the wire.
LEMMA HandSent ==
    ASSUME TypeOK, HubInv, StreamInv, NEW c \in Clients, ReceiveEvent(c) \/ writeEvent(c)
    PROVE  StreamInv'
<1>1. /\ UNCHANGED <<row, pub, subs, closes, link, open, got>>
      /\ srv[c].pc \in {"loop", "write"}
  BY DEF ReceiveEvent, writeEvent, hub, dialog
<1>2. /\ srv'[c].pc \in {"loop", "write"}
      /\ \A d \in Clients : d # c => srv'[d] = srv[d] /\ buf'[d] = buf[d] /\ wire'[d] = wire[d]
  BY DEF ReceiveEvent, writeEvent, hub, TypeOK
<1>3. ASSUME NEW d \in Clients PROVE HandlerInv(d)'
  BY <1>1, <1>2 DEF StreamInv, HandlerInv
<1>4. InFlight(c)' = InFlight(c)
  <2>1. wire[c] \in Seq(Event) /\ buf[c] \in Seq(Event) /\ srv[c].hand \in Event
    BY DEF TypeOK
  <2>2. CASE ReceiveEvent(c)
    <3>1. /\ buf[c] # <<>> /\ wire'[c] = wire[c] /\ buf'[c] = Tail(buf[c])
          /\ srv'[c].pc = "write" /\ srv'[c].hand = Head(buf[c]) /\ srv[c].pc = "loop"
      BY <2>2 DEF ReceiveEvent, TypeOK
    <3>2. InFlight(c)' = wire[c] \o <<Head(buf[c])>> \o Tail(buf[c])
      BY <3>1 DEF InFlight
    <3>3. InFlight(c) = wire[c] \o <<>> \o buf[c]
      BY <3>1 DEF InFlight
    <3> QED BY <2>1, <3>1, <3>2, <3>3, ChainReceive
  <2>3. CASE writeEvent(c)
    <3>1. /\ wire'[c] = Append(wire[c], srv[c].hand) /\ buf'[c] = buf[c]
          /\ srv'[c].pc = "loop" /\ srv[c].pc = "write"
      BY <2>3 DEF writeEvent, TypeOK, hub
    <3>2. InFlight(c)' = Append(wire[c], srv[c].hand) \o <<>> \o buf[c]
      BY <3>1 DEF InFlight
    <3>3. InFlight(c) = wire[c] \o <<srv[c].hand>> \o buf[c]
      BY <3>1 DEF InFlight
    <3> QED BY <2>1, <3>2, <3>3, ChainWrite
  <2> QED BY <2>2, <2>3
<1>5. ASSUME NEW d \in Clients, NEW q \in Publishers PROVE SentInv(d, q)'
  <2>1. InFlight(d)' = InFlight(d)
    <3>1. d # c => InFlight(d)' = InFlight(d)
      BY <1>2 DEF InFlight
    <3> QED BY <1>4, <3>1
  <2>2. Due(q, d)' = Due(q, d)
    BY <1>1 DEF Due, Waits
  <2> QED BY <1>1, <2>1, <2>2, SentKept DEF StreamInv
<1> QED BY <1>1, <1>2, <1>3, <1>5, ClientSent

\* The handler returns: what it held is lost only with a connection that is gone.
LEMMA ReturnSent ==
    ASSUME TypeOK, HubInv, StreamInv, NEW c \in Clients, Return(c)
    PROVE  StreamInv'
<1>1. /\ UNCHANGED <<row, pub, buf, wire, open, got>> /\ unsubscribe(c)
      /\ srv[c].pc \in {"loop", "write"}
      /\ link[c] = "up" => srv[c].pc = "loop" /\ buf[c] = <<>>
  BY DEF Return, dialog
<1>2. /\ srv'[c].pc = "ended" /\ \A d \in Clients : d # c => srv'[d] = srv[d]
      /\ link'[c] = IF link[c] = "up" THEN "closed" ELSE link[c]
      /\ \A d \in Clients : d # c => link'[d] = link[d]
  BY DEF Return, TypeOK
<1>3. /\ closes'[c] > 0 /\ c \notin subs'
      /\ \A d \in Clients : d # c => closes'[d] = closes[d] /\ (d \in subs' <=> d \in subs)
  <2>1. closes[c] \in Nat
    BY DEF TypeOK
  <2>2. CASE c \in subs
    BY <1>1, <2>1, <2>2 DEF unsubscribe, TypeOK
  <2>3. CASE c \notin subs
    <3>1. closes[c] # 0
      BY <1>1, <2>3 DEF StreamInv, HandlerInv
    <3> QED BY <1>1, <2>1, <2>3, <3>1 DEF unsubscribe
  <2> QED BY <2>2, <2>3
<1>4. ASSUME NEW d \in Clients PROVE HandlerInv(d)'
  BY <1>1, <1>2, <1>3 DEF StreamInv, HandlerInv
<1>5. ASSUME NEW d \in Clients, NEW q \in Publishers, d # c PROVE SentInv(d, q)'
  <2>1. InFlight(d)' = InFlight(d)
    BY <1>1, <1>2, <1>5 DEF InFlight
  <2>2. Due(q, d)' = Due(q, d)
    BY <1>1 DEF Due, Waits
  <2> QED BY <1>1, <1>2, <1>3, <1>5, <2>1, <2>2, SentKept DEF StreamInv
<1>6. ASSUME NEW q \in Publishers PROVE SentInv(c, q)'
  <2>1. CASE link'[c] # "broken" /\ open'[c]
    <3>1. open[c] /\ link[c] # "closed" /\ link[c] # "broken"
      BY <1>1, <1>2, <2>1 DEF StreamInv, HandlerInv
    <3>2. srv[c].pc = "loop"
      BY <1>1, <3>1 DEF TypeOK
    <3>3. InFlight(c)' = InFlight(c)
      BY <1>1, <1>2, <3>2 DEF InFlight
    <3> QED BY <1>1, <1>3, <3>1, <3>3, SentKept DEF StreamInv
  <2>2. CASE ~(link'[c] # "broken" /\ open'[c])
    BY <2>2 DEF SentInv
  <2> QED BY <2>1, <2>2
<1> QED BY <1>1, <1>2, <1>4, <1>5, <1>6, ClientSent

\* The connection or the dialog is gone.
LEMMA GoneSent ==
    ASSUME TypeOK, HubInv, StreamInv, NEW c \in Clients, Break(c) \/ closeDeployProgress(c)
    PROVE  StreamInv'
<1>1. UNCHANGED <<row, pub, subs, buf, closes, srv, got>>
  BY DEF Break, closeDeployProgress, hub, dialog
<1>2. /\ link'[c] = "broken" \/ ~open'[c]
      /\ wire'[c] = <<>>
      /\ \A d \in Clients : d # c => /\ link'[d] = link[d] /\ open'[d] = open[d]
                                     /\ wire'[d] = wire[d]
  BY DEF Break, closeDeployProgress, dialog, TypeOK
<1>3. ASSUME NEW d \in Clients PROVE HandlerInv(d)'
  BY <1>1, <1>2 DEF StreamInv, HandlerInv
<1>4. ASSUME NEW d \in Clients, NEW q \in Publishers, d # c PROVE SentInv(d, q)'
  <2>1. InFlight(d)' = InFlight(d)
    BY <1>1, <1>2, <1>4 DEF InFlight
  <2>2. Due(q, d)' = Due(q, d)
    BY <1>1 DEF Due, Waits
  <2> QED BY <1>1, <1>2, <1>4, <2>1, <2>2, SentKept DEF StreamInv
<1>5. ASSUME NEW q \in Publishers PROVE SentInv(c, q)'
  BY <1>2 DEF SentInv
<1> QED BY <1>1, <1>3, <1>4, <1>5, ClientSent

\* ws.onmessage takes the oldest event.
LEMMA MessageSent ==
    ASSUME TypeOK, HubInv, StreamInv, NEW c \in Clients, onMessage(c)
    PROVE  StreamInv'
<1> DEFINE e == Head(wire[c])
           s == InFlight(c)
<1>1. /\ open[c] /\ wire[c] # <<>>
      /\ UNCHANGED <<row, pub, subs, buf, closes, srv, link, open>>
      /\ wire' = [wire EXCEPT ![c] = Tail(wire[c])]
      /\ got' = [got EXCEPT ![c][e.from] = e.n]
  BY DEF onMessage, hub
<1>2. e \in Event /\ e.from \in Publishers /\ e.n \in Nat
  <2>1. wire[c] \in Seq(Event)
    BY DEF TypeOK
  <2>2. e \in Event
    BY <1>1, <2>1, TailAt
  <2> HIDE DEF e
  <2> QED BY <2>2 DEF Event
<1>3. /\ s # <<>> /\ Head(s) = e /\ InFlight(c)' = Tail(s) /\ s \in Seq(Event)
  <2> DEFINE h == IF srv[c].pc = "write" THEN <<srv[c].hand>> ELSE <<>>
  <2>1. /\ wire[c] \in Seq(Event) /\ h \in Seq(Event) /\ buf[c] \in Seq(Event)
        /\ s = wire[c] \o h \o buf[c] /\ s \in Seq(Event)
    BY InFlightParts
  <2>2. wire'[c] = Tail(wire[c])
    BY <1>1 DEF TypeOK
  <2>3. InFlight(c)' = Tail(wire[c]) \o h \o buf[c]
    BY <1>1, <2>2 DEF InFlight
  <2> DEFINE v == wire[c] \o h \o buf[c]
  <2> HIDE DEF h
  <2>4. v # <<>> /\ Head(v) = Head(wire[c]) /\ Tail(wire[c]) \o h \o buf[c] = Tail(v)
    BY <1>1, <2>1, ChainTail
  <2>5. s = v
    BY <2>1
  <2> HIDE DEF s, v
  <2> QED BY <2>1, <2>3, <2>4, <2>5
<1> HIDE DEF e
<1>4. /\ \A d \in Clients : d # c => wire'[d] = wire[d] /\ got'[d] = got[d]
      /\ \A q \in Publishers : got'[c][q] = IF e.from = q THEN e.n ELSE got[c][q]
      /\ got[c] \in [Publishers -> Nat]
  BY <1>1, <1>2 DEF TypeOK
<1>5. srv[c].pc # "none"
  BY <1>1 DEF StreamInv, HandlerInv
<1>6. ASSUME NEW d \in Clients PROVE HandlerInv(d)'
  BY <1>1, <1>4, <1>5 DEF StreamInv, HandlerInv
<1>7. ASSUME NEW d \in Clients, NEW q \in Publishers, d # c PROVE SentInv(d, q)'
  <2>1. InFlight(d)' = InFlight(d)
    BY <1>1, <1>4, <1>7 DEF InFlight
  <2>2. Due(q, d)' = Due(q, d)
    BY <1>1 DEF Due, Waits
  <2> QED BY <1>1, <1>4, <1>7, <2>1, <2>2, SentKept DEF StreamInv
<1>8. ASSUME NEW q \in Publishers PROVE SentInv(c, q)'
  <2> DEFINE g == got[c][q]
             h == got'[c][q]
  <2>1. g \in Nat /\ h \in Nat /\ h = IF Head(s).from = q THEN Head(s).n ELSE g
    BY <1>2, <1>3, <1>4
  <2>2. Due(q, c)' = Due(q, c) /\ Due(q, c) \in Nat
    <3>1. pub[q].n \in Nat
      BY DEF TypeOK
    <3>2. Waits(q, c) => pub[q].n > 0
      BY DEF StreamInv, PubInv, Waits, Returned
    <3> QED BY <1>1, <3>1, <3>2 DEF Due, Waits
  <2> SUFFICES ASSUME link[c] # "broken"
               PROVE  /\ Numbered(Tail(s)) /\ GapFree(Tail(s), q, h)
                      /\ closes[c] = 0 => \/ LastIs(Tail(s), q, h, 0)
                                          \/ LastIs(Tail(s), q, h, Due(q, c))
    BY <1>1, <1>3, <2>2 DEF SentInv
  <2>3. /\ Numbered(s) /\ GapFree(s, q, g)
        /\ closes[c] = 0 => LastIs(s, q, g, 0) \/ LastIs(s, q, g, Due(q, c))
    BY <1>1 DEF StreamInv, SentInv
  <2> HIDE DEF s, g, h
  <2>4. Numbered(Tail(s))
    BY <1>3, <2>3, TailAt DEF Numbered
  <2>5. GapFree(Tail(s), q, h)
    BY <1>3, <2>1, <2>3, TailNext
  <2>6. \A n \in Nat : LastIs(s, q, g, n) => LastIs(Tail(s), q, h, n)
    BY <1>3, <2>1, TailNext
  <2> QED BY <2>2, <2>3, <2>4, <2>5, <2>6
<1> QED BY <1>1, <1>6, <1>7, <1>8, ClientSent

LEMMA StillSent ==
    ASSUME StreamInv, UNCHANGED <<row, pub, subs, buf, closes, srv, link, wire, open, got>>
    PROVE  StreamInv'
<1>1. ASSUME NEW d \in Clients PROVE HandlerInv(d)'
  BY DEF StreamInv, HandlerInv
<1>2. ASSUME NEW d \in Clients, NEW q \in Publishers PROVE SentInv(d, q)'
  <2>1. InFlight(d)' = InFlight(d) /\ Due(q, d)' = Due(q, d)
    BY DEF InFlight, Due, Waits
  <2> QED BY <2>1, SentKept DEF StreamInv
<1> QED BY <1>1, <1>2, ClientSent

LEMMA StreamStart == Init => StreamInv
<1> SUFFICES ASSUME Init PROVE StreamInv
  OBVIOUS
<1>1. TypeOK
  BY StreamAssumption, EventType, EmptySeq DEF Init, TypeOK, Status, Publishers
<1>2. \A c \in Clients : HandlerInv(c)
  BY DEF Init, HandlerInv
<1>3. /\ \A p \in Publishers : PubInv(p) /\ Returned(p)
      /\ Runner \in Publishers
  BY DEF Init, PubInv, Returned, Waits, Publishers
<1>4. ASSUME NEW c \in Clients, NEW p \in Publishers PROVE SentInv(c, p)
  <2>1. srv[c].pc = "none"
    BY DEF Init
  <2>2. LastIs(InFlight(c), p, got[c][p], 0)
    BY <1>1, <1>2, <2>1, NothingSent
  <2>3. Len(InFlight(c)) = 0
    <3>1. InFlight(c) = <<>> \o <<>> \o <<>>
      BY <2>1 DEF Init, InFlight
    <3>2. <<>> \in Seq(Event) /\ Len(<<>>) = 0
      OBVIOUS
    <3>3. Len(<<>> \o <<>> \o <<>>) = Len(<<>>) + Len(<<>>) + Len(<<>>)
      BY <3>2, Chain
    <3> QED BY <3>1, <3>2, <3>3
  <2> QED BY <2>2, <2>3 DEF SentInv, Numbered, GapFree
<1> QED BY <1>2, <1>3, <1>4 DEF StreamInv

LEMMA StreamStep == TypeOK /\ HubInv /\ StreamInv /\ [Next]_vars => StreamInv'
<1> SUFFICES ASSUME TypeOK, HubInv, StreamInv, [Next]_vars PROVE StreamInv'
  OBVIOUS
<1>0. Runner \in Publishers /\ Workers \subseteq Publishers
  BY DEF Publishers
<1>1. CASE PickJob
  BY <1>0, <1>1, PublishSent DEF PickJob, StreamInv
<1>2. CASE FinishJob
  BY <1>0, <1>2, PublishSent DEF FinishJob
<1>3. ASSUME NEW w \in Workers, WorkerPublishes(w) PROVE StreamInv'
  BY <1>0, <1>3, PublishSent DEF WorkerPublishes
<1>4. ASSUME NEW p \in Publishers, NEW c \in Clients, trySend(p, c) \/ DropSubscriber(p, c)
      PROVE  StreamInv'
  BY <1>4, TrySendSent, DropSent
<1>5. ASSUME NEW c \in Clients, Subscribe(c) \/ HandlerStep(c) \/ Break(c)
      PROVE  StreamInv'
  BY <1>5, SubscribeSent, HandSent, ReturnSent, GoneSent DEF HandlerStep
<1>6. ASSUME NEW c \in Clients, onMessage(c) \/ closeDeployProgress(c)
      PROVE  StreamInv'
  BY <1>6, MessageSent, GoneSent
<1>7. ASSUME NEW c \in Clients, NEW k \in Slots,
             pollStart(c, k) \/ PollStep(c, k) \/ pollError(c, k)
      PROVE  StreamInv'
  BY <1>7, StillSent DEF pollStart, PollStep, pollServe, pollReply, pollItems, pollError, hub
<1>8. CASE UNCHANGED vars
  BY <1>8, StillSent DEF vars
<1> QED BY <1>1, <1>2, <1>3, <1>4, <1>5, <1>6, <1>7, <1>8 DEF Next, JobStep

\* An open dialog whose connection holds sees the events of every goroutine in order
\* and without a gap, whatever the publishers, the cut off channel and the handler do
\* in between (Publish, trySend, unsubscribe, OpsJobStream).
THEOREM NoGapsHolds == Spec => []NoGaps
<1>1. StreamInv => NoGaps
  BY DEF StreamInv, SentInv, NoGaps
<1> QED BY <1>1, StreamStart, StreamStep, TypeCorrect, HubHolds, PTL DEF Spec
==============================================================================
