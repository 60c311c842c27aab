--------------------------- MODULE SshTerminalProofs ---------------------------
(* Theorems about the terminal, for any number of sessions, places and messages. *)
EXTENDS SshTerminal, FiniteSetTheorems, TLAPS

\* The sessions that hold a place.
Holding == {s \in SshSessions : th[s]["main"] \notin {"off", "upgraded", "end"}}

\* What a step does to the places: a handler takes one, gives one back, or none of
\* the handlers crosses the border.
Takes(s) ==
    /\ s \notin Holding /\ Holding' = Holding \cup {s}
    /\ active < SshMax /\ active' = active + 1
Gives(s) ==
    /\ s \in Holding /\ Holding' = Holding \ {s}
    /\ active' = IF active > 0 THEN active - 1 ELSE active
Keeps == Holding' = Holding /\ active' = active

SlotInv == SshTypeOK /\ SshSlotsExact

LEMMA SshInitHolds == SshInit => SlotInv
<1> SUFFICES ASSUME SshInit PROVE SlotInv
    OBVIOUS
<1> USE SshAssumption DEF SshInit
<1>1. SshTypeOK
    BY DEF SshTypeOK, Threads, Pumps, Doing
<1>2. Holding = {}
    BY DEF Holding, Threads
<1>3. SshSlotsExact
    BY <1>2, FS_EmptySet DEF SshSlotsExact, Holding
<1> QED
    BY <1>1, <1>3 DEF SlotInv

\* A session whose handler's entry does not change does not cross the border.
LEMMA MainStays ==
    ASSUME \A s \in SshSessions : th'[s]["main"] = th[s]["main"], active' = active
    PROVE  Keeps
BY DEF Keeps, Holding

LEMMA Border ==
    SshTypeOK /\ [SshNext]_sshVars =>
        Keeps \/ \E s \in SshSessions : Takes(s) \/ Gives(s)
<1> SUFFICES ASSUME SshTypeOK, [SshNext]_sshVars
             PROVE  Keeps \/ \E s \in SshSessions : Takes(s) \/ Gives(s)
    OBVIOUS
<1>0. th \in [SshSessions -> [Threads -> Doing]]
    BY DEF SshTypeOK
<1>M. "main" \in Threads /\ \A p \in Pumps : p \in Threads /\ p # "main"
    BY DEF Threads, Pumps
<1> DEFINE Crosses == Keeps \/ \E s \in SshSessions : Takes(s) \/ Gives(s)
<1>2. ASSUME NEW s \in SshSessions, SshUpgrade(s) \/ Refuse(s) PROVE Crosses
  <2>1. /\ active' = active
        /\ th[s]["main"] \in {"off", "upgraded", "end"}
        /\ \E to \in {"upgraded", "end"} : Goes(s, "main", to)
      BY <1>2 DEF SshUpgrade, Refuse, Refused, At
  <2> QED
      BY <1>0, <1>M, <2>1 DEF Goes, Keeps, Holding
<1>3. ASSUME NEW s \in SshSessions, TryAcquire(s) PROVE Crosses
  <2>1. Takes(s)
      BY <1>0, <1>3, <1>M DEF TryAcquire, Goes, At, Takes, Holding
  <2> QED
      BY <2>1
<1>4. ASSUME NEW s \in SshSessions, OpenFails(s) PROVE Crosses
  <2>1. Gives(s)
      BY <1>0, <1>4, <1>M DEF OpenFails, Refused, releaseSlot, Goes, At, Gives, Holding
  <2> QED
      BY <2>1
<1>5. ASSUME NEW s \in SshSessions, openSSHShell(s) PROVE Crosses
    BY <1>0, <1>5, <1>M DEF openSSHShell, At, Keeps, Holding
<1>6. ASSUME NEW s \in SshSessions, ReadMessage(s) PROVE Crosses
    BY <1>0, <1>6, <1>M DEF ReadMessage, Reset, At, Keeps, Holding
<1>7. ASSUME NEW s \in SshSessions, StdinWrite(s) \/ ReadFails(s) \/ StdinFails(s) PROVE Crosses
    BY <1>0, <1>7, <1>M DEF StdinWrite, ReadFails, StdinFails, Goes, At, Keeps, Holding
<1>8. ASSUME NEW s \in SshSessions, NEW p \in Pumps,
             PumpReads(s, p) \/ PumpEnds(s, p) \/ PumpLocks(s, p) \/ PumpWrites(s, p)
      PROVE  Crosses
  <2>1. active' = active /\ \E to : Goes(s, p, to)
      BY <1>8 DEF PumpReads, PumpEnds, PumpLocks, PumpWrites
  <2> QED
      BY <1>0, <1>M, <2>1, MainStays DEF Goes
<1>9. ASSUME NEW s \in SshSessions, WaitReturns(s) \/ IdleTimeout(s) PROVE Crosses
  <2>1. active' = active /\ \E t \in {"wait", "timer"}, to \in {"closeAll", "end"} : Goes(s, t, to)
      BY <1>9 DEF WaitReturns, IdleTimeout
  <2> QED
      BY <1>0, <2>1, MainStays DEF Goes
<1>10. ASSUME NEW s \in SshSessions, NEW t \in Threads, CloseBegins(s, t) \/ CloseLocks(s, t)
                                                        \/ CloseEnds(s, t)
       PROVE  Crosses
  <2>1. /\ active' = active
        /\ th[s][t] \in {"closeAll", "closeLock", "closeWrite"}
        /\ \E to \in {"closeAll", "closeLock", "closeWrite"} : Goes(s, t, to)
      BY <1>10 DEF CloseBegins, CloseLocks, CloseEnds, At
  <2> QED
      BY <1>0, <2>1 DEF Goes, Keeps, Holding
<1>11. ASSUME NEW s \in SshSessions, NEW t \in Threads, CloseReturns(s, t) PROVE Crosses
  <2>1. CASE t = "main"
    <3>1. Gives(s)
        BY <1>0, <1>11, <1>M, <2>1 DEF CloseReturns, releaseSlot, At, Gives, Holding
    <3> QED
        BY <3>1
  <2>2. CASE t # "main"
    <3>1. Goes(s, t, "end") /\ active' = active
        BY <1>11, <2>2 DEF CloseReturns
    <3>2. \A r \in SshSessions : th'[r]["main"] = th[r]["main"]
        BY <1>0, <1>M, <2>2, <3>1 DEF Goes
    <3> QED
        BY <3>1, <3>2, MainStays
  <2> QED
      BY <2>1, <2>2
<1>12. ASSUME NEW s \in SshSessions, Stalls(s) \/ Recovers(s) \/ Leaves(s) \/ ShellExits(s)
       PROVE  Crosses
    BY <1>12, MainStays DEF Stalls, Recovers, Leaves, ShellExits
<1>13. CASE UNCHANGED sshVars
    BY <1>13, MainStays DEF sshVars
<1> QED
    BY <1>2, <1>3, <1>4, <1>5, <1>6, <1>7, <1>8, <1>9, <1>10, <1>11, <1>12, <1>13
    DEF SshNext, SshOpening, SshThread

\* The count follows.
LEMMA SlotStep == SlotInv /\ [SshNext]_sshVars => SshSlotsExact' /\ active' \in 0..SshMax
<1> SUFFICES ASSUME SlotInv, [SshNext]_sshVars
             PROVE  SshSlotsExact' /\ active' \in 0..SshMax
    OBVIOUS
<1> USE SshAssumption
<1>0. IsFiniteSet(Holding) /\ active = Cardinality(Holding) /\ active \in 0..SshMax
    BY FS_Subset DEF Holding, SlotInv, SshSlotsExact, SshTypeOK
<1>1. CASE Keeps
    BY <1>0, <1>1 DEF Keeps, SshSlotsExact, Holding
<1>2. ASSUME NEW s \in SshSessions, Takes(s) PROVE SshSlotsExact' /\ active' \in 0..SshMax
  <2>1. Cardinality(Holding') = Cardinality(Holding) + 1
      BY <1>0, <1>2, FS_AddElement DEF Takes
  <2>2. active' = Cardinality(Holding')
      BY <1>0, <1>2, <2>1 DEF Takes
  <2> QED
      BY <1>0, <1>2, <2>2 DEF SshSlotsExact, Holding, Takes
<1>3. ASSUME NEW s \in SshSessions, Gives(s) PROVE SshSlotsExact' /\ active' \in 0..SshMax
  <2>1. Cardinality(Holding') = Cardinality(Holding) - 1
      BY <1>0, <1>3, FS_RemoveElement DEF Gives
  <2>2. active > 0
      BY <1>0, <1>3, FS_EmptySet, FS_CardinalityType DEF Gives
  <2>3. active' = Cardinality(Holding') /\ active' \in 0..SshMax
      BY <1>0, <1>3, <2>1, <2>2 DEF Gives
  <2> QED
      BY <2>3 DEF SshSlotsExact, Holding
<1> QED
    BY <1>1, <1>2, <1>3, Border DEF SlotInv

\* The places apart, a step keeps every variable in its type: a thread moves, and
\* the entries of the session it belongs to are written.
LEMMA SshTypeStep == SshTypeOK /\ active' \in 0..SshMax /\ [SshNext]_sshVars => SshTypeOK'
<1> SUFFICES ASSUME SshTypeOK, active' \in 0..SshMax, [SshNext]_sshVars PROVE SshTypeOK'
    OBVIOUS
<1> USE SshAssumption DEF SshTypeOK
<1>0. \A s \in SshSessions, t \in Threads, to \in Doing :
         Goes(s, t, to) => th' \in [SshSessions -> [Threads -> Doing]]
    BY DEF Goes
<1>M. /\ Pumps \subseteq Threads
      /\ "main" \in Threads /\ "wait" \in Threads /\ "timer" \in Threads
    BY DEF Threads
<1>D. {"off", "upgraded", "open", "read", "lock", "write", "stdin", "closeAll", "closeLock",
       "closeWrite", "end"} = Doing
    BY DEF Doing
<1>1. ASSUME NEW s \in SshSessions, SshUpgrade(s) PROVE SshTypeOK'
    BY <1>0, <1>1, <1>M, <1>D DEF SshUpgrade
<1>2. ASSUME NEW s \in SshSessions, Refuse(s) \/ OpenFails(s) PROVE SshTypeOK'
    BY <1>0, <1>2, <1>M, <1>D DEF Refuse, OpenFails, Refused
<1>3. ASSUME NEW s \in SshSessions, TryAcquire(s) PROVE SshTypeOK'
    BY <1>0, <1>3, <1>M, <1>D DEF TryAcquire
<1>4. ASSUME NEW s \in SshSessions, openSSHShell(s) PROVE SshTypeOK'
    BY <1>4, <1>D DEF openSSHShell
<1>5. ASSUME NEW s \in SshSessions, ReadMessage(s) PROVE SshTypeOK'
  <2>0. PICK next \in {"read", "stdin"} : Reset(s, next)
      BY <1>5 DEF ReadMessage
  <2> DEFINE old == th[s]
             new == [old EXCEPT !["main"] = next,
                                !["timer"] = IF @ = "end" THEN "read" ELSE @]
  <2>3. old \in [Threads -> Doing] /\ "read" \in Doing /\ next \in Doing
      BY <1>D
  <2>4. new \in [Threads -> Doing]
      BY <1>M, <2>3
  <2>5. th' = [th EXCEPT ![s] = new]
      BY <2>0 DEF Reset
  <2>1. th' \in [SshSessions -> [Threads -> Doing]]
      BY <2>4, <2>5
  <2>2. sent' \in [SshSessions -> 0..SshMessages]
      BY <1>5 DEF ReadMessage
  <2> QED
      BY <1>5, <2>1, <2>2 DEF ReadMessage
<1>6. ASSUME NEW s \in SshSessions, StdinWrite(s) \/ ReadFails(s) \/ StdinFails(s) PROVE SshTypeOK'
    BY <1>0, <1>6, <1>M, <1>D DEF StdinWrite, ReadFails, StdinFails
<1>7. ASSUME NEW s \in SshSessions, NEW p \in Pumps,
             PumpReads(s, p) \/ PumpEnds(s, p) \/ PumpLocks(s, p) \/ PumpWrites(s, p)
      PROVE  SshTypeOK'
  <2>0. \E to \in {"lock", "closeAll", "end", "write", "read"} : Goes(s, p, to)
      BY <1>7 DEF PumpReads, PumpEnds, PumpLocks, PumpWrites
  <2>1. th' \in [SshSessions -> [Threads -> Doing]]
      BY <1>0, <1>M, <1>D, <2>0
  <2>2. writeMu' \in [SshSessions -> Threads \cup {"free"}]
      BY <1>7, <1>M DEF PumpReads, PumpEnds, PumpLocks, PumpWrites
  <2> QED
      BY <1>7, <2>1, <2>2 DEF PumpReads, PumpEnds, PumpLocks, PumpWrites
<1>8. ASSUME NEW s \in SshSessions, WaitReturns(s) \/ IdleTimeout(s) PROVE SshTypeOK'
    BY <1>0, <1>8, <1>M, <1>D DEF WaitReturns, IdleTimeout
<1>9. ASSUME NEW s \in SshSessions, NEW t \in Threads, CloseBegins(s, t) PROVE SshTypeOK'
    BY <1>0, <1>9, <1>D DEF CloseBegins
<1>10. ASSUME NEW s \in SshSessions, NEW t \in Threads, CloseLocks(s, t) PROVE SshTypeOK'
    BY <1>0, <1>10, <1>D DEF CloseLocks
<1>11. ASSUME NEW s \in SshSessions, NEW t \in Threads, CloseEnds(s, t) PROVE SshTypeOK'
    BY <1>0, <1>11, <1>D DEF CloseEnds
<1>12. ASSUME NEW s \in SshSessions, NEW t \in Threads, CloseReturns(s, t) PROVE SshTypeOK'
  <2>1. th' \in [SshSessions -> [Threads -> Doing]]
    <3>1. CASE t = "main"
        BY <1>12, <1>M, <1>D, <3>1 DEF CloseReturns
    <3>2. CASE t # "main"
        BY <1>0, <1>12, <1>D, <3>2 DEF CloseReturns
    <3> QED
        BY <3>1, <3>2
  <2> QED
      BY <1>12, <2>1 DEF CloseReturns
<1>13. ASSUME NEW s \in SshSessions, Stalls(s) \/ Recovers(s) \/ Leaves(s) PROVE SshTypeOK'
    BY <1>13, ZenonT(40) DEF Stalls, Recovers, Leaves
<1>14. ASSUME NEW s \in SshSessions, ShellExits(s) PROVE SshTypeOK'
    BY <1>14 DEF ShellExits
<1>15. CASE UNCHANGED sshVars
    BY <1>15 DEF sshVars
<1> QED
    BY <1>1, <1>2, <1>3, <1>4, <1>5, <1>6, <1>7, <1>8, <1>9, <1>10, <1>11, <1>12, <1>13, <1>14,
       <1>15
    DEF SshNext, SshOpening, SshThread

LEMMA SlotInvStep == SlotInv /\ [SshNext]_sshVars => SlotInv'
BY SlotStep, SshTypeStep DEF SlotInv

\* TryAcquire, Release and the returns of SSHWebsocket: for any limit and any number
\* of sessions the Manager's count is the number of handlers that hold a place, so
\* it stays within the limit and no place is lost.
THEOREM SlotsExactHolds == SshSpec => [](SshTypeOK /\ SshSlotsExact)
BY SshInitHolds, SlotInvStep, PTL DEF SshSpec, SlotInv
==============================================================================
