------------------------------ MODULE SshTerminal ------------------------------
(***************************************************************************)
(* SSH terminals in the browser: SSHWebsocket and its goroutines           *)
(* (backend/internal/http/ssh_ws.go), the bound on sessions and the idle   *)
(* timer (services/sshws).                                                 *)
(*                                                                         *)
(* Of a session there are five threads: the handler itself, which reads    *)
(* the websocket, the pumps of stdout and stderr, the one that waits for   *)
(* the shell, and the idle timer's. They share a mutex for writing to the  *)
(* websocket and close the session through one sync.Once.                  *)
(***************************************************************************)
EXTENDS Naturals, FiniteSets

CONSTANTS
    SshSessions,   \* websockets ever opened
    SshMax,        \* SSH_MAX_SESSIONS
    SshMessages    \* bound on messages a browser sends in a session

ASSUME SshAssumption ==
    IsFiniteSet(SshSessions) /\ SshMax \in Nat \ {0} /\ SshMessages \in Nat

Pumps == {"stdout", "stderr"}
Threads == Pumps \cup {"main", "wait", "timer"}

VARIABLES
    th,        \* [session -> [thread -> what it is doing]]
    writeMu,   \* [session -> holder of the mutex, or "free"]
    closeOnce, \* [session -> thread that runs closeAll, "no" or "done"]
    ws,        \* [session -> is the server's end of the websocket open?]
    browser,   \* [session -> "reads", "stalled" (sends and takes nothing), "gone"]
    shell,     \* [session -> "none", "up", "exited" or "closed"]
    sent,      \* [session -> messages sent by the browser]
    active     \* the Manager's count

sshVars == <<th, writeMu, closeOnce, ws, browser, shell, sent, active>>

\* What a thread is doing. "lock" and "write" are of writeWS, "closeLock" and
\* "closeWrite" of the writeWS in closeAll.
Doing == {"off", "upgraded", "open", "read", "lock", "write", "stdin", "closeAll",
          "closeLock", "closeWrite", "end"}

SshTypeOK ==
    /\ th \in [SshSessions -> [Threads -> Doing]]
    /\ writeMu \in [SshSessions -> Threads \cup {"free"}]
    /\ closeOnce \in [SshSessions -> Threads \cup {"no", "done"}]
    /\ ws \in [SshSessions -> BOOLEAN]
    /\ browser \in [SshSessions -> {"reads", "stalled", "gone"}]
    /\ shell \in [SshSessions -> {"none", "up", "exited", "closed"}]
    /\ sent \in [SshSessions -> 0..SshMessages]
    /\ active \in 0..SshMax

SshInit ==
    /\ th = [s \in SshSessions |-> [t \in Threads |-> "off"]]
    /\ writeMu = [s \in SshSessions |-> "free"]
    /\ closeOnce = [s \in SshSessions |-> "no"]
    /\ ws = [s \in SshSessions |-> FALSE]
    /\ browser = [s \in SshSessions |-> "gone"]
    /\ shell = [s \in SshSessions |-> "none"]
    /\ sent = [s \in SshSessions |-> 0]
    /\ active = 0

At(s, t, here) == th[s][t] = here
Goes(s, t, to) == th' = [th EXCEPT ![s][t] = to]

\* A write returns unless it waits for room in the browser's connection.
CanWrite(s) == ~ws[s] \/ browser[s] # "stalled"

------------------------------------------------------------------------------
(* The handler, up to the shell *)

SshUpgrade(s) ==
    /\ At(s, "main", "off")
    /\ Goes(s, "main", "upgraded")
    /\ ws' = [ws EXCEPT ![s] = TRUE]
    /\ browser' = [browser EXCEPT ![s] = "reads"]
    /\ UNCHANGED <<writeMu, closeOnce, shell, sent, active>>

\* writeClose and the deferred ws.Close.
Refused(s) ==
    /\ Goes(s, "main", "end")
    /\ ws' = [ws EXCEPT ![s] = FALSE]
    /\ browser' = [browser EXCEPT ![s] = "gone"]

\* authenticateWS, canSSHRole, the node and its SSH settings are refused before
\* TryAcquire, which refuses at the limit.
Refuse(s) ==
    /\ At(s, "main", "upgraded")
    /\ Refused(s)
    /\ UNCHANGED <<writeMu, closeOnce, shell, sent, active>>

\* Mutant: the limit is compared before it is reached.
TryAcquireOffByOne(s) ==
    /\ At(s, "main", "upgraded") /\ active <= SshMax
    /\ active' = active + 1
    /\ Goes(s, "main", "open")
    /\ UNCHANGED <<writeMu, closeOnce, ws, browser, shell, sent>>

TryAcquire(s) ==
    /\ At(s, "main", "upgraded") /\ active < SshMax
    /\ active' = active + 1
    /\ Goes(s, "main", "open")
    /\ UNCHANGED <<writeMu, closeOnce, ws, browser, shell, sent>>

releaseSlot == active' = IF active > 0 THEN active - 1 ELSE active

\* Mutant: the early return comes before the deferred release.
OpenFailsKeepsSlot(s) ==
    /\ At(s, "main", "open")
    /\ Refused(s)
    /\ UNCHANGED <<writeMu, closeOnce, shell, sent, active>>

\* decryptSSHKey or openSSHShell fails.
OpenFails(s) ==
    /\ At(s, "main", "open")
    /\ Refused(s) /\ releaseSlot
    /\ UNCHANGED <<writeMu, closeOnce, shell, sent>>

openSSHShell(s) ==
    /\ At(s, "main", "open")
    /\ shell' = [shell EXCEPT ![s] = "up"]
    /\ th' = [th EXCEPT ![s] = [t \in Threads |-> "read"]]
    /\ UNCHANGED <<writeMu, closeOnce, ws, browser, sent, active>>

------------------------------------------------------------------------------
(* The pumps *)

PumpReads(s, p) ==
    /\ At(s, p, "read") /\ shell[s] = "up"
    /\ Goes(s, p, "lock")
    /\ UNCHANGED <<writeMu, closeOnce, ws, browser, shell, sent, active>>

\* stdout's end closes the session, stderr's does not.
PumpEnds(s, p) ==
    /\ At(s, p, "read") /\ shell[s] \in {"exited", "closed"}
    /\ Goes(s, p, IF p = "stdout" THEN "closeAll" ELSE "end")
    /\ UNCHANGED <<writeMu, closeOnce, ws, browser, shell, sent, active>>

PumpLocks(s, p) ==
    /\ At(s, p, "lock") /\ writeMu[s] = "free"
    /\ writeMu' = [writeMu EXCEPT ![s] = p]
    /\ Goes(s, p, "write")
    /\ UNCHANGED <<closeOnce, ws, browser, shell, sent, active>>

\* The result of the write is not looked at.
PumpWrites(s, p) ==
    /\ At(s, p, "write") /\ CanWrite(s)
    /\ writeMu' = [writeMu EXCEPT ![s] = "free"]
    /\ Goes(s, p, "read")
    /\ UNCHANGED <<closeOnce, ws, browser, shell, sent, active>>

------------------------------------------------------------------------------
(* The wait for the shell, the timer and the handler's loop *)

\* session.Wait closes all only if the shell ended with an error.
WaitReturns(s) ==
    /\ At(s, "wait", "read") /\ shell[s] \in {"exited", "closed"}
    /\ \E next \in IF shell[s] = "closed" THEN {"closeAll"} ELSE {"closeAll", "end"} :
          Goes(s, "wait", next)
    /\ UNCHANGED <<writeMu, closeOnce, ws, browser, shell, sent, active>>

IdleTimeout(s) ==
    /\ At(s, "timer", "read")
    /\ Goes(s, "timer", "closeAll")
    /\ UNCHANGED <<writeMu, closeOnce, ws, browser, shell, sent, active>>

\* ReadMessage; the timer is armed again, also one that has run.
Reset(s, next) ==
    th' = [th EXCEPT ![s]["main"] = next,
                     ![s]["timer"] = IF @ = "end" THEN "read" ELSE @]

ReadMessage(s) ==
    /\ At(s, "main", "read") /\ ws[s] /\ browser[s] = "reads"
    /\ sent[s] < SshMessages
    /\ sent' = [sent EXCEPT ![s] = @ + 1]
    /\ \E next \in {"read", "stdin"} : Reset(s, next)
    /\ UNCHANGED <<writeMu, closeOnce, ws, browser, shell, active>>

ReadFails(s) ==
    /\ At(s, "main", "read") /\ (~ws[s] \/ browser[s] = "gone")
    /\ Goes(s, "main", "closeAll")
    /\ UNCHANGED <<writeMu, closeOnce, ws, browser, shell, sent, active>>

\* stdin.Write: a shell that takes no input may keep the handler here for ever,
StdinWrite(s) ==
    /\ At(s, "main", "stdin") /\ shell[s] = "up"
    /\ Goes(s, "main", "read")
    /\ UNCHANGED <<writeMu, closeOnce, ws, browser, shell, sent, active>>

\* one that has ended or was closed does not.
StdinFails(s) ==
    /\ At(s, "main", "stdin") /\ shell[s] # "up"
    /\ Goes(s, "main", "closeAll")
    /\ UNCHANGED <<writeMu, closeOnce, ws, browser, shell, sent, active>>

------------------------------------------------------------------------------
(* closeAll *)

\* Of the threads that call it, the first runs it,
CloseBegins(s, t) ==
    /\ At(s, t, "closeAll") /\ closeOnce[s] = "no"
    /\ closeOnce' = [closeOnce EXCEPT ![s] = t]
    /\ Goes(s, t, "closeLock")
    /\ UNCHANGED <<writeMu, ws, browser, shell, sent, active>>

CloseLocks(s, t) ==
    /\ At(s, t, "closeLock") /\ writeMu[s] = "free"
    /\ writeMu' = [writeMu EXCEPT ![s] = t]
    /\ Goes(s, t, "closeWrite")
    /\ UNCHANGED <<closeOnce, ws, browser, shell, sent, active>>

\* Mutant: the websocket is left to the handler's deferred Close.
CloseEndsLeavesSocket(s, t) ==
    /\ At(s, t, "closeWrite") /\ CanWrite(s)
    /\ writeMu' = [writeMu EXCEPT ![s] = "free"]
    /\ shell' = [shell EXCEPT ![s] = "closed"]
    /\ closeOnce' = [closeOnce EXCEPT ![s] = "done"]
    /\ Goes(s, t, "closeAll")
    /\ UNCHANGED <<ws, browser, sent, active>>

\* the close frame is written, then everything is closed,
CloseEnds(s, t) ==
    /\ At(s, t, "closeWrite") /\ CanWrite(s)
    /\ writeMu' = [writeMu EXCEPT ![s] = "free"]
    /\ ws' = [ws EXCEPT ![s] = FALSE]
    /\ browser' = [browser EXCEPT ![s] = "gone"]
    /\ shell' = [shell EXCEPT ![s] = "closed"]
    /\ closeOnce' = [closeOnce EXCEPT ![s] = "done"]
    /\ Goes(s, t, "closeAll")
    /\ UNCHANGED <<sent, active>>

\* and the others go on when it has. The handler's deferred calls stop the timer,
\* close what closeAll closed and release the slot.
CloseReturns(s, t) ==
    /\ At(s, t, "closeAll") /\ closeOnce[s] = "done"
    /\ IF t = "main"
       THEN /\ releaseSlot
            /\ th' = [th EXCEPT ![s][t] = "end",
                                ![s]["timer"] = IF @ = "read" THEN "end" ELSE @]
       ELSE Goes(s, t, "end") /\ UNCHANGED active
    /\ UNCHANGED <<writeMu, closeOnce, ws, browser, shell, sent>>

------------------------------------------------------------------------------
(* Browser and shell *)

Stalls(s) ==
    /\ ws[s] /\ browser[s] = "reads"
    /\ browser' = [browser EXCEPT ![s] = "stalled"]
    /\ UNCHANGED <<th, writeMu, closeOnce, ws, shell, sent, active>>

Recovers(s) ==
    /\ browser[s] = "stalled"
    /\ \E b \in {"reads", "gone"} : browser' = [browser EXCEPT ![s] = b]
    /\ UNCHANGED <<th, writeMu, closeOnce, ws, shell, sent, active>>

Leaves(s) ==
    /\ browser[s] = "reads"
    /\ browser' = [browser EXCEPT ![s] = "gone"]
    /\ UNCHANGED <<th, writeMu, closeOnce, ws, shell, sent, active>>

ShellExits(s) ==
    /\ shell[s] = "up"
    /\ shell' = [shell EXCEPT ![s] = "exited"]
    /\ UNCHANGED <<th, writeMu, closeOnce, ws, browser, sent, active>>

------------------------------------------------------------------------------
SshThread(s, t) ==
    \/ t \in Pumps /\ (PumpReads(s, t) \/ PumpEnds(s, t) \/ PumpLocks(s, t) \/ PumpWrites(s, t))
    \/ t = "wait" /\ WaitReturns(s)
    \/ t = "timer" /\ IdleTimeout(s)
    \/ t = "main" /\ (ReadFails(s) \/ StdinFails(s))
    \/ CloseBegins(s, t) \/ CloseLocks(s, t) \/ CloseEnds(s, t) \/ CloseReturns(s, t)

SshOpening(s) == Refuse(s) \/ TryAcquire(s) \/ OpenFails(s) \/ openSSHShell(s)

SshNext ==
    \E s \in SshSessions :
        \/ SshUpgrade(s) \/ SshOpening(s) \/ ReadMessage(s) \/ StdinWrite(s)
        \/ \E t \in Threads : SshThread(s, t)
        \/ Stalls(s) \/ Recovers(s) \/ Leaves(s) \/ ShellExits(s)

SshSpec == SshInit /\ [][SshNext]_sshVars

\* What a thread does with the mutex and the websocket: Go's mutex starves nobody,
\* and a write that waits for room in the connection gets on when there is some.
SshWriting(s) == \E p \in Pumps : PumpWrites(s, p)
SshClosing(s) == \E t \in Threads : CloseLocks(s, t) \/ CloseEnds(s, t)

\* Goroutines run, the timer fires unless it is reset, dial and handshake end.
SshThreadsRun ==
    \A s \in SshSessions :
        /\ WF_sshVars(SshOpening(s))
        /\ \A t \in Threads : WF_sshVars(SshThread(s, t))
        /\ SF_sshVars(SshWriting(s)) /\ SF_sshVars(SshClosing(s))

\* A browser that takes nothing more comes back or its connection breaks.
SshBrowsersRecover == \A s \in SshSessions : WF_sshVars(Recovers(s)) /\ WF_sshVars(Leaves(s))

------------------------------------------------------------------------------
(* Properties *)

\* The Manager's count is the number of handlers between TryAcquire and their
\* end, on every way out: the limit never refuses for a session that is over.
SshSlotsExact ==
    active = Cardinality({s \in SshSessions :
                             th[s]["main"] \notin {"off", "upgraded", "end"}
                          })

\* Whatever ends a session - the browser, the shell, an error, the timer - and
\* whichever threads meet in closeAll, the handler and every goroutine of the
\* session end, although the one that closes must first get the write mutex.
SshAllThreadsEnd ==
    \A s \in SshSessions : \A t \in Threads :
        (\E u \in Threads : At(s, u, "closeAll")) ~> At(s, t, "end")
==============================================================================
