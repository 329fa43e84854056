---------------------------- MODULE ConsoleBridge ----------------------------
(***************************************************************************)
(* internal/serialbridge and internal/netconsole: the connection to the    *)
(* node's console.  The two bridges are the same state machine; they differ*)
(* in the authentication, in the order of the deferred clean-up, in when   *)
(* the watcher of the context starts and in which time counts as stable.   *)
(* The variable `mode` says which of the two the behaviour is of.          *)
(*                                                                         *)
(* The goroutines are Run (with runSession), the watcher that closes the   *)
(* session when the context ends, and one goroutine per SendText.  The     *)
(* step of each names the call it makes next.  Between two of their steps  *)
(* the others may take theirs: the status, b.session and the port each     *)
(* have a lock of their own, and SendText uses the three one after another.*)
(***************************************************************************)
EXTENDS Naturals, FiniteSets

CONSTANTS
    Senders,            \* concurrent calls of SendText
    ReconnectInitial,   \* config.ReconnectInitial
    ReconnectMax,       \* config.ReconnectMax
    MaxSessions         \* bound: the endpoint cannot be opened more often

\* NewBridge refuses any other configuration.
ASSUME ConfigAssumption ==
    /\ ReconnectInitial \in Nat \ {0} /\ ReconnectMax \in Nat
    /\ ReconnectInitial <= ReconnectMax
    /\ MaxSessions \in Nat

VARIABLES
    mode,           \* the configured transport
    ctxDone,        \* the context of Run has been cancelled
    run,            \* what Run and runSession do next
    current,        \* the session of this round of Run; 0 before it is open
    lasted,         \* StableResetAfter has elapsed on the clock of this round
    delay,          \* the reconnect delay
    installed,      \* b.session; 0 is nil
    status,         \* b.status.State
    port,           \* the port or connection of each session
    failed,         \* the sessions whose failure is recorded
    authenticated,  \* history: the sessions whose greeting ended in OK
    enabled,        \* history: the sessions told to print packets
    carried,        \* history: the sessions that carried a text
    sender          \* the goroutine of each SendText

sessionVars == <<port, failed, authenticated, enabled, carried>>
runVars == <<run, current, lasted, delay>>
vars == <<mode, ctxDone, runVars, installed, status, sessionVars, sender>>

Sessions == 1 .. MaxSessions

States == {"disconnected", "connecting", "connected", "degraded", "stopped"}
RunSteps == {"top", "open", "auth", "install", "enable", "announce", "read",
             "close", "remove", "ended", "waiting", "leaving", "returned"}
SenderSteps == {"status", "session", "write", "record", "close", "degrade", "done"}
Answers == {0, 202, 502, 503}

TypeOK ==
    /\ mode \in {"serial", "netconsole"}
    /\ ctxDone \in BOOLEAN
    /\ run \in RunSteps
    /\ current \in {0} \cup Sessions
    /\ lasted \in BOOLEAN
    /\ delay \in ReconnectInitial .. ReconnectMax
    /\ installed \in {0} \cup Sessions
    /\ status \in States
    /\ port \in [Sessions -> {"new", "open", "closed"}]
    /\ failed \in SUBSET Sessions
    /\ authenticated \in SUBSET Sessions
    /\ enabled \in SUBSET Sessions
    /\ carried \in SUBSET Sessions
    /\ sender \in [Senders -> [step : SenderSteps, session : {0} \cup Sessions, answer : Answers]]

Init ==
    /\ mode \in {"serial", "netconsole"}
    /\ ctxDone = FALSE
    /\ run = "top" /\ current = 0 /\ lasted = FALSE
    /\ delay = ReconnectInitial
    /\ installed = 0
    /\ status = "disconnected"
    /\ port = [s \in Sessions |-> "new"]
    /\ failed = {} /\ authenticated = {} /\ enabled = {} /\ carried = {}
    /\ sender = [t \in Senders |-> [step |-> "status", session |-> 0, answer |-> 0]]

NextSession == 1 + Cardinality({s \in Sessions : port[s] # "new"})

----------------------------------------------------------------------------
(***************************************************************************)
(* Plausible bugs, each to be compared with the definition it would spoil; *)
(* none is part of Next.                                                   *)
(***************************************************************************)
\* The doubled delay is not capped.
nextDelay_Uncapped(d) == 2 * d

\* netconsole measures stability the way serial does.
Clock_FromAttempt == {"open", "auth", "install", "enable", "announce", "read", "close", "remove", "ended"}

\* The netconsole session is installed as soon as it is dialled.
Opened_Installs ==
    /\ run = "open" /\ NextSession <= MaxSessions
    /\ current' = NextSession
    /\ port' = [port EXCEPT ![NextSession] = "open"]
    /\ run' = IF mode = "netconsole" THEN "auth" ELSE "install"
    /\ installed' = NextSession
    /\ UNCHANGED <<mode, ctxDone, lasted, delay, status, failed, authenticated, enabled, carried, sender>>

\* The watcher of the context is started once the session is installed.
Watched_Late == {"enable", "announce", "read"}

\* runSession trusts whoever failed the session to have closed it.
CloseSession_Trusting ==
    /\ run = "close"
    /\ run' = IF mode = "serial" THEN "remove" ELSE "ended"
    /\ UNCHANGED <<mode, ctxDone, current, lasted, delay, installed, status, sessionVars, sender>>

\* fail records the failure and leaves closing to the reader.
SenderCloses_Forgotten(t) ==
    /\ sender[t].step = "close"
    /\ sender' = [sender EXCEPT ![t].step = "degrade"]
    /\ UNCHANGED <<mode, ctxDone, runVars, installed, status, sessionVars>>

----------------------------------------------------------------------------
\* Integer division as in the code: serialbridge compares with >=,
\* netconsole with >.
nextDelay(d) ==
    LET half == ReconnectMax \div 2
    IN  CASE mode = "serial" /\ d >= half -> ReconnectMax
          [] mode = "netconsole" /\ (d >= ReconnectMax \/ d > half) -> ReconnectMax
          [] OTHER -> 2 * d

\* The steps during which the time that can reset the delay passes: serial
\* measures runSession as a whole, netconsole from connectedAt on.
Clock ==
    IF mode = "serial"
    THEN {"open", "install", "enable", "announce", "read", "close", "remove", "ended"}
    ELSE {"announce", "read"}

\* The steps during which the watcher goroutine is there.
Watched ==
    IF mode = "serial"
    THEN {"enable", "announce", "read"}
    ELSE {"auth", "install", "enable", "announce", "read", "remove"}

\* The deferred calls of runSession, last one first.
Unwind == IF mode = "serial" THEN "close" ELSE "remove"

\* The context given to Run is cancelled.
CancelContext ==
    /\ ~ctxDone
    /\ ctxDone' = TRUE
    /\ UNCHANGED <<mode, runVars, installed, status, sessionVars, sender>>

\* The head of the loop: setConnecting.
Connect ==
    /\ run = "top" /\ ~ctxDone
    /\ status' = "connecting"
    /\ run' = "open" /\ current' = 0 /\ lasted' = FALSE
    /\ UNCHANGED <<mode, ctxDone, delay, installed, sessionVars, sender>>

OpenFails ==
    /\ run = "open"
    /\ run' = "ended"
    /\ UNCHANGED <<mode, ctxDone, current, lasted, delay, installed, status, sessionVars, sender>>

Opened ==
    /\ run = "open" /\ NextSession <= MaxSessions
    /\ current' = NextSession
    /\ port' = [port EXCEPT ![NextSession] = "open"]
    /\ run' = IF mode = "netconsole" THEN "auth" ELSE "install"
    /\ UNCHANGED <<mode, ctxDone, lasted, delay, installed, status,
                   failed, authenticated, enabled, carried, sender>>

\* authenticate returns nil: a greeting OK, or an accepted response.
Authenticated ==
    /\ run = "auth" /\ port[current] = "open"
    /\ authenticated' = authenticated \cup {current}
    /\ run' = "install"
    /\ UNCHANGED <<mode, ctxDone, current, lasted, delay, installed, status,
                   port, failed, enabled, carried, sender>>

\* authenticate returns an error: FAIL, a malformed line, the deadline, the
\* peer or our watcher closing the connection.
AuthFails ==
    /\ run = "auth"
    /\ run' = Unwind
    /\ UNCHANGED <<mode, ctxDone, current, lasted, delay, installed, status, sessionVars, sender>>

Install ==
    /\ run = "install"
    /\ installed' = current
    /\ run' = "enable"
    /\ UNCHANGED <<mode, ctxDone, current, lasted, delay, status, sessionVars, sender>>

\* What session.write needs to reach the port: the context and, in
\* netconsole, the recorded failure are looked at first.
Writable(s) == port[s] = "open" /\ (mode = "netconsole" => s \notin failed)

EnableOutput ==
    /\ run = "enable" /\ ~ctxDone /\ Writable(current)
    /\ enabled' = enabled \cup {current}
    /\ run' = "announce"
    /\ UNCHANGED <<mode, ctxDone, current, lasted, delay, installed, status,
                   port, failed, authenticated, carried, sender>>

EnableFails ==
    /\ run = "enable"
    /\ run' = Unwind
    /\ UNCHANGED <<mode, ctxDone, current, lasted, delay, installed, status, sessionVars, sender>>

\* setConnected.
Announce ==
    /\ run = "announce"
    /\ status' = "connected"
    /\ run' = "read"
    /\ UNCHANGED <<mode, ctxDone, current, lasted, delay, installed, sessionVars, sender>>

\* The read loop ends: an I/O error, EOF, a closed port, or data that arrives
\* once a sender has recorded a failure.
ReadEnds ==
    /\ run = "read"
    /\ run' = Unwind
    /\ UNCHANGED <<mode, ctxDone, current, lasted, delay, installed, status, sessionVars, sender>>

CloseSession ==
    /\ run = "close"
    /\ port' = [port EXCEPT ![current] = "closed"]
    /\ run' = IF mode = "serial" THEN "remove" ELSE "ended"
    /\ UNCHANGED <<mode, ctxDone, current, lasted, delay, installed, status,
                   failed, authenticated, enabled, carried, sender>>

RemoveSession ==
    /\ run = "remove"
    /\ installed' = IF installed = current THEN 0 ELSE installed
    /\ run' = IF mode = "serial" THEN "ended" ELSE "close"
    /\ UNCHANGED <<mode, ctxDone, current, lasted, delay, status, sessionVars, sender>>

\* runSession has returned to a Run that goes on.
SessionLost ==
    /\ run = "ended" /\ ~ctxDone
    /\ status' = "degraded"
    /\ delay' = IF lasted THEN ReconnectInitial ELSE delay
    /\ run' = "waiting"
    /\ UNCHANGED <<mode, ctxDone, current, lasted, installed, sessionVars, sender>>

\* b.wait returns true.
Waited ==
    /\ run = "waiting"
    /\ delay' = nextDelay(delay)
    /\ run' = "top"
    /\ UNCHANGED <<mode, ctxDone, current, lasted, installed, status, sessionVars, sender>>

\* The three places where Run looks at its context.
Leave ==
    /\ run \in {"top", "ended", "waiting"} /\ ctxDone
    /\ run' = "leaving"
    /\ UNCHANGED <<mode, ctxDone, current, lasted, delay, installed, status, sessionVars, sender>>

\* The deferred setStopped.
Return ==
    /\ run = "leaving"
    /\ status' = "stopped"
    /\ run' = "returned"
    /\ UNCHANGED <<mode, ctxDone, current, lasted, delay, installed, sessionVars, sender>>

\* The watcher goroutine closes the session.
WatcherCloses ==
    /\ ctxDone /\ run \in Watched /\ port[current] = "open"
    /\ port' = [port EXCEPT ![current] = "closed"]
    /\ UNCHANGED <<mode, ctxDone, runVars, installed, status,
                   failed, authenticated, enabled, carried, sender>>

\* StableResetAfter elapses.
TimePasses ==
    /\ run \in Clock /\ ~lasted
    /\ lasted' = TRUE
    /\ UNCHANGED <<mode, ctxDone, run, current, delay, installed, status, sessionVars, sender>>

----------------------------------------------------------------------------
At(t, step) == sender[t].step = step
Goto(t, step) == sender' = [sender EXCEPT ![t].step = step]
Answer(t, code) == sender' = [sender EXCEPT ![t].step = "done", ![t].answer = code]

\* connectedSession, first half: b.Status().
ReadStatus(t) ==
    /\ At(t, "status")
    /\ IF status = "connected" THEN Goto(t, "session") ELSE Answer(t, 503)
    /\ UNCHANGED <<mode, ctxDone, runVars, installed, status, sessionVars>>

\* connectedSession, second half: b.session, which may be another session by now.
PickSession(t) ==
    /\ At(t, "session")
    /\ IF installed = 0
       THEN Answer(t, 503)
       ELSE sender' = [sender EXCEPT ![t].step = "write", ![t].session = installed]
    /\ UNCHANGED <<mode, ctxDone, runVars, installed, status, sessionVars>>

WriteText(t) ==
    /\ At(t, "write") /\ Writable(sender[t].session)
    /\ carried' = carried \cup {sender[t].session}
    /\ Answer(t, 202)
    /\ UNCHANGED <<mode, ctxDone, runVars, installed, status, port, failed, authenticated, enabled>>

\* The port is closed, the write fails, or the context of the request has ended.
WriteFails(t) ==
    /\ At(t, "write")
    /\ Goto(t, "record")
    /\ UNCHANGED <<mode, ctxDone, runVars, installed, status, sessionVars>>

\* session.fail, first half: the failure is recorded.
RecordFailure(t) ==
    /\ At(t, "record")
    /\ failed' = failed \cup {sender[t].session}
    /\ Goto(t, "close")
    /\ UNCHANGED <<mode, ctxDone, runVars, installed, status, port, authenticated, enabled, carried>>

\* session.fail, second half: the port is closed, which ends a blocked Read.
SenderCloses(t) ==
    /\ At(t, "close")
    /\ port' = [port EXCEPT ![sender[t].session] = "closed"]
    /\ Goto(t, "degrade")
    /\ UNCHANGED <<mode, ctxDone, runVars, installed, status, failed, authenticated, enabled, carried>>

\* setDegraded, whatever Run has done in the meantime.
SenderDegrades(t) ==
    /\ At(t, "degrade")
    /\ status' = "degraded"
    /\ Answer(t, 502)
    /\ UNCHANGED <<mode, ctxDone, runVars, installed, sessionVars>>

SendText(t) ==
    \/ ReadStatus(t)
    \/ PickSession(t)
    \/ WriteText(t) \/ WriteFails(t)
    \/ RecordFailure(t)
    \/ SenderCloses(t)
    \/ SenderDegrades(t)

\* What Run does without the peer's help.
RunStep ==
    \/ Connect \/ OpenFails \/ Opened
    \/ Install \/ EnableOutput \/ EnableFails \/ Announce
    \/ CloseSession \/ RemoveSession
    \/ SessionLost \/ Waited \/ Leave \/ Return

\* What waits for the peer while the port is open.
PeerStep == Authenticated \/ AuthFails \/ ReadEnds

Next ==
    \/ CancelContext
    \/ RunStep
    \/ PeerStep
    \/ WatcherCloses
    \/ TimePasses
    \/ \E t \in Senders : SendText(t)

\* The Write of a sender has a deadline at a node, none at a serial device.
WriteReturns(t) == mode = "netconsole" \/ port[sender[t].session] = "closed"

\* Goroutines run and calls return; a Read, an authentication or the Write of a
\* serial device is only sure to return once the port is closed.
Fairness ==
    /\ WF_vars(RunStep)
    /\ WF_vars((AuthFails \/ ReadEnds) /\ port[current] = "closed")
    /\ WF_vars(WatcherCloses)
    /\ \A t \in Senders : WF_vars(SendText(t) /\ (At(t, "write") => WriteReturns(t)))

Spec == Init /\ [][Next]_vars /\ Fairness

----------------------------------------------------------------------------
\* A text only ever travels over a NETConsole session that was authenticated,
\* although SendText reads the status of one session and may pick the next.
\* docs/netconsole.md: sends are refused "while no authenticated session exists".
TextsAuthenticated == mode = "netconsole" => carried \subseteq authenticated

\* Between two sessions and after Run has returned no port is open and no
\* session is offered to the senders: a serial device can be opened again, a
\* node that serves a single console client will accept us.
NothingLeftBehind ==
    run \in {"top", "ended", "waiting", "leaving", "returned"} =>
        /\ \A s \in Sessions : port[s] # "open"
        /\ installed = 0

\* docs/netconsole.md: "Reconnect backoff resets only after an authenticated
\* session with packet output enabled remains connected".
BackoffResetsWhenConnected ==
    [][delay' < delay /\ mode = "netconsole" => current \in enabled]_vars

\* docs/serial.md: a write failure closes the session and triggers a reconnect
\* attempt, even though the reader is blocked in Read at that time.
FailedSessionReplaced ==
    \A s \in Sessions : (current = s /\ s \in failed) ~> (current # s \/ run = "returned")

\* Shutdown ends Run wherever it is, an authentication in progress included, and
\* every SendText with it, one that a serial device has blocked included.
ShutdownCompletes ==
    ctxDone ~> (run = "returned" /\ \A t \in Senders : sender[t].step = "done")

\* README.md: sends return 503 "until the connection recovers": once Run reads
\* from a healthy session and no send is under way, the status says connected.
RecoveredMeansConnected ==
    /\ run = "read" /\ port[current] = "open"
    /\ \A t \in Senders : sender[t].step \in {"status", "done"}
    => status = "connected"
=============================================================================
