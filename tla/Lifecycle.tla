----------------------------- MODULE Lifecycle -----------------------------
(***************************************************************************)
(* The life of the daemon's process: run and main of cmd/gomeshcomd, the   *)
(* handlers of POST /api/restart and POST /api/shutdown, and RestartSelf.  *)
(*                                                                         *)
(* main goes through run, the goroutines that may cancel its context run   *)
(* beside it, and the HTTP server and the transport return by themselves   *)
(* or because the context is done.                                         *)
(***************************************************************************)
EXTENDS Naturals, Sequences

VARIABLES
    pc,                 \* where main is
    stage,              \* how many stages of the start are behind it
    ctxDone,            \* ctx.Done() is closed
    capturing,          \* stop has not been called: SIGTERM goes to the context
    restartRequested,
    caller,             \* the goroutines that call triggerRestart or stop
    server,             \* ListenAndServe, and what it has sent to serverDone
    transport,          \* runTransport, and what it has sent to transportDone
    finished,           \* serverFinished and transportFinished, as a set
    transportStoppedUnexpectedly,
    exit,               \* how the process has ended; "" while it runs
    cause               \* history: what has cancelled the context first

lifecycleVars == <<pc, stage, ctxDone, capturing, restartRequested, caller, server,
                   transport, finished, transportStoppedUnexpectedly, exit, cause>>

\* The steps of the start that may fail, each with a return of its error.
Stages == <<"storage", "identity", "positions", "chat status", "channel show", "stats",
            "dm stats", "forwarder", "transport">>

Callers == {"restart", "hup", "shutdown"}

LifecycleTypeOK ==
    /\ pc \in {"starting", "select", "await_server", "await_transport", "decide", "relaunch"}
    /\ stage \in 0 .. Len(Stages)
    /\ {ctxDone, capturing, restartRequested, transportStoppedUnexpectedly} \subseteq BOOLEAN
    /\ caller \in [Callers -> {"idle", "waiting", "half", "done"}]
    /\ server \in {"absent", "serving", "closed", "failed"}
    /\ transport \in {"absent", "running", "stopped", "failed"}
    /\ finished \subseteq {"server", "transport"}
    /\ exit \in {"", "restarted", "stopped", "failed", "killed"}
    /\ cause \in {"", "restart", "stop", "fault"}
    /\ ctxDone <=> cause # ""

LifecycleInit ==
    /\ pc = "starting" /\ stage = 0
    /\ ctxDone = FALSE /\ capturing = TRUE
    /\ restartRequested = FALSE
    /\ caller = [c \in Callers |-> "idle"]
    /\ server = "absent" /\ transport = "absent"
    /\ finished = {} /\ transportStoppedUnexpectedly = FALSE
    /\ exit = "" /\ cause = ""

Alive == exit = ""

\* The cancellation of the context for one reason, of which the first counts.
CancelFor(why) ==
    /\ ctxDone' = TRUE
    /\ cause' = IF ctxDone THEN cause ELSE why

\* stop: it also gives SIGTERM its default effect back.
CallStop(why) == CancelFor(why) /\ capturing' = FALSE

----------------------------------------------------------------------------
(* Who ends the process *)

\* restart or shutdown has answered, and its goroutine waits for half a second.
Post(c) ==
    /\ Alive /\ c \in {"restart", "shutdown"}
    /\ server # "absent" /\ caller[c] = "idle"
    /\ caller' = [caller EXCEPT ![c] = "waiting"]
    /\ UNCHANGED <<pc, stage, ctxDone, capturing, restartRequested, server, transport,
                   finished, transportStoppedUnexpectedly, exit, cause>>

\* A SIGHUP fills the channel of the goroutine that watches for it.
SigHup ==
    /\ Alive /\ caller["hup"] = "idle"
    /\ caller' = [caller EXCEPT !["hup"] = "waiting"]
    /\ UNCHANGED <<pc, stage, ctxDone, capturing, restartRequested, server, transport,
                   finished, transportStoppedUnexpectedly, exit, cause>>

\* That goroutine, or what is left of it, leaves when the context is done.
HupLeaves ==
    /\ Alive /\ ctxDone /\ caller["hup"] \in {"idle", "waiting"}
    /\ caller' = [caller EXCEPT !["hup"] = "done"]
    /\ UNCHANGED <<pc, stage, ctxDone, capturing, restartRequested, server, transport,
                   finished, transportStoppedUnexpectedly, exit, cause>>

\* A plausible bug: triggerRestart cancels before it notes the request.
StopThenFlag(c) ==
    /\ Alive /\ c \in {"restart", "hup"}
    /\ \/ /\ caller[c] = "waiting"
          /\ caller' = [caller EXCEPT ![c] = "half"]
          /\ CallStop("restart")
          /\ UNCHANGED restartRequested
       \/ /\ caller[c] = "half"
          /\ caller' = [caller EXCEPT ![c] = "done"]
          /\ restartRequested' = TRUE
          /\ UNCHANGED <<ctxDone, capturing, cause>>
    /\ UNCHANGED <<pc, stage, server, transport, finished, transportStoppedUnexpectedly, exit>>

\* triggerRestart, in the two steps it takes.
TriggerRestart(c) ==
    /\ Alive /\ c \in {"restart", "hup"}
    /\ \/ /\ caller[c] = "waiting"
          /\ caller' = [caller EXCEPT ![c] = "half"]
          /\ restartRequested' = TRUE
          /\ UNCHANGED <<ctxDone, capturing, cause>>
       \/ /\ caller[c] = "half"
          /\ caller' = [caller EXCEPT ![c] = "done"]
          /\ CallStop("restart")
          /\ UNCHANGED restartRequested
    /\ UNCHANGED <<pc, stage, server, transport, finished, transportStoppedUnexpectedly, exit>>

\* shutdownFunc, which is stop.
Shutdown ==
    /\ Alive /\ caller["shutdown"] = "waiting"
    /\ caller' = [caller EXCEPT !["shutdown"] = "done"]
    /\ CallStop("stop")
    /\ UNCHANGED <<pc, stage, restartRequested, server, transport, finished,
                   transportStoppedUnexpectedly, exit>>

\* SIGTERM or an interrupt, as long as NotifyContext has it, and afterwards.
SigTerm ==
    /\ Alive
    /\ \/ /\ capturing /\ ~ctxDone
          /\ CancelFor("stop")
          /\ UNCHANGED exit
       \/ /\ ~capturing
          /\ exit' = "killed"
          /\ UNCHANGED <<ctxDone, cause>>
    /\ UNCHANGED <<pc, stage, capturing, restartRequested, caller, server, transport,
                   finished, transportStoppedUnexpectedly>>

\* ListenAndServe returns: with an error at any time, with ErrServerClosed as soon
\* as the goroutine that waits for the context has called server.Shutdown.
ServerReturns ==
    /\ Alive /\ server = "serving"
    /\ server' \in {"failed"} \cup (IF ctxDone THEN {"closed"} ELSE {})
    /\ UNCHANGED <<pc, stage, ctxDone, capturing, restartRequested, caller, transport,
                   finished, transportStoppedUnexpectedly, exit, cause>>

\* runTransport returns: nil when the context is done, or for another reason.
TransportReturns ==
    /\ Alive /\ transport = "running"
    /\ transport' \in {"failed"} \cup (IF ctxDone THEN {"stopped"} ELSE {})
    /\ UNCHANGED <<pc, stage, ctxDone, capturing, restartRequested, caller, server,
                   finished, transportStoppedUnexpectedly, exit, cause>>

----------------------------------------------------------------------------
(* main *)

\* A stage of the start succeeds or fails; after the last one the transport and
\* the server run.
Start ==
    /\ Alive /\ pc = "starting"
    /\ \/ exit' = "failed" /\ UNCHANGED <<pc, stage, server, transport>>
       \/ /\ stage' = stage + 1
          /\ LET last == stage' = Len(Stages) IN
                /\ pc' = IF last THEN "select" ELSE pc
                /\ server' = IF last THEN "serving" ELSE server
                /\ transport' = IF last THEN "running" ELSE transport
          /\ UNCHANGED exit
    /\ UNCHANGED <<ctxDone, capturing, restartRequested, caller, finished,
                   transportStoppedUnexpectedly, cause>>

ServerDone == server \in {"closed", "failed"}
TransportDone == transport \in {"stopped", "failed"}

\* The select takes whatever is ready.
Select ==
    /\ Alive /\ pc = "select" /\ pc' = "await_server"
    /\ \/ /\ ServerDone
          /\ finished' = {"server"}
          /\ CallStop("fault")
          /\ UNCHANGED transportStoppedUnexpectedly
       \/ /\ TransportDone
          /\ finished' = {"transport"}
          /\ transportStoppedUnexpectedly' = ~ctxDone
          /\ CallStop("fault")
       \/ /\ ctxDone
          /\ UNCHANGED <<finished, transportStoppedUnexpectedly, ctxDone, capturing, cause>>
    /\ UNCHANGED <<stage, restartRequested, caller, server, transport, exit>>

\* A plausible bug: a wait has no limit.
AwaitForever(here, what, isDone, next) ==
    /\ Alive /\ pc = here
    /\ what \in finished \/ isDone
    /\ pc' = next
    /\ finished' = finished \cup {what}
    /\ UNCHANGED <<stage, ctxDone, capturing, restartRequested, caller, server, transport,
                   transportStoppedUnexpectedly, exit, cause>>

\* The waits for the server and the transport, of ten seconds each.
Await(here, what, isDone, next) ==
    /\ Alive /\ pc = here
    /\ \/ /\ what \in finished \/ isDone
          /\ pc' = next
          /\ finished' = finished \cup {what}
          /\ UNCHANGED exit
       \/ /\ what \notin finished
          /\ exit' = "failed"
          /\ UNCHANGED <<pc, finished>>
    /\ UNCHANGED <<stage, ctxDone, capturing, restartRequested, caller, server, transport,
                   transportStoppedUnexpectedly, cause>>

\* What run returns; its deferred stop is called.
Decide ==
    /\ Alive /\ pc = "decide"
    /\ CallStop("stop")
    /\ LET error == server = "failed" \/ transportStoppedUnexpectedly IN
          /\ pc' = IF ~error /\ restartRequested THEN "relaunch" ELSE pc
          /\ exit' = CASE error -> "failed"
                       [] ~error /\ restartRequested -> ""
                       [] OTHER -> "stopped"
    /\ UNCHANGED <<stage, restartRequested, caller, server, transport, finished,
                   transportStoppedUnexpectedly>>

\* main: a container relaunches the process, RestartSelf starts another or fails.
Relaunch ==
    /\ Alive /\ pc = "relaunch"
    /\ exit' \in {"restarted", "failed"}
    /\ UNCHANGED <<pc, stage, ctxDone, capturing, restartRequested, caller, server,
                   transport, finished, transportStoppedUnexpectedly, cause>>

Main ==
    \/ Start \/ Select \/ Decide \/ Relaunch
    \/ Await("await_server", "server", ServerDone, "await_transport")
    \/ Await("await_transport", "transport", TransportDone, "decide")

\* A new process, whoever starts it.
Boot ==
    /\ ~Alive
    /\ pc' = "starting" /\ stage' = 0
    /\ ctxDone' = FALSE /\ capturing' = TRUE
    /\ restartRequested' = FALSE
    /\ caller' = [c \in Callers |-> "idle"]
    /\ server' = "absent" /\ transport' = "absent"
    /\ finished' = {} /\ transportStoppedUnexpectedly' = FALSE
    /\ exit' = "" /\ cause' = ""

LifecycleNext ==
    \/ Main \/ Boot
    \/ \E c \in Callers : Post(c) \/ TriggerRestart(c)
    \/ SigHup \/ HupLeaves \/ Shutdown \/ SigTerm
    \/ ServerReturns \/ TransportReturns

\* Only main is assumed to run: a timer that it waits for fires.
LifecycleSpec == LifecycleInit /\ [][LifecycleNext]_lifecycleVars /\ WF_lifecycleVars(Main)

----------------------------------------------------------------------------
(* Properties *)

\* What the request that ended the process asked for is what happens: if
\* triggerRestart was first, nobody leaves with a plain stop (main.go:99 "marks a
\* restart intent ... before main() decides whether to exit or re-exec"); a
\* process is only replaced by request, when the server and the transport have
\* returned and their ports are free; and one that stopped because the server or
\* the transport did reports failure, whatever was asked for meanwhile.
RestartHonoured ==
    /\ cause = "restart" => exit # "stopped"
    /\ exit = "restarted" =>
           /\ \E c \in {"restart", "hup"} : caller[c] # "idle"
           /\ ServerDone /\ TransportDone
    /\ cause = "fault" => exit \in {"", "failed", "killed"}

\* Once the context is done, or the server or the transport has returned, the
\* process ends, even if a goroutine that it waits for never returns.
StopCompletes == (ctxDone \/ ServerDone \/ TransportDone) ~> ~Alive
=============================================================================
