---------------------------- MODULE DaemonProofs ----------------------------
(***************************************************************************)
(* Theorems about the components of Daemon, for any value of their         *)
(* constants: sessions survive and, once ended, stay ended (Sessions); a   *)
(* restart changes no setting (Settings); the process ends the way that    *)
(* was asked for (Lifecycle); a page keeps one stream and gets it back     *)
(* (StreamClient).  The last section shows that a behaviour of Daemon is   *)
(* one of every component, so that it has the properties of all of them.   *)
(***************************************************************************)
EXTENDS Daemon, LinkProofs, TLAPS

----------------------------------------------------------------------------
(* Lifecycle: how the process ends. *)

\* A restart that has cancelled the context, or is about to, was noted before,
\* and somebody asked for it.
RequestIsNoted ==
    /\ \A c \in {"restart", "hup"} : caller[c] = "half" => restartRequested
    /\ cause = "restart" => restartRequested
    /\ restartRequested => \E c \in {"restart", "hup"} : caller[c] # "idle"

\* main is past a wait only if what it waited for has returned.
WaitsAreOver ==
    /\ "server" \in finished => ServerDone
    /\ "transport" \in finished => TransportDone
    /\ pc \in {"await_transport", "decide", "relaunch"} => "server" \in finished
    /\ pc \in {"decide", "relaunch"} => "transport" \in finished
    /\ exit = "restarted" => pc = "relaunch"

\* What run returns as an error.
RunError == server = "failed" \/ transportStoppedUnexpectedly

\* A fault that came first leaves an error, and an error no restart.
FaultIsError ==
    /\ server = "closed" => ctxDone
    /\ transport = "stopped" => ctxDone
    /\ cause = "fault" => RunError /\ pc \notin {"starting", "select"}
    /\ pc = "relaunch" => restartRequested /\ ~RunError

\* Before the last stage of the start nothing runs.
StartIsFresh ==
    pc = "starting" =>
        stage < Len(Stages) /\ server = "absent" /\ transport = "absent" /\ finished = {}

LifecycleInv ==
    /\ LifecycleTypeOK
    /\ RequestIsNoted
    /\ WaitsAreOver
    /\ FaultIsError
    /\ StartIsFresh
    /\ RestartHonoured

LEMMA NineStages == Len(Stages) = 9
BY DEF Stages

LEMMA LifecycleInitially == LifecycleInit => LifecycleInv
<1> SUFFICES ASSUME LifecycleInit PROVE LifecycleInv
    OBVIOUS
<1>1. stage \in 0 .. Len(Stages) /\ stage < Len(Stages)
  <2>1. stage = 0
      BY DEF LifecycleInit
  <2> QED
      BY <2>1, NineStages
<1>2. LifecycleTypeOK
    BY <1>1 DEF LifecycleInit, LifecycleTypeOK, Callers
<1>3. RequestIsNoted /\ WaitsAreOver /\ FaultIsError
    BY DEF LifecycleInit, RequestIsNoted, WaitsAreOver, FaultIsError, RunError, Callers
<1>4. StartIsFresh /\ RestartHonoured
    BY <1>1 DEF LifecycleInit, StartIsFresh, RestartHonoured
<1> QED
    BY <1>2, <1>3, <1>4 DEF LifecycleInv

\* A process that is being replaced, or was killed, starts from nothing.
LEMMA BootKeepsLifecycle ==
    ASSUME LifecycleInv, Boot
    PROVE  LifecycleInv'
<1>1. stage' \in 0 .. Len(Stages) /\ stage' < Len(Stages)
  <2>1. stage' = 0
      BY DEF Boot
  <2> QED
      BY <2>1, NineStages
<1>2. LifecycleTypeOK'
    BY <1>1 DEF Boot, LifecycleTypeOK, Callers
<1>3. RequestIsNoted' /\ WaitsAreOver' /\ FaultIsError'
    BY DEF Boot, RequestIsNoted, WaitsAreOver, FaultIsError, RunError, Callers
<1>4. StartIsFresh' /\ RestartHonoured'
    BY <1>1 DEF Boot, StartIsFresh, RestartHonoured
<1> QED
    BY <1>2, <1>3, <1>4 DEF LifecycleInv

\* The goroutines beside main: a request is noted before it cancels, and what
\* cancels later does not become the cause.
LEMMA CallersKeepLifecycle ==
    ASSUME LifecycleInv, NEW c \in Callers,
           Post(c) \/ TriggerRestart(c) \/ SigHup \/ HupLeaves \/ Shutdown
    PROVE  LifecycleInv'
<1>1. /\ caller \in [Callers -> {"idle", "waiting", "half", "done"}]
      /\ LifecycleTypeOK /\ RequestIsNoted /\ WaitsAreOver /\ FaultIsError /\ StartIsFresh
    BY DEF LifecycleInv, LifecycleTypeOK
<1>2. /\ UNCHANGED <<pc, stage, server, transport, finished, transportStoppedUnexpectedly, exit>>
      /\ exit = ""
    BY DEF Post, TriggerRestart, SigHup, HupLeaves, Shutdown, Alive
<1>3. ctxDone => ctxDone' /\ cause' = cause
    BY DEF Post, TriggerRestart, SigHup, HupLeaves, Shutdown, CallStop, CancelFor
<1>4. LifecycleTypeOK'
  <2>1. caller' \in [Callers -> {"idle", "waiting", "half", "done"}]
      BY <1>1 DEF Post, TriggerRestart, SigHup, HupLeaves, Shutdown
  <2>2. /\ \/ UNCHANGED <<ctxDone, cause, capturing>>
           \/ \E why \in {"restart", "stop"} : CallStop(why)
        /\ restartRequested' \in {restartRequested, TRUE}
      BY DEF Post, TriggerRestart, SigHup, HupLeaves, Shutdown
  <2>3. ctxDone \in BOOLEAN /\ capturing \in BOOLEAN /\ restartRequested \in BOOLEAN
        /\ cause \in {"", "restart", "stop", "fault"} /\ (ctxDone <=> cause # "")
      BY <1>1 DEF LifecycleTypeOK
  <2>4. /\ ctxDone' \in BOOLEAN /\ capturing' \in BOOLEAN /\ restartRequested' \in BOOLEAN
        /\ cause' \in {"", "restart", "stop", "fault"} /\ (ctxDone' <=> cause' # "")
    <3>1. restartRequested' \in BOOLEAN
        BY <2>2, <2>3
    <3>2. CASE UNCHANGED <<ctxDone, cause, capturing>>
        BY <2>3, <3>1, <3>2
    <3>3. ASSUME NEW why \in {"restart", "stop"}, CallStop(why)
          PROVE  /\ ctxDone' = TRUE /\ capturing' = FALSE
                 /\ cause' = IF ctxDone THEN cause ELSE why
        BY <3>3 DEF CallStop, CancelFor
    <3>4. ASSUME NEW why \in {"restart", "stop"}, CallStop(why)
          PROVE  cause' \in {"restart", "stop", "fault"}
        BY <2>3, <3>3, <3>4
    <3> QED
        BY <2>2, <3>1, <3>2, <3>3, <3>4
  <2> QED
      BY <1>1, <1>2, <2>1, <2>4 DEF LifecycleTypeOK
<1>5. RequestIsNoted'
  <2>1. {"restart", "hup", "shutdown"} = Callers
      BY DEF Callers
  <2> QED
      BY <1>1, <2>1 DEF RequestIsNoted, Post, TriggerRestart, SigHup, HupLeaves, Shutdown,
                        CallStop, CancelFor
<1>6. WaitsAreOver'
    BY <1>1, <1>2 DEF WaitsAreOver, ServerDone, TransportDone
<1>7. FaultIsError'
  <2>1. restartRequested => restartRequested'
      BY DEF Post, TriggerRestart, SigHup, HupLeaves, Shutdown
  <2>2. cause' = "fault" => cause = "fault"
      BY DEF Post, TriggerRestart, SigHup, HupLeaves, Shutdown, CallStop, CancelFor
  <2> QED
      BY <1>1, <1>2, <1>3, <2>1, <2>2 DEF FaultIsError, RunError
<1>8. StartIsFresh' /\ RestartHonoured'
    BY <1>1, <1>2 DEF StartIsFresh, RestartHonoured
<1> QED
    BY <1>4, <1>5, <1>6, <1>7, <1>8 DEF LifecycleInv

\* Signals, and what the server and the transport do.
LEMMA SurroundingsKeepLifecycle ==
    ASSUME LifecycleInv, SigTerm \/ ServerReturns \/ TransportReturns
    PROVE  LifecycleInv'
<1>1. LifecycleTypeOK /\ RequestIsNoted /\ WaitsAreOver /\ FaultIsError /\ StartIsFresh
    BY DEF LifecycleInv
<1>2. /\ UNCHANGED <<pc, stage, capturing, restartRequested, caller, finished,
                     transportStoppedUnexpectedly>>
      /\ exit = ""
    BY DEF SigTerm, ServerReturns, TransportReturns, Alive
<1>3. LifecycleTypeOK'
  <2>1. CASE SigTerm
    <3>1. UNCHANGED <<server, transport>> /\ exit' \in {"", "killed"}
        BY <1>2, <2>1 DEF SigTerm
    <3>2. \/ ctxDone' = TRUE /\ cause' = "stop"
          \/ UNCHANGED <<ctxDone, cause>>
        BY <2>1 DEF SigTerm, CancelFor
    <3>3. ctxDone' \in BOOLEAN /\ cause' \in {"", "restart", "stop", "fault"}
          /\ (ctxDone' <=> cause' # "")
      <4>1. ctxDone \in BOOLEAN /\ cause \in {"", "restart", "stop", "fault"}
            /\ (ctxDone <=> cause # "")
          BY <1>1 DEF LifecycleTypeOK
      <4>2. CASE ctxDone' = TRUE /\ cause' = "stop"
          BY <4>2
      <4>3. CASE UNCHANGED <<ctxDone, cause>>
          BY <4>1, <4>3
      <4> QED
          BY <3>2, <4>2, <4>3
    <3> QED
        BY <1>1, <1>2, <3>1, <3>3 DEF LifecycleTypeOK
  <2>2. CASE ServerReturns \/ TransportReturns
    <3>1. UNCHANGED <<ctxDone, cause, exit>>
        BY <2>2 DEF ServerReturns, TransportReturns
    <3>2. /\ server' \in {server, "closed", "failed"}
          /\ transport' \in {transport, "stopped", "failed"}
        BY <2>2 DEF ServerReturns, TransportReturns
    <3> QED
        BY <1>1, <1>2, <3>1, <3>2 DEF LifecycleTypeOK
  <2> QED
      BY <2>1, <2>2
<1>4. RequestIsNoted'
    BY <1>1, <1>2 DEF RequestIsNoted, SigTerm, ServerReturns, TransportReturns, CancelFor
<1>5. WaitsAreOver'
    BY <1>1, <1>2 DEF WaitsAreOver, ServerDone, TransportDone, SigTerm, ServerReturns,
                      TransportReturns
<1>6. FaultIsError'
  <2>1. pc = "relaunch" => server \in {"closed", "failed"}
      BY <1>1 DEF WaitsAreOver, ServerDone
  <2> QED
      BY <1>1, <1>2, <2>1 DEF FaultIsError, RunError, LifecycleTypeOK, SigTerm, ServerReturns,
                         TransportReturns, CancelFor
<1>7. StartIsFresh' /\ RestartHonoured'
    BY <1>1, <1>2 DEF StartIsFresh, RestartHonoured, SigTerm, ServerReturns, TransportReturns,
                      CancelFor
<1> QED
    BY <1>3, <1>4, <1>5, <1>6, <1>7 DEF LifecycleInv

\* main up to the end of its waits.
LEMMA WaitingKeepsLifecycle ==
    ASSUME LifecycleInv,
           \/ Start \/ Select
           \/ Await("await_server", "server", ServerDone, "await_transport")
           \/ Await("await_transport", "transport", TransportDone, "decide")
    PROVE  LifecycleInv'
<1>1. LifecycleTypeOK /\ RequestIsNoted /\ WaitsAreOver /\ FaultIsError /\ StartIsFresh
    BY DEF LifecycleInv
<1>2. CASE Start
  <2>1. /\ UNCHANGED <<ctxDone, capturing, restartRequested, caller, finished,
                       transportStoppedUnexpectedly, cause>>
        /\ pc = "starting" /\ exit = ""
      BY <1>2 DEF Start, Alive
  <2>0. stage \in 0 .. 9 /\ stage < 9
    <3>1. stage \in 0 .. Len(Stages) /\ stage < Len(Stages)
        BY <1>1, <2>1 DEF StartIsFresh, LifecycleTypeOK
    <3> QED
        BY <3>1, NineStages
  <2>2. \/ exit' = "failed" /\ UNCHANGED <<pc, stage, server, transport>>
        \/ /\ stage' = stage + 1 /\ stage' # 9 /\ UNCHANGED <<pc, server, transport, exit>>
        \/ /\ stage' = 9 /\ pc' = "select" /\ server' = "serving" /\ transport' = "running"
           /\ exit' = exit
      BY <1>2, <2>1, NineStages DEF Start
  <2>7. stage' \in 0 .. Len(Stages)
    <3>1. stage' \in {stage, stage + 1, 9}
        BY <1>2, <2>2 DEF Start
    <3> QED
        BY <2>0, <3>1, NineStages
  <2>8. stage' < Len(Stages) \/ pc' # "starting"
      BY <2>0, <2>2, NineStages
  <2>3. LifecycleTypeOK'
      BY <1>1, <2>1, <2>2, <2>7 DEF LifecycleTypeOK
  <2>4. RequestIsNoted' /\ StartIsFresh'
    <3>1. RequestIsNoted'
        BY <1>1, <2>1 DEF RequestIsNoted
    <3>2. StartIsFresh'
        BY <1>1, <2>1, <2>2, <2>8 DEF StartIsFresh
    <3> QED
        BY <3>1, <3>2
  <2>5. WaitsAreOver' /\ FaultIsError'
      BY <1>1, <2>1, <2>2 DEF WaitsAreOver, FaultIsError, RunError, StartIsFresh
  <2>6. RestartHonoured'
      BY <2>1, <2>2 DEF RestartHonoured
  <2> QED
      BY <2>3, <2>4, <2>5, <2>6 DEF LifecycleInv
<1>3. CASE Select
  <2>1. /\ UNCHANGED <<stage, restartRequested, caller, server, transport, exit>>
        /\ pc = "select" /\ pc' = "await_server" /\ exit = ""
      BY <1>3 DEF Select, Alive
  <2>2. \/ /\ ServerDone /\ finished' = {"server"}
           /\ UNCHANGED transportStoppedUnexpectedly
        \/ /\ TransportDone /\ finished' = {"transport"}
           /\ transportStoppedUnexpectedly' = ~ctxDone
        \/ ctxDone /\ UNCHANGED <<finished, transportStoppedUnexpectedly>>
      BY <1>3 DEF Select
  <2>9. \/ ctxDone' = TRUE /\ capturing' = FALSE /\ cause' = IF ctxDone THEN cause ELSE "fault"
        \/ ctxDone /\ UNCHANGED <<ctxDone, capturing, cause>>
      BY <1>3 DEF Select, CallStop, CancelFor
  <2>3. /\ ctxDone' = TRUE /\ capturing' \in BOOLEAN
        /\ cause' = IF ctxDone THEN cause ELSE "fault"
    <3>1. ctxDone \in BOOLEAN /\ capturing \in BOOLEAN
        BY <1>1 DEF LifecycleTypeOK
    <3> QED
        BY <2>9, <3>1
  <2>4. LifecycleTypeOK'
      BY <1>1, <2>1, <2>2, <2>3 DEF LifecycleTypeOK
  <2>5. RequestIsNoted' /\ StartIsFresh'
      BY <1>1, <2>1, <2>3 DEF RequestIsNoted, StartIsFresh
  <2>6. WaitsAreOver'
      BY <1>1, <2>1, <2>2 DEF WaitsAreOver, ServerDone, TransportDone
  <2>7. FaultIsError'
    <3>1. ~ctxDone /\ ServerDone => server = "failed"
        BY <1>1 DEF FaultIsError, ServerDone
    <3>2. cause = "fault" => ctxDone
        BY <1>1 DEF LifecycleTypeOK
    <3>3. cause' = "fault" => RunError'
      <4>1. CASE ctxDone
          BY <1>1, <2>1, <2>3, <4>1 DEF FaultIsError
      <4>2. CASE ~ctxDone
        <5>1. CASE ServerDone
            BY <2>1, <3>1, <4>2, <5>1 DEF RunError
        <5>2. CASE transportStoppedUnexpectedly' = ~ctxDone
            BY <4>2, <5>2 DEF RunError
        <5> QED
            BY <2>2, <4>2, <5>1, <5>2
      <4> QED
          BY <4>1, <4>2
    <3> QED
        BY <2>1, <2>3, <3>3 DEF FaultIsError
  <2>8. RestartHonoured'
      BY <2>1 DEF RestartHonoured
  <2> QED
      BY <2>4, <2>5, <2>6, <2>7, <2>8 DEF LifecycleInv
<1>4. CASE Await("await_server", "server", ServerDone, "await_transport")
  <2>1. /\ UNCHANGED <<stage, ctxDone, capturing, restartRequested, caller, server, transport,
                       transportStoppedUnexpectedly, cause>>
        /\ pc = "await_server" /\ exit = ""
        /\ \/ /\ ServerDone /\ exit' = exit
              /\ pc' = "await_transport" /\ finished' = finished \cup {"server"}
           \/ exit' = "failed" /\ UNCHANGED <<pc, finished>>
      BY <1>1, <1>4 DEF Await, Alive, WaitsAreOver
  <2>2. LifecycleTypeOK'
      BY <1>1, <2>1 DEF LifecycleTypeOK
  <2>3. RequestIsNoted' /\ StartIsFresh'
      BY <1>1, <2>1 DEF RequestIsNoted, StartIsFresh
  <2>4. WaitsAreOver'
      BY <1>1, <2>1 DEF WaitsAreOver, ServerDone, TransportDone
  <2>5. FaultIsError' /\ RestartHonoured'
      BY <1>1, <2>1 DEF FaultIsError, RunError, RestartHonoured
  <2> QED
      BY <2>2, <2>3, <2>4, <2>5 DEF LifecycleInv
<1>5. CASE Await("await_transport", "transport", TransportDone, "decide")
  <2>1. /\ UNCHANGED <<stage, ctxDone, capturing, restartRequested, caller, server, transport,
                       transportStoppedUnexpectedly, cause>>
        /\ pc = "await_transport" /\ exit = ""
        /\ \/ /\ TransportDone /\ exit' = exit
              /\ pc' = "decide" /\ finished' = finished \cup {"transport"}
           \/ exit' = "failed" /\ UNCHANGED <<pc, finished>>
      BY <1>1, <1>5 DEF Await, Alive, WaitsAreOver
  <2>2. LifecycleTypeOK'
      BY <1>1, <2>1 DEF LifecycleTypeOK
  <2>3. RequestIsNoted' /\ StartIsFresh'
      BY <1>1, <2>1 DEF RequestIsNoted, StartIsFresh
  <2>4. WaitsAreOver'
      BY <1>1, <2>1 DEF WaitsAreOver, ServerDone, TransportDone
  <2>5. FaultIsError' /\ RestartHonoured'
      BY <1>1, <2>1 DEF FaultIsError, RunError, RestartHonoured
  <2> QED
      BY <2>2, <2>3, <2>4, <2>5 DEF LifecycleInv
<1> QED
    BY <1>2, <1>3, <1>4, <1>5

\* The end: an error is reported, a request without one relaunches.
LEMMA EndKeepsLifecycle ==
    ASSUME LifecycleInv, Decide \/ Relaunch
    PROVE  LifecycleInv'
<1>1. LifecycleTypeOK /\ RequestIsNoted /\ WaitsAreOver /\ FaultIsError /\ StartIsFresh
    BY DEF LifecycleInv
<1>2. CASE Decide
  <2>1. /\ UNCHANGED <<stage, restartRequested, caller, server, transport, finished,
                       transportStoppedUnexpectedly>>
        /\ pc = "decide" /\ exit = ""
      BY <1>2 DEF Decide, Alive
  <2>2. ctxDone' /\ capturing' = FALSE /\ cause' = IF ctxDone THEN cause ELSE "stop"
      BY <1>2 DEF Decide, CallStop, CancelFor
  <2>3. \/ RunError /\ pc' = pc /\ exit' = "failed"
        \/ ~RunError /\ restartRequested /\ pc' = "relaunch" /\ exit' = ""
        \/ ~RunError /\ ~restartRequested /\ pc' = pc /\ exit' = "stopped"
      BY <1>2 DEF Decide, RunError
  <2>4. LifecycleTypeOK'
      BY <1>1, <2>1, <2>2, <2>3 DEF LifecycleTypeOK
  <2>5. RequestIsNoted' /\ StartIsFresh' /\ WaitsAreOver'
      BY <1>1, <2>1, <2>2, <2>3 DEF RequestIsNoted, StartIsFresh, WaitsAreOver, ServerDone,
                                   TransportDone
  <2>6. FaultIsError'
      BY <1>1, <2>1, <2>2, <2>3 DEF FaultIsError, RunError
  <2>7. RestartHonoured'
      BY <1>1, <2>1, <2>2, <2>3 DEF RestartHonoured, FaultIsError, RequestIsNoted
  <2> QED
      BY <2>4, <2>5, <2>6, <2>7 DEF LifecycleInv
<1>3. CASE Relaunch
  <2>1. /\ UNCHANGED <<pc, stage, ctxDone, capturing, restartRequested, caller, server,
                       transport, finished, transportStoppedUnexpectedly, cause>>
        /\ pc = "relaunch" /\ exit' \in {"restarted", "failed"}
      BY <1>3 DEF Relaunch
  <2>2. LifecycleTypeOK' /\ RequestIsNoted' /\ StartIsFresh' /\ FaultIsError'
      BY <1>1, <2>1 DEF LifecycleTypeOK, RequestIsNoted, StartIsFresh, FaultIsError, RunError
  <2>3. WaitsAreOver'
      BY <1>1, <2>1 DEF WaitsAreOver, ServerDone, TransportDone
  <2>4. RestartHonoured'
    <3>1. /\ \E c \in {"restart", "hup"} : caller[c] # "idle"
          /\ ServerDone /\ TransportDone /\ cause # "fault"
        BY <1>1, <2>1 DEF RequestIsNoted, WaitsAreOver, FaultIsError
    <3> QED
        BY <2>1, <3>1 DEF RestartHonoured, ServerDone, TransportDone
  <2> QED
      BY <2>2, <2>3, <2>4 DEF LifecycleInv
<1> QED
    BY <1>2, <1>3

LEMMA LifecycleStep == LifecycleInv /\ [LifecycleNext]_lifecycleVars => LifecycleInv'
<1> SUFFICES ASSUME LifecycleInv, [LifecycleNext]_lifecycleVars PROVE LifecycleInv'
    OBVIOUS
<1>1. CASE Main
    BY <1>1, WaitingKeepsLifecycle, EndKeepsLifecycle DEF Main
<1>2. ASSUME NEW c \in Callers, Post(c) \/ TriggerRestart(c) PROVE LifecycleInv'
    BY <1>2, CallersKeepLifecycle
<1>3. CASE SigHup \/ HupLeaves \/ Shutdown
  <2>1. "shutdown" \in Callers
      BY DEF Callers
  <2> QED
      BY <1>3, <2>1, CallersKeepLifecycle
<1>4. CASE SigTerm \/ ServerReturns \/ TransportReturns
    BY <1>4, SurroundingsKeepLifecycle
<1>5. CASE Boot
    BY <1>5, BootKeepsLifecycle
<1>6. CASE UNCHANGED lifecycleVars
  <2>0. RequestIsNoted'
      BY <1>6 DEF lifecycleVars, LifecycleInv, RequestIsNoted
  <2>1. LifecycleTypeOK'
      BY <1>6, Zenon DEF lifecycleVars, LifecycleInv, LifecycleTypeOK
  <2>2. WaitsAreOver' /\ StartIsFresh' /\ RestartHonoured'
      BY <1>6 DEF lifecycleVars, LifecycleInv, WaitsAreOver, StartIsFresh, RestartHonoured,
                  ServerDone, TransportDone
  <2>3. FaultIsError'
      BY <1>6 DEF lifecycleVars, LifecycleInv, FaultIsError, RunError
  <2> QED
      BY <2>0, <2>1, <2>2, <2>3 DEF LifecycleInv
<1> QED
    BY <1>1, <1>2, <1>3, <1>4, <1>5, <1>6 DEF LifecycleNext

\* The process ends the way the request that ended it meant: a restart that came
\* first is not a plain stop, a process is replaced only by request and with its
\* ports free, and a fault that came first is reported as a failure.
THEOREM EndIsHonoured == LifecycleSpec => []RestartHonoured
<1>1. LifecycleInv => RestartHonoured
    BY DEF LifecycleInv
<1> QED
    BY <1>1, LifecycleInitially, LifecycleStep, PTL DEF LifecycleSpec

----------------------------------------------------------------------------
(* StreamClient: one stream, and back again. *)

ConnectionState ==
    [source : 0 .. MaxSources, retryTimer : BOOLEAN, heartbeatTimer : BOOLEAN,
     asking : 0 .. MaxAsking, closed : BOOLEAN]
SourceState == [of : Connections, ready : {"none", "connecting", "open", "closed"}]

\* A connection that is not the newest has no source and will not try again; it
\* is closed, or has not been made yet and nothing can reach it.
OthersRetired ==
    \A c \in Connections \ {newest} :
        /\ connection[c].source = 0 /\ ~connection[c].retryTimer
        /\ connection[c].closed \/ (connection[c].asking = 0 /\ ~connection[c].heartbeatTimer)

\* The same for the newest, once it is closed.
ClosedRetired ==
    connection[newest].closed => connection[newest].source = 0 /\ ~connection[newest].retryTimer

\* A source that streams belongs to a connection that was made, and `source` of
\* the newest names a source of its own.
SourcesOwned ==
    /\ \A s \in Sources : Streaming(s) =>
           eventSource[s].of = newest \/ connection[eventSource[s].of].closed
    /\ connection[newest].source # 0 => eventSource[connection[newest].source].of = newest

\* As long as no answer was late, the newest connection does one thing at a time:
\* it has a source, asks for the session, or waits to try again.
OneThingAtATime ==
    LET r == connection[newest]
    IN  /\ r.source # 0 => r.asking = 0 /\ ~r.retryTimer
        /\ r.retryTimer => r.asking = 0
        /\ r.asking <= 1
        /\ r.closed => shown # "connected"

ClientInv ==
    /\ StreamClientTypeOK
    /\ OthersRetired
    /\ ClosedRetired
    /\ SourcesOwned
    /\ TriesAgain
    /\ ~late => OneThingAtATime /\ OneStream

LEMMA ClientTypes ==
    ASSUME StreamClientTypeOK
    PROVE  /\ connection \in [Connections -> ConnectionState] /\ newest \in Connections
           /\ eventSource \in [Sources -> SourceState]
           /\ shown \in {"connecting", "connected", "disconnected", "unauthenticated"}
           /\ locked \subseteq Connections /\ late \in BOOLEAN
BY DEF StreamClientTypeOK, ConnectionState, SourceState

LEMMA TypesFromParts ==
    ASSUME connection' \in [Connections -> ConnectionState], newest' \in Connections,
           eventSource' \in [Sources -> SourceState],
           shown' \in {"connecting", "connected", "disconnected", "unauthenticated"},
           locked' \subseteq Connections, late' \in BOOLEAN
    PROVE  StreamClientTypeOK'
BY DEF StreamClientTypeOK, ConnectionState, SourceState

\* What close() does to the sources: the one that is named ends, if there is one.
LEMMA ShutSpec ==
    ASSUME StreamClientTypeOK, NEW c \in Connections, NEW sources \in [Sources -> SourceState]
    PROVE  /\ Shut(c, sources) \in [Sources -> SourceState]
           /\ \A t \in Sources : Shut(c, sources)[t].of = sources[t].of
           /\ \A t \in Sources : t # connection[c].source => Shut(c, sources)[t] = sources[t]
           /\ \A t \in Sources : t = connection[c].source => Shut(c, sources)[t].ready = "closed"
<1>1. connection[c].source \in 0 .. MaxSources
    BY ClientTypes DEF ConnectionState
<1>2. CASE connection[c].source = 0
  <2>1. Shut(c, sources) = sources
      BY <1>2 DEF Shut
  <2>2. \A t \in Sources : t # 0
      BY DEF Sources
  <2> QED
      BY <1>2, <2>1, <2>2
<1>3. CASE connection[c].source # 0
  <2> DEFINE n == connection[c].source
  <2>1. n \in Sources
      BY <1>1, <1>3, StreamClientAssumption DEF Sources
  <2>2. Shut(c, sources) = [sources EXCEPT ![n].ready = "closed"]
      BY <1>3 DEF Shut
  <2> HIDE DEF n
  <2>3. /\ Shut(c, sources)[n] = [sources[n] EXCEPT !.ready = "closed"]
        /\ \A t \in Sources : t # n => Shut(c, sources)[t] = sources[t]
        /\ sources[n] \in SourceState
      BY <2>1, <2>2
  <2>4. [sources[n] EXCEPT !.ready = "closed"] \in SourceState
      BY <2>3 DEF SourceState
  <2>5. Shut(c, sources)[n].of = sources[n].of /\ Shut(c, sources)[n].ready = "closed"
      BY <2>3 DEF SourceState
  <2>6. Shut(c, sources) \in [Sources -> SourceState]
      BY <2>2, <2>3, <2>4
  <2> QED
      BY <2>3, <2>5, <2>6 DEF n
<1> QED
    BY <1>2, <1>3

\* Under the invariant no more than one source streams, unless an answer was late.
LEMMA StreamingIsNamed ==
    ASSUME ClientInv, ~late, NEW s \in Sources, Streaming(s)
    PROVE  /\ s = connection[newest].source /\ eventSource[s].of = newest
           /\ connection[newest].source # 0 /\ ~connection[newest].closed
<1>1. s = connection[newest].source
    BY DEF ClientInv, OneStream
<1>2. s # 0
    BY DEF Sources
<1> QED
    BY <1>1, <1>2 DEF ClientInv, SourcesOwned, ClosedRetired

\* A source opens, or delivers: its connection watches it.
LEMMA SourceLivesKeeps ==
    ASSUME ClientInv, NEW s \in Sources, SourceOpens(s) \/ DataArrives(s)
    PROVE  ClientInv'
<1> DEFINE c == eventSource[s].of
<1>1. /\ StreamClientTypeOK /\ OthersRetired /\ ClosedRetired /\ SourcesOwned /\ TriesAgain
      /\ ~late => OneThingAtATime /\ OneStream
    BY DEF ClientInv
<1>2. Streaming(s) /\ c \in Connections
    BY <1>1, ClientTypes DEF SourceOpens, DataArrives, Streaming, SourceState
<1>3. UNCHANGED <<newest, locked, late>>
    BY DEF SourceOpens, DataArrives
<1>4. /\ connection' \in [Connections -> ConnectionState]
      /\ \A d \in Connections \ {c} : connection'[d] = connection[d]
      /\ connection'[c].heartbeatTimer = TRUE /\ connection'[c].source = connection[c].source
      /\ connection'[c].retryTimer = connection[c].retryTimer
      /\ connection'[c].asking = connection[c].asking
      /\ connection'[c].closed = connection[c].closed
  <2> DEFINE r == [connection[c] EXCEPT !.heartbeatTimer = TRUE]
  <2>1. connection \in [Connections -> ConnectionState]
        /\ connection' = [connection EXCEPT ![c] = r]
      BY <1>1, ClientTypes DEF SourceOpens, DataArrives
  <2>2. r \in ConnectionState /\ r.heartbeatTimer = TRUE /\ r.source = connection[c].source
        /\ r.retryTimer = connection[c].retryTimer /\ r.asking = connection[c].asking
        /\ r.closed = connection[c].closed
      BY <1>2, <2>1 DEF ConnectionState
  <2> HIDE DEF r, c
  <2> QED
      BY <1>2, <2>1, <2>2
<1>5. /\ eventSource' \in [Sources -> SourceState]
      /\ \A t \in Sources \ {s} : eventSource'[t] = eventSource[t]
      /\ eventSource'[s].of = c /\ eventSource'[s].ready = "open"
  <2> DEFINE e == [eventSource[s] EXCEPT !.ready = "open"]
  <2>1. eventSource \in [Sources -> SourceState] /\ eventSource[s] \in SourceState
      BY <1>1, ClientTypes
  <2>2. e \in SourceState /\ e.of = c /\ e.ready = "open"
      BY <2>1 DEF SourceState
  <2>3. CASE SourceOpens(s)
    <3>1. eventSource' = [eventSource EXCEPT ![s] = e]
        BY <2>1, <2>3 DEF SourceOpens
    <3> HIDE DEF e, c
    <3> QED
        BY <2>1, <2>2, <3>1
  <2>4. CASE DataArrives(s)
      BY <2>1, <2>4 DEF DataArrives
  <2> QED
      BY <2>3, <2>4
<1>6. shown' \in {"connected", shown} /\ shown' \in {"connecting", "connected", "disconnected", "unauthenticated"}
    BY <1>1, ClientTypes DEF SourceOpens, DataArrives
<1>7. c = newest \/ connection[c].closed
    BY <1>1, <1>2 DEF SourcesOwned
<1>8. newest \in Connections
    BY <1>1, ClientTypes
<1> HIDE DEF c
<1>9. StreamClientTypeOK'
    BY <1>1, <1>3, <1>4, <1>5, <1>6, ClientTypes, TypesFromParts
<1>10. OthersRetired' /\ ClosedRetired'
    BY <1>1, <1>3, <1>4, <1>7, <1>8 DEF OthersRetired, ClosedRetired
<1>11. \A t \in Sources : Streaming(t)' <=> Streaming(t)
    BY <1>2, <1>5 DEF Streaming
<1>12. \A t \in Sources : eventSource'[t].of = eventSource[t].of
    BY <1>5 DEF c
<1>13. \A d \in Connections : connection'[d].closed = connection[d].closed
                              /\ connection'[d].source = connection[d].source
    BY <1>4
<1>14. connection[newest].source \in 0 .. MaxSources /\ \A t \in Sources : eventSource[t].of \in Connections
    BY <1>1, <1>8, ClientTypes DEF ConnectionState, SourceState
<1>15. connection[newest].source # 0 => connection[newest].source \in Sources
    BY <1>14, StreamClientAssumption DEF Sources
<1>16. SourcesOwned'
    BY <1>1, <1>3, <1>8, <1>11, <1>12, <1>13, <1>14, <1>15 DEF SourcesOwned
<1>17. TriesAgain'
  <2>1. CASE c = newest
      BY <1>3, <1>4, <2>1 DEF TriesAgain
  <2>2. CASE c # newest
    <3>1. connection'[newest] = connection[newest]
        BY <1>4, <1>8, <2>2
    <3>2. connection[newest].source # 0 =>
              eventSource'[connection[newest].source] = eventSource[connection[newest].source]
        BY <1>1, <1>5, <1>15, <2>2 DEF SourcesOwned, c
    <3> QED
        BY <1>1, <1>3, <3>1, <3>2 DEF TriesAgain
  <2> QED
      BY <2>1, <2>2
<1>18. ASSUME ~late' PROVE OneThingAtATime' /\ OneStream'
  <2>1. ~late
      BY <1>3, <1>18
  <2>2. /\ s = connection[newest].source /\ c = newest
        /\ connection[newest].source # 0 /\ ~connection[newest].closed
      BY <1>2, <2>1, StreamingIsNamed DEF c
  <2>3. OneThingAtATime'
      BY <1>1, <1>3, <1>4, <2>1, <2>2 DEF OneThingAtATime
  <2>4. OneStream'
      BY <1>1, <1>3, <1>5, <1>11, <1>13, <1>8, <2>1, <2>2 DEF OneStream
  <2> QED
      BY <2>3, <2>4
<1> QED
    BY <1>9, <1>10, <1>16, <1>17, <1>18 DEF ClientInv

\* A source fails: it ends, and the session is asked for.
LEMMA SourceErrsKeeps ==
    ASSUME ClientInv, NEW s \in Sources, SourceErrs(s)
    PROVE  ClientInv'
<1> DEFINE c == eventSource[s].of
<1>1. /\ StreamClientTypeOK /\ OthersRetired /\ ClosedRetired /\ SourcesOwned /\ TriesAgain
      /\ ~late => OneThingAtATime /\ OneStream
    BY DEF ClientInv
<1>2. Streaming(s) /\ c \in Connections /\ connection[c].asking < MaxAsking /\ newest \in Connections
    BY <1>1, ClientTypes DEF SourceErrs, SourceState
<1>3. UNCHANGED <<newest, shown, locked, late>>
    BY DEF SourceErrs
<1>4. /\ connection' \in [Connections -> ConnectionState]
      /\ \A d \in Connections \ {c} : connection'[d] = connection[d]
      /\ connection'[c].source = 0 /\ connection'[c].asking = connection[c].asking + 1
      /\ connection'[c].retryTimer = connection[c].retryTimer
      /\ connection'[c].closed = connection[c].closed
  <2> DEFINE r == [connection[c] EXCEPT !.source = 0, !.asking = connection[c].asking + 1]
  <2>1. connection \in [Connections -> ConnectionState]
        /\ connection' = [connection EXCEPT ![c] = r]
      BY <1>1, ClientTypes DEF SourceErrs
  <2>2. connection[c].asking + 1 \in 0 .. MaxAsking /\ 0 \in 0 .. MaxSources
    <3>1. connection[c].asking \in 0 .. MaxAsking
        BY <1>2, <2>1 DEF ConnectionState
    <3> QED
        BY <1>2, <3>1, StreamClientAssumption
  <2>3. r \in ConnectionState /\ r.source = 0 /\ r.asking = connection[c].asking + 1
        /\ r.retryTimer = connection[c].retryTimer /\ r.closed = connection[c].closed
      BY <1>2, <2>1, <2>2 DEF ConnectionState
  <2> HIDE DEF r, c
  <2> QED
      BY <1>2, <2>1, <2>3
<1>5. /\ eventSource' \in [Sources -> SourceState]
      /\ \A t \in Sources : eventSource'[t].of = eventSource[t].of
      /\ \A t \in Sources : t # s /\ t # connection[c].source => eventSource'[t] = eventSource[t]
      /\ connection[c].source \in Sources => eventSource'[connection[c].source].ready = "closed"
  <2>1. PICK ready \in {"connecting", "closed"} :
            eventSource' = Shut(c, [eventSource EXCEPT ![s].ready = ready])
      BY DEF SourceErrs
  <2> DEFINE e == [eventSource[s] EXCEPT !.ready = ready]
             sources == [eventSource EXCEPT ![s] = e]
  <2>2. eventSource \in [Sources -> SourceState] /\ eventSource[s] \in SourceState
      BY <1>1, ClientTypes
  <2>3. e \in SourceState /\ e.of = eventSource[s].of
      BY <2>2 DEF SourceState
  <2>4. eventSource' = Shut(c, sources)
      BY <2>1
  <2> HIDE DEF e, c
  <2>5. /\ sources \in [Sources -> SourceState]
        /\ \A t \in Sources : sources[t].of = eventSource[t].of
        /\ \A t \in Sources : t # s => sources[t] = eventSource[t]
      BY <2>2, <2>3
  <2> HIDE DEF sources
  <2> QED
      BY <1>1, <1>2, <2>4, <2>5, ShutSpec
<1>6. c = newest \/ connection[c].closed
    BY <1>1, <1>2 DEF SourcesOwned
<1>7. connection[newest].source # 0 => connection[newest].source \in Sources
  <2>1. connection[newest].source \in 0 .. MaxSources
      BY <1>1, <1>2, ClientTypes DEF ConnectionState
  <2> QED
      BY <2>1, StreamClientAssumption DEF Sources
<1>8. StreamClientTypeOK'
    BY <1>1, <1>3, <1>4, <1>5, ClientTypes, TypesFromParts
<1>9. OthersRetired' /\ ClosedRetired'
    BY <1>1, <1>2, <1>3, <1>4, <1>6 DEF OthersRetired, ClosedRetired
<1>10. SourcesOwned'
  <2>1. ASSUME NEW t \in Sources, Streaming(t)'
        PROVE  eventSource'[t].of = newest \/ connection'[eventSource'[t].of].closed
    <3>1. Streaming(t)
        BY <1>2, <1>5, <2>1 DEF Streaming
    <3>2. eventSource[t].of \in Connections
        BY <1>1, ClientTypes DEF SourceState
    <3> QED
        BY <1>1, <1>4, <1>5, <3>1, <3>2 DEF SourcesOwned
  <2>2. connection'[newest].source # 0 => eventSource'[connection'[newest].source].of = newest
      BY <1>1, <1>2, <1>4, <1>5, <1>7 DEF SourcesOwned
  <2> QED
      BY <1>3, <2>1, <2>2 DEF SourcesOwned
<1>11. TriesAgain'
  <2>1. CASE c = newest
    <3>1. connection'[newest].source = 0 /\ connection'[newest].asking > 0
      <4>1. connection[c].asking \in Nat
          BY <1>1, <1>2, ClientTypes DEF ConnectionState
      <4> QED
          BY <1>4, <2>1, <4>1
    <3> QED
        BY <1>3, <3>1 DEF TriesAgain
  <2>2. CASE c # newest
    <3>1. connection'[newest] = connection[newest]
        BY <1>2, <1>4, <2>2
    <3>2. connection[c].source = 0
        BY <1>1, <1>2, <2>2 DEF OthersRetired
    <3>3. connection[newest].source # 0 =>
              eventSource'[connection[newest].source] = eventSource[connection[newest].source]
        BY <1>1, <1>5, <1>7, <2>2, <3>2 DEF SourcesOwned
    <3> QED
        BY <1>1, <1>3, <3>1, <3>3 DEF TriesAgain
  <2> QED
      BY <2>1, <2>2
<1>12. ASSUME ~late' PROVE OneThingAtATime' /\ OneStream'
  <2>1. ~late
      BY <1>3, <1>12
  <2>2. /\ s = connection[newest].source /\ c = newest
        /\ connection[newest].source # 0 /\ ~connection[newest].closed
      BY <1>2, <2>1, StreamingIsNamed
  <2>3. connection[newest].asking = 0 /\ ~connection[newest].retryTimer
      BY <1>1, <2>1, <2>2 DEF OneThingAtATime
  <2>4. /\ connection'[newest].source = 0 /\ connection'[newest].asking = 1
        /\ ~connection'[newest].retryTimer /\ ~connection'[newest].closed
      BY <1>4, <2>2, <2>3
  <2>5. OneThingAtATime'
      BY <1>3, <2>4 DEF OneThingAtATime
  <2>6. \A t \in Sources : ~Streaming(t)'
    <3>1. \A t \in Sources : t # s => ~Streaming(t)
        BY <1>1, <2>1, <2>2 DEF OneStream
    <3>2. eventSource'[s].ready = "closed"
        BY <1>5, <2>2
    <3> QED
        BY <1>5, <2>2, <3>1, <3>2 DEF Streaming
  <2>7. OneStream'
      BY <1>3, <2>4, <2>6 DEF OneStream
  <2> QED
      BY <2>5, <2>7
<1> QED
    BY <1>8, <1>9, <1>10, <1>11, <1>12 DEF ClientInv

\* The answer that a login is needed, from any connection.
LEMMA AnsweredLockedKeeps ==
    ASSUME ClientInv, NEW c \in Connections, AnsweredLocked(c)
    PROVE  ClientInv'
<1>1. /\ StreamClientTypeOK /\ OthersRetired /\ ClosedRetired /\ SourcesOwned /\ TriesAgain
      /\ ~late => OneThingAtATime /\ OneStream
    BY DEF ClientInv
<1>2. UNCHANGED <<newest, eventSource, late>> /\ shown' = "unauthenticated"
      /\ locked' = locked \cup {c} /\ connection[c].asking > 0 /\ newest \in Connections
    BY <1>1, ClientTypes DEF AnsweredLocked
<1>3. /\ connection' \in [Connections -> ConnectionState]
      /\ \A d \in Connections \ {c} : connection'[d] = connection[d]
      /\ connection'[c].asking = connection[c].asking - 1
      /\ connection'[c].source = connection[c].source
      /\ connection'[c].retryTimer = connection[c].retryTimer
      /\ connection'[c].heartbeatTimer = connection[c].heartbeatTimer
      /\ connection'[c].closed = connection[c].closed
  <2> DEFINE r == [connection[c] EXCEPT !.asking = connection[c].asking - 1]
  <2>1. connection \in [Connections -> ConnectionState]
        /\ connection' = [connection EXCEPT ![c] = r]
      BY <1>1, ClientTypes DEF AnsweredLocked
  <2>2. connection[c].asking - 1 \in 0 .. MaxAsking
    <3>1. connection[c].asking \in 0 .. MaxAsking
        BY <2>1 DEF ConnectionState
    <3> QED
        BY <1>2, <3>1, StreamClientAssumption
  <2>3. /\ r \in ConnectionState /\ r.asking = connection[c].asking - 1
        /\ r.source = connection[c].source /\ r.retryTimer = connection[c].retryTimer
        /\ r.heartbeatTimer = connection[c].heartbeatTimer /\ r.closed = connection[c].closed
      BY <2>1, <2>2 DEF ConnectionState
  <2> HIDE DEF r
  <2> QED
      BY <2>1, <2>3
<1>4. connection[c].asking \in Nat /\ connection[newest].asking \in Nat
    BY <1>1, ClientTypes DEF ConnectionState
<1>5. StreamClientTypeOK'
    BY <1>1, <1>2, <1>3, ClientTypes, TypesFromParts
<1>6. OthersRetired' /\ ClosedRetired'
    BY <1>1, <1>2, <1>3 DEF OthersRetired, ClosedRetired
<1>7. SourcesOwned'
  <2>1. \A t \in Sources : eventSource[t].of \in Connections
      BY <1>1, ClientTypes DEF SourceState
  <2>2. \A d \in Connections : connection'[d].closed = connection[d].closed
                               /\ connection'[d].source = connection[d].source
      BY <1>3
  <2> QED
      BY <1>1, <1>2, <2>1, <2>2 DEF SourcesOwned, Streaming
<1>8. TriesAgain'
  <2>1. /\ connection'[newest].closed = connection[newest].closed
        /\ connection'[newest].source = connection[newest].source
        /\ connection'[newest].retryTimer = connection[newest].retryTimer
        /\ connection'[newest].heartbeatTimer = connection[newest].heartbeatTimer
        /\ connection'[newest].asking = connection[newest].asking \/ newest \in locked'
      BY <1>2, <1>3
  <2> QED
      BY <1>1, <1>2, <2>1 DEF TriesAgain
<1>9. ASSUME ~late' PROVE OneThingAtATime' /\ OneStream'
  <2>1. /\ connection'[newest].closed = connection[newest].closed
        /\ connection'[newest].source = connection[newest].source
        /\ connection'[newest].retryTimer = connection[newest].retryTimer
        /\ connection'[newest].asking \in {connection[newest].asking, connection[newest].asking - 1}
      BY <1>2, <1>3
  <2>2. connection[newest].source # 0 => connection'[newest].asking = connection[newest].asking
      BY <1>1, <1>2, <1>3, <1>9 DEF OneThingAtATime
  <2>3. connection[newest].retryTimer => connection'[newest].asking = connection[newest].asking
      BY <1>1, <1>2, <1>3, <1>9 DEF OneThingAtATime
  <2>4. OneThingAtATime'
      BY <1>1, <1>2, <1>4, <1>9, <2>1, <2>2, <2>3 DEF OneThingAtATime
  <2>5. OneStream'
      BY <1>1, <1>2, <1>9, <2>1 DEF OneStream, Streaming
  <2> QED
      BY <2>4, <2>5
<1> QED
    BY <1>5, <1>6, <1>7, <1>8, <1>9 DEF ClientInv

\* A connection in use waits for its next attempt, a closed one gives up.
LEMMA ScheduleSpec ==
    ASSUME StreamClientTypeOK, NEW c \in Connections, NEW r \in ConnectionState,
           ScheduleReconnect(c, r)
    PROVE  /\ connection' \in [Connections -> ConnectionState]
           /\ \A d \in Connections \ {c} : connection'[d] = connection[d]
           /\ connection'[c].source = r.source /\ connection'[c].asking = r.asking
           /\ connection'[c].closed = r.closed /\ connection'[c].heartbeatTimer = FALSE
           /\ connection'[c].retryTimer <=> r.retryTimer \/ ~r.closed
           /\ shown' = IF r.closed \/ r.retryTimer THEN shown ELSE "disconnected"
<1> DEFINE retry == r.retryTimer \/ ~r.closed
           q == [r EXCEPT !.heartbeatTimer = FALSE, !.retryTimer = retry]
<1>1. connection \in [Connections -> ConnectionState] /\ connection' = [connection EXCEPT ![c] = q]
    BY ClientTypes DEF ScheduleReconnect
<1>2. retry \in BOOLEAN
    OBVIOUS
<1>3. /\ q \in ConnectionState /\ q.source = r.source /\ q.asking = r.asking
      /\ q.closed = r.closed /\ q.heartbeatTimer = FALSE /\ q.retryTimer = retry
  <2> HIDE DEF retry
  <2> QED
      BY <1>2 DEF ConnectionState
<1>4. shown' = IF r.closed \/ r.retryTimer THEN shown ELSE "disconnected"
    BY DEF ScheduleReconnect
<1>5. connection'[c] = q /\ connection' \in [Connections -> ConnectionState]
      /\ \A d \in Connections \ {c} : connection'[d] = connection[d]
  <2> HIDE DEF q
  <2> QED
      BY <1>1, <1>3
<1>6. connection'[c].retryTimer <=> r.retryTimer \/ ~r.closed
  <2>1. connection'[c].retryTimer = retry
    <3> HIDE DEF q, retry
    <3> QED
        BY <1>3, <1>5
  <2> QED
      BY <2>1
<1> HIDE DEF q
<1> QED
    BY <1>3, <1>4, <1>5, <1>6


\* A question is answered, or a source is given up, and the connection schedules
\* its next attempt.
LEMMA RescheduledKeeps ==
    ASSUME ClientInv, NEW c \in Connections, NEW r \in ConnectionState,
           ScheduleReconnect(c, r), UNCHANGED <<newest, locked>>,
           late' \in BOOLEAN, ~late' => ~late,
           \/ UNCHANGED eventSource /\ r.source = connection[c].source /\ connection[c].asking > 0
           \/ eventSource' = Shut(c, eventSource) /\ r.source = 0,
           r.retryTimer = connection[c].retryTimer, r.closed = connection[c].closed,
           c = newest \/ connection[c].closed,
           ~late' /\ c = newest => r.asking = 0
    PROVE  ClientInv'
<1>1. /\ StreamClientTypeOK /\ OthersRetired /\ ClosedRetired /\ SourcesOwned /\ TriesAgain
      /\ ~late => OneThingAtATime /\ OneStream
    BY DEF ClientInv
<1>2. /\ connection' \in [Connections -> ConnectionState]
      /\ \A d \in Connections \ {c} : connection'[d] = connection[d]
      /\ connection'[c].source = r.source /\ connection'[c].asking = r.asking
      /\ connection'[c].closed = r.closed /\ connection'[c].heartbeatTimer = FALSE
      /\ connection'[c].retryTimer <=> r.retryTimer \/ ~r.closed
      /\ shown' = IF r.closed \/ r.retryTimer THEN shown ELSE "disconnected"
    BY <1>1, ScheduleSpec
<1>3. newest \in Connections /\ newest' = newest
      /\ shown \in {"connecting", "connected", "disconnected", "unauthenticated"}
      /\ eventSource \in [Sources -> SourceState]
    BY <1>1, ClientTypes
<1>4. /\ eventSource' \in [Sources -> SourceState]
      /\ \A t \in Sources : eventSource'[t].of = eventSource[t].of
      /\ \A t \in Sources : t # connection[c].source => eventSource'[t] = eventSource[t]
      /\ \/ r.source = connection[c].source /\ connection[c].asking > 0 /\ eventSource' = eventSource
         \/ /\ r.source = 0
            /\ \A t \in Sources : t = connection[c].source => eventSource'[t].ready = "closed"
  <2>1. CASE UNCHANGED eventSource /\ r.source = connection[c].source /\ connection[c].asking > 0
      BY <1>3, <2>1
  <2>2. CASE eventSource' = Shut(c, eventSource) /\ r.source = 0
      BY <1>1, <1>3, <2>2, ShutSpec
  <2> QED
      BY <2>1, <2>2
<1>5. connection[newest].source # 0 => connection[newest].source \in Sources
  <2>1. connection[newest].source \in 0 .. MaxSources
      BY <1>1, <1>3, ClientTypes DEF ConnectionState
  <2> QED
      BY <2>1, StreamClientAssumption DEF Sources
<1>6. c # newest => /\ connection'[newest] = connection[newest]
                    /\ \A t \in Sources : eventSource'[t] = eventSource[t]
                    /\ shown' = shown
  <2> SUFFICES ASSUME c # newest
               PROVE  /\ connection'[newest] = connection[newest]
                      /\ \A t \in Sources : eventSource'[t] = eventSource[t]
                      /\ shown' = shown
      OBVIOUS
  <2>1. connection[c].source = 0
      BY <1>1 DEF OthersRetired
  <2>2. \A t \in Sources : t # 0
      BY DEF Sources
  <2> QED
      BY <1>2, <1>3, <1>4, <2>1, <2>2
<1>7. StreamClientTypeOK'
  <2>1. shown' \in {"connecting", "connected", "disconnected", "unauthenticated"}
      BY <1>2, <1>3
  <2>2. locked' \subseteq Connections
      BY <1>1, ClientTypes
  <2> QED
      BY <1>2, <1>3, <1>4, <2>1, <2>2, TypesFromParts
<1>8. OthersRetired'
  <2> SUFFICES ASSUME NEW d \in Connections \ {newest}
               PROVE  /\ connection'[d].source = 0 /\ ~connection'[d].retryTimer
                      /\ \/ connection'[d].closed
                         \/ connection'[d].asking = 0 /\ ~connection'[d].heartbeatTimer
      BY <1>3 DEF OthersRetired
  <2>1. CASE d # c
      BY <1>1, <1>2, <2>1 DEF OthersRetired
  <2>2. CASE d = c
    <3>1. connection[c].source = 0 /\ ~connection[c].retryTimer /\ connection[c].closed
        BY <1>1, <2>2 DEF OthersRetired
    <3> QED
        BY <1>2, <2>2, <3>1
  <2> QED
      BY <2>1, <2>2
<1>9. ClosedRetired'
    BY <1>1, <1>2, <1>3, <1>6 DEF ClosedRetired
<1>10. SourcesOwned'
  <2>1. ASSUME NEW t \in Sources, Streaming(t)'
        PROVE  eventSource'[t].of = newest \/ connection'[eventSource'[t].of].closed
    <3>1. Streaming(t)
        BY <1>4, <2>1 DEF Streaming
    <3>2. eventSource[t].of \in Connections
        BY <1>3 DEF SourceState
    <3> QED
        BY <1>1, <1>2, <1>4, <3>1, <3>2 DEF SourcesOwned
  <2>2. connection'[newest].source # 0 => eventSource'[connection'[newest].source].of = newest
      BY <1>1, <1>2, <1>3, <1>4, <1>5, <1>6 DEF SourcesOwned
  <2> QED
      BY <1>3, <2>1, <2>2 DEF SourcesOwned
<1>11. TriesAgain'
  <2>1. CASE c = newest
      BY <1>2, <1>3, <2>1 DEF TriesAgain
  <2>2. CASE c # newest
      BY <1>1, <1>3, <1>5, <1>6, <2>2 DEF TriesAgain
  <2> QED
      BY <2>1, <2>2
<1>12. ASSUME ~late' PROVE OneThingAtATime' /\ OneStream'
  <2>0. OneThingAtATime /\ OneStream
      BY <1>1, <1>12
  <2>1. CASE c = newest
    <3>1. connection'[newest].asking = 0
        BY <1>2, <1>12, <2>1
    <3>2. connection'[newest].source = 0
      <4>1. connection[c].asking > 0 => connection[c].source = 0
        <5>1. connection[c].asking \in Nat
            BY <1>1, ClientTypes DEF ConnectionState
        <5> QED
            BY <2>0, <2>1, <5>1 DEF OneThingAtATime
      <4> QED
          BY <1>2, <1>4, <2>1, <4>1
    <3>3. shown' # "connected"
      <4>1. connection[newest].closed => shown # "connected"
          BY <2>0 DEF OneThingAtATime
      <4>2. connection[newest].retryTimer => connection[newest].asking = 0 /\ connection[newest].source = 0
          BY <2>0 DEF OneThingAtATime
      <4>3. connection[newest].retryTimer => shown # "connected"
          BY <2>0, <4>2 DEF OneStream
      <4> QED
          BY <1>2, <2>1, <4>1, <4>3
    <3>4. \A t \in Sources : ~Streaming(t)'
      <4>1. \A t \in Sources : Streaming(t) => t = connection[c].source
          BY <2>0, <2>1 DEF OneStream
      <4>2. \A t \in Sources : t # 0
          BY DEF Sources
      <4> QED
          BY <1>2, <1>4, <2>1, <3>2, <4>1, <4>2 DEF Streaming
    <3>5. OneThingAtATime'
        BY <1>3, <3>1, <3>2, <3>3 DEF OneThingAtATime
    <3>6. OneStream'
        BY <3>3, <3>4 DEF OneStream
    <3> QED
        BY <3>5, <3>6
  <2>2. CASE c # newest
    <3>1. OneThingAtATime'
        BY <1>3, <1>6, <2>0, <2>2 DEF OneThingAtATime
    <3>2. OneStream'
        BY <1>3, <1>5, <1>6, <2>0, <2>2 DEF OneStream, Streaming
    <3> QED
        BY <3>1, <3>2
  <2> QED
      BY <2>1, <2>2
<1> QED
    BY <1>7, <1>8, <1>9, <1>10, <1>11, <1>12 DEF ClientInv

\* The session is good, or nobody knows.
LEMMA AnsweredOtherwiseKeeps ==
    ASSUME ClientInv, NEW c \in Connections, AnsweredOtherwise(c)
    PROVE  ClientInv'
<1> DEFINE r == [connection[c] EXCEPT !.asking = connection[c].asking - 1]
<1>1. StreamClientTypeOK /\ OthersRetired /\ (~late => OneThingAtATime)
    BY DEF ClientInv
<1>2. connection[c] \in ConnectionState /\ connection[c].asking \in 1 .. MaxAsking
  <2>1. connection[c] \in ConnectionState
      BY <1>1, ClientTypes
  <2>2. connection[c].asking > 0
      BY DEF AnsweredOtherwise
  <2>3. connection[c].asking \in 0 .. MaxAsking
      BY <2>1 DEF ConnectionState
  <2> QED
      BY <2>1, <2>2, <2>3, StreamClientAssumption
<1>3. connection[c].asking - 1 \in 0 .. MaxAsking /\ connection[c].asking > 0
    BY <1>2, StreamClientAssumption
<1>4. /\ r \in ConnectionState /\ r.asking = connection[c].asking - 1
      /\ r.source = connection[c].source /\ r.retryTimer = connection[c].retryTimer
      /\ r.closed = connection[c].closed
    BY <1>2, <1>3 DEF ConnectionState
<1>5. ScheduleReconnect(c, r) /\ UNCHANGED <<newest, eventSource, locked, late>>
    BY DEF AnsweredOtherwise
<1>6. late \in BOOLEAN /\ late' = late
    BY <1>1, <1>5, ClientTypes
<1>7. c = newest \/ connection[c].closed
  <2>1. c # newest => connection[c].closed \/ connection[c].asking = 0
      BY <1>1 DEF OthersRetired
  <2> QED
      BY <1>3, <2>1
<1>8. ~late' /\ c = newest => r.asking = 0
  <2> SUFFICES ASSUME ~late, c = newest PROVE r.asking = 0
      BY <1>6
  <2>1. connection[c].asking <= 1
      BY <1>1 DEF OneThingAtATime
  <2>2. r.asking = connection[c].asking - 1
      BY <1>4
  <2> HIDE DEF r
  <2> QED
      BY <1>2, <2>1, <2>2
<1> HIDE DEF r
<1> QED
    BY <1>3, <1>4, <1>5, <1>6, <1>7, <1>8, RescheduledKeeps

\* The heartbeat is missing.
LEMMA HeartbeatKeeps ==
    ASSUME ClientInv, NEW c \in Connections, HeartbeatFires(c)
    PROVE  ClientInv'
<1> DEFINE r == [connection[c] EXCEPT !.source = 0]
<1>1. StreamClientTypeOK /\ OthersRetired
    BY DEF ClientInv
<1>2. connection[c] \in ConnectionState /\ connection[c].heartbeatTimer
    BY <1>1, ClientTypes DEF HeartbeatFires
<1>3. /\ r \in ConnectionState /\ r.asking = connection[c].asking
      /\ r.source = 0 /\ r.retryTimer = connection[c].retryTimer
      /\ r.closed = connection[c].closed
    BY <1>2, StreamClientAssumption DEF ConnectionState
<1>4. /\ ScheduleReconnect(c, r) /\ UNCHANGED <<newest, locked>>
      /\ eventSource' = Shut(c, eventSource)
      /\ late' = (late \/ connection[c].asking > 0)
    BY DEF HeartbeatFires
<1>5. late' \in BOOLEAN /\ (~late' => ~late)
    BY <1>4
<1>6. ~late' => r.asking = 0
  <2>1. connection[c].asking \in Nat
      BY <1>2 DEF ConnectionState
  <2>2. connection[c].asking > 0 \/ connection[c].asking = 0
      BY <2>1
  <2>3. connection[c].asking > 0 => late'
      BY <1>4, Zenon
  <2> QED
      BY <1>3, <2>2, <2>3, Zenon
<1>7. c = newest \/ connection[c].closed
    BY <1>1, <1>2 DEF OthersRetired
<1> HIDE DEF r
<1> QED
    BY <1>3, <1>4, <1>5, <1>6, <1>7, RescheduledKeeps

\* The next attempt: the connection had no source, and opens one.
LEMMA RetryKeeps ==
    ASSUME ClientInv, NEW c \in Connections, RetryFires(c)
    PROVE  ClientInv'
<1> DEFINE q == [connection[c] EXCEPT !.retryTimer = FALSE]
<1>1. /\ StreamClientTypeOK /\ OthersRetired /\ ClosedRetired /\ SourcesOwned /\ TriesAgain
      /\ ~late => OneThingAtATime /\ OneStream
    BY DEF ClientInv
<1>2. connection[c].retryTimer /\ UNCHANGED <<newest, locked, late>>
      /\ Open(c, q, eventSource)
    BY DEF RetryFires
<1>3. /\ c = newest /\ ~connection[c].closed /\ newest \in Connections
      /\ connection \in [Connections -> ConnectionState]
      /\ eventSource \in [Sources -> SourceState]
      /\ locked \subseteq Connections /\ late \in BOOLEAN
    BY <1>1, <1>2, ClientTypes DEF OthersRetired, ClosedRetired
<1>4. PICK s \in Unborn :
          /\ eventSource' = [eventSource EXCEPT ![s] = [of |-> c, ready |-> "connecting"]]
          /\ connection' = [connection EXCEPT ![c] = [q EXCEPT !.source = s]]
          /\ shown' = "connecting"
  <2> HIDE DEF q
  <2> QED
      BY <1>2 DEF Open
<1>5. s \in Sources /\ s # 0 /\ s \in 0 .. MaxSources
    BY StreamClientAssumption DEF Unborn, Sources
<1>6. /\ eventSource' \in [Sources -> SourceState]
      /\ \A t \in Sources \ {s} : eventSource'[t] = eventSource[t]
      /\ eventSource'[s].of = newest /\ eventSource'[s].ready = "connecting"
  <2> DEFINE e == [of |-> c, ready |-> "connecting"]
  <2>1. e \in SourceState /\ e.of = newest /\ e.ready = "connecting"
      BY <1>3 DEF SourceState
  <2>2. eventSource' = [eventSource EXCEPT ![s] = e]
      BY <1>4
  <2> HIDE DEF e
  <2> QED
      BY <1>3, <1>5, <2>1, <2>2
<1>7. /\ connection' \in [Connections -> ConnectionState]
      /\ \A d \in Connections \ {newest} : connection'[d] = connection[d]
      /\ connection'[newest].source = s /\ connection'[newest].retryTimer = FALSE
      /\ connection'[newest].asking = connection[newest].asking
      /\ connection'[newest].closed = connection[newest].closed
  <2> DEFINE r == [q EXCEPT !.source = s]
  <2>1. connection[c] \in ConnectionState /\ FALSE \in BOOLEAN
      BY <1>3
  <2>2. /\ q \in ConnectionState /\ q.retryTimer = FALSE
        /\ q.asking = connection[c].asking /\ q.closed = connection[c].closed
      BY <2>1 DEF ConnectionState
  <2>3. connection' = [connection EXCEPT ![c] = r]
      BY <1>4
  <2> HIDE DEF q
  <2>4. /\ r \in ConnectionState /\ r.source = s /\ r.retryTimer = FALSE
        /\ r.asking = connection[c].asking /\ r.closed = connection[c].closed
      BY <1>5, <2>2 DEF ConnectionState
  <2> HIDE DEF r
  <2> QED
      BY <1>3, <2>3, <2>4
<1> HIDE DEF q
<1>8. StreamClientTypeOK'
    BY <1>2, <1>3, <1>4, <1>6, <1>7, TypesFromParts
<1>9. OthersRetired' /\ ClosedRetired'
    BY <1>1, <1>2, <1>3, <1>7 DEF OthersRetired, ClosedRetired
<1>10. SourcesOwned'
  <2>1. ASSUME NEW t \in Sources, Streaming(t)'
        PROVE  eventSource'[t].of = newest \/ connection'[eventSource'[t].of].closed
    <3>1. CASE t = s
        BY <1>6, <3>1
    <3>2. CASE t # s
      <4>1. eventSource'[t] = eventSource[t] /\ Streaming(t) /\ eventSource[t].of \in Connections
          BY <1>3, <1>6, <2>1, <3>2 DEF Streaming, SourceState
      <4> QED
          BY <1>1, <1>7, <4>1 DEF SourcesOwned
    <3> QED
        BY <3>1, <3>2
  <2> QED
      BY <1>2, <1>6, <1>7, <2>1 DEF SourcesOwned
<1>11. TriesAgain'
    BY <1>2, <1>5, <1>6, <1>7 DEF TriesAgain
<1>12. ASSUME ~late' PROVE OneThingAtATime' /\ OneStream'
  <2>1. OneThingAtATime /\ OneStream
      BY <1>1, <1>2, <1>12
  <2>2. connection[newest].source = 0 /\ connection[newest].asking = 0
      BY <1>2, <1>3, <2>1 DEF OneThingAtATime
  <2>3. OneThingAtATime'
      BY <1>2, <1>4, <1>7, <2>2 DEF OneThingAtATime
  <2>4. \A t \in Sources : ~Streaming(t)
      BY <2>1, <2>2 DEF OneStream, Sources
  <2>5. \A t \in Sources : Streaming(t)' => t = s
      BY <1>6, <2>4 DEF Streaming
  <2>6. OneStream'
      BY <1>2, <1>4, <1>7, <2>5 DEF OneStream
  <2> QED
      BY <2>3, <2>6
<1> QED
    BY <1>8, <1>9, <1>10, <1>11, <1>12 DEF ClientInv

\* What the function that connectEvents returns leaves of its variables.
LEMMA StoppedSpec ==
    ASSUME NEW r \in ConnectionState
    PROVE  /\ Stopped(r) \in ConnectionState /\ Stopped(r).closed = TRUE
           /\ Stopped(r).heartbeatTimer = FALSE /\ Stopped(r).retryTimer = FALSE
           /\ Stopped(r).source = 0 /\ Stopped(r).asking = r.asking
<1>1. 0 \in 0 .. MaxSources
    BY StreamClientAssumption
<1> QED
    BY <1>1 DEF Stopped, ConnectionState

\* The page is left.
LEMMA DisconnectKeeps ==
    ASSUME ClientInv, Disconnect
    PROVE  ClientInv'
<1> DEFINE r == Stopped(connection[newest])
<1>1. /\ StreamClientTypeOK /\ OthersRetired /\ SourcesOwned
      /\ ~late => OneThingAtATime /\ OneStream
    BY DEF ClientInv
<1>2. /\ UNCHANGED <<newest, locked, late>> /\ shown' = "disconnected"
      /\ eventSource' = Shut(newest, eventSource)
      /\ connection' = [connection EXCEPT ![newest] = r]
    BY DEF Disconnect
<1>3. /\ newest \in Connections /\ connection \in [Connections -> ConnectionState]
      /\ eventSource \in [Sources -> SourceState]
      /\ locked \subseteq Connections /\ late \in BOOLEAN
    BY <1>1, ClientTypes
<1>4. /\ r \in ConnectionState /\ r.closed = TRUE /\ r.retryTimer = FALSE /\ r.source = 0
      /\ r.asking = connection[newest].asking
    BY <1>3, StoppedSpec
<1> HIDE DEF r
<1>5. /\ connection' \in [Connections -> ConnectionState]
      /\ \A d \in Connections \ {newest} : connection'[d] = connection[d]
      /\ connection'[newest].closed = TRUE /\ connection'[newest].retryTimer = FALSE
      /\ connection'[newest].source = 0
      /\ connection'[newest].asking = connection[newest].asking
    BY <1>2, <1>3, <1>4
<1>6. /\ eventSource' \in [Sources -> SourceState]
      /\ \A t \in Sources : eventSource'[t].of = eventSource[t].of
      /\ \A t \in Sources : t # connection[newest].source => eventSource'[t] = eventSource[t]
      /\ \A t \in Sources : t = connection[newest].source => eventSource'[t].ready = "closed"
    BY <1>1, <1>2, <1>3, ShutSpec
<1>7. StreamClientTypeOK'
    BY <1>2, <1>3, <1>5, <1>6, TypesFromParts
<1>8. OthersRetired' /\ ClosedRetired'
    BY <1>1, <1>2, <1>3, <1>5 DEF OthersRetired, ClosedRetired
<1>9. SourcesOwned'
  <2>1. ASSUME NEW t \in Sources, Streaming(t)'
        PROVE  eventSource'[t].of = newest \/ connection'[eventSource'[t].of].closed
    <3>1. Streaming(t)
        BY <1>6, <2>1 DEF Streaming
    <3>2. eventSource[t].of \in Connections
        BY <1>3 DEF SourceState
    <3> QED
        BY <1>1, <1>5, <1>6, <3>1, <3>2 DEF SourcesOwned
  <2> QED
      BY <1>2, <1>5, <2>1 DEF SourcesOwned
<1>10. TriesAgain'
    BY <1>2, <1>5 DEF TriesAgain
<1>11. ASSUME ~late' PROVE OneThingAtATime' /\ OneStream'
  <2>1. OneThingAtATime /\ OneStream
      BY <1>1, <1>2, <1>11
  <2>2. OneThingAtATime'
      BY <1>2, <1>5, <2>1 DEF OneThingAtATime
  <2>3. \A t \in Sources : ~Streaming(t)'
      BY <1>6, <2>1 DEF OneStream, Streaming
  <2>4. OneStream'
      BY <1>2, <2>3 DEF OneStream
  <2> QED
      BY <2>2, <2>4
<1> QED
    BY <1>7, <1>8, <1>9, <1>10, <1>11 DEF ClientInv

\* A login: the old connection ends, a new one opens its source.
LEMMA RestartKeeps ==
    ASSUME ClientInv, Restart
    PROVE  ClientInv'
<1> DEFINE n == newest + 1
           old == Stopped(connection[newest])
<1>1. /\ StreamClientTypeOK /\ OthersRetired /\ SourcesOwned
      /\ ~late => OneThingAtATime /\ OneStream
    BY DEF ClientInv
<1>2. /\ UNCHANGED <<locked, late>> /\ shown' = "connecting" /\ newest' = n
      /\ newest < MaxConnections
    BY DEF Restart
<1>3. /\ newest \in Connections /\ connection \in [Connections -> ConnectionState]
      /\ eventSource \in [Sources -> SourceState]
      /\ locked \subseteq Connections /\ late \in BOOLEAN
    BY <1>1, ClientTypes
<1>4. n \in Connections /\ n # newest
    BY <1>2, <1>3, StreamClientAssumption DEF Connections
<1>5. PICK s \in Unborn :
          /\ eventSource' = [Shut(newest, eventSource) EXCEPT
                                 ![s] = [of |-> n, ready |-> "connecting"]]
          /\ connection' = [connection EXCEPT ![newest] = old,
                                              ![n] = [Fresh EXCEPT !.source = s]]
    BY <1>2 DEF Restart
<1>6. s \in Sources /\ s # 0 /\ s \in 0 .. MaxSources
    BY StreamClientAssumption DEF Unborn, Sources
<1>7. /\ eventSource' \in [Sources -> SourceState]
      /\ eventSource'[s].of = n /\ eventSource'[s].ready = "connecting"
      /\ \A t \in Sources \ {s} : eventSource'[t].of = eventSource[t].of
      /\ \A t \in Sources \ {s} :
             t # connection[newest].source => eventSource'[t] = eventSource[t]
      /\ \A t \in Sources \ {s} :
             t = connection[newest].source => eventSource'[t].ready = "closed"
  <2> DEFINE e == [of |-> n, ready |-> "connecting"]
             sources == Shut(newest, eventSource)
  <2>1. e \in SourceState /\ e.of = n /\ e.ready = "connecting"
      BY <1>4 DEF SourceState
  <2>2. /\ sources \in [Sources -> SourceState]
        /\ \A t \in Sources : sources[t].of = eventSource[t].of
        /\ \A t \in Sources : t # connection[newest].source => sources[t] = eventSource[t]
        /\ \A t \in Sources : t = connection[newest].source => sources[t].ready = "closed"
      BY <1>1, <1>3, ShutSpec
  <2>3. eventSource' = [sources EXCEPT ![s] = e]
      BY <1>5
  <2> HIDE DEF e, n, sources
  <2> QED
      BY <1>6, <2>1, <2>2, <2>3
<1>8. /\ connection' \in [Connections -> ConnectionState]
      /\ \A d \in Connections \ {newest, n} : connection'[d] = connection[d]
      /\ connection'[newest].closed = TRUE /\ connection'[newest].source = 0
      /\ connection'[newest].retryTimer = FALSE
      /\ connection'[n].source = s /\ connection'[n].asking = 0
      /\ connection'[n].retryTimer = FALSE /\ connection'[n].closed = FALSE
  <2> DEFINE r == [Fresh EXCEPT !.source = s]
  <2>1. /\ old \in ConnectionState /\ old.closed = TRUE /\ old.source = 0
        /\ old.retryTimer = FALSE
      BY <1>3, StoppedSpec
  <2>2. /\ r \in ConnectionState /\ r.source = s /\ r.asking = 0
        /\ r.retryTimer = FALSE /\ r.closed = FALSE
    <3>1. 0 \in 0 .. MaxSources /\ 0 \in 0 .. MaxAsking
        BY StreamClientAssumption
    <3> QED
        BY <1>6, <3>1 DEF Fresh, ConnectionState
  <2>3. connection' = [connection EXCEPT ![newest] = old, ![n] = r]
      BY <1>5
  <2> HIDE DEF old, r, n
  <2> QED
      BY <1>3, <1>4, <2>1, <2>2, <2>3
<1> HIDE DEF n, old
<1>9. StreamClientTypeOK'
    BY <1>2, <1>3, <1>4, <1>7, <1>8, TypesFromParts
<1>10. OthersRetired' /\ ClosedRetired'
    BY <1>1, <1>2, <1>3, <1>4, <1>8 DEF OthersRetired, ClosedRetired
<1>11. SourcesOwned'
  <2>1. ASSUME NEW t \in Sources, Streaming(t)'
        PROVE  eventSource'[t].of = n \/ connection'[eventSource'[t].of].closed
    <3>1. CASE t = s
        BY <1>7, <3>1
    <3>2. CASE t # s
      <4>1. /\ Streaming(t) /\ eventSource'[t].of = eventSource[t].of
            /\ eventSource[t].of \in Connections
          BY <1>3, <1>7, <2>1, <3>2 DEF Streaming, SourceState
      <4> QED
          BY <1>1, <1>8, <4>1 DEF SourcesOwned
    <3> QED
        BY <3>1, <3>2
  <2> QED
      BY <1>2, <1>7, <1>8, <2>1 DEF SourcesOwned
<1>12. TriesAgain'
    BY <1>2, <1>6, <1>7, <1>8 DEF TriesAgain
<1>13. ASSUME ~late' PROVE OneThingAtATime' /\ OneStream'
  <2>1. OneStream
      BY <1>1, <1>2, <1>13
  <2>2. \A t \in Sources : Streaming(t)' => t = s
      BY <1>7, <2>1 DEF OneStream, Streaming
  <2>3. OneThingAtATime'
      BY <1>2, <1>8 DEF OneThingAtATime
  <2>4. OneStream'
      BY <1>2, <1>8, <2>2 DEF OneStream
  <2> QED
      BY <2>3, <2>4
<1> QED
    BY <1>9, <1>10, <1>11, <1>12, <1>13 DEF ClientInv

\* A page that has just been loaded.
LEMMA FreshPage ==
    ASSUME StreamClientInit
    PROVE  ClientInv
<1>1. /\ newest = 1 /\ shown = "connecting" /\ locked = {} /\ late = FALSE
      /\ connection = FirstConnection /\ eventSource = FirstSource
    BY DEF StreamClientInit
<1>2. 1 \in Connections /\ 1 \in 0 .. MaxSources /\ 0 \in 0 .. MaxSources
      /\ 0 \in 0 .. MaxAsking /\ 1 \in Sources
    BY StreamClientAssumption DEF Connections, Sources
<1>3. /\ connection \in [Connections -> ConnectionState]
      /\ \A c \in Connections : /\ connection[c].source = IF c = 1 THEN 1 ELSE 0
                                /\ ~connection[c].retryTimer /\ connection[c].asking = 0
                                /\ ~connection[c].closed /\ ~connection[c].heartbeatTimer
  <2>1. ASSUME NEW c \in Connections
        PROVE  /\ connection[c] \in ConnectionState
               /\ connection[c].source = IF c = 1 THEN 1 ELSE 0
               /\ ~connection[c].retryTimer /\ connection[c].asking = 0
               /\ ~connection[c].closed /\ ~connection[c].heartbeatTimer
    <3> DEFINE n == IF c = 1 THEN 1 ELSE 0
    <3>1. connection[c] = [Fresh EXCEPT !.source = n] /\ n \in 0 .. MaxSources
        BY <1>1, <1>2 DEF FirstConnection
    <3> HIDE DEF n
    <3>2. connection[c] \in ConnectionState /\ connection[c].source = n
          /\ ~connection[c].retryTimer /\ connection[c].asking = 0
          /\ ~connection[c].closed /\ ~connection[c].heartbeatTimer
        BY <1>2, <3>1 DEF Fresh, ConnectionState
    <3> QED
        BY <3>2 DEF n
  <2>2. connection = [c \in Connections |-> connection[c]]
      BY <1>1 DEF FirstConnection
  <2> QED
      BY <2>1, <2>2
<1>4. /\ eventSource \in [Sources -> SourceState]
      /\ \A s \in Sources : eventSource[s].of = 1
                            /\ eventSource[s].ready = IF s = 1 THEN "connecting" ELSE "none"
    BY <1>1, <1>2 DEF FirstSource, SourceState
<1>5. StreamClientTypeOK
    BY <1>1, <1>2, <1>3, <1>4 DEF StreamClientTypeOK, ConnectionState, SourceState
<1>6. OthersRetired /\ ClosedRetired /\ SourcesOwned
    BY <1>1, <1>2, <1>3, <1>4 DEF OthersRetired, ClosedRetired, SourcesOwned
<1>7. TriesAgain /\ OneThingAtATime /\ OneStream
    BY <1>1, <1>2, <1>3, <1>4 DEF TriesAgain, OneThingAtATime, OneStream, Streaming
<1> QED
    BY <1>5, <1>6, <1>7 DEF ClientInv

\* The page is loaded again: everything is as at first.
LEMMA MountKeeps ==
    ASSUME Mount
    PROVE  ClientInv'
<1>1. StreamClientInit'
    BY DEF Mount, StreamClientInit, FirstConnection, FirstSource, Fresh
<1>2. StreamClientInit' => ClientInv'
    BY FreshPage, PTL
<1> QED
    BY <1>1, <1>2

\* Another request was refused, or nothing happens at all.
LEMMA AsideKeeps ==
    ASSUME ClientInv, HandleUnauthorized \/ UNCHANGED clientVars
    PROVE  ClientInv'
<1>1. /\ UNCHANGED <<connection, newest, eventSource, locked, late>>
      /\ shown' \in {shown, "unauthenticated"}
    BY DEF HandleUnauthorized, clientVars
<1>2. /\ StreamClientTypeOK /\ OthersRetired /\ ClosedRetired /\ SourcesOwned /\ TriesAgain
      /\ ~late => OneThingAtATime /\ OneStream
    BY DEF ClientInv
<1>3. StreamClientTypeOK'
    BY <1>1, <1>2 DEF StreamClientTypeOK
<1>4. OthersRetired' /\ ClosedRetired' /\ SourcesOwned' /\ TriesAgain'
    BY <1>1, <1>2 DEF OthersRetired, ClosedRetired, SourcesOwned, TriesAgain, Streaming
<1>5. ~late' => OneThingAtATime' /\ OneStream'
    BY <1>1, <1>2 DEF OneThingAtATime, OneStream, Streaming
<1> QED
    BY <1>3, <1>4, <1>5 DEF ClientInv

\* The inductive invariant of a page holds, from the lemmas about its steps.
LEMMA ClientInvariant == StreamClientSpec => []ClientInv
<1>1. StreamClientInit => ClientInv
    BY FreshPage
<1>2. ClientInv /\ [StreamClientNext]_clientVars => ClientInv'
  <2> SUFFICES ASSUME ClientInv, [StreamClientNext]_clientVars PROVE ClientInv'
      OBVIOUS
  <2>1. ASSUME NEW s \in Sources, SourceOpens(s) \/ DataArrives(s) PROVE ClientInv'
      BY <2>1, SourceLivesKeeps
  <2>2. ASSUME NEW s \in Sources, SourceErrs(s) PROVE ClientInv'
      BY <2>2, SourceErrsKeeps
  <2>3. ASSUME NEW c \in Connections, AnsweredLocked(c) PROVE ClientInv'
      BY <2>3, AnsweredLockedKeeps
  <2>4. ASSUME NEW c \in Connections, AnsweredOtherwise(c) PROVE ClientInv'
      BY <2>4, AnsweredOtherwiseKeeps
  <2>5. ASSUME NEW c \in Connections, HeartbeatFires(c) PROVE ClientInv'
      BY <2>5, HeartbeatKeeps
  <2>6. ASSUME NEW c \in Connections, RetryFires(c) PROVE ClientInv'
      BY <2>6, RetryKeeps
  <2>7. CASE Disconnect
      BY <2>7, DisconnectKeeps
  <2>8. CASE Restart
      BY <2>8, RestartKeeps
  <2>9. CASE Mount
      BY <2>9, MountKeeps
  <2>10. CASE HandleUnauthorized \/ UNCHANGED clientVars
      BY <2>10, AsideKeeps
  <2> QED
      BY <2>1, <2>2, <2>3, <2>4, <2>5, <2>6, <2>7, <2>8, <2>9, <2>10 DEF StreamClientNext
<1> QED
    BY <1>1, <1>2, PTL DEF StreamClientSpec

\* A page has one stream and gets it back, for every number of connections,
\* sources and questions.
THEOREM StreamComesBack == StreamClientSpec => []StreamKept
<1>1. ClientInv => StreamKept
    BY DEF ClientInv, StreamKept
<1> QED
    BY <1>1, ClientInvariant, PTL

----------------------------------------------------------------------------
(* Settings: what a restart reads. *)

\* A configuration in the form that normalize leaves as it is.
Canonical(c) == c = normalize(c)

\* What the environment sets is what a configuration has.
EnvInForce(c) == \A f \in DOMAIN env : c[f] = normalize(mergeToml(<<>>, env))[f]

\* What a start would make of a file, but for the password that no file keeps.
ReadsBack(written, c) == \A f \in Fields \ {"auth_password"} : Loaded(written, env)[f] = c[f]

\* What is in force, and what is about to be.
InForce == cfg # NotRunning => Canonical(cfg) /\ EnvInForce(cfg)
CandidatesSound ==
    \A h \in Handlers : serving_put[h] # "idle" =>
        Canonical(candidate[h].config) /\ EnvInForce(candidate[h].config)

\* Without an overlap one request is served at a time, and the file is what the
\* request that is being served makes of it, or what is in force.
OneRequest ==
    ~overlapped => \A g, h \in Handlers :
        serving_put[g] # "idle" /\ serving_put[h] # "idle" => g = h
FileFollows ==
    cfg # NotRunning /\ ~overlapped =>
        /\ \A h \in Handlers : serving_put[h] = "rename" => tmp = buildTomlContent(candidate[h].config)
        /\ \A h \in Handlers : serving_put[h] = "apply" => file = buildTomlContent(candidate[h].config)
        /\ (\A h \in Handlers : serving_put[h] # "apply") => ReadsBack(file, cfg)

SettingsInv ==
    /\ SettingsTypeOK /\ DOMAIN candidate = Handlers
    /\ InForce
    /\ CandidatesSound
    /\ OneRequest
    /\ FileFollows

----------------------------------------------------------------------------
LEMMA NormalTwice ==
    ASSUME NEW f, NEW v
    PROVE  Normal(f, Normal(f, v)) = Normal(f, v)
<1>1. Spelled(f, Spelled(f, v)) = Spelled(f, v)
    BY SettingsAssumption DEF Spelled
<1>2. Spelled(f, "udp") = "udp"
    BY SettingsAssumption DEF Spelled
<1> QED
    BY <1>1, <1>2 DEF Normal

LEMMA NormalizeSpec ==
    ASSUME NEW c
    PROVE  /\ DOMAIN normalize(c) = Fields /\ Canonical(normalize(c))
           /\ \A f \in Fields : normalize(c)[f] = Normal(f, c[f])
<1>1. DOMAIN normalize(c) = Fields /\ \A f \in Fields : normalize(c)[f] = Normal(f, c[f])
    BY DEF normalize
<1>2. \A f \in Fields : Normal(f, normalize(c)[f]) = Normal(f, c[f])
    BY <1>1, NormalTwice
<1>3. normalize(normalize(c)) = normalize(c)
    BY <1>2 DEF normalize
<1> QED
    BY <1>1, <1>3 DEF Canonical

LEMMA CanonicalSpec ==
    ASSUME NEW c, Canonical(c)
    PROVE  DOMAIN c = Fields /\ \A f \in Fields : Normal(f, c[f]) = c[f]
BY NormalizeSpec DEF Canonical

\* Whatever has the fields of a configuration is none of the markers.
LEMMA NoMarker ==
    ASSUME NEW c, DOMAIN c = Fields
    PROVE  c # NotRunning /\ c # NoFile /\ c # Torn
<1>1. "running" \in DOMAIN NotRunning /\ "absent" \in DOMAIN NoFile /\ "torn" \in DOMAIN Torn
    BY DEF NotRunning, NoFile, Torn
<1>2. "running" \notin Fields /\ "absent" \notin Fields /\ "torn" \notin Fields
    BY DEF Fields
<1> QED
    BY <1>1, <1>2

LEMMA BuildSpec ==
    ASSUME NEW c
    PROVE  /\ DOMAIN buildTomlContent(c) = Fields
           /\ \A f \in Fields \ {"auth_password"} : buildTomlContent(c)[f] = Normal(f, c[f])
           /\ Present(buildTomlContent(c)) = buildTomlContent(c)
<1>1. /\ DOMAIN buildTomlContent(c) = Fields
      /\ \A f \in Fields \ {"auth_password"} : buildTomlContent(c)[f] = Normal(f, c[f])
    BY NormalizeSpec DEF buildTomlContent
<1>2. buildTomlContent(c) # NoFile
    BY <1>1, NoMarker
<1> QED
    BY <1>1, <1>2 DEF Present

LEMMA MergeSpec ==
    ASSUME NEW written, NEW e, NEW f \in Fields
    PROVE  mergeToml(written, e)[f] =
               IF f \in DOMAIN e THEN e[f]
               ELSE IF f \in DOMAIN written THEN written[f] ELSE Default[f]
BY DEF mergeToml, mergeNetConsoleToml, mergeSerialToml, Under

\* A start puts in force what the environment sets, in canonical form.
LEMMA LoadedSpec ==
    ASSUME NEW written, NEW e \in Environments
    PROVE  /\ Canonical(Loaded(written, e))
           /\ \A f \in DOMAIN e : Loaded(written, e)[f] = normalize(mergeToml(<<>>, e))[f]
<1>1. DOMAIN e \subseteq Fields
    BY SettingsAssumption
<1>2. \A f \in DOMAIN e : mergeToml(Present(written), e)[f] = mergeToml(<<>>, e)[f]
    BY <1>1, MergeSpec
<1> QED
    BY <1>1, <1>2, NormalizeSpec DEF Loaded

\* The round trip: a configuration with the environment in force is written and
\* read as it is.
LEMMA RoundTrip ==
    ASSUME NEW c, Canonical(c), EnvInForce(c), env \in Environments
    PROVE  ReadsBack(buildTomlContent(c), c)
<1> SUFFICES ASSUME NEW f \in Fields \ {"auth_password"}
             PROVE  Loaded(buildTomlContent(c), env)[f] = c[f]
    BY DEF ReadsBack
<1>1. Loaded(buildTomlContent(c), env)[f] = Normal(f, mergeToml(buildTomlContent(c), env)[f])
    BY BuildSpec, NormalizeSpec DEF Loaded
<1>2. CASE f \in DOMAIN env
  <2>1. mergeToml(buildTomlContent(c), env)[f] = env[f] /\ mergeToml(<<>>, env)[f] = env[f]
      BY <1>2, MergeSpec
  <2>2. c[f] = Normal(f, mergeToml(<<>>, env)[f])
      BY <1>2, NormalizeSpec DEF EnvInForce
  <2> QED
      BY <1>1, <2>1, <2>2
<1>3. CASE f \notin DOMAIN env
  <2>1. mergeToml(buildTomlContent(c), env)[f] = buildTomlContent(c)[f]
      BY <1>3, BuildSpec, MergeSpec
  <2>2. buildTomlContent(c)[f] = c[f] /\ Normal(f, c[f]) = c[f]
      BY BuildSpec, CanonicalSpec
  <2> QED
      BY <1>1, <2>1, <2>2
<1> QED
    BY <1>2, <1>3

\* A request that the environment does not refuse leaves it in force.
LEMMA MergedSpec ==
    ASSUME NEW update, checkEnvLocked(update), env \in Environments,
           Canonical(cfg), EnvInForce(cfg)
    PROVE  Canonical(Merged(update)) /\ EnvInForce(Merged(update))
<1>1. Canonical(Merged(update))
    BY NormalizeSpec DEF Merged
<1>2. ASSUME NEW f \in DOMAIN env
      PROVE  Merged(update)[f] = cfg[f]
  <2>1. f \in Fields /\ f \notin Applied(update)
      BY SettingsAssumption DEF checkEnvLocked
  <2>2. applyNetConsoleUpdate(applySerialUpdate(
            Over(cfg, update, Fields \ (SerialFields \cup NetConsoleFields)), update), update)[f]
        = cfg[f]
      BY <2>1 DEF applyNetConsoleUpdate, applySerialUpdate, Over
  <2> QED
      BY <2>1, <2>2, NormalizeSpec, CanonicalSpec DEF Merged
<1> QED
    BY <1>1, <1>2 DEF EnvInForce

----------------------------------------------------------------------------
LEMMA SettingsInitially == SettingsInit => SettingsInv
<1> SUFFICES ASSUME SettingsInit PROVE SettingsInv
    OBVIOUS
<1>1. SettingsTypeOK /\ DOMAIN candidate = Handlers
  <2>1. env \in Environments
      BY SettingsAssumption DEF SettingsInit
  <2>2. accepted \in 0 .. MaxUpdates
    <3>1. 0 \in 0 .. MaxUpdates
        BY SettingsAssumption
    <3> QED
        BY <3>1 DEF SettingsInit
  <2> QED
      BY <2>1, <2>2 DEF SettingsInit, SettingsTypeOK
<1>2. InForce /\ CandidatesSound /\ OneRequest /\ FileFollows
    BY DEF SettingsInit, InForce, CandidatesSound, OneRequest, FileFollows
<1> QED
    BY <1>1, <1>2 DEF SettingsInv

\* Nothing runs before or after, so that no request is under way.
LEMMA NotRunningKeepsSettings ==
    ASSUME SettingsInv, Prepare \/ Stop
    PROVE  SettingsInv'
<1>1. /\ cfg' = NotRunning /\ UNCHANGED <<env, tmp, accepted, overlapped>>
      /\ \A h \in Handlers : serving_put'[h] = "idle" /\ candidate'[h] = NotRunning
      /\ DOMAIN candidate' = Handlers
      /\ serving_put' \in [Handlers -> {"idle", "write", "rename", "apply"}]
    BY DEF SettingsInv, SettingsTypeOK, Prepare, Stop, NoRequests
<1>2. file' \in {NoFile, Torn} \/ DOMAIN file' \subseteq Fields
    BY SettingsAssumption DEF SettingsInv, SettingsTypeOK, Prepare, Stop
<1>3. SettingsTypeOK'
    BY <1>1, <1>2 DEF SettingsInv, SettingsTypeOK
<1>4. InForce' /\ CandidatesSound' /\ OneRequest' /\ FileFollows'
    BY <1>1 DEF InForce, CandidatesSound, OneRequest, FileFollows
<1> QED
    BY <1>1, <1>3, <1>4 DEF SettingsInv

\* A start reads what it will read again.
LEMMA StartUpKeepsSettings ==
    ASSUME SettingsInv, StartUp
    PROVE  SettingsInv'
<1>1. /\ env' \in Environments /\ file' = Present(file) /\ cfg' = Loaded(file, env')
      /\ overlapped' = FALSE
      /\ UNCHANGED <<tmp, serving_put, candidate, accepted>>
      /\ cfg = NotRunning /\ SettingsTypeOK /\ DOMAIN candidate = Handlers
    BY DEF SettingsInv, StartUp
<1>2. \A h \in Handlers : serving_put'[h] = "idle"
    BY <1>1 DEF SettingsTypeOK
<1>3. Canonical(cfg') /\ \A f \in DOMAIN env' : cfg'[f] = normalize(mergeToml(<<>>, env'))[f]
    BY <1>1, LoadedSpec
<1>4. DOMAIN cfg' = Fields /\ cfg' # NotRunning
    BY <1>3, CanonicalSpec, NoMarker
<1>5. Present(file') = file' /\ (file' = file \/ DOMAIN file' = Fields)
  <2>1. CASE file = NoFile
      BY <1>1, <2>1, BuildSpec DEF Present
  <2>2. CASE file # NoFile
      BY <1>1, <2>2 DEF Present
  <2> QED
      BY <2>1, <2>2
<1>6. Loaded(file', env') = cfg'
    BY <1>1, <1>5 DEF Loaded
<1>7. SettingsTypeOK'
    BY <1>1, <1>2, <1>4, <1>5 DEF SettingsTypeOK
<1>8. InForce' /\ CandidatesSound' /\ OneRequest' /\ FileFollows'
    BY <1>2, <1>3, <1>6 DEF InForce, EnvInForce, CandidatesSound, OneRequest, FileFollows, ReadsBack
<1> QED
    BY <1>1, <1>7, <1>8 DEF SettingsInv

\* A request is let through, with a configuration that is sound.
LEMMA PutConfigKeepsSettings ==
    ASSUME SettingsInv, NEW h \in Handlers, PutConfig(h)
    PROVE  SettingsInv'
<1>1. /\ SettingsTypeOK /\ DOMAIN candidate = Handlers /\ InForce /\ CandidatesSound
      /\ OneRequest /\ FileFollows
    BY DEF SettingsInv
<1>2. /\ cfg # NotRunning /\ serving_put[h] = "idle" /\ accepted < MaxUpdates
      /\ serving_put' = [serving_put EXCEPT ![h] = "write"]
      /\ overlapped' = (overlapped \/ \E g \in Handlers : serving_put[g] # "idle")
      /\ accepted' = accepted + 1
      /\ UNCHANGED <<cfg, env, file, tmp>>
    BY DEF PutConfig
<1>3. PICK update \in Updates :
          /\ checkEnvLocked(update)
          /\ candidate' = [candidate EXCEPT ![h] =
                 [config |-> Merged(update), named |-> "my_call" \in DOMAIN update]]
    BY DEF PutConfig
<1> DEFINE new == [config |-> Merged(update), named |-> "my_call" \in DOMAIN update]
<1>4. new.config = Merged(update) /\ new # NotRunning
  <2>1. "config" \in DOMAIN new /\ "config" \notin DOMAIN NotRunning
      BY DEF NotRunning
  <2> QED
      BY <2>1
<1>5. candidate' = [candidate EXCEPT ![h] = new]
    BY <1>3
<1> HIDE DEF new
<1>6. /\ DOMAIN candidate' = Handlers /\ candidate'[h] = new
      /\ \A g \in Handlers \ {h} : candidate'[g] = candidate[g]
    BY <1>1, <1>5
<1>7. /\ serving_put' \in [Handlers -> {"idle", "write", "rename", "apply"}]
      /\ serving_put'[h] = "write"
      /\ \A g \in Handlers \ {h} : serving_put'[g] = serving_put[g]
    BY <1>1, <1>2 DEF SettingsTypeOK
<1>8. Canonical(new.config) /\ EnvInForce(new.config)
    BY <1>1, <1>2, <1>3, <1>4, MergedSpec DEF InForce, SettingsTypeOK
<1>9. accepted' \in 0 .. MaxUpdates
    BY <1>1, <1>2, SettingsAssumption DEF SettingsTypeOK
<1>10. overlapped' \in BOOLEAN /\ (~overlapped' => ~overlapped /\ \A g \in Handlers : serving_put[g] = "idle")
    BY <1>2
<1>11. SettingsTypeOK'
    BY <1>1, <1>2, <1>4, <1>6, <1>7, <1>9, <1>10 DEF SettingsTypeOK
<1>12. InForce'
    BY <1>1, <1>2 DEF InForce, EnvInForce
<1>13. CandidatesSound'
    BY <1>1, <1>2, <1>6, <1>7, <1>8 DEF CandidatesSound, EnvInForce
<1>14. OneRequest'
    BY <1>7, <1>10 DEF OneRequest
<1>15. FileFollows'
    BY <1>1, <1>2, <1>7, <1>10 DEF FileFollows, ReadsBack
<1> QED
    BY <1>6, <1>11, <1>12, <1>13, <1>14, <1>15 DEF SettingsInv

\* The file is written beside the old one: by this request alone, or there was
\* an overlap.
LEMMA WriteKeepsSettings ==
    ASSUME SettingsInv, NEW h \in Handlers, WriteTmp(h)
    PROVE  SettingsInv'
<1>1. /\ SettingsTypeOK /\ DOMAIN candidate = Handlers /\ InForce /\ CandidatesSound
      /\ OneRequest /\ FileFollows
    BY DEF SettingsInv
<1>2. /\ serving_put[h] = "write"
      /\ serving_put' = [serving_put EXCEPT ![h] = "rename"]
      /\ UNCHANGED <<cfg, env, file, candidate, overlapped, accepted>>
    BY DEF WriteTmp
<1>3. /\ serving_put' \in [Handlers -> {"idle", "write", "rename", "apply"}]
      /\ serving_put'[h] = "rename"
      /\ \A g \in Handlers \ {h} : serving_put'[g] = serving_put[g]
    BY <1>1, <1>2 DEF SettingsTypeOK
<1>4. tmp' \in {buildTomlContent(candidate[h].config), Torn, tmp}
    BY DEF WriteTmp
<1>5. (\A g \in Handlers : serving_put[g] # "rename") => tmp' = buildTomlContent(candidate[h].config)
    BY DEF WriteTmp
<1>6. tmp' \in {NoFile, Torn} \/ DOMAIN tmp' = Fields
    BY <1>1, <1>4, BuildSpec DEF SettingsTypeOK
<1>7. SettingsTypeOK'
    BY <1>1, <1>2, <1>3, <1>6 DEF SettingsTypeOK
<1>8. InForce' /\ CandidatesSound'
    BY <1>1, <1>2, <1>3 DEF InForce, CandidatesSound, EnvInForce
<1>9. OneRequest'
    BY <1>1, <1>2, <1>3 DEF OneRequest
<1>10. FileFollows'
  <2> SUFFICES ASSUME cfg # NotRunning, ~overlapped PROVE FileFollows'
      BY <1>2 DEF FileFollows
  <2>1. \A g \in Handlers \ {h} : serving_put[g] = "idle"
      BY <1>1, <1>2 DEF OneRequest
  <2>2. tmp' = buildTomlContent(candidate[h].config)
      BY <1>2, <1>5, <2>1
  <2>3. ReadsBack(file, cfg)
      BY <1>1, <1>2, <2>1 DEF FileFollows
  <2> QED
      BY <1>2, <1>3, <2>1, <2>2, <2>3 DEF FileFollows, ReadsBack
<1> QED
    BY <1>1, <1>2, <1>7, <1>8, <1>9, <1>10 DEF SettingsInv

\* The new file takes the place of the old one.
LEMMA RenameKeepsSettings ==
    ASSUME SettingsInv, NEW h \in Handlers, RenameTmp(h)
    PROVE  SettingsInv'
<1>1. /\ SettingsTypeOK /\ DOMAIN candidate = Handlers /\ InForce /\ CandidatesSound
      /\ OneRequest /\ FileFollows
    BY DEF SettingsInv
<1>2. /\ serving_put[h] = "rename" /\ tmp # NoFile /\ file' = tmp /\ tmp' = NoFile
      /\ serving_put' = [serving_put EXCEPT ![h] = "apply"]
      /\ UNCHANGED <<cfg, env, candidate, overlapped, accepted>>
    BY DEF RenameTmp
<1>3. /\ serving_put' \in [Handlers -> {"idle", "write", "rename", "apply"}]
      /\ serving_put'[h] = "apply"
      /\ \A g \in Handlers \ {h} : serving_put'[g] = serving_put[g]
    BY <1>1, <1>2 DEF SettingsTypeOK
<1>4. SettingsTypeOK'
    BY <1>1, <1>2, <1>3 DEF SettingsTypeOK
<1>5. InForce' /\ CandidatesSound'
    BY <1>1, <1>2, <1>3 DEF InForce, CandidatesSound, EnvInForce
<1>6. OneRequest'
    BY <1>1, <1>2, <1>3 DEF OneRequest
<1>7. FileFollows'
  <2> SUFFICES ASSUME cfg # NotRunning, ~overlapped PROVE FileFollows'
      BY <1>2 DEF FileFollows
  <2>1. \A g \in Handlers \ {h} : serving_put[g] = "idle"
      BY <1>1, <1>2 DEF OneRequest
  <2>2. file' = buildTomlContent(candidate[h].config)
      BY <1>1, <1>2 DEF FileFollows
  <2> QED
      BY <1>2, <1>3, <2>1, <2>2 DEF FileFollows
<1> QED
    BY <1>1, <1>2, <1>4, <1>5, <1>6, <1>7 DEF SettingsInv

\* A request that is answered, in one way or the other, is out of the way.
LEMMA AnsweredRequest ==
    ASSUME SettingsInv, NEW h \in Handlers,
           serving_put' = [serving_put EXCEPT ![h] = "idle"],
           candidate' = [candidate EXCEPT ![h] = NotRunning]
    PROVE  /\ serving_put' \in [Handlers -> {"idle", "write", "rename", "apply"}]
           /\ serving_put'[h] = "idle" /\ candidate'[h] = NotRunning
           /\ DOMAIN candidate' = Handlers
           /\ \A g \in Handlers \ {h} : /\ serving_put'[g] = serving_put[g]
                                        /\ candidate'[g] = candidate[g]
BY DEF SettingsInv, SettingsTypeOK

\* A write that fails leaves the old file.
LEMMA PersistFailsKeepsSettings ==
    ASSUME SettingsInv, NEW h \in Handlers, PersistFails(h)
    PROVE  SettingsInv'
<1>1. /\ SettingsTypeOK /\ DOMAIN candidate = Handlers /\ InForce /\ CandidatesSound
      /\ OneRequest /\ FileFollows
    BY DEF SettingsInv
<1>2. /\ serving_put[h] \in {"write", "rename"} /\ tmp' \in {NoFile, tmp, Torn}
      /\ serving_put' = [serving_put EXCEPT ![h] = "idle"]
      /\ candidate' = [candidate EXCEPT ![h] = NotRunning]
      /\ UNCHANGED <<cfg, env, file, overlapped, accepted>>
    BY DEF PersistFails
<1>3. /\ serving_put' \in [Handlers -> {"idle", "write", "rename", "apply"}]
      /\ serving_put'[h] = "idle" /\ candidate'[h] = NotRunning
      /\ DOMAIN candidate' = Handlers
      /\ \A g \in Handlers \ {h} : /\ serving_put'[g] = serving_put[g]
                                   /\ candidate'[g] = candidate[g]
    BY <1>2, AnsweredRequest
<1>4. SettingsTypeOK'
    BY <1>1, <1>2, <1>3 DEF SettingsTypeOK
<1>5. InForce' /\ CandidatesSound'
    BY <1>1, <1>2, <1>3 DEF InForce, CandidatesSound, EnvInForce
<1>6. OneRequest'
    BY <1>1, <1>2, <1>3 DEF OneRequest
<1>7. FileFollows'
  <2> SUFFICES ASSUME cfg # NotRunning, ~overlapped PROVE FileFollows'
      BY <1>2 DEF FileFollows
  <2>1. \A g \in Handlers \ {h} : serving_put[g] = "idle"
      BY <1>1, <1>2 DEF OneRequest
  <2>2. ReadsBack(file, cfg)
      BY <1>1, <1>2, <2>1 DEF FileFollows
  <2> QED
      BY <1>2, <1>3, <2>1, <2>2 DEF FileFollows, ReadsBack
<1> QED
    BY <1>3, <1>4, <1>5, <1>6, <1>7 DEF SettingsInv

\* What is applied is what was written.
LEMMA ApplyKeepsSettings ==
    ASSUME SettingsInv, NEW h \in Handlers, ApplyConfig(h)
    PROVE  SettingsInv'
<1>1. /\ SettingsTypeOK /\ DOMAIN candidate = Handlers /\ InForce /\ CandidatesSound
      /\ OneRequest /\ FileFollows
    BY DEF SettingsInv
<1>2. /\ serving_put[h] = "apply" /\ cfg' = candidate[h].config
      /\ serving_put' = [serving_put EXCEPT ![h] = "idle"]
      /\ candidate' = [candidate EXCEPT ![h] = NotRunning]
      /\ UNCHANGED <<env, file, tmp, overlapped, accepted>>
    BY DEF ApplyConfig
<1>3. /\ serving_put' \in [Handlers -> {"idle", "write", "rename", "apply"}]
      /\ serving_put'[h] = "idle" /\ candidate'[h] = NotRunning
      /\ DOMAIN candidate' = Handlers
      /\ \A g \in Handlers \ {h} : /\ serving_put'[g] = serving_put[g]
                                   /\ candidate'[g] = candidate[g]
    BY <1>2, AnsweredRequest
<1>4. Canonical(cfg') /\ EnvInForce(cfg')
    BY <1>1, <1>2 DEF CandidatesSound
<1>5. DOMAIN cfg' = Fields /\ cfg' # NotRunning
    BY <1>4, CanonicalSpec, NoMarker
<1>6. SettingsTypeOK'
    BY <1>1, <1>2, <1>3, <1>5 DEF SettingsTypeOK
<1>7. InForce' /\ CandidatesSound'
    BY <1>1, <1>2, <1>3, <1>4 DEF InForce, CandidatesSound, EnvInForce
<1>8. OneRequest'
    BY <1>1, <1>2, <1>3 DEF OneRequest
<1>9. FileFollows'
  <2> SUFFICES ASSUME ~overlapped PROVE FileFollows'
      BY <1>2 DEF FileFollows
  <2>1. \A g \in Handlers \ {h} : serving_put[g] = "idle"
      BY <1>1, <1>2 DEF OneRequest
  <2>2. cfg # NotRunning
      BY <1>1, <1>2 DEF SettingsTypeOK
  <2>3. file = buildTomlContent(cfg')
      BY <1>1, <1>2, <2>2 DEF FileFollows
  <2>4. ReadsBack(file, cfg')
      BY <1>1, <1>4, <2>3, RoundTrip DEF SettingsTypeOK
  <2> QED
      BY <1>2, <1>3, <2>1, <2>4 DEF FileFollows, ReadsBack
<1> QED
    BY <1>3, <1>6, <1>7, <1>8, <1>9 DEF SettingsInv

LEMMA AsideKeepsSettings ==
    ASSUME SettingsInv, UpdateMyCall \/ UNCHANGED settingsVars
    PROVE  SettingsInv'
<1>1. UNCHANGED <<cfg, env, file, tmp, serving_put, candidate, overlapped>>
    BY DEF UpdateMyCall, settingsVars
<1>2. accepted' \in 0 .. MaxUpdates
    BY SettingsAssumption DEF SettingsInv, SettingsTypeOK, UpdateMyCall, settingsVars
<1>3. SettingsTypeOK' /\ DOMAIN candidate' = Handlers
    BY <1>1, <1>2 DEF SettingsInv, SettingsTypeOK
<1>4. InForce' /\ CandidatesSound' /\ OneRequest'
    BY <1>1 DEF SettingsInv, InForce, CandidatesSound, OneRequest, EnvInForce
<1>5. FileFollows'
    BY <1>1 DEF SettingsInv, FileFollows, ReadsBack
<1> QED
    BY <1>3, <1>4, <1>5 DEF SettingsInv

LEMMA SettingsStep == SettingsInv /\ [SettingsNext]_settingsVars => SettingsInv'
<1> SUFFICES ASSUME SettingsInv, [SettingsNext]_settingsVars PROVE SettingsInv'
    OBVIOUS
<1>1. CASE Prepare \/ Stop
    BY <1>1, NotRunningKeepsSettings
<1>2. CASE StartUp
    BY <1>2, StartUpKeepsSettings
<1>3. CASE UpdateMyCall \/ UNCHANGED settingsVars
    BY <1>3, AsideKeepsSettings
<1>4. ASSUME NEW h \in Handlers, PutConfig(h) PROVE SettingsInv'
    BY <1>4, PutConfigKeepsSettings
<1>5. ASSUME NEW h \in Handlers, WriteTmp(h) PROVE SettingsInv'
    BY <1>5, WriteKeepsSettings
<1>6. ASSUME NEW h \in Handlers, RenameTmp(h) PROVE SettingsInv'
    BY <1>6, RenameKeepsSettings
<1>7. ASSUME NEW h \in Handlers, PersistFails(h) PROVE SettingsInv'
    BY <1>7, PersistFailsKeepsSettings
<1>8. ASSUME NEW h \in Handlers, ApplyConfig(h) PROVE SettingsInv'
    BY <1>8, ApplyKeepsSettings
<1> QED
    BY <1>1, <1>2, <1>3, <1>4, <1>5, <1>6, <1>7, <1>8 DEF SettingsNext

\* Settings are well typed, for any requests, environments and files.
THEOREM SettingsTypeCorrect == SettingsSpec => []SettingsTypeOK
<1>1. SettingsInv => SettingsTypeOK
    BY DEF SettingsInv
<1> QED
    BY <1>1, SettingsInitially, SettingsStep, PTL DEF SettingsSpec

\* A restart in the same environment changes no setting that the file keeps, as
\* long as no two requests overlapped, and what the environment sets is always in
\* force: for any requests, environments, files and spellings.
THEOREM SettingsSurviveRestart == SettingsSpec => []SettingsAgree
<1>1. SettingsInv => SettingsAgree
  <2> SUFFICES ASSUME SettingsInv PROVE SettingsAgree
      OBVIOUS
  <2>1. ASSUME Quiet, ~overlapped PROVE ReadsBack(file, cfg)
      BY <2>1 DEF SettingsInv, FileFollows, Quiet
  <2> QED
      BY <2>1 DEF SettingsInv, SettingsAgree, InForce, EnvInForce, ReadsBack
<1> QED
    BY <1>1, SettingsInitially, SettingsStep, PTL DEF SettingsSpec

----------------------------------------------------------------------------
(* Sessions: who is logged in. *)

\* What memory and the table hold of a token is what it was granted.
Genuine ==
    \A t \in Tokens :
        /\ sessions[t] # 0 => sessions[t] = granted[t]
        /\ http_sessions[t] # 0 => http_sessions[t] = granted[t]

\* Without a process there is no memory.
NothingInMemory == ~serving => sessions = NoSessions

\* A session that memory still honours has its row.
LiveHasRow == \A t \in Tokens : sessions[t] > clock => http_sessions[t] = sessions[t]

RevokedWereGranted == \A t \in revoked : granted[t] # 0

SessionsInv ==
    /\ SessionsTypeOK
    /\ Genuine
    /\ NothingInMemory
    /\ LiveHasRow
    /\ RevokedWereGranted
    /\ RevokedAreGone
    /\ SessionsSurvive

\* The time to live is positive.
USE SessionsAssumption

----------------------------------------------------------------------------
LEMMA SessionsInitially == SessionsInit => SessionsInv
<1> SUFFICES ASSUME SessionsInit PROVE SessionsInv
    OBVIOUS
<1>1. SessionsTypeOK
    BY DEF SessionsInit, SessionsTypeOK, NoSessions, Expiries
<1> QED
    BY <1>1 DEF SessionsInit, SessionsInv, Genuine, NothingInMemory, LiveHasRow,
                RevokedWereGranted, RevokedAreGone, SessionsSurvive, NoSessions

\* create and delete rewrite the table from memory.
LEMMA CreateKeepsSessions ==
    ASSUME SessionsInv, NEW t \in Tokens, Create(t)
    PROVE  SessionsInv'
<1>1. clock + SessionTTL \in Expiries /\ clock + SessionTTL > clock /\ clock \in Nat
    BY DEF SessionsInv, SessionsTypeOK, Expiries
<1>2. SessionsTypeOK'
    BY <1>1 DEF SessionsInv, SessionsTypeOK, Create
<1>3. t \notin revoked /\ sessions[t] = 0 /\ http_sessions[t] = 0
    BY DEF SessionsInv, SessionsTypeOK, RevokedWereGranted, Genuine, Create
<1>4. \A u \in Tokens : /\ u # t => sessions'[u] = sessions[u] /\ granted'[u] = granted[u]
                        /\ http_sessions'[u] = sessions'[u]
    BY DEF SessionsInv, SessionsTypeOK, Create
<1>5. sessions'[t] = clock + SessionTTL /\ granted'[t] = clock + SessionTTL
    BY DEF SessionsInv, SessionsTypeOK, Create
<1>6. clock' = clock /\ revoked' = revoked /\ loadedAll' = loadedAll /\ serving /\ serving'
    BY DEF Create
<1>7. Genuine' /\ LiveHasRow' /\ NothingInMemory'
    BY <1>3, <1>4, <1>5, <1>6 DEF SessionsInv, Genuine, LiveHasRow, NothingInMemory
<1>8. RevokedWereGranted' /\ RevokedAreGone'
    BY <1>3, <1>4, <1>6 DEF SessionsInv, SessionsTypeOK, RevokedWereGranted, RevokedAreGone
<1>9. SessionsSurvive'
    BY <1>4, <1>5, <1>6 DEF SessionsInv, SessionsSurvive
<1> QED
    BY <1>2, <1>7, <1>8, <1>9 DEF SessionsInv

LEMMA DeleteKeepsSessions ==
    ASSUME SessionsInv, NEW t \in Tokens, Delete(t)
    PROVE  SessionsInv'
<1>1. SessionsTypeOK'
    BY DEF SessionsInv, SessionsTypeOK, Delete, Expiries
<1>2. \A u \in Tokens : /\ u # t => sessions'[u] = sessions[u]
                        /\ http_sessions'[u] = sessions'[u]
    BY DEF SessionsInv, SessionsTypeOK, Delete
<1>3. sessions'[t] = 0 /\ revoked' = revoked \cup {t} /\ granted[t] # 0
    BY DEF SessionsInv, SessionsTypeOK, Genuine, Delete
<1>4. UNCHANGED <<serving, clock, granted, loadedAll>> /\ serving
    BY DEF Delete
<1>5. Genuine' /\ LiveHasRow' /\ NothingInMemory'
    BY <1>2, <1>3, <1>4 DEF SessionsInv, Genuine, LiveHasRow, NothingInMemory
<1>6. RevokedWereGranted' /\ RevokedAreGone'
    BY <1>2, <1>3, <1>4 DEF SessionsInv, SessionsTypeOK, RevokedWereGranted, RevokedAreGone
<1>7. SessionsSurvive'
    BY <1>2, <1>3, <1>4 DEF SessionsInv, SessionsSurvive
<1> QED
    BY <1>1, <1>5, <1>6, <1>7 DEF SessionsInv

\* valid and evictExpired drop expired entries, and the table may keep them.
LEMMA DropKeepsSessions ==
    ASSUME SessionsInv, NEW gone \in SUBSET Tokens,
           \A t \in gone : Expired(sessions, t), Drop(gone)
    PROVE  SessionsInv'
<1>1. SessionsTypeOK'
    BY DEF SessionsInv, SessionsTypeOK, Drop, Expiries
<1>2. \A u \in Tokens : sessions'[u] = IF u \in gone THEN 0 ELSE sessions[u]
    BY DEF Drop
<1>3. \A u \in gone : sessions[u] <= clock
    BY DEF Expired
<1>4. \/ \A u \in Tokens : http_sessions'[u] = sessions'[u]
      \/ http_sessions' = http_sessions
    BY DEF Drop
<1>5. UNCHANGED <<serving, clock, granted, revoked, loadedAll>> /\ serving
    BY DEF Drop
<1>6. clock \in Nat /\ \A u \in Tokens : sessions[u] \in Nat /\ granted[u] \in Nat
    BY DEF SessionsInv, SessionsTypeOK, Expiries
<1>7. Genuine' /\ LiveHasRow' /\ NothingInMemory'
    BY <1>2, <1>3, <1>4, <1>5, <1>6 DEF SessionsInv, Genuine, LiveHasRow, NothingInMemory
<1>8. RevokedWereGranted' /\ RevokedAreGone'
    BY <1>2, <1>4, <1>5 DEF SessionsInv, SessionsTypeOK, RevokedWereGranted, RevokedAreGone
<1>9. SessionsSurvive'
    BY <1>2, <1>3, <1>4, <1>5, <1>6 DEF SessionsInv, SessionsSurvive
<1> QED
    BY <1>1, <1>7, <1>8, <1>9 DEF SessionsInv

\* The process ends, starts again with what it can read, or time passes.
LEMMA OthersKeepSessions ==
    ASSUME SessionsInv, Halt \/ LoadSessions \/ SessionTick
    PROVE  SessionsInv'
<1>0. clock \in Nat /\ \A u \in Tokens : /\ sessions[u] \in Nat /\ granted[u] \in Nat
                                         /\ http_sessions[u] \in Nat
    BY DEF SessionsInv, SessionsTypeOK, Expiries
<1>1. CASE Halt
  <2>1. SessionsTypeOK'
    <3>1. 0 \in Expiries
      BY DEF Expiries
    <3>2. sessions' \in [Tokens -> Expiries] /\ serving' \in BOOLEAN
      BY <1>1, <3>1 DEF Halt, NoSessions
    <3>3. UNCHANGED <<http_sessions, clock, granted, revoked, loadedAll, Expiries>>
      BY <1>1 DEF Halt, Expiries
    <3> QED
      BY <3>2, <3>3 DEF SessionsInv, SessionsTypeOK
  <2>2. /\ \A u \in Tokens : sessions'[u] = 0
        /\ ~serving' /\ sessions' = NoSessions
        /\ UNCHANGED <<http_sessions, clock, granted, revoked, loadedAll>>
    BY <1>1 DEF Halt, NoSessions
  <2>3. Genuine' /\ LiveHasRow' /\ NothingInMemory'
    BY <1>0, <2>2 DEF SessionsInv, Genuine, LiveHasRow, NothingInMemory
  <2>4. RevokedWereGranted' /\ RevokedAreGone' /\ SessionsSurvive'
    BY <2>2 DEF SessionsInv, SessionsTypeOK, RevokedWereGranted, RevokedAreGone, SessionsSurvive
  <2> QED
    BY <2>1, <2>3, <2>4 DEF SessionsInv
<1>2. CASE LoadSessions
  <2>1. PICK read \in SUBSET LiveRows :
            /\ sessions' = [t \in Tokens |-> IF t \in read THEN http_sessions[t] ELSE 0]
            /\ loadedAll' = (loadedAll /\ read = LiveRows)
    BY <1>2 DEF LoadSessions
  <2>2. UNCHANGED <<http_sessions, clock, granted, revoked>> /\ serving'
    BY <1>2 DEF LoadSessions
  <2>3. SessionsTypeOK'
    <3>1. 0 \in Expiries /\ \A u \in Tokens : http_sessions[u] \in Expiries
      BY DEF SessionsInv, SessionsTypeOK, Expiries
    <3>2. sessions' \in [Tokens -> Expiries] /\ loadedAll' \in BOOLEAN
      BY <2>1, <3>1 DEF SessionsInv, SessionsTypeOK
    <3> QED
      BY <2>2, <3>2 DEF SessionsInv, SessionsTypeOK
  <2>4. \A u \in Tokens : sessions'[u] = IF u \in read THEN http_sessions[u] ELSE 0
    BY <2>1
  <2>5. Genuine' /\ LiveHasRow' /\ NothingInMemory'
    BY <1>0, <2>2, <2>4 DEF SessionsInv, Genuine, LiveHasRow, NothingInMemory
  <2>6. RevokedWereGranted' /\ RevokedAreGone'
    BY <2>2, <2>4 DEF SessionsInv, SessionsTypeOK, RevokedWereGranted, RevokedAreGone
  <2>7. SessionsSurvive'
    BY <1>0, <2>1, <2>2, <2>4 DEF SessionsInv, SessionsSurvive, LiveRows
  <2> QED
    BY <2>3, <2>5, <2>6, <2>7 DEF SessionsInv
<1>3. CASE SessionTick
  <2>1. SessionsTypeOK'
    BY <1>3 DEF SessionsInv, SessionsTypeOK, SessionTick
  <2>2. /\ clock' = clock + 1
        /\ UNCHANGED <<sessions, http_sessions, serving, granted, revoked, loadedAll>>
    BY <1>3 DEF SessionTick
  <2>3. /\ Genuine' /\ LiveHasRow' /\ NothingInMemory'
        /\ RevokedWereGranted' /\ RevokedAreGone' /\ SessionsSurvive'
    BY <1>0, <2>2 DEF SessionsInv, Genuine, LiveHasRow, NothingInMemory, RevokedWereGranted,
                      RevokedAreGone, SessionsSurvive
  <2> QED
    BY <2>1, <2>3 DEF SessionsInv
<1> QED
    BY <1>1, <1>2, <1>3

LEMMA SessionsStep == SessionsInv /\ [SessionsNext]_sessionVars => SessionsInv'
<1> SUFFICES ASSUME SessionsInv, [SessionsNext]_sessionVars PROVE SessionsInv'
    OBVIOUS
<1>1. ASSUME NEW t \in Tokens, Create(t) PROVE SessionsInv'
    BY <1>1, CreateKeepsSessions
<1>2. ASSUME NEW t \in Tokens, Delete(t) PROVE SessionsInv'
    BY <1>2, DeleteKeepsSessions
<1>3. ASSUME NEW t \in Tokens, Valid(t) PROVE SessionsInv'
  <2>1. {t} \in SUBSET Tokens /\ \A u \in {t} : Expired(sessions, u)
    BY <1>3 DEF Valid
  <2> QED
    BY <1>3, <2>1, DropKeepsSessions DEF Valid
<1>4. ASSUME EvictExpired PROVE SessionsInv'
  <2> DEFINE gone == {t \in Tokens : Expired(sessions, t)}
  <2>1. gone \in SUBSET Tokens /\ (\A u \in gone : Expired(sessions, u)) /\ Drop(gone)
    BY <1>4 DEF EvictExpired
  <2> HIDE DEF gone
  <2> QED
    BY <2>1, DropKeepsSessions
<1>5. ASSUME Halt \/ LoadSessions \/ SessionTick PROVE SessionsInv'
    BY <1>5, OthersKeepSessions
<1>6. ASSUME UNCHANGED sessionVars PROVE SessionsInv'
    BY <1>6 DEF sessionVars, SessionsInv, SessionsTypeOK, Genuine, NothingInMemory, LiveHasRow,
                RevokedWereGranted, RevokedAreGone, SessionsSurvive
<1> QED
    BY <1>1, <1>2, <1>3, <1>4, <1>5, <1>6 DEF SessionsNext

\* Sessions are well typed, for any tokens, any time to live and any clock.
THEOREM SessionsTypeCorrect == SessionsSpec => []SessionsTypeOK
<1>1. SessionsInv => SessionsTypeOK
    BY DEF SessionsInv
<1> QED
    BY <1>1, SessionsInitially, SessionsStep, PTL DEF SessionsSpec

\* As long as every load has read all live rows, restarts and failed statements
\* take no session away before it expires or is given up (README.md:210).
THEOREM ActiveSessionsSurvive == SessionsSpec => []SessionsSurvive
<1>1. SessionsInv => SessionsSurvive
    BY DEF SessionsInv
<1> QED
    BY <1>1, SessionsInitially, SessionsStep, PTL DEF SessionsSpec

\* The tokens that sessionStore.valid answers with true: granted, with this expiry,
\* not logged out, and stored.
AcceptedAreGranted ==
    \A t \in Tokens :
        sessions[t] > clock =>
            /\ granted[t] = sessions[t] /\ t \notin revoked
            /\ http_sessions[t] = sessions[t]

\* No restart, no failed statement and no load that misses rows makes valid accept a
\* token that was not granted, or one longer than granted, or one without its row.
THEOREM OnlyGrantedAreAccepted == SessionsSpec => []AcceptedAreGranted
<1>1. ASSUME SessionsInv PROVE AcceptedAreGranted
  <2> SUFFICES ASSUME NEW t \in Tokens, sessions[t] > clock
               PROVE  /\ granted[t] = sessions[t] /\ t \notin revoked
                      /\ http_sessions[t] = sessions[t]
    BY DEF AcceptedAreGranted
  <2>1. sessions[t] # 0
    <3>1. clock \in 0 .. MaxClock
      BY <1>1 DEF SessionsInv, SessionsTypeOK
    <3> QED
      BY <3>1
  <2> QED
    BY <1>1, <2>1 DEF SessionsInv, Genuine, LiveHasRow, RevokedAreGone
<1> QED
  BY <1>1, SessionsInitially, SessionsStep, PTL DEF SessionsSpec

\* After a logout that was answered, neither memory nor the table has the token.
THEOREM LogoutLeavesNothing == SessionsSpec => []RevokedAreGone
<1>1. SessionsInv => RevokedAreGone
    BY DEF SessionsInv
<1> QED
    BY <1>1, SessionsInitially, SessionsStep, PTL DEF SessionsSpec

----------------------------------------------------------------------------
(* The refinement of SessionLife. *)

LEMMA LifeInitially == SessionsInit => L!LifeInit
<1> QED
    BY DEF SessionsInit, NoSessions, Life, L!LifeInit

\* A step that grants nothing, with no logout, in which live tokens are all that
\* changes, and become over, is a lapse.
LEMMA Lapses ==
    ASSUME \A u \in Tokens : Life'[u] = Life[u] \/ (Life[u] = "live" /\ Life'[u] = "over"),
           revoked' = revoked
    PROVE  L!Lapse
<1> DEFINE lost == {u \in Tokens : Life'[u] # Life[u]}
<1>1. \A u \in Tokens :
          Life'[u] = IF u \in lost /\ Life[u] = "live" THEN "over" ELSE Life[u]
    OBVIOUS
<1>2. lost \in SUBSET Tokens
    OBVIOUS
<1> HIDE DEF lost
<1>3. Life' = L!Ended(lost, Life)
    BY <1>1 DEF Life, L!Ended
<1> QED
    BY <1>2, <1>3 DEF L!Lapse

\* The life of each token, once the numbers are known to be numbers.
LEMMA CreateIssues ==
    ASSUME SessionsInv, NEW t \in Tokens, Create(t)
    PROVE  L!Issue(t)
<1>0. clock \in Nat /\ \A u \in Tokens : /\ sessions[u] \in Nat /\ granted[u] \in Nat
                                         /\ http_sessions[u] \in Nat
    BY DEF SessionsInv, SessionsTypeOK, Expiries
<1>1. /\ \A u \in Tokens \ {t} : sessions'[u] = sessions[u] /\ granted'[u] = granted[u]
      /\ \A u \in Tokens : http_sessions'[u] = sessions'[u]
      /\ sessions'[t] = clock + SessionTTL /\ granted'[t] = clock + SessionTTL
      /\ granted[t] = 0 /\ clock' = clock /\ revoked' = revoked
    BY DEF SessionsInv, SessionsTypeOK, Create
<1>2. Life[t] = "unused" /\ Life'[t] = "live"
    BY <1>0, <1>1 DEF Life
<1>3. \A u \in Tokens \ {t} : Life'[u] = Life[u] \/ (Life[u] = "live" /\ Life'[u] = "over")
    BY <1>0, <1>1 DEF Life
<1> DEFINE lost == {u \in Tokens \ {t} : Life'[u] # Life[u]}
<1>4. /\ lost \in SUBSET (Tokens \ {t})
      /\ \A u \in Tokens \ {t} :
             Life'[u] = IF u \in lost /\ Life[u] = "live" THEN "over" ELSE Life[u]
    BY <1>3
<1> HIDE DEF lost
<1>5. Life' = [L!Ended(lost, Life) EXCEPT ![t] = "live"]
    BY <1>2, <1>4 DEF Life, L!Ended
<1> QED
    BY <1>1, <1>2, <1>4, <1>5 DEF L!Issue

LEMMA DeleteRevokes ==
    ASSUME SessionsInv, NEW t \in Tokens, Delete(t)
    PROVE  L!Revoke(t)
<1>0. clock \in Nat /\ \A u \in Tokens : /\ sessions[u] \in Nat /\ granted[u] \in Nat
                                         /\ http_sessions[u] \in Nat
    BY DEF SessionsInv, SessionsTypeOK, Expiries
<1>1. /\ \A u \in Tokens \ {t} : sessions'[u] = sessions[u]
      /\ \A u \in Tokens : http_sessions'[u] = sessions'[u]
      /\ sessions'[t] = 0 /\ granted[t] # 0
      /\ granted' = granted /\ clock' = clock /\ revoked' = revoked \cup {t}
    BY DEF SessionsInv, SessionsTypeOK, Genuine, Delete
<1>2. Life[t] \in {"live", "over"} /\ Life'[t] = "over"
    BY <1>0, <1>1 DEF Life
<1>3. \A u \in Tokens \ {t} : Life'[u] = Life[u] \/ (Life[u] = "live" /\ Life'[u] = "over")
    BY <1>0, <1>1 DEF Life
<1> DEFINE lost == {u \in Tokens : u = t \/ Life'[u] # Life[u]}
<1>4. /\ lost \in SUBSET Tokens /\ t \in lost
      /\ \A u \in Tokens \ {t} :
             Life'[u] = IF u \in lost /\ Life[u] = "live" THEN "over" ELSE Life[u]
    BY <1>3
<1> HIDE DEF lost
<1>5. Life' = L!Ended(lost, Life)
    BY <1>2, <1>4 DEF Life, L!Ended
<1> QED
    BY <1>1, <1>2, <1>4, <1>5 DEF L!Revoke

\* Dropping expired entries, ending, loading and waiting make nothing live.
LEMMA OthersLapse ==
    ASSUME SessionsInv, (\E gone \in SUBSET Tokens : (\A u \in gone : Expired(sessions, u)) /\ Drop(gone))
                 \/ Halt \/ LoadSessions \/ SessionTick
    PROVE  L!Lapse
<1>0. clock \in Nat /\ \A u \in Tokens : /\ sessions[u] \in Nat /\ granted[u] \in Nat
                                         /\ http_sessions[u] \in Nat
    BY DEF SessionsInv, SessionsTypeOK, Expiries
<1>1. CASE \E gone \in SUBSET Tokens : (\A u \in gone : Expired(sessions, u)) /\ Drop(gone)
  <2>1. PICK gone \in SUBSET Tokens : (\A u \in gone : Expired(sessions, u)) /\ Drop(gone)
    BY <1>1
  <2>2. /\ \A u \in Tokens : sessions'[u] = IF u \in gone THEN 0 ELSE sessions[u]
        /\ \A u \in gone : sessions[u] <= clock
        /\ (\A u \in Tokens : http_sessions'[u] = sessions'[u]) \/ http_sessions' = http_sessions
        /\ clock' = clock /\ granted' = granted /\ revoked' = revoked
    BY <2>1 DEF Drop, Expired
  <2>3. \A u \in Tokens : Life'[u] = Life[u] \/ (Life[u] = "live" /\ Life'[u] = "over")
    BY <1>0, <2>2 DEF Life
  <2> QED
    BY <2>2, <2>3, Lapses
<1>2. CASE Halt
  <2>1. /\ \A u \in Tokens : sessions'[u] = 0 /\ http_sessions'[u] = http_sessions[u]
        /\ clock' = clock /\ granted' = granted /\ revoked' = revoked
    BY <1>2 DEF Halt, NoSessions
  <2>2. \A u \in Tokens : Life'[u] = Life[u] \/ (Life[u] = "live" /\ Life'[u] = "over")
    BY <1>0, <2>1 DEF Life
  <2> QED
    BY <2>1, <2>2, Lapses
<1>3. CASE LoadSessions
  <2>1. /\ \A u \in Tokens : sessions'[u] \in {0, http_sessions[u]} /\ sessions[u] = 0
        /\ http_sessions' = http_sessions
        /\ clock' = clock /\ granted' = granted /\ revoked' = revoked
    BY <1>3 DEF LoadSessions, SessionsInv, NothingInMemory, NoSessions
  <2>2. \A u \in Tokens : Life'[u] = Life[u] \/ (Life[u] = "live" /\ Life'[u] = "over")
    BY <1>0, <2>1 DEF Life
  <2> QED
    BY <2>1, <2>2, Lapses
<1>4. CASE SessionTick
  <2>1. /\ clock' = clock + 1 /\ sessions' = sessions /\ http_sessions' = http_sessions
        /\ granted' = granted /\ revoked' = revoked
    BY <1>4 DEF SessionTick
  <2>2. \A u \in Tokens : Life'[u] = Life[u] \/ (Life[u] = "live" /\ Life'[u] = "over")
    BY <1>0, <2>1 DEF Life
  <2> QED
    BY <2>1, <2>2, Lapses
<1> QED
    BY <1>1, <1>2, <1>3, <1>4

LEMMA StepRefines ==
    SessionsInv /\ [SessionsNext]_sessionVars => [L!LifeNext]_(L!lifeVars)
<1> SUFFICES ASSUME SessionsInv, [SessionsNext]_sessionVars
             PROVE  L!LifeNext \/ UNCHANGED L!lifeVars
    BY DEF L!lifeVars
<1>1. ASSUME NEW t \in Tokens, Create(t) PROVE L!LifeNext
    BY <1>1, CreateIssues DEF L!LifeNext
<1>2. ASSUME NEW t \in Tokens, Delete(t) PROVE L!LifeNext
    BY <1>2, DeleteRevokes DEF L!LifeNext
<1>3. ASSUME NEW t \in Tokens, Valid(t) PROVE L!LifeNext
  <2>1. {t} \in SUBSET Tokens /\ \A u \in {t} : Expired(sessions, u)
    BY <1>3 DEF Valid
  <2> QED
    BY <1>3, <2>1, OthersLapse DEF Valid, L!LifeNext
<1>4. ASSUME EvictExpired PROVE L!LifeNext
  <2> DEFINE gone == {t \in Tokens : Expired(sessions, t)}
  <2>1. gone \in SUBSET Tokens /\ (\A u \in gone : Expired(sessions, u)) /\ Drop(gone)
    BY <1>4 DEF EvictExpired
  <2> HIDE DEF gone
  <2> QED
    BY <2>1, OthersLapse DEF L!LifeNext
<1>5. ASSUME Halt \/ LoadSessions \/ SessionTick PROVE L!LifeNext
    BY <1>5, OthersLapse DEF L!LifeNext
<1>6. ASSUME UNCHANGED sessionVars PROVE UNCHANGED L!lifeVars
    BY <1>6 DEF sessionVars, Life, L!lifeVars
<1> QED
    BY <1>1, <1>2, <1>3, <1>4, <1>5, <1>6 DEF SessionsNext

\* The session store implements SessionLife: what is not accepted any more, after
\* a logout, by expiry or by a load that missed it, is never accepted again.
THEOREM StoreImplementsSessionLife == SessionsSpec => SessionsEndForGood
<1> QED
    BY SessionsInitially, SessionsStep, LifeInitially, StepRefines, PTL
       DEF SessionsSpec, SessionsEndForGood, L!LifeSpec

----------------------------------------------------------------------------
HIDE SessionsAssumption

(* The composition. *)

\* A step of the daemon is a step of one component and of no other.
LEMMA DaemonStepsAreComponents ==
    [DaemonNext]_daemonVars =>
           /\ [SessionsNext]_sessionVars /\ [SettingsNext]_settingsVars
           /\ [LifecycleNext]_lifecycleVars /\ [UdpLinkNext]_udpVars
           /\ [DecoderNext]_decoderVars /\ [StreamClientNext]_clientVars
BY DEF DaemonNext, daemonVars

\* A behaviour of the daemon is a behaviour of each of its components.
THEOREM DaemonRunsItsComponents ==
    DaemonSpec => /\ SessionsSpec /\ SettingsSpec /\ UdpLinkSpec /\ DecoderSpec
                  /\ StreamClientSpec
                  /\ LifecycleInit /\ [][LifecycleNext]_lifecycleVars
<1>1. DaemonInit => /\ SessionsInit /\ SettingsInit /\ LifecycleInit
                    /\ UdpLinkInit /\ DecoderInit /\ StreamClientInit
    BY DEF DaemonInit
<1>2. DaemonSpec => DaemonInit /\ [][DaemonNext]_daemonVars
    BY PTL DEF DaemonSpec
<1>3. DaemonInit /\ [][DaemonNext]_daemonVars =>
          /\ SessionsSpec /\ SettingsSpec /\ UdpLinkSpec /\ DecoderSpec /\ StreamClientSpec
          /\ LifecycleInit /\ [][LifecycleNext]_lifecycleVars
    BY <1>1, DaemonStepsAreComponents, PTL
       DEF SessionsSpec, SettingsSpec, UdpLinkSpec, DecoderSpec, StreamClientSpec
<1> QED
    BY <1>2, <1>3, PTL

\* The life of the process, whose fairness its invariant does not need.
LEMMA LifecycleHolds ==
    LifecycleInit /\ [][LifecycleNext]_lifecycleVars => []LifecycleInv
BY LifecycleInitially, LifecycleStep, PTL

\* The state of the daemon is well typed: no field of a component, no channel, no
\* record and no connection leaves its bounds, for any value of the constants.
THEOREM DaemonTypeCorrect == DaemonSpec => []DaemonTypeOK
<1>1. LifecycleInv => LifecycleTypeOK
    BY DEF LifecycleInv
<1>2. ClientInv => StreamClientTypeOK
    BY DEF ClientInv
<1>3. SessionsTypeOK /\ SettingsTypeOK /\ LifecycleTypeOK /\ UdpLinkTypeOK
          /\ DecoderTypeOK /\ StreamClientTypeOK => DaemonTypeOK
    BY DEF DaemonTypeOK
<1> QED
    BY <1>1, <1>2, <1>3, DaemonRunsItsComponents, SessionsTypeCorrect, SettingsTypeCorrect,
       LifecycleHolds, UdpLinkTypeCorrect, DecoderTypeCorrect, ClientInvariant, PTL

\* So the daemon has what the theorems above and those of LinkProofs establish:
\* the sessions, the settings, the manner of the end, the newest datagram and the
\* stream are kept, and records are decoded as the lines that they are.
THEOREM DaemonKeeps ==
    DaemonSpec => /\ []SessionsSurvive /\ []RevokedAreGone /\ SessionsEndForGood
                  /\ []SettingsAgree /\ []RestartHonoured
                  /\ []ForwardedNewest /\ []DecoderMatches /\ []StreamKept
<1>1. LifecycleInv => RestartHonoured
    BY DEF LifecycleInv
<1> QED
    BY <1>1, LifecycleHolds, DaemonRunsItsComponents, ActiveSessionsSurvive, LogoutLeavesNothing,
       StoreImplementsSessionLife, SettingsSurviveRestart, NewestIsForwarded, RecordsDecoded,
       StreamComesBack, PTL
=============================================================================
