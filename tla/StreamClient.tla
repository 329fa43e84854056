---------------------------- MODULE StreamClient ----------------------------
(***************************************************************************)
(* How a page keeps its event stream: connectEvents                        *)
(* (web/src/lib/api/events.ts), the store that calls it                    *)
(* (web/src/lib/stores/sse.svelte.ts) and its callers in the controller.   *)
(*                                                                         *)
(* A connection is one call of connectEvents with the variables that its   *)
(* closures share.  A source is one EventSource: until it is closed its    *)
(* events reach those closures, whether `source` still names it or not.    *)
(* Each callback runs to its end before the next one.                      *)
(***************************************************************************)
EXTENDS Naturals, FiniteSets

CONSTANTS
    MaxConnections,     \* bound on the calls of connectEvents
    MaxSources,         \* bound on the EventSources
    MaxAsking           \* bound on the status requests under way at a time

ASSUME StreamClientAssumption ==
    {MaxConnections, MaxSources, MaxAsking} \subseteq Nat \ {0}

VARIABLES
    connection,     \* the variables of each connection
    newest,         \* the last connection made
    eventSource,    \* each EventSource: whose it is, and its readyState
    shown,          \* connectionState.state
    locked,         \* history: connections that were answered that a login is needed
    late            \* history: a heartbeat timed out while the status of the
                    \* session was still asked for

clientVars == <<connection, newest, eventSource, shown, locked, late>>

Connections == 1 .. MaxConnections
Sources == 1 .. MaxSources

\* The variable `source` is 0 for null; the timers are armed or not; `asking` are
\* the calls of getSessionStatus that have not been answered.
StreamClientTypeOK ==
    /\ connection \in
           [Connections -> [source : 0 .. MaxSources, retryTimer : BOOLEAN,
                            heartbeatTimer : BOOLEAN, asking : 0 .. MaxAsking,
                            closed : BOOLEAN]]
    /\ newest \in Connections
    /\ eventSource \in [Sources -> [of : Connections,
                                    ready : {"none", "connecting", "open", "closed"}]]
    /\ shown \in {"connecting", "connected", "disconnected", "unauthenticated"}
    /\ locked \subseteq Connections /\ late \in BOOLEAN

Fresh == [source |-> 0, retryTimer |-> FALSE, heartbeatTimer |-> FALSE, asking |-> 0,
          closed |-> FALSE]

\* After the first call of connectEvents.
FirstConnection == [c \in Connections |-> [Fresh EXCEPT !.source = IF c = 1 THEN 1 ELSE 0]]
FirstSource ==
    [s \in Sources |-> [of |-> 1, ready |-> IF s = 1 THEN "connecting" ELSE "none"]]

StreamClientInit ==
    /\ connection = FirstConnection /\ newest = 1
    /\ eventSource = FirstSource
    /\ shown = "connecting"
    /\ locked = {} /\ late = FALSE

Streaming(s) == eventSource[s].ready \in {"connecting", "open"}
Unborn == {s \in Sources : eventSource[s].ready = "none"}

----------------------------------------------------------------------------
(* The functions inside connectEvents. *)

\* source?.close() of connection c, over a state of the sources.
Shut(c, sources) ==
    IF connection[c].source = 0 THEN sources
    ELSE [sources EXCEPT ![connection[c].source].ready = "closed"]

\* open() for connection c, whose variables are otherwise r.
Open(c, r, sources) ==
    \E s \in Unborn :
        /\ \A t \in Unborn : s <= t
        /\ eventSource' = [sources EXCEPT ![s] = [of |-> c, ready |-> "connecting"]]
        /\ connection' = [connection EXCEPT ![c] = [r EXCEPT !.source = s]]
        /\ shown' = "connecting"

\* scheduleReconnect() for connection c, whose variables are otherwise r.
ScheduleReconnect(c, r) ==
    /\ connection' = [connection EXCEPT ![c] =
           [r EXCEPT !.heartbeatTimer = FALSE, !.retryTimer = r.retryTimer \/ ~r.closed]]
    /\ shown' = IF r.closed \/ r.retryTimer THEN shown ELSE "disconnected"

\* The function that connectEvents returns.
Stopped(r) == [r EXCEPT !.closed = TRUE, !.heartbeatTimer = FALSE, !.retryTimer = FALSE,
                        !.source = 0]

----------------------------------------------------------------------------
\* onopen.
SourceOpens(s) ==
    LET c == eventSource[s].of
    IN  /\ eventSource[s].ready = "connecting"
        /\ eventSource' = [eventSource EXCEPT ![s].ready = "open"]
        /\ connection' = [connection EXCEPT ![c].heartbeatTimer = TRUE]
        /\ shown' = "connected"
        /\ UNCHANGED <<newest, locked, late>>

\* An event or a heartbeat: resetHeartbeat.
DataArrives(s) ==
    LET c == eventSource[s].of
    IN  /\ eventSource[s].ready = "open"
        /\ connection' = [connection EXCEPT ![c].heartbeatTimer = TRUE]
        /\ UNCHANGED <<newest, eventSource, shown, locked, late>>

\* onerror.  The browser gives the source up or is about to connect it again; the
\* handler closes the source that `source` names.
SourceErrs(s) ==
    LET c == eventSource[s].of
    IN  /\ Streaming(s)
        /\ connection[c].asking < MaxAsking
        /\ \E ready \in {"connecting", "closed"} :
               eventSource' = Shut(c, [eventSource EXCEPT ![s].ready = ready])
        /\ connection' = [connection EXCEPT ![c].source = 0, ![c].asking = @ + 1]
        /\ UNCHANGED <<newest, shown, locked, late>>

\* The session has ended: no further attempt, but for the heartbeat's.
AnsweredLocked(c) ==
    /\ connection[c].asking > 0
    /\ connection' = [connection EXCEPT ![c].asking = @ - 1]
    /\ shown' = "unauthenticated"
    /\ locked' = locked \cup {c}
    /\ UNCHANGED <<newest, eventSource, late>>

\* The session is good, or the question failed.
AnsweredOtherwise(c) ==
    /\ connection[c].asking > 0
    /\ ScheduleReconnect(c, [connection[c] EXCEPT !.asking = @ - 1])
    /\ UNCHANGED <<newest, eventSource, locked, late>>

\* A plausible bug: the silent source is forgotten, not closed.
HeartbeatForgets(c) ==
    /\ connection[c].heartbeatTimer
    /\ ScheduleReconnect(c, [connection[c] EXCEPT !.source = 0])
    /\ late' = (late \/ connection[c].asking > 0)
    /\ UNCHANGED <<newest, eventSource, locked>>

\* Nothing has arrived for HEARTBEAT_TIMEOUT_MS.
HeartbeatFires(c) ==
    /\ connection[c].heartbeatTimer
    /\ eventSource' = Shut(c, eventSource)
    /\ ScheduleReconnect(c, [connection[c] EXCEPT !.source = 0])
    /\ late' = (late \/ connection[c].asking > 0)
    /\ UNCHANGED <<newest, locked>>

RetryFires(c) ==
    /\ connection[c].retryTimer
    /\ Open(c, [connection[c] EXCEPT !.retryTimer = FALSE], eventSource)
    /\ UNCHANGED <<newest, locked, late>>

----------------------------------------------------------------------------
\* disconnect(), when the page is left.
Disconnect ==
    /\ ~connection[newest].closed
    /\ eventSource' = Shut(newest, eventSource)
    /\ connection' = [connection EXCEPT ![newest] = Stopped(@)]
    /\ shown' = "disconnected"
    /\ UNCHANGED <<newest, locked, late>>

\* restart() after a login: disconnect() and connectStream() in one go.
Restart ==
    /\ ~connection[newest].closed /\ newest < MaxConnections
    /\ newest' = newest + 1
    /\ \E s \in Unborn :
           /\ \A t \in Unborn : s <= t
           /\ eventSource' = [Shut(newest, eventSource) EXCEPT
                                  ![s] = [of |-> newest', ready |-> "connecting"]]
           /\ connection' = [connection EXCEPT ![newest] = Stopped(@),
                                               ![newest'] = [Fresh EXCEPT !.source = s]]
    /\ shown' = "connecting"
    /\ UNCHANGED <<locked, late>>

\* handleUnauthorized: another request was answered with 401.
HandleUnauthorized ==
    /\ shown' = "unauthenticated"
    /\ UNCHANGED <<connection, newest, eventSource, locked, late>>

\* The page is loaded again.
Mount ==
    /\ connection' = FirstConnection /\ newest' = 1
    /\ eventSource' = FirstSource
    /\ shown' = "connecting"
    /\ locked' = {} /\ late' = FALSE

StreamClientNext ==
    \/ \E s \in Sources : SourceOpens(s) \/ DataArrives(s) \/ SourceErrs(s)
    \/ \E c \in Connections :
           \/ AnsweredLocked(c) \/ AnsweredOtherwise(c) \/ HeartbeatFires(c) \/ RetryFires(c)
    \/ Disconnect \/ Restart \/ HandleUnauthorized \/ Mount

StreamClientSpec == StreamClientInit /\ [][StreamClientNext]_clientVars

----------------------------------------------------------------------------
(* Properties *)

\* No second stream: at most one EventSource streams, and it is the one that the
\* newest connection will close.
OneStream ==
    /\ \A s \in Sources : Streaming(s) => s = connection[newest].source
    /\ shown = "connected" =>
           \/ connection[newest].asking > 0
           \/ connection[newest].source # 0
              /\ eventSource[connection[newest].source].ready = "open"

\* A connection in use will try again, or was answered that a login is needed; when
\* its source is open a timer watches it.
TriesAgain ==
    LET r == connection[newest]
        ready == IF r.source = 0 THEN "none" ELSE eventSource[r.source].ready
    IN  ~r.closed =>
            \/ r.retryTimer \/ r.heartbeatTimer
            \/ ready # "open" /\ (r.asking > 0 \/ ready = "connecting" \/ newest \in locked)

\* A page has one stream and gets it back.  The first is true as long as the status
\* of a session is answered before the heartbeat times out: a later answer schedules
\* a reconnect beside an open source, which nobody closes any more, so that every
\* event is shown twice.
StreamKept == TriesAgain /\ (~late => OneStream)
=============================================================================
