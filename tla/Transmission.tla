---------------------------- MODULE Transmission ----------------------------
(***************************************************************************)
(* The life of a text from POST /api/messages to its verdict: the request  *)
(* handlers (httpapi.createMessage), the duplicate filter (sendcache), the *)
(* outbox, the packets that are received, the event bus subscription of    *)
(* the echo watcher (httpapi.watchOutgoingEchoes), the failure callback    *)
(* (httpapi.handleOutgoingTimeout) and the counters of dmstats.            *)
(*                                                                         *)
(* A text that is received may be the echo of one that was sent here, once *)
(* or repeated by a relay, late, or never; it may as well come from        *)
(* another device that uses this callsign, or have been sent before a      *)
(* restart.  Nothing in a packet tells these apart, and Process publishes  *)
(* them all: any text may be received at any time.                         *)
(*                                                                         *)
(* Handlers, timers, the receive loop and the watcher are goroutines; what *)
(* each does between two of its calls into shared state is one action.     *)
(***************************************************************************)
EXTENDS Messages, Sequences, FiniteSets

CONSTANTS
    Handlers,       \* the requests of a behaviour, one goroutine each
    Station,        \* identity.Current(), the callsign of this station
    SendCacheTTL,   \* sendcache TTL; 0 disables the filter
    TTL,            \* outgoingEchoTimeout
    BusCap,         \* capacity of a subscriber channel; 16 in the code
    MaxHeard        \* bound on how often texts that read like one message arrive

ASSUME TransmissionAssumption ==
    /\ Station \in Sources
    /\ SendCacheTTL \in Nat /\ TTL \in Nat
    /\ BusCap \in Nat \ {0} /\ MaxHeard \in Nat
    /\ IsFiniteSet(Handlers)

MaxSends == Cardinality(Handlers)

VARIABLES
    sent, pending, byKey, timers, timer, calling, outcome,  \* the outbox
    demo,       \* cfg.DemoMode, fixed for the life of the process
    cache,      \* the live entries of the send cache
    admitted,   \* history: who got past Reserve since the entry appeared
    handler,    \* the goroutine of each request
    heard,      \* history: how many texts that read like each key were received
    queue,      \* the watcher's subscription channel
    watching,   \* the id whose confirmation the watcher is about to report
    announced,  \* history: the verdict events published for each id
    unstored,   \* history: failures AppendFailed could not write
    counts      \* dmstats: sent and ack per destination

outboxVars == <<sent, pending, byKey, timers, timer, calling, outcome>>
requestVars == <<cache, admitted, handler>>
reportVars == <<announced, unstored, counts>>
vars == <<outboxVars, demo, requestVars, heard, queue, watching, reportVars>>

Outbox == INSTANCE Outbox

Ids == Outbox!Ids

\* What users type here; the run of Outbox also registers texts that end in a
\* literal marker.
Typed == {text \in Texts : text.marker = NoMarker}
Pairs == Destinations \X Typed
Steps == {"idle", "add", "register", "send", "written", "done"}
Answers == {0, 202, 429, 502}
Events == [type : {"packet.received", "message.delivered", "message.failed"}, key : Keys]

TypeOK ==
    /\ Outbox!TypeOK
    /\ demo \in BOOLEAN
    /\ cache \in SUBSET Pairs
    /\ admitted \in [Pairs -> SUBSET Handlers]
    /\ handler \in [Handlers -> [step : Steps, to : Destinations, text : Texts,
                                 id : {0} \cup Ids, answer : Answers]]
    /\ heard \in [Keys -> 0 .. MaxHeard]
    /\ queue \in Seq(Events) /\ Len(queue) <= BusCap
    /\ watching \in {0} \cup Ids
    /\ announced \in [Ids -> SUBSET {"delivered", "failed"}]
    /\ unstored \in SUBSET Ids
    /\ counts \in [Destinations -> [sent : Nat, ack : Nat]]

Init ==
    /\ Outbox!Init
    /\ demo \in BOOLEAN
    /\ cache = {}
    /\ admitted = [pair \in Pairs |-> {}]
    /\ handler \in [Handlers -> {[step |-> "idle", to |-> to, text |-> text, id |-> 0, answer |-> 0] :
                                    to \in Destinations, text \in Typed}]
    /\ heard = [key \in Keys |-> 0]
    /\ queue = << >>
    /\ watching = 0
    /\ announced = [id \in Ids |-> {}]
    /\ unstored = {}
    /\ counts = [to \in Destinations |-> [sent |-> 0, ack |-> 0]]

----------------------------------------------------------------------------
(***************************************************************************)
(* Plausible bugs, each to be compared with the definition it would spoil; *)
(* none is part of Next.                                                   *)
(***************************************************************************)
\* The subscriber channel grows instead of dropping.
Published_Unbounded(event) == Append(queue, event)

\* The error path of SendText forgets outbox.Cancel.
SendFails_NoCancel(h) ==
    /\ handler[h].step = "send"
    /\ handler' = [handler EXCEPT ![h].step = "done", ![h].answer = 502]
    /\ UNCHANGED <<outboxVars, demo, cache, admitted, heard, queue, watching, reportVars>>

\* The watcher does not look at the type of the event.
WatchConfirm_AnyEvent ==
    /\ watching = 0 /\ queue # << >>
    /\ Outbox!Confirm(Head(queue).key)
    /\ watching' = IF pending' = pending THEN 0 ELSE CHOOSE id \in pending : id \notin pending'
    /\ queue' = Tail(queue)
    /\ UNCHANGED <<demo, requestVars, heard, reportVars>>

\* RecordAck is called for every echo, matched or not.
WatchConfirm_AckFirst ==
    /\ watching = 0 /\ queue # << >>
    /\ Head(queue).type = "packet.received"
    /\ Outbox!Confirm(Head(queue).key)
    /\ watching' = IF pending' = pending THEN 0 ELSE CHOOSE id \in pending : id \notin pending'
    /\ queue' = Tail(queue)
    /\ counts' = IF pending' = pending
                 THEN [counts EXCEPT ![Head(queue).key.destination].ack = @ + 1]
                 ELSE counts
    /\ UNCHANGED <<demo, requestVars, heard, announced, unstored>>

\* The failed row is written and nobody is told.
ReportFailure_Silent(id) ==
    /\ Outbox!FailureReported(id)
    /\ UNCHANGED <<demo, requestVars, heard, queue, watching, reportVars>>

----------------------------------------------------------------------------
\* Bus.Publish, as far as the watcher's channel is concerned: a full channel
\* drops the event.
Published(event) == IF Len(queue) < BusCap THEN Append(queue, event) ELSE queue

Pair(h) == <<handler[h].to, handler[h].text>>
Key(h) == [source |-> Station, destination |-> handler[h].to, text |-> handler[h].text]

At(h, step) == handler[h].step = step
Goto(h, step) == handler' = [handler EXCEPT ![h].step = step]
Answer(h, code) == handler' = [handler EXCEPT ![h].step = "done", ![h].answer = code]

\* Cache.Reserve, first half: lru.Get.
CheckReserve(h) ==
    /\ At(h, "idle")
    /\ IF SendCacheTTL > 0 /\ Pair(h) \in cache
       THEN Answer(h, 429)
       ELSE Goto(h, "add")
    /\ UNCHANGED <<outboxVars, demo, cache, admitted, heard, queue, watching, reportVars>>

\* Cache.Reserve, second half: lru.Add.
AddReserve(h) ==
    /\ At(h, "add")
    /\ Goto(h, "register")
    /\ IF SendCacheTTL > 0
       THEN /\ cache' = cache \cup {Pair(h)}
            /\ admitted' = [admitted EXCEPT ![Pair(h)] = @ \cup {h}]
       ELSE UNCHANGED <<cache, admitted>>
    /\ UNCHANGED <<outboxVars, demo, heard, queue, watching, reportVars>>

\* The entry outlives its TTL or is evicted by the LRU.
ForgetReserve(pair) ==
    /\ pair \in cache
    /\ cache' = cache \ {pair}
    /\ admitted' = [admitted EXCEPT ![pair] = {}]
    /\ UNCHANGED <<outboxVars, demo, handler, heard, queue, watching, reportVars>>

\* outbox.Register, skipped in demo mode.
RegisterPending(h, at) ==
    /\ At(h, "register")
    /\ IF demo
       THEN /\ Goto(h, "send")
            /\ UNCHANGED outboxVars
       ELSE /\ Outbox!Register(Key(h), at)
            /\ handler' = [handler EXCEPT ![h].step = "send", ![h].id = Len(sent) + 1]
    /\ UNCHANGED <<demo, cache, admitted, heard, queue, watching, reportVars>>

\* bridge.SendText succeeds.  In demo mode the bridges do not transmit.
Transmit(h) ==
    /\ At(h, "send")
    /\ Goto(h, "written")
    /\ UNCHANGED <<outboxVars, demo, cache, admitted, heard, queue, watching, reportVars>>

\* bridge.SendText fails, on its own or because its 5 s context ended: the
\* handler cancels the pending message and answers 502 (or 503, which is the
\* same to everybody else).  The node may have got the text all the same, and
\* its echo may have come already, or come later.
SendFails(h) ==
    /\ At(h, "send")
    /\ IF handler[h].id \in pending
       THEN Outbox!Cancel(handler[h].id)
       ELSE UNCHANGED outboxVars
    /\ Answer(h, 502)
    /\ UNCHANGED <<demo, cache, admitted, heard, queue, watching, reportVars>>

\* dmStats.RecordSent and the 202 answer.
Accept(h) ==
    /\ At(h, "written")
    /\ Answer(h, 202)
    /\ counts' = [counts EXCEPT ![handler[h].to].sent = @ + 1]
    /\ UNCHANGED <<outboxVars, demo, cache, admitted, heard, queue, watching, announced, unstored>>

\* The keys of the messages that a text may confirm: its own, and the one
\* without the marker.
Confirmable(observed) == {key \in Keys : Matches([key |-> key], observed)}

\* A text is received from anywhere and Processor.Process publishes
\* packet.received.
Receive(observed) ==
    /\ \A key \in Confirmable(observed) : heard[key] < MaxHeard
    /\ heard' = [key \in Keys |->
                    IF key \in Confirmable(observed) THEN heard[key] + 1 ELSE heard[key]]
    /\ queue' = Published([type |-> "packet.received", key |-> observed])
    /\ UNCHANGED <<outboxVars, demo, requestVars, watching, reportVars>>

\* The watcher receives an event that is no packet.
WatchSkip ==
    /\ watching = 0 /\ queue # << >>
    /\ Head(queue).type # "packet.received"
    /\ queue' = Tail(queue)
    /\ UNCHANGED <<outboxVars, demo, requestVars, heard, watching, reportVars>>

\* The watcher receives a text and calls outbox.Confirm.
WatchConfirm ==
    /\ watching = 0 /\ queue # << >>
    /\ Head(queue).type = "packet.received"
    /\ Outbox!Confirm(Head(queue).key)
    /\ watching' = IF pending' = pending THEN 0 ELSE CHOOSE id \in pending : id \notin pending'
    /\ queue' = Tail(queue)
    /\ UNCHANGED <<demo, requestVars, heard, reportVars>>

\* Confirm returned a message: dmStats.RecordAck and message.delivered.
WatchReport ==
    /\ watching # 0
    /\ counts' = [counts EXCEPT ![sent[watching].key.destination].ack = @ + 1]
    /\ announced' = [announced EXCEPT ![watching] = @ \cup {"delivered"}]
    /\ queue' = Published([type |-> "message.delivered", key |-> sent[watching].key])
    /\ watching' = 0
    /\ UNCHANGED <<outboxVars, demo, requestVars, heard, unstored>>

\* The timer side of the outbox.
OutboxTimer(id) ==
    /\ Outbox!Fire(id) \/ Outbox!ExpireLate(id) \/ Outbox!Expire(id)
    /\ UNCHANGED <<demo, requestVars, heard, queue, watching, reportVars>>

\* handleOutgoingTimeout: the failed row is written and announced.
ReportFailure(id) ==
    /\ Outbox!FailureReported(id)
    /\ announced' = [announced EXCEPT ![id] = @ \cup {"failed"}]
    /\ queue' = Published([type |-> "message.failed", key |-> sent[id].key])
    /\ UNCHANGED <<demo, requestVars, heard, watching, unstored, counts>>

\* handleOutgoingTimeout: AppendFailed returns an error, nothing is announced.
FailureNotStored(id) ==
    /\ Outbox!FailureReported(id)
    /\ unstored' = unstored \cup {id}
    /\ UNCHANGED <<demo, requestVars, heard, queue, watching, announced, counts>>

HandlerStep(h) ==
    \/ CheckReserve(h)
    \/ AddReserve(h)
    \/ \E at \in Times : RegisterPending(h, at)
    \/ Transmit(h)
    \/ SendFails(h)
    \/ Accept(h)

WatcherStep == WatchSkip \/ WatchConfirm \/ WatchReport

Callback(id) == ReportFailure(id) \/ FailureNotStored(id)

Next ==
    \/ \E h \in Handlers : HandlerStep(h)
    \/ \E pair \in Pairs : ForgetReserve(pair)
    \/ \E observed \in Keys : Receive(observed)
    \/ WatcherStep
    \/ \E id \in Ids : OutboxTimer(id)
    \/ \E id \in Ids : Callback(id)

\* Goroutines run, the 5 s context bounds SendText, timers fire.  Nobody owes
\* an echo: it may never come.
Fairness ==
    /\ \A h \in Handlers : WF_vars(HandlerStep(h))
    /\ WF_vars(WatcherStep)
    /\ \A id \in Ids : WF_vars(OutboxTimer(id)) /\ WF_vars(Callback(id))

Spec == Init /\ [][Next]_vars /\ Fairness

----------------------------------------------------------------------------
\* A client is never told both that a message was delivered and that it failed.
VerdictsNotContradicted == \A id \in Ids : Cardinality(announced[id]) <= 1

\* One text that is received confirms one message at most, and nothing else
\* confirms any: of the messages sent with the same words to the same
\* destination no more are delivered than texts that read like them have
\* arrived, whatever the watcher, full channels and late timers make of them.
DeliveriesWereHeard ==
    \A key \in Keys :
        Cardinality({id \in Ids : outcome[id] = "delivered" /\ sent[id].key = key}) <= heard[key]

\* A request answered with an error leaves nothing behind that could later be
\* confirmed, counted or expire.
ErrorLeavesNothingPending ==
    \A h \in Handlers : handler[h].answer = 502 => handler[h].id \notin pending

\* dmstats counts one acknowledgement per delivered message, however many
\* echoes arrive; the watcher may be one behind.
AcksCountDeliveries ==
    \A to \in Destinations :
        counts[to].ack = Cardinality({id \in Ids : /\ outcome[id] = "delivered"
                                              /\ sent[id].key.destination = to
                                              /\ id # watching})

\* An accepted message is eventually reported delivered or failed, unless the
\* database refuses the failed row.
AcceptedGetsVerdict ==
    \A h \in Handlers :
        (handler[h].answer = 202 /\ ~demo) ~>
            (\E id \in Ids : id = handler[h].id /\ (announced[id] # {} \/ id \in unstored))

\* sendcache.go: "Reserve returns true if the (dst, msg) pair is new; false if
\* it was seen within the TTL."
ReserveAdmitsOnce == \A pair \in Pairs : Cardinality(admitted[pair]) <= 1
=============================================================================
