----------------------------- MODULE EventStream -----------------------------
(***************************************************************************)
(* A packet on its way to the browsers: packetingest.Processor stores and  *)
(* publishes it, events.Bus hands it to the channels of the open streams,  *)
(* httpapi.streamEvents writes snapshot, replay and live events, and the   *)
(* page of the web client turns them into its traffic list and its unread  *)
(* counter.                                                                *)
(*                                                                         *)
(* There is one receive loop, because exactly one transport runs, and one  *)
(* goroutine per stream.  The chat has a single public conversation; the   *)
(* packets are numbered in the order of received_at, and a read marker is  *)
(* the number of the last packet received before it was set.  The page is  *)
(* taken to handle an event when it is written.  The events for identity,  *)
(* positions and channels are left out: none of this depends on them.      *)
(***************************************************************************)
EXTENDS Naturals, Sequences, FiniteSets, Functions

CONSTANTS
    Clients,            \* browsers with a page open
    BusCap,             \* capacity of a subscriber channel; 16 in the code
    MaxPackets,         \* bound on the packets received
    MaxStreams          \* bound on the streams a page opens

ASSUME EventStreamAssumption ==
    BusCap \in Nat \ {0} /\ MaxPackets \in Nat /\ MaxStreams \in Nat

VARIABLES
    replays,        \* receive log and replay window are configured
    processing,     \* the next step of Process
    kinds,          \* the kind of each packet received so far
    receiveLog,     \* the packets in receive_log
    chats,          \* the packets in the chat tables
    lastRead,       \* the read marker of the conversation
    stream,         \* the goroutine of each page's stream
    opened,         \* how many streams each page has opened
    page            \* the stores of each page

packetVars == <<processing, kinds, receiveLog, chats>>
vars == <<replays, packetVars, lastRead, stream, opened, page>>

Packets == 1 .. MaxPackets
Received == 1 .. Len(kinds)
Newest == Len(kinds)

\* A text of somebody else, our own text coming back, and one that does not parse.
Kinds == {"text", "echo", "broken"}

StreamSteps == {"closed", "subscribe", "markers", "count", "replay", "write", "live"}

Closed ==
    [step |-> "closed", queue |-> << >>, marker |-> 0, records |-> {},
     dropped |-> FALSE, uncounted |-> FALSE]

TypeOK ==
    /\ replays \in BOOLEAN
    /\ processing \in {"idle", "log", "store", "publish"}
    /\ kinds \in Seq(Kinds) /\ Len(kinds) <= MaxPackets
    /\ receiveLog \in SUBSET Received
    /\ chats \in SUBSET Received
    /\ lastRead \in 0 .. Len(kinds)
    /\ stream \in [Clients -> [step : StreamSteps, queue : Seq(Packets),
                               marker : 0 .. MaxPackets, records : SUBSET Packets,
                               dropped : BOOLEAN, uncounted : BOOLEAN]]
    /\ \A c \in Clients : Len(stream[c].queue) <= BusCap
    /\ opened \in [Clients -> 0 .. MaxStreams]
    /\ page \in [Clients -> [list : SUBSET Packets, unread : Nat, cleared : SUBSET Packets,
                             looking : BOOLEAN, fetching : BOOLEAN, posting : BOOLEAN]]

Init ==
    /\ replays \in BOOLEAN
    /\ processing = "idle" /\ kinds = << >>
    /\ receiveLog = {} /\ chats = {} /\ lastRead = 0
    /\ stream = [c \in Clients |-> Closed]
    /\ opened = [c \in Clients |-> 0]
    /\ page = [c \in Clients |-> [list |-> {}, unread |-> 0, cleared |-> {},
                                  looking |-> FALSE, fetching |-> FALSE, posting |-> FALSE]]

At(c, step) == stream[c].step = step
Replayable == IF replays THEN {p \in receiveLog : kinds[p] # "broken"} ELSE {}
Unread(marker) == Cardinality({p \in chats : p > marker})

----------------------------------------------------------------------------
(***************************************************************************)
(* Plausible bugs, each to be compared with the definition it would spoil; *)
(* none is part of Next.                                                   *)
(***************************************************************************)
\* The stream subscribes when it has written snapshots and replay.
Subscribed_AfterReplay == {c \in Clients : At(c, "live")}

\* The packet is announced before it is stored.
NextStep_AnnounceFirst ==
    CASE processing = "log" -> "publish"
      [] processing = "publish" -> "store"
      [] OTHER -> "idle"

\* Publish waits for nobody and drops nothing.
Deliver_Unbounded(s) == [s EXCEPT !.queue = Append(@, Newest)]

\* A stream that is not the first of its page is not given a replay.
Replay_OnlyOnce(c) ==
    /\ At(c, "replay")
    /\ stream' = [stream EXCEPT ![c].step = "write",
                     ![c].records = IF opened[c] = 1 THEN Replayable ELSE {}]
    /\ UNCHANGED <<replays, packetVars, lastRead, opened, page>>

----------------------------------------------------------------------------
\* The order of the calls in Process; a packet that does not parse is logged
\* and announced only.
NextStep ==
    CASE processing = "log" /\ kinds[Newest] # "broken" -> "store"
      [] processing \in {"log", "store"} -> "publish"
      [] OTHER -> "idle"

\* The receive loop calls Process.
Process(kind) ==
    /\ processing = "idle" /\ Len(kinds) < MaxPackets
    /\ kinds' = Append(kinds, kind)
    /\ processing' = "log"
    /\ UNCHANGED <<replays, receiveLog, chats, lastRead, stream, opened, page>>

\* logReceivedPacket; a failed insert is logged and otherwise ignored.
LogReceivedPacket ==
    /\ processing = "log"
    /\ receiveLog' \in {receiveLog, receiveLog \cup {Newest}}
    /\ processing' = NextStep
    /\ UNCHANGED <<replays, kinds, chats, lastRead, stream, opened, page>>

\* storePacket of a text: the insert into the chat log, which may fail.
\* ChatStatus.RecordIncoming has an empty body.
StorePacket ==
    /\ processing = "store"
    /\ chats' \in {chats, chats \cup {Newest}}
    /\ processing' = NextStep
    /\ UNCHANGED <<replays, kinds, receiveLog, lastRead, stream, opened, page>>

\* The select of Publish for one subscriber.
Deliver(s) ==
    IF Len(s.queue) < BusCap
    THEN [s EXCEPT !.queue = Append(@, Newest)]
    ELSE [s EXCEPT !.dropped = TRUE]

Subscribed == {c \in Clients : stream[c].step \notin {"closed", "subscribe"}}

Publish ==
    /\ processing = "publish"
    /\ stream' = [c \in Clients |-> IF c \in Subscribed THEN Deliver(stream[c]) ELSE stream[c]]
    /\ processing' = NextStep
    /\ UNCHANGED <<replays, kinds, receiveLog, chats, lastRead, opened, page>>

----------------------------------------------------------------------------
\* The page opens an EventSource and its request reaches streamEvents.
Open(c) ==
    /\ At(c, "closed") /\ opened[c] < MaxStreams
    /\ stream' = [stream EXCEPT ![c].step = "subscribe"]
    /\ opened' = [opened EXCEPT ![c] = @ + 1]
    /\ UNCHANGED <<replays, packetVars, lastRead, page>>

Subscribe(c) ==
    /\ At(c, "subscribe")
    /\ stream' = [stream EXCEPT ![c].step = "markers"]
    /\ UNCHANGED <<replays, packetVars, lastRead, opened, page>>

\* chatStatus.Snapshot: the read markers are copied under the mutex ...
SnapshotReads(c) ==
    /\ At(c, "markers")
    /\ stream' = [stream EXCEPT ![c].step = "count", ![c].marker = lastRead]
    /\ UNCHANGED <<replays, packetVars, lastRead, opened, page>>

\* ... and the messages counted afterwards, where a failing query leaves an
\* empty snapshot; the page takes it over.
WriteChatStatus(c) ==
    /\ At(c, "count")
    /\ \E fails \in BOOLEAN :
        /\ page' = [page EXCEPT ![c].unread = IF fails THEN 0 ELSE Unread(stream[c].marker)]
        /\ stream' = [stream EXCEPT ![c].step = "replay", ![c].uncounted = fails]
    /\ UNCHANGED <<replays, packetVars, lastRead, opened>>

\* replayRecentPackets reads the log ...
Replay(c) ==
    /\ At(c, "replay")
    /\ stream' = [stream EXCEPT ![c].step = "write", ![c].records = Replayable]
    /\ UNCHANGED <<replays, packetVars, lastRead, opened, page>>

\* ... and writes what it has read; the page lists it and keeps it out of the chat.
WriteReplay(c) ==
    /\ At(c, "write")
    /\ page' = [page EXCEPT ![c].list = @ \cup stream[c].records]
    /\ stream' = [stream EXCEPT ![c].step = "live", ![c].records = {}]
    /\ UNCHANGED <<replays, packetVars, lastRead, opened>>

\* The counter of a page is cleared; `cleared` remembers which messages had
\* been stored by then.
Clear(view) == [view EXCEPT !.unread = 0, !.cleared = @ \cup chats]

\* prependEvent, and for a text updateChatStatusOnReceive: the counter is
\* cleared while the conversation is open and leaves out our own texts, unless
\* one comes back again, which is a duplicate and not the last of the history.
ReceiveLive(view, p) ==
    LET listed   == [view EXCEPT !.list = @ \cup {p}]
        counted  == [listed EXCEPT !.unread = @ + 1]
        repeated == \E q \in view.list \ {p} : kinds[q] = "echo"
    IN  CASE kinds[p] = "broken" -> {listed}
          [] kinds[p] # "broken" /\ view.looking -> {Clear(listed)}
          [] kinds[p] = "echo" /\ ~view.looking ->
                {listed} \cup (IF repeated THEN {counted} ELSE {})
          [] OTHER -> {counted}

WriteLive(c) ==
    /\ At(c, "live") /\ stream[c].queue # << >>
    /\ \E view \in ReceiveLive(page[c], Head(stream[c].queue)) : page' = [page EXCEPT ![c] = view]
    /\ stream' = [stream EXCEPT ![c].queue = Tail(@)]
    /\ UNCHANGED <<replays, packetVars, lastRead, opened>>

\* The connection is lost, or a write or a query fails.
Disconnect(c) ==
    /\ ~At(c, "closed")
    /\ stream' = [stream EXCEPT ![c] = Closed]
    /\ UNCHANGED <<replays, packetVars, lastRead, opened, page>>

----------------------------------------------------------------------------
\* The user opens the conversation, for which its history is fetched ...
Look(c) ==
    /\ ~page[c].looking
    /\ page' = [page EXCEPT ![c].looking = TRUE, ![c].fetching = TRUE]
    /\ UNCHANGED <<replays, packetVars, lastRead, stream, opened>>

\* ... or leaves it.
LookAway(c) ==
    /\ page[c].looking
    /\ page' = [page EXCEPT ![c].looking = FALSE]
    /\ UNCHANGED <<replays, packetVars, lastRead, stream, opened>>

\* markCurrentRead, when the history has arrived or a snapshot has raised the
\* counter of the open conversation: the counter is cleared and POST .../read
\* is on its way.
MarkCurrentRead(c) ==
    LET raised == page[c].unread > 0
        view   == IF raised THEN Clear(page[c]) ELSE page[c]
    IN  /\ page[c].looking \/ page[c].fetching
        /\ page' = [page EXCEPT ![c] = [view EXCEPT !.fetching = FALSE, !.posting = @ \/ raised]]
        /\ UNCHANGED <<replays, packetVars, lastRead, stream, opened>>

\* markConversationRead of the server.
MarkRead(c) ==
    /\ page[c].posting
    /\ lastRead' = Newest
    /\ page' = [page EXCEPT ![c].posting = FALSE]
    /\ UNCHANGED <<replays, packetVars, stream, opened>>

\* The request is lost; the page does not notice.
MarkReadLost(c) ==
    /\ page[c].posting
    /\ page' = [page EXCEPT ![c].posting = FALSE]
    /\ UNCHANGED <<replays, packetVars, lastRead, stream, opened>>

Processor ==
    \/ LogReceivedPacket
    \/ StorePacket
    \/ Publish

Stream(c) ==
    \/ Subscribe(c)
    \/ SnapshotReads(c)
    \/ WriteChatStatus(c)
    \/ Replay(c)
    \/ WriteReplay(c)
    \/ WriteLive(c)

Next ==
    \/ \E kind \in Kinds : Process(kind)
    \/ Processor
    \/ \E c \in Clients :
        \/ Open(c) \/ Stream(c) \/ Disconnect(c)
        \/ Look(c) \/ LookAway(c)
        \/ MarkCurrentRead(c) \/ MarkRead(c) \/ MarkReadLost(c)

\* Goroutines run and a page without a stream opens the next one.
Fairness ==
    /\ WF_vars(Processor)
    /\ \A c \in Clients : WF_vars(Open(c)) /\ WF_vars(Stream(c))

Spec == Init /\ [][Next]_vars /\ Fairness

----------------------------------------------------------------------------
\* The packet Process has stored or is storing and has not announced yet.
Unannounced == IF processing = "idle" THEN {} ELSE {Newest}

\* Snapshot, replay and live events leave no gap: what a live stream has not
\* written yet is in its channel or about to be published, unless the channel
\* was full.
NoGap ==
    \A c \in Clients : At(c, "live") /\ replays /\ ~stream[c].dropped =>
        \A p \in receiveLog : kinds[p] # "broken" =>
            p \in page[c].list \cup Range(stream[c].queue) \cup Unannounced

\* The badge never hides a message of somebody else: one that is stored, not
\* marked as read and not cleared away on this page is counted, whether it
\* reached the page in the snapshot or live.  (Only a full channel and a failed
\* query can hide one.)
UnreadNotHidden ==
    \A c \in Clients :
        /\ At(c, "live") /\ stream[c].queue = << >> /\ processing = "idle"
        /\ ~stream[c].dropped /\ ~stream[c].uncounted
        =>
            page[c].unread >=
                Cardinality({p \in chats \ page[c].cleared : kinds[p] = "text" /\ p > lastRead})

\* After any number of broken connections every logged packet is listed, unless
\* the page has lost its last stream or has one whose channel was full.
EverythingListed ==
    \A c \in Clients, p \in Packets :
        (replays /\ p \in receiveLog /\ kinds[p] # "broken") ~>
            (p \in page[c].list \/ stream[c].dropped \/ (At(c, "closed") /\ opened[c] = MaxStreams))

\* docs/chat_status.md: "Unread counts exclude local echoes."
UnreadExcludesEchoes ==
    (\A p \in Received : kinds[p] = "echo") => \A c \in Clients : page[c].unread = 0
=============================================================================
