# gomeshcomd in TLA+

Specifications, model-checking runs and proofs for `gomeshcomd`, the Go daemon
that connects a MeshCom node (over serial, the NETConsole or UDP) to browsers
(over HTTP and server-sent events) and to SQLite.

Paths below are relative to `src/`. `PROJECT.json` maps every definition that
models code to the lines it models, lists the runs, one mutant per property
(a plausible bug that the property must catch), the hazards and the findings.

## 1. The system

`cmd/gomeshcomd/main.go` builds everything, connects it and starts a goroutine
per bridge, per flush loop and for the HTTP server. There is one process; the
components call one another directly and share memory under mutexes. There are
three kinds of asynchronous connection: the event bus (bounded channels that
drop when full), timers, and the link to the node.

    HTTP handler --POST /api/messages--> send cache -> outbox.Register
        |                                                 |  timer (5 s)
        v                                                 v
    bridge.SendText --> node --echo--> bridge/decoder  expire -> handleOutgoingTimeout
                                          |                 |
                                          v                 v
                               packetingest.Processor   chatlog.AppendFailed, bus
                                 |        |
                                 v        v
                   stores (SQLite)     events.Bus --> SSE clients
                                          |
                                          +--> echo watcher -> outbox.Confirm
                                                  -> dmstats.RecordAck, bus

### Inventory

| Component | State | Operations | What is hard | What makes it correct |
|---|---|---|---|---|
| Outbox `internal/outbox` | pending messages, an index by key, a timer per message | Register, Confirm (index, then a scan of the map), Cancel, expire | `timer.Stop` after the timer has fired; index and map changed in five places; the callback runs outside the mutex | one verdict per message; an echo is credited to the oldest matching message; nothing pending without a timer |
| Send cache `internal/sendcache` | LRU with TTL of (destination, text) | Reserve | lookup and insert are two calls | a pair is admitted once while its entry lives |
| Send path `internal/httpapi/server.go` | none of its own | createMessage, watchOutgoingEchoes, handleOutgoingTimeout | an echo, a timeout and the error path of the same message race | accepted messages get exactly one verdict; refused ones leave nothing |
| Serial and NETConsole bridge `internal/serialbridge`, `internal/netconsole` | installed session, status, reconnect delay; per session the port and its failure | Run/runSession, SendText, authentication, the watcher of the context | status, session and port have separate locks and SendText uses them in turn; reading blocks until somebody closes the port | texts only on authenticated sessions; failed sessions are replaced; shutdown ends Run; status follows the session |
| Transport status `internal/transport` | one value | the bridges' setters | written by Run and by senders | see above |
| Write-behind stores `internal/station`, `internal/chatstatus`, `internal/channelshow`, `internal/dmstats` | data, dirty flag, SQLite rows | change, SaveIfDirty, flush loop, last save | the write is outside the mutex; handlers save beside the loop; failed writes | no change is forgotten; the database does not go back |
| Event bus `internal/events` | subscriber channels | Subscribe, Publish | drops when full; unsubscribe closes a channel | no send on a closed channel; what is not dropped arrives in order |
| Event stream `internal/httpapi/server.go` (`/api/events`) | one goroutine per client | snapshots, replay, live events | replay and live events overlap | no gap between snapshot and live events |
| Packet ingestion `internal/packetingest` | none of its own | Process | several bridges may deliver; stores before bus | an event announces what is already stored |
| UDP bridge, UDP forwarder `internal/udpbridge`, `internal/udpforward` | learned node address; worker channels | receive, send; Forward, Close | three selects of Forward against a worker that receives; Close beside both | in order, none twice, the newest is never dropped; no connection is closed under a writer |
| Console codec `internal/consolecodec` | the unfinished record, whether it is being discarded | Feed, Flush, encoding | input arrives in arbitrary pieces, records may be too long | the result does not depend on the split |
| Chat log `internal/chatlog` | SQLite rows | Append, AppendFailed, acknowledgement, List, ReadSince, Remove | the same text several times; ids of a conversation in four forms; the callsign changes | what is listed can be read, what is stored is shown once, a deleted conversation leaves nothing |
| Sessions `internal/httpapi/auth.go` | map in memory, `http_sessions` | create, valid, delete, evict, load | memory and table disagree when a statement fails | a deleted session stays deleted |
| Settings `internal/httpapi/configapi.go`, `internal/config` | configuration, its file, the environment | read, update, load | two updates at once; failure between file and memory; what is not written to the file | a restart changes no setting; what was accepted can be loaded |
| Lifecycle `cmd/gomeshcomd` | the context, the intent to restart, what has returned | start, stop, restart | a restart, a stop, a signal and a failure at the same time; last saves are not awaited | the process ends, for the reason that came first |
| Positions `internal/positions` | records by node, dirty nodes | Update, TouchFromPacket, incremental save, load | relays change beside the origin; changes during a failing save; purged rows | no change is forgotten |
| Statistics `internal/stats` | hourly buckets | RecordPacket, RecordChannel, prune, save, load | the copy that is saved shares maps with the collector | nothing is counted twice, clean means saved |
| Storage `internal/storage` | SQLite | open, Purge | Purge beside the stores in memory | purged rows do not come back |
| Web client `web/` | event sources and their timers, list, counters | connectEvents, restart after a login, markCurrentRead | errors, timers and late answers share variables; replay after a gap | one stream, which comes back; no unread message hidden |

Receive log and telemetry (one insert per packet), callsign validation,
logging, the embedded UI and the development tools (`iot-simulator`, `udprecv`,
`udpsend`) keep no state whose interleavings matter; they are listed in
`PROJECT.json` and, but for the receive log (`EventStream`), not planned. Vendored code and generated assets are left out.

## 2. What is modelled

| Module | Models | Kind |
|---|---|---|
| `Messages` | keys, texts and the matching rule (`messageMatches`) | data |
| `Delivery` | what the outbox promises | abstract specification |
| `Outbox` | `internal/outbox/outbox.go` | component, implements `Delivery` |
| `OutboxProofs` | theorems about `Outbox` | proofs |
| `Transmission` | request handlers, send cache, received texts, bus subscription of the echo watcher, failure callback, DM counters; takes the outbox by `INSTANCE` | composition |
| `TransmissionProofs` | theorems about `Transmission`, on top of `OutboxProofs` | proofs |
| `ConsoleBridge` | both console bridges | component |
| `ConsoleBridgeProofs` | theorems about `ConsoleBridge` | proofs |
| `WriteBehind` | the four write-behind stores | component |
| `WriteBehindProofs` | theorems about `WriteBehind` | proofs |
| `EventStream` | packet ingestion, event bus, `/api/events`, and the traffic list and unread counter of the page | composition |
| `EventStreamProofs` | theorems about `EventStream` | proofs |
| `ChatLog` | `internal/chatlog/chatlog.go`, the handlers that list, read, mark and delete conversations, the read markers and unread counts of `internal/chatstatus` | component |
| `Positions` | `internal/positions/store.go` with the purge of `internal/storage` | component |
| `Stats` | `internal/stats/store.go`, `collector.go` | component |
| `Archive` | `ChatLog`, `Positions` and `Stats`, and the instance that is checked | composite for checking |
| `ArchiveProofs` | theorems about `ChatLog`, `Positions`, `Stats` and `Archive` | proofs |
| `SessionLife` | what the session store promises | abstract specification |
| `Sessions` | `internal/httpapi/auth.go` | component, implements `SessionLife` |
| `Settings` | `PUT /api/config`, `internal/config` and the identity at the start | component |
| `Lifecycle` | `run` and `main` of `cmd/gomeshcomd`, the restart and shutdown requests, `internal/apprestart` | component |
| `UdpLink` | `Listen` of `internal/udpbridge` with `internal/udpforward` | composition |
| `ConsoleDecoder` | `internal/consolecodec/decoder.go` | component, with a reference definition |
| `LinkProofs` | theorems about `ConsoleDecoder` and `UdpLink` | proofs |
| `StreamClient` | `connectEvents` of the page and the store that restarts it | component |
| `Daemon` | `Sessions`, `Settings`, `Lifecycle`, `UdpLink`, `ConsoleDecoder` and `StreamClient` | composite for checking |
| `DaemonProofs` | theorems about `Sessions`, `Settings`, `Lifecycle`, `StreamClient` and `Daemon` | proofs |

The constants are parameters of the component modules. The `.cfg` files give
them values directly; where a value needs a definition (texts, paths, requests,
reads) it stands at the end of the composite or of the component under "The
instance that is checked". The operators that a comment calls "a plausible bug"
are the mutants; no specification uses them.

`Archive` and `Daemon` put components that share no variable into one run. Their
variable `part` is chosen at the start and never changes, and only that component
moves: the states of the components add up instead of multiplying. Nothing is lost
by it. The components do not read each other's variables, so every behaviour of
`Sessions`, say, is one of `Daemon` with `part = "sessions"`, and the reverse; the
properties and theorems speak of the components. Where one component does depend
on another one, the module has the steps of both: `Sessions` and `Settings` stop
and start with the process, `ChatLog` has the callsign, the read markers and the
purge, `Positions` the purge, `UdpLink` the transport and the end of `run`.

### Outbox

Each exported method holds `Outbox.mu` from beginning to end and is one action.
`o.pending` is the set `pending`, the `PendingMessage` under an id is `sent[id]`,
`nextID` is `Len(sent)`. A timer is `armed` by `Register`, `fired` when the runtime
starts its goroutine, and `over` when it was stopped or its goroutine has been in
`expire`: stopping a timer that has fired does nothing, so `ExpireLate` and
`Expire` both remain possible after a confirmation in between. `Confirm` has
three cases: the first pending id filed under the exact key, failing that the
pending message with the least `CreatedAt` whose text matches but for a sequence
marker, failing that nothing but a dropped index entry. The map is iterated in
any order, so messages with the same `CreatedAt` are chosen between freely. The
callback is a step of its own (`FailureReported`) because it runs outside the
mutex.

### Transmission

A handler goes through `idle` (look up the pair in the send cache), `add` (insert
it), `register`, `send`, `written` (counter and answer 202). `SendFails` cancels the
pending message and answers 502; 502 stands for 503 too, to which the rest of
the system reacts in the same way. `Receive` is any text with any source,
destination and words, received at any time: the code publishes every packet and
matches texts only, so nothing tells the echo of a text of this process from one that
was sent before a restart, by another device with this callsign, or by nobody here.
That a failing write has reached the node after all, or that its echo comes before the
handler goes on, is a text received then. The packet passes through the bounded channel
of the watcher, which drops what does not fit. The watcher confirms, counts the
acknowledgement and publishes; its own events come back to it and are skipped.
`heard` is a history variable: how many texts have been received that may confirm
a message with a given key, lost ones included.
`ForgetReserve` is an entry that expires or is evicted.

### ConsoleBridge

`run` names the next call of `Run`/`runSession`, `sender[t].step` that of each
`SendText`. Every access to `b.status`, `b.session`, the recorded failure and the
port is a step of its own, because each has its own lock. `mode` chooses between
the two bridges, which differ in the authentication, in the order of the
deferred clean-up (`Unwind`), in when the watcher of the context runs (`Watched`)
and in which time counts as stable (`Clock`).

### WriteBehind

`SaveIfDirty` is three steps: copy the data and clear the flag (under the mutex),
write (outside it), set the flag again after a failure (under the mutex).
`store` chooses the store: `dmstats` does not set the flag again; `identity` and
`chatstatus` are also saved by HTTP handlers. The data is the number of the last
change it contains.

### EventStream

One packet at a time goes through `Process`: receive log, chat log, bus. A page
opens a stream, whose goroutine subscribes, copies the read markers, counts the
messages behind them (two steps: only the first holds the mutex), reads the
receive log, writes what it has read (two steps again) and then writes what arrives in its channel. `page[c].list` is the
traffic list, to which replayed and live packets are added; replayed ones are
kept out of the chat. `page[c].unread` is set by each snapshot, raised by live
texts and cleared by `markCurrentRead` or while the conversation is open; the
request that moves the read marker of the server follows later or is lost.
`page[c].cleared` is a history variable: the messages stored when the counter
was last cleared, which the user has seen or chosen to skip. `stream[c].dropped`
and `stream[c].uncounted` remember that the channel was full and that the
queries of the snapshot failed.

### ChatLog

`chats` are the rows of the two tables by their ids, and `lastRow` the id that was
given last (`AUTOINCREMENT`; one sequence serves both tables, as only the order
within a table matters). A text is a record of what decides
where it goes: origin, destination, message id, sequence number, the number of an
acknowledgement in it, and whether it is a custody notice or a failed send. The
conversions between the ids of a conversation are operators with their names in
the code (`FileIDs`, `FileIDForAPIID`, `StatusKey`, `RecordMatchesSSID`), as are the
queries (`Listed`, `ReadAll`, `getConversation`, `listConversations`, `Unread`).
Records may be stored in another order than they were stamped. Requests that take
several steps (`BeginRead`, `BeginDelete`, `RemoveRows`, `CollectKeys`, `ApplyKeys`)
interleave with texts that arrive, with a new callsign, failing queries and
restarts. `undisturbed` is a history variable: nothing of the above has happened to
the conversation that is being deleted.

### Positions and Stats

A record of `Positions` is its four instants, so that a touched relay, a moved
node and a purged row can be told apart. The save copies the dirty records, writes
them in one transaction and marks them dirty again after a failure. `purgedNodes`
remembers the rows that `Purge` took away under the store.

`Stats` counts events per hour. The copy that `save` makes shares the maps of channels
and distances with the live bucket, so the writer may see later counts in them
(`MayRead`): a data race, of which the runtime may also make an end
(`RestartStats`). `RecordChannel` is a second critical section after
`RecordPacket`. `heard` and `eventsHeard` are history: what a counter should have
counted, and how many events there were.

### Sessions

Each operation holds the mutex over its SQL statements and is one action. A
failing statement either rolls the map back (no step) or is ignored (`Drop`, when
expired entries leave memory). `LoadSessions` may read any part of the rows, since
its errors are not reported. `granted`, `revoked` and `loadedAll` are history. `Life`
maps the two tables to `SessionLife`: a token is live if either of them accepts it.

### Settings

A configuration is a function on nine fields, each of which stands for those that
the code treats alike. `PutConfig` reads `cfg` and builds the candidate, `WriteTmp`,
`RenameTmp` and `ApplyConfig` follow, all without a lock, so two requests
interleave in every way; any step may fail or be cut off by the end of the process.
`Prepare` is the operator: environment and file are chosen before a start, and
`StartUp` is `Load` with the callsign from the file, the environment or the table.

### Lifecycle

`pc` follows `main` through `run`; a stage of the start may fail. Restart requests, SIGHUP,
shutdown requests and SIGTERM arrive in any order and number that the code
admits, `triggerRestart` in its two steps. After `stop` a signal has its default
effect (`killed`). The two waits have a limit of ten seconds each: `Await` goes on
or ends the process. `cause` remembers what cancelled the context first.

### UdpLink

`Forward` takes one step per `select`: `Enqueue`, `DropOldest`, `Retry`. The workers
receive and write beside it, and `run` closes the forwarder with `Listen` at any step,
since it does not wait longer than ten seconds for the transport. `Given` is what
a target has been given and not lost.

### ConsoleDecoder

A byte is one of ten symbols. `Feed` takes the bytes of a read one after the other
(`Fed`), `Flush` ends the session. The reference takes the input of the session as a
whole: its lines (`LineTo`), where they have a marker (`Markers`), and the first place
where as many braces are closed outside strings as are opened (`Closings`). It counts
quotation marks (`Marks`) and the backslashes before them (`Escapes`), and shares with
the decoder only the set of places that are not blank (`Kept`) and the names of the
results. Loops are recursive functions over the places of a sequence, not recursive
operators, so that the proofs can unfold them.

### StreamClient

A connection is one call of `connectEvents`, with the variables of its closures
(`source`, two timers, the questions under way, `closed`). An `EventSource` lives
apart from them: until somebody closes it, its callbacks run, whether `source`
names it or not. Each callback is one action, as a browser runs it.

## 3. The runs

| Run | Result | What it shows |
|---|---|---|
| `outbox` | pass | three sends in every order with echoes, cancellations and timers: `IndexExact`, `TimerGuards`, refinement of `Delivery`, every message resolved |
| `transmission` | pass | two concurrent requests: no contradicting verdicts, no more deliveries than texts that were received, error answers leave nothing pending, one acknowledgement per delivery, accepted messages get a verdict |
| `transmission_duplicate` | violation | finding 1 |
| `console_bridge` | pass | both bridges, two senders, two sessions, failures at every step, shutdown at any time: texts only on authenticated sessions, nothing left open, back-off, replacement of failed sessions, shutdown |
| `console_bridge_stale` | violation | finding 2 |
| `write_behind` | pass | four stores, loop and two handlers, failing writes, last save: nothing forgotten and no going back as long as saves do not overlap |
| `write_behind_two_savers` | violation | finding 3 |
| `event_stream` | pass | packets against a page that connects, reconnects and marks as read: no gap between replay and live events, no unread message hidden, every logged packet listed in the end |
| `event_stream_echo` | violation | finding 4 |
| `archive` | pass | conversations under changing callsigns: what is listed can be read and is shown once, what is counted as unread is what the list shows or holds back as a copy, deletion is complete; no node is forgotten; statistics are faithful |
| `daemon` | pass | sessions survive and end for good, settings agree after a restart, restarts and stops do what was asked and end, the newest datagram is forwarded, the decoder matches its reference, the page keeps one stream |
| `settings_restart` | violation | finding 5 |

### Bounds

- `MaxSends = 3` in `outbox`: two messages under one key and a third that
  matches both only loosely is the least that tells the oldest from the first
  in the index; two `Times` allow equal and different `CreatedAt` in either
  order. One source and one destination suffice because messages that differ in
  either never meet (the proofs cover every number of each).
- `transmission`: two requests are the least that race in `Reserve` and share a
  key; `MaxHeard = 3` gives each of them its echo and one text more, repeated or
  foreign, before, between or after them; `BusCap = 2` is full with two events, so
  that packets are dropped (the code has 16). Texts of other sources match nothing
  that is sent here, so the run has one source, its own (the proofs have any number).
- `console_bridge`: `MaxSessions = 2` lets a sender of the first session act on or
  during the second; two senders may fail the same session; delays 1 to 3 reach
  the doubled, the capped and the reset delay. When no session is left, opening
  always fails, as it does when the device is away.
- `write_behind`: three changes and three savers give overlapping saves in both
  orders and a change during a write.

- `event_stream`: one page, whose streams do not depend on those of others; two
  packets fill a channel of one (`BusCap`, 16 in the code), so that one is dropped;
  two streams give one reconnect in any phase of either packet.
- `archive`: two devices of one operator and one of another, a peer and the broadcast
  channel reach every form of an id. Three rows are the least with a copy that
  is not next to its original; `MaxRecords` bounds the ids, `MaxLoad` rows and requests together, and
  one request at a time interleaves with everything else. Three instants put a
  record inside, at the edge of and outside the windows (`DedupeWindow`, `Retention`,
  `NodesRetention`, `RetentionHours`, all 1). Paths with a known relay, an unknown
  one and two relays reach each branch of the freshness rules. Two events are the
  least of which one is counted while the other is written.
- `daemon`: three tokens (one revoked, one expired, one live) and a clock that
  outlives a session; two concurrent `PUT`s and three updates in all, over every start
  from three environments; `ChannelCap = 2` (the code has 256) with five datagrams,
  so that a channel is full while a worker holds one; ten pieces of input that cut
  records in every place where the decoder changes state, five of them in a row,
  with a limit of nine symbols; two connections with four event sources, of which one
  can be left behind and outlive a restart.
- `settings_restart` leaves out values that do not parse when they are written
  (`Unescaped = {}`), so that the counterexample is the password.

### Deadlock checking

It is on in `Outbox.cfg`, where it can find nothing, because an echo that matches
nothing is always possible. The other runs have
`CHECK_DEADLOCK FALSE`: all requests are answered, `Run` has returned, the
loop has made its last save, or the bounds on packets and streams are reached,
and the model has nothing left to do. That nothing
stops early is what the liveness properties say. It is on in `Archive.cfg` and
`Daemon.cfg`: these components can always be restarted or asked again.

### Fairness

- Goroutines that can run do run: weak fairness of handlers, watcher, callbacks
  and of the steps of `Run`. In the code none of them waits on another one for
  longer than a mutex is held.
- Timers fire (`Outbox`), and a send ends (`Transmission`): at a node the deadline of
  the write and the 5 s context bound it, at a serial device only the closing of the
  port does, which is what `ConsoleBridge` assumes.
- Nobody owes an echo: `Receive` has no fairness. `AcceptedGetsVerdict` therefore
  rests on the timer alone.
- A read, an authentication or a write to a serial device is sure to end only once
  its port is closed (`ConsoleBridge`). That makes `FailedSessionReplaced` and `ShutdownCompletes`
  depend on the sender, or on the watcher, closing the port. (The authentication
  of the code also has a deadline, which is not needed.)
- A page without a stream opens the next one (its reconnect timer), the stream's
  goroutine runs and `Process` continues (`EventStream`). The user and the requests
  of the page owe nothing.
- `main` goes on while its process runs (`Lifecycle`): the ten-second timers of its
  waits fire. Nothing else there has to happen; `StopCompletes` holds although the
  server and the transport may never return.
- A database that is tried again and again in the end accepts a write (strong
  fairness of `WriteSucceeds`), and the ticker ticks.

## 4. The proofs

The proof modules are checked by TLAPS for all values of the constants that
satisfy the named assumptions of the components. Most of these only say that
bounds are numbers. Those that say more: `MarkerAssumption` and `TimesAssumption`
(`Outbox`); a station's callsign has a base, which `callsign.Pattern` demands, and
copies of a message are equal (`ChatAssumption`); rewriting a value of the settings
twice changes nothing more, since what lower case and trimming leave is left as it
is by them, and the default `"udp"` is such a value (`SettingsAssumption`).

`OutboxProofs`. `IndexExact` is not inductive alone: that `removeID` and the
`SubSeq` in `Confirm` leave exactly the pending messages needs the order of the
list, and that `Confirm` gives its verdict to a message without one needs the
agreement of `pending` and `outcome`. The inductive invariant is `TypeOK`,
`IndexExact`, `TimerGuards` and `VerdictsAgree`. Lemmas about sequences
(appending to, cutting and removing from an increasing list) carry the
argument. From the invariant follow `TypeCorrect`, `IndexIsExact`,
`TimersGuardPending`, and `OutboxImplementsDelivery`: every step of `Outbox` is a
step of `Delivery` or leaves `sent` and `outcome` unchanged. The difficult case is
that the first id in the index is the earliest registered open message.

`WriteBehindProofs`. The inductive invariant is `TypeOK` with: the database and
the snapshots are never ahead of memory (`NothingAhead`), the history variables
tell the truth (`HistoryIsTrue`), unless saves have overlapped there is at most
one writer and it does not lag behind the database (`OneWriter`), and
`NothingForgotten`. `ChangesAreNotForgotten` and `NoRevert` follow;
`LoopAloneNeverOverlaps` shows that a store saved by its loop alone
(`channelshow`, `dmstats`) never has overlapping saves, so both hold for it
without that reserve.

`EventStreamProofs`. `NoGap` speaks of live streams only. The inductive invariant
adds what has to be true before (`LogCovered`): from the moment at which a stream
has read the log, each logged packet is on the page, among the records still
to be written, in the channel, or not announced yet; and `Process` is busy only
with a packet it has received. The proof treats the steps of one stream by one
lemma (`OneStreamKeepsIInv`): they concern that stream and its page. The crucial
steps are `Publish`, which moves the packet from `Unannounced` to the channel or
sets `dropped` for every stream that has read the log, because each of them has
subscribed before, and `WriteLive`, which moves it on to the page.
`TypeCorrect` and `NoGapBetweenReplayAndLive` follow.

The counter of a page is a second invariant on top of that one (`CounterInv`). What a
stream owes a page (`Owed`) are the texts that are stored, unread and not cleared
away, without those that are in its channel or still to be published: from the
snapshot on and as long as nothing was lost, the counter is at least their number.
Taking a text from the channel adds one to both; marking as read and a new stream
take away from what is owed. `BadgeHidesNothing` follows once the channel is empty.

`LiveEventsInOrder` is a third part: a channel holds packets in the order in which
they were announced (`ChannelsInOrder`), because a full channel loses the newest one
only, and a new stream begins with an empty channel. What a page will not be
given live any more (`Past`) therefore only grows, through reconnects too, and each
event that is written enters it: none is written live twice, none after a newer
one. No run checks this property; TLC agreed with it on channels of two packets.
The replay of a new stream may repeat an event; the traffic list then shows it
again, as `prependEvent` compares nothing, while the chat leaves replayed events out.

`TransmissionProofs`. The outbox inside keeps the invariant of `OutboxProofs`, whose
lemmas are used through an instance of that module. What is added: a request knows
an id only after `Register` and is answered last (`RequestsSane`), the messages
delivered under a key and the packets in the channel that may still confirm one are
together no more than the texts heard for it (`PacketsAccounted`), and whoever
announces a verdict announces the one the outbox gave (`AnnouncedAgree`), together
with the two properties that are inductive with them. `PacketsAccounted` is kept
because a receive takes one packet out of the channel (the rest are mapped into it by
an injection, `WaitingAfterReceive`) and confirms at most one message, whose key that
packet matches; `DeliveriesWereHeard` follows from it. From `AnnouncedAgree`
follows that two announcements cannot contradict each other, however late a
callback runs.

`ConsoleBridgeProofs`. The invariant follows one round of `Run`: which port can be
open and who closes it (`PortsHeld`), what `b.session` is at each step
(`SessionHeld`), that every session that a sender can have taken was authenticated
(`SendersAuthenticated`), and that the stable period has only passed with the
output switched on (`StabilityEarned`). The last one gives `BackoffReset`. The two
bridges differ in the order in which they close and withdraw a session, and each
part says so.

`LinkProofs` has a section for each of the two links that data comes in by.

*ConsoleDecoder.* `DecoderMatches` compares a machine that sees one byte at a time
with a definition over the whole input, so the inductive invariant (`DecoderInv`)
says how far the machine is (`Decoded`): what it holds is the line so far, unless that
is too long and discarded, and what has come out is what the lines that have ended
come to. Four things carry it. Loops and reference are recursive functions; that
each exists and takes its value at a place from the one before (`RecursionExists`,
then `ScanSpec`, `FedSpec`, `MarksSpec`, `OutcomeSpec`) is proved by induction over an
interval, for which the least number that is not in a set stands in for a predicate
(`IntervalInduction`). The loop of `matchingObjectEnd` is in step with the counts of
the reference up to the first place where the braces are balanced (`InStep`,
`ScanKeepsInStep`), and stays there (`ObjectEnd`). What `trimCapturePrefix` leaves is a
part of the line that begins with a marker exactly if the line has one (`PartFrom`,
`MarkerFound`), and the blanks cut off behind do not change where the object ends
(`ObjectOfPrefix`); hence `extractExtPayload` is `Expected` (`PayloadExtracted`). And
what has come out at a place depends on the input up to there alone (`OutcomeSoFar`),
so a read more changes nothing of it.

*UdpLink.* `ForwardedNewest` speaks of what a target was given as one
sequence. The inductive invariant says it of the parts: `Control` (where `Forward` is
and what it has found), `Workers` (a worker that has returned holds nothing, and the
connections are closed after the last one), and `Queues`, for each target: what was
written, is being written and is queued increases (`InOrder`), ends at the datagram
that `Forward` has reached (`UpTo`), and holds the newest one once `Forward` has passed
the target (`Has`). That the third `select` always finds room rests on `Forward`
being the only sender: after `DropOldest` the channel has room, which only a
receive can change, for the better.

`DaemonProofs` has one section for each component, and one for `Daemon`.

*Sessions.* `SessionsSurvive` is not inductive: a session could be accepted
whose expiry was never granted, or be in memory without its row, and a statement
that rewrites the table from memory would then take other sessions with it. The
inductive invariant adds that every expiry in memory and table is the one granted
(`Genuine`), that memory is empty while the process does not run
(`NothingInMemory`), that a live entry in memory has its row (`LiveHasRow`), and that
a revoked token was granted and is in neither place (`RevokedWereGranted`,
`RevokedAreGone`). `SessionsSurvive` says what a client may rely on, while no load has
missed a row; `OnlyGrantedAreAccepted` the converse, whatever loads miss: what `valid`
accepts was granted with that expiry, was not logged out, and has its row. `StoreImplementsSessionLife` maps each action: `Create` to `Issue`
with the sessions that the rewritten table loses, `Delete` to `Revoke`, everything
else to `Lapse`.

*Lifecycle.* `RestartHonoured` says what follows from the first cause. The invariant
(`LifecycleInv`) connects it with what `main` finds later: a restart was noted before
it cancels (`RequestIsNoted`), `main` is past a wait only if what it waited for
returned (`WaitsAreOver`), and a fault that came first leaves an error, with which
no restart is decided (`FaultIsError`).

*StreamClient.* `StreamKept` rests on `ClientInv`: all connections but the newest are
retired (`OthersRetired`), a source that still streams belongs to the newest
connection or to a closed one (`SourcesOwned`), the newest connection does one
thing at a time as long as no answer was late (`OneThingAtATime`), and it always has
something that will bring a stream (`TriesAgain`).

*Settings.* The core of `SettingsAgree` is a round trip: `buildTomlContent`, then `Load`,
gives back a configuration that `normalize` leaves as it is (`Canonical`) and that
has what the environment sets (`EnvInForce`), but for the password. So every
configuration in force, and every candidate, must be of that kind (`InForce`,
`CandidatesSound`), and without an overlap the file is the one of the request that is
being served, or reads back as what is in force (`FileFollows`).

*Daemon.* A step of the composite is a step of one component and leaves the others
alone, so `DaemonSpec` implies the specification of each (`DaemonRunsItsComponents`,
without the fairness of `Lifecycle`), and what is proved of them holds in it
(`DaemonTypeCorrect`, `DaemonKeeps`).

`ArchiveProofs` likewise.

*ChatLog.* `CountedAreListed` and `ConversationsShown` need to know where a row can be: under one of the
conversations that `filenameForMsg` gives for its text and some callsign that the
station had, not necessarily the present one (`RecordsFiled`). From that and the
base of the present callsign follows that the key under which the status counts a
row, and the conditions under which the list shows it, are equivalent
(`CountedWhereListed`). What is shown is what the loop of
`readSinceSQLite` keeps: each row that is no copy of those kept before it. That such a
set exists is proved from a smallest set of rows without one (`SomeAreKept`, on the
least element of a set of numbers and the row that is read last); a row that is held
back then has a copy that is kept and carries the same text (`HeldBackForACopy`), so the
conditions on its callsigns let the copy through as well. So a row that is counted is
shown or held back for a copy that is shown (`ShownAreCounted`): the count may
exceed the number of messages that the reader sees by such copies, and by nothing
else. `DeleteComplete` needs what a delete has done at each of its
steps (`DeleteUnderWay`): its rows are gone, and each marker is absent or among the
keys that will be removed, unless something disturbed it.

*Positions.* `PositionsNothingForgotten` needs to know that a record being
written is the one in memory unless its node has become dirty again
(`SavingCurrent`). The lemmas about `Update` and `TouchFromPacket` show that they mark
each node that they change, for paths of any length.

*Stats.* In `StatsInv` the copy that is being written is never ahead of memory
and equals it while nothing more was recorded (`CopyBehind`), every bucket, row and
copied bucket is balanced, total against kinds (`AllBalanced`), and no counter has
counted more than there were events (`HeardBounded`). The step that matters is
`WriteStats`, which may take the shared counters from memory instead of from the copy.

*Archive.* As for `Daemon`: `ArchiveRunsItsComponents`, `ArchiveTypeCorrect`, `ArchiveKeeps`.

Each inductive invariant was checked by TLC on the instances of the runs before it
was proved.

Every invariant and every action property that a run checks is a theorem. Only
model-checked are the liveness properties (their proofs need `ENABLED`, which the
prover does not support), and the five runs that expect a violation.

## 5. Findings

1. `Reserve` looks up and adds in two calls: two identical requests can both be
   admitted (`internal/sendcache/sendcache.go:31`).
2. A sender that failed on the previous session can overwrite the `connected`
   status of the next one with `degraded`; sends are then refused as long as that
   session lasts (`internal/serialbridge/bridge.go:187`,
   `internal/netconsole/bridge.go:200`).
3. Two saves of the callsign can write in the opposite order of their
   snapshots; SQLite keeps the older one with nothing marked dirty
   (`internal/station/identity.go:118`).
4. The unread counts of `chatstatus.snapshot` include our own texts that came
   back, against `docs/chat_status.md:41` (`internal/chatstatus/status.go:257`). The
   page itself leaves them out while it is connected, so they become unread at
   the next reconnect.
5. The file that `PUT /api/config` writes has the username of the web interface and
   an empty password (`internal/config/toml.go:576`), which `Validate` refuses
   (`internal/config/config.go:347`): after an account was set, or a file with an
   account was rewritten by any update, the daemon does not start again unless
   `GOMESHCOM_AUTH_PASSWORD` is set. `internal/httpapi/configapi.go:570` says that
   the settings are validated before they are persisted.

Not listed as findings, because no document says otherwise, but visible in the
properties as the case they leave out: two overlapping `PUT /api/config` lose one
update or leave a file that is not the configuration in use (`overlapped` in
`Settings`); a failed save of the statistics is not tried again before the next event
(`saveFailed` in `Stats`); a question about the session that is answered after the
heartbeat has timed out leaves an `EventSource` open beside the new one, so that the
page shows every event twice (`late` in `StreamClient`); a value with a control
character is written to the file so that it cannot be parsed (`Unescaped` in
`Settings`).

## 6. Abstractions

- Letter case and blanks in callsigns and texts are normalised by the code
  before it compares; equal values stand for texts equal after that. A marker is
  `{nnn}` at the end.
- Time is untimed: a timer that is armed may fire, an entry that lives may
  expire, the stable period may or may not elapse. `TTL` and `SendCacheTTL` matter
  only as zero or not. The delay of the bridges is exact, its jitter is left out.
- The callsign is fixed in `Transmission`. A packet there is the text it carries;
  packets without a text match nothing and are left out, as is the room they take in the
  channel (which may be filled by texts). The verdicts in `VerdictsNotContradicted` are
  those that are announced as events: a request may be answered 502 although its
  message has been announced as delivered, if the text was received while the write failed.
- `retryCount` and the last error of the bridges' status are diagnostics and left
  out. A second `Run` of the same bridge (refused in the code) is not modelled.
- A console write succeeds or fails as a whole; the bytes of the NETConsole
  challenge are abstracted to accepted or refused.
- A write to SQLite is a transaction: it commits or changes nothing.
- `dmstats` also counts under the base callsign; that entry counts the same
  events and is left out.
- `EventStream`: the page handles an event when it is written, and the replay
  window is longer than the behaviour (a page that has cleared its list asks for
  a later start, which is left out). The traffic list is the set of what it
  shows: how often it shows a packet is left out. One conversation, seen by one page.
  `station.identity`, positions and channel settings are left out; so are acknowledgements
  and store notices, and the chat history of the page. `UnreadNotHidden` leaves
  out streams whose channel was full and those whose snapshot failed: the code
  answers a failed query with an empty snapshot, which hides every message until
  the next one.
- `ChatLog`: the two patterns for acknowledgements are one number per text; they
  match in ordinary texts with a number in the right place too, so any text may
  have one. Times are ticks of a second or more, and `Before` takes rows of one tick by
  their ids. The code orders timestamps as texts, and RFC3339Nano drops trailing zeros
  (`src/internal/chatlog/chatlog.go:587`), so within a second the order of the
  texts may differ from that of the times; no property depends on the order within
  a tick. SQL is what it returns; a query that fails returns nothing. A conversation
  is the set of its rows: `Before` is the order in which the loop compares them, that of
  the answer is left out.
- `Settings`: writing the temporary file is one step that may leave it torn;
  spelling and escaping are given for the values in use. The answers of
  `GET /api/config` and the announcement of a new callsign are left out.
- `Lifecycle`: `Boot` stands for whoever starts the process (a service manager,
  the container or `RestartSelf`). A second SIGHUP behind the first is dropped, as its
  channel holds one.
- `UdpLink`: a write that fails and one that succeeds are alike, since an error is
  only logged. The address of the node that the bridge learns and its `SendText` (one
  datagram) are left out.
- `ConsoleDecoder`: symbols for bytes; JSON inside the braces is not parsed here,
  as in the code. Neither bridge calls `Flush`; the encoder validates and formats one
  string and is left out.
- `StreamClient`: time is untimed, so an answer may come before or after any timer.
  What the events carry is in `EventStream`.
- Not modelled: distances (floats), the tables of telemetry, the two answers that
  read the statistics, logging, the embedded UI, callsign validation, the simulator.

## 7. Plan

In order; each module comes with its mutants and, where named, theorems.

1. The refinement of an abstract stream by `EventStream`: a page receives the log
   from some place on, in order. (The live events are, by `LiveEventsInOrder`; replay
   and live events together remain.)
2. A write to the console that breaks off in the middle
   (`internal/netconsole/bridge.go:386`), with the byte stream of the console.
3. The announcement of a callsign: identity, settings and event stream together.
4. The history of the conversations of a page against the replay after a reconnect.
