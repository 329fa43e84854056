-------------------------- MODULE EventStreamProofs --------------------------
(***************************************************************************)
(* Proofs about the event stream for any number of pages, packets and      *)
(* streams and any capacity of the channels.                               *)
(***************************************************************************)
EXTENDS EventStream, FiniteSetTheorems, TLAPS

\* Process is at work on a packet only if there is one.
BusyWithPacket == processing # "idle" => kinds # << >>

\* What a stream that has read the log has written or is about to write from it.
Replayed(c) == page[c].list \cup (IF At(c, "write") THEN stream[c].records ELSE {})

\* The log is covered by replay, channel and the packet that is not announced
\* yet, from the moment at which a stream has read the log.
LogCovered ==
    \A c \in Clients : stream[c].step \in {"write", "live"} /\ replays /\ ~stream[c].dropped =>
        \A p \in receiveLog : kinds[p] # "broken" =>
            p \in Replayed(c) \cup Range(stream[c].queue) \cup Unannounced

\* The inductive invariant.
IInv == TypeOK /\ BusyWithPacket /\ LogCovered

\* What a full or a free channel leaves: the newest packet at its end.
LEMMA RangeAppend ==
    ASSUME NEW S, NEW q \in Seq(S), NEW e \in S
    PROVE  Range(Append(q, e)) = Range(q) \cup {e}
<1>1. /\ DOMAIN Append(q, e) = 1 .. Len(q) + 1 /\ DOMAIN q = 1 .. Len(q) /\ Len(q) \in Nat
      /\ \A i \in 1 .. Len(q) : Append(q, e)[i] = q[i]
      /\ Append(q, e)[Len(q) + 1] = e
  OBVIOUS
<1>2. Range(Append(q, e)) \subseteq Range(q) \cup {e}
  <2> SUFFICES ASSUME NEW i \in 1 .. Len(q) + 1 PROVE Append(q, e)[i] \in Range(q) \cup {e}
    BY <1>1 DEF Range
  <2>1. i \in 1 .. Len(q) \/ i = Len(q) + 1
    BY <1>1
  <2> QED
    BY <1>1, <2>1 DEF Range
<1>3. Range(q) \cup {e} \subseteq Range(Append(q, e))
  <2>1. \A i \in 1 .. Len(q) : i \in 1 .. Len(q) + 1
    BY <1>1
  <2>2. Len(q) + 1 \in 1 .. Len(q) + 1
    BY <1>1
  <2> QED
    BY <1>1, <2>1, <2>2 DEF Range
<1> QED
  BY <1>2, <1>3

\* What the stream takes from its channel is all that leaves it.
LEMMA RangeTail ==
    ASSUME NEW S, NEW q \in Seq(S), q # << >>
    PROVE  Range(q) \subseteq Range(Tail(q)) \cup {Head(q)}
<1>1. /\ DOMAIN q = 1 .. Len(q) /\ Len(q) \in Nat \ {0}
      /\ DOMAIN Tail(q) = 1 .. Len(q) - 1
      /\ \A i \in 1 .. Len(q) - 1 : Tail(q)[i] = q[i + 1]
      /\ Head(q) = q[1]
  OBVIOUS
<1> SUFFICES ASSUME NEW i \in 1 .. Len(q) PROVE q[i] \in Range(Tail(q)) \cup {Head(q)}
  BY <1>1 DEF Range
<1>2. CASE i = 1
  BY <1>1, <1>2
<1>3. CASE i # 1
  <2>1. i - 1 \in 1 .. Len(q) - 1 /\ i = (i - 1) + 1
    BY <1>1, <1>3
  <2> QED
    BY <1>1, <2>1 DEF Range
<1> QED
  BY <1>2, <1>3

\* A server that has just started has streamed and logged nothing.
LEMMA InitIInv == Init => IInv
<1> SUFFICES ASSUME Init PROVE IInv
  OBVIOUS
<1>1. \A c \in Clients : stream[c] = Closed
  BY DEF Init
<1>2. TypeOK
  <2>1. Closed \in [step : StreamSteps, queue : Seq(Packets), marker : 0 .. MaxPackets,
                    records : SUBSET Packets, dropped : BOOLEAN, uncounted : BOOLEAN]
    BY EventStreamAssumption DEF Closed, StreamSteps
  <2>2. << >> \in Seq(Kinds) /\ Len(<< >>) = 0
    OBVIOUS
  <2> QED
    BY <1>1, <2>1, <2>2, EventStreamAssumption DEF Init, TypeOK, Closed, Received
<1>3. BusyWithPacket /\ LogCovered
  BY <1>1 DEF Init, BusyWithPacket, LogCovered, Closed
<1> QED
  BY <1>2, <1>3 DEF IInv

StreamState ==
    [step : StreamSteps, queue : Seq(Packets), marker : 0 .. MaxPackets,
     records : SUBSET Packets, dropped : BOOLEAN, uncounted : BOOLEAN]

PageState ==
    [list : SUBSET Packets, unread : Nat, cleared : SUBSET Packets,
     looking : BOOLEAN, fetching : BOOLEAN, posting : BOOLEAN]

\* A packet that has been received has a number within the bound.
LEMMA ReceivedArePackets ==
    ASSUME TypeOK
    PROVE  /\ Len(kinds) \in Nat /\ Received \subseteq Packets
           /\ receiveLog \subseteq Packets /\ chats \subseteq Packets
           /\ 0 .. Len(kinds) \subseteq 0 .. MaxPackets
BY EventStreamAssumption DEF TypeOK, Received, Packets

\* What Process is at work on has a number.
LEMMA NewestIsReceived ==
    ASSUME TypeOK, BusyWithPacket, processing # "idle"
    PROVE  Newest \in Received
<1>1. kinds \in Seq(Kinds) /\ kinds # << >>
  BY DEF TypeOK, BusyWithPacket
<1> QED
  BY <1>1 DEF Newest, Received

\* The receive loop appends a packet to what has been received; nothing that is
\* stored or written changes.
LEMMA ProcessKeepsIInv ==
    ASSUME IInv, NEW kind \in Kinds, Process(kind)
    PROVE  IInv'
<1>1. TypeOK /\ LogCovered
  BY DEF IInv
<1>2. /\ kinds' \in Seq(Kinds) /\ Len(kinds') = Len(kinds) + 1 /\ Len(kinds) \in Nat
      /\ \A p \in Received : kinds'[p] = kinds[p]
      /\ Received \subseteq Received' /\ kinds' # << >>
  <2>1. kinds \in Seq(Kinds) /\ kinds' = Append(kinds, kind)
    BY <1>1 DEF TypeOK, Process
  <2>2. /\ Append(kinds, kind) \in Seq(Kinds) /\ Len(Append(kinds, kind)) = Len(kinds) + 1
        /\ Len(kinds) \in Nat /\ \A p \in 1 .. Len(kinds) : Append(kinds, kind)[p] = kinds[p]
    BY <2>1
  <2> QED
    BY <2>1, <2>2 DEF Received
<1>3. TypeOK'
  <2>1. Len(kinds') <= MaxPackets /\ lastRead' \in 0 .. Len(kinds')
    BY <1>1, <1>2, EventStreamAssumption DEF TypeOK, Process
  <2>2. receiveLog' \in SUBSET Received' /\ chats' \in SUBSET Received'
    BY <1>1, <1>2 DEF TypeOK, Process
  <2> QED
    BY <1>1, <1>2, <2>1, <2>2 DEF TypeOK, Process
<1>4. BusyWithPacket'
  BY <1>2 DEF BusyWithPacket
<1>5. LogCovered'
  BY <1>1, <1>2 DEF LogCovered, Process, Replayed, At, Unannounced, TypeOK, Received
<1> QED
  BY <1>3, <1>4, <1>5 DEF IInv

\* While Process stores the packet in log or chats, it is not announced.
LEMMA StoringKeepsIInv ==
    ASSUME IInv, LogReceivedPacket \/ StorePacket
    PROVE  IInv'
<1>1. TypeOK /\ BusyWithPacket /\ LogCovered /\ processing # "idle"
  BY DEF IInv, LogReceivedPacket, StorePacket
<1>2. Newest \in Received
  BY <1>1, NewestIsReceived
<1>3. processing' \in {"store", "publish"}
  BY DEF LogReceivedPacket, StorePacket, NextStep
<1>4. /\ receiveLog' \in {receiveLog, receiveLog \cup {Newest}}
      /\ chats' \in {chats, chats \cup {Newest}}
      /\ UNCHANGED <<replays, kinds, lastRead, stream, opened, page>>
  BY DEF LogReceivedPacket, StorePacket
<1>5. TypeOK'
  BY <1>1, <1>2, <1>3, <1>4 DEF TypeOK, Received, Packets
<1>6. BusyWithPacket'
  BY <1>1, <1>4 DEF BusyWithPacket
<1>7. LogCovered'
  BY <1>1, <1>3, <1>4 DEF LogCovered, Replayed, At, Unannounced, Newest
<1> QED
  BY <1>5, <1>6, <1>7 DEF IInv

\* The select of Publish appends the newest packet to the channel or drops it.
LEMMA DeliverSpec ==
    ASSUME TypeOK, Newest \in Packets, NEW c \in Clients
    PROVE  /\ Deliver(stream[c]) \in StreamState /\ Len(Deliver(stream[c]).queue) <= BusCap
           /\ Deliver(stream[c]).step = stream[c].step
           /\ Deliver(stream[c]).records = stream[c].records
           /\ Deliver(stream[c]).marker = stream[c].marker
           /\ Deliver(stream[c]).uncounted = stream[c].uncounted
           /\ ~Deliver(stream[c]).dropped =>
                /\ ~stream[c].dropped
                /\ Range(Deliver(stream[c]).queue) = Range(stream[c].queue) \cup {Newest}
<1>1. stream[c] \in StreamState /\ Len(stream[c].queue) <= BusCap
  BY DEF TypeOK, StreamState
<1>2. /\ Append(stream[c].queue, Newest) \in Seq(Packets)
      /\ Len(Append(stream[c].queue, Newest)) = Len(stream[c].queue) + 1
      /\ Len(stream[c].queue) \in Nat
  BY <1>1 DEF StreamState
<1>3. Range(Append(stream[c].queue, Newest)) = Range(stream[c].queue) \cup {Newest}
  BY <1>1, RangeAppend DEF StreamState
<1>4. CASE Len(stream[c].queue) < BusCap
  <2>1. Deliver(stream[c]) = [stream[c] EXCEPT !.queue = Append(@, Newest)]
    BY <1>4 DEF Deliver
  <2>2. /\ Deliver(stream[c]) \in StreamState
        /\ Deliver(stream[c]).queue = Append(stream[c].queue, Newest)
        /\ Deliver(stream[c]).step = stream[c].step
        /\ Deliver(stream[c]).records = stream[c].records
        /\ Deliver(stream[c]).marker = stream[c].marker
        /\ Deliver(stream[c]).uncounted = stream[c].uncounted
        /\ Deliver(stream[c]).dropped = stream[c].dropped
    BY <1>1, <1>2, <2>1 DEF StreamState
  <2>3. Len(stream[c].queue) + 1 <= BusCap
    BY <1>2, <1>4, EventStreamAssumption
  <2> QED
    BY <1>2, <1>3, <2>2, <2>3
<1>5. CASE ~(Len(stream[c].queue) < BusCap)
  <2>1. Deliver(stream[c]) = [stream[c] EXCEPT !.dropped = TRUE]
    BY <1>5 DEF Deliver
  <2> QED
    BY <1>1, <2>1 DEF StreamState
<1> QED
  BY <1>4, <1>5

\* The packet moves from Process to every channel with room; a channel without
\* is remembered.
LEMMA PublishKeepsIInv ==
    ASSUME IInv, Publish
    PROVE  IInv'
<1>1. TypeOK /\ BusyWithPacket /\ LogCovered /\ processing = "publish"
  BY DEF IInv, Publish
<1>2. Newest \in Packets
  BY <1>1, NewestIsReceived, ReceivedArePackets
<1>3. processing' = "idle" /\ UNCHANGED <<replays, kinds, receiveLog, chats, lastRead, opened, page>>
  BY <1>1 DEF Publish, NextStep
<1>4. ASSUME NEW c \in Clients
      PROVE  /\ Deliver(stream[c]) \in StreamState /\ Len(Deliver(stream[c]).queue) <= BusCap
             /\ Deliver(stream[c]).step = stream[c].step
             /\ Deliver(stream[c]).records = stream[c].records
             /\ ~Deliver(stream[c]).dropped =>
                  /\ ~stream[c].dropped
                  /\ Range(Deliver(stream[c]).queue) = Range(stream[c].queue) \cup {Newest}
  BY <1>1, <1>2, DeliverSpec
<1>5. /\ stream' \in [Clients -> StreamState]
      /\ \A c \in Clients : Len(stream'[c].queue) <= BusCap
      /\ \A c \in Clients : stream'[c] = IF c \in Subscribed THEN Deliver(stream[c]) ELSE stream[c]
  BY <1>1, <1>4 DEF Publish, TypeOK, StreamState
<1>6. TypeOK'
  BY <1>1, <1>3, <1>5 DEF TypeOK, StreamState, Received
<1>7. BusyWithPacket'
  BY <1>3 DEF BusyWithPacket
<1>8. LogCovered'
  <2> SUFFICES ASSUME NEW c \in Clients, stream'[c].step \in {"write", "live"},
                      replays, ~stream'[c].dropped,
                      NEW p \in receiveLog, kinds[p] # "broken"
               PROVE  p \in Replayed(c)' \cup Range(stream'[c].queue) \cup Unannounced'
    BY <1>3 DEF LogCovered
  <2>1. c \in Subscribed
    BY <1>5 DEF Subscribed, StreamSteps
  <2>2. /\ stream[c].step \in {"write", "live"} /\ ~stream[c].dropped
        /\ Range(stream'[c].queue) = Range(stream[c].queue) \cup {Newest}
        /\ Replayed(c)' = Replayed(c)
    BY <1>3, <1>4, <1>5, <2>1 DEF Replayed, At
  <2>3. p \in Replayed(c) \cup Range(stream[c].queue) \cup {Newest}
    BY <1>1, <2>2 DEF LogCovered, Unannounced
  <2> QED
    BY <2>2, <2>3
<1> QED
  BY <1>6, <1>7, <1>8 DEF IInv

\* What one stream does concerns that stream and its page: the invariant is
\* kept if the new state of both is well typed and covers the log.
LEMMA OneStreamKeepsIInv ==
    ASSUME IInv, NEW c \in Clients, NEW s \in StreamState, NEW view \in PageState,
           UNCHANGED <<replays, packetVars, lastRead>>,
           opened' \in [Clients -> 0 .. MaxStreams],
           stream' = [stream EXCEPT ![c] = s], page' = [page EXCEPT ![c] = view],
           Len(s.queue) <= BusCap,
           s.step \in {"write", "live"} /\ replays /\ ~s.dropped =>
               \A p \in receiveLog : kinds[p] # "broken" =>
                   p \in view.list \cup (IF s.step = "write" THEN s.records ELSE {})
                         \cup Range(s.queue) \cup Unannounced
    PROVE  IInv'
<1>1. TypeOK /\ BusyWithPacket /\ LogCovered
  BY DEF IInv
<1>2. /\ stream \in [Clients -> StreamState] /\ page \in [Clients -> PageState]
      /\ \A d \in Clients : Len(stream[d].queue) <= BusCap
  BY <1>1 DEF TypeOK, StreamState, PageState
<1>3. /\ stream' \in [Clients -> StreamState] /\ page' \in [Clients -> PageState]
      /\ stream'[c] = s /\ page'[c] = view
      /\ \A d \in Clients \ {c} : stream'[d] = stream[d] /\ page'[d] = page[d]
  BY <1>2
<1>4. TypeOK'
  <2>1. \A d \in Clients : Len(stream'[d].queue) <= BusCap
    BY <1>2, <1>3
  <2> QED
    BY <1>1, <1>3, <2>1 DEF TypeOK, StreamState, PageState, packetVars, Received
<1>5. BusyWithPacket'
  BY <1>1 DEF BusyWithPacket, packetVars
<1>6. LogCovered'
  <2> SUFFICES ASSUME NEW d \in Clients, stream'[d].step \in {"write", "live"},
                      replays, ~stream'[d].dropped,
                      NEW p \in receiveLog, kinds[p] # "broken"
               PROVE  p \in Replayed(d)' \cup Range(stream'[d].queue) \cup Unannounced
    BY DEF LogCovered, packetVars, Unannounced, Newest
  <2>1. CASE d = c
    BY <1>3, <2>1 DEF Replayed, At
  <2>2. CASE d # c
    BY <1>1, <1>3, <2>2 DEF LogCovered, Replayed, At
  <2> QED
    BY <2>1, <2>2
<1> QED
  BY <1>4, <1>5, <1>6 DEF IInv

\* Before it has read the log, and after its end, a stream owes nothing.
LEMMA EarlyStepKeepsIInv ==
    ASSUME IInv, NEW c \in Clients,
           \/ Open(c) \/ Subscribe(c) \/ SnapshotReads(c) \/ WriteChatStatus(c) \/ Disconnect(c)
    PROVE  IInv'
<1>1. TypeOK
  BY DEF IInv
<1>2. /\ stream \in [Clients -> StreamState] /\ page \in [Clients -> PageState]
      /\ Len(stream[c].queue) <= BusCap /\ opened \in [Clients -> 0 .. MaxStreams]
      /\ Closed \in StreamState /\ Len(Closed.queue) <= BusCap /\ Closed.step = "closed"
  <2>1. Closed \in StreamState /\ Closed.queue = << >> /\ Closed.step = "closed"
    BY EventStreamAssumption DEF Closed, StreamState, StreamSteps
  <2> QED
    BY <1>1, <2>1, EventStreamAssumption DEF TypeOK, StreamState, PageState
<1>3. CASE Open(c)
  <2> DEFINE s == [stream[c] EXCEPT !.step = "subscribe"]
  <2>1. s \in StreamState /\ s.queue = stream[c].queue /\ s.step = "subscribe"
    BY <1>2 DEF StreamState, StreamSteps
  <2>2. stream' = [stream EXCEPT ![c] = s] /\ page' = [page EXCEPT ![c] = page[c]]
    BY <1>2, <1>3 DEF Open
  <2>3. opened' \in [Clients -> 0 .. MaxStreams]
    BY <1>2, <1>3, EventStreamAssumption DEF Open
  <2>4. page[c] \in PageState /\ UNCHANGED <<replays, packetVars, lastRead>>
    BY <1>2, <1>3 DEF Open
  <2> HIDE DEF s
  <2> QED
    BY <1>2, <2>1, <2>2, <2>3, <2>4, OneStreamKeepsIInv
<1>4. CASE Subscribe(c)
  <2> DEFINE s == [stream[c] EXCEPT !.step = "markers"]
  <2>1. s \in StreamState /\ s.queue = stream[c].queue /\ s.step = "markers"
    BY <1>2 DEF StreamState, StreamSteps
  <2>2. stream' = [stream EXCEPT ![c] = s] /\ page' = [page EXCEPT ![c] = page[c]]
    BY <1>2, <1>4 DEF Subscribe
  <2>3. page[c] \in PageState /\ opened' = opened /\ UNCHANGED <<replays, packetVars, lastRead>>
    BY <1>2, <1>4 DEF Subscribe
  <2> HIDE DEF s
  <2> QED
    BY <1>2, <2>1, <2>2, <2>3, OneStreamKeepsIInv
<1>5. CASE SnapshotReads(c)
  <2> DEFINE s == [stream[c] EXCEPT !.step = "count", !.marker = lastRead]
  <2>1. s \in StreamState /\ s.queue = stream[c].queue /\ s.step = "count"
    <3>1. lastRead \in 0 .. MaxPackets
      BY <1>1, ReceivedArePackets DEF TypeOK
    <3> QED
      BY <1>2, <3>1 DEF StreamState, StreamSteps
  <2>2. stream' = [stream EXCEPT ![c] = s] /\ page' = [page EXCEPT ![c] = page[c]]
    BY <1>2, <1>5 DEF SnapshotReads
  <2>3. page[c] \in PageState /\ opened' = opened /\ UNCHANGED <<replays, packetVars, lastRead>>
    BY <1>2, <1>5 DEF SnapshotReads
  <2> HIDE DEF s
  <2> QED
    BY <1>2, <2>1, <2>2, <2>3, OneStreamKeepsIInv
<1>6. CASE WriteChatStatus(c)
  <2>1. PICK fails \in BOOLEAN :
            /\ page' = [page EXCEPT ![c].unread = IF fails THEN 0 ELSE Unread(stream[c].marker)]
            /\ stream' = [stream EXCEPT ![c].step = "replay", ![c].uncounted = fails]
    BY <1>6 DEF WriteChatStatus
  <2> DEFINE s    == [stream[c] EXCEPT !.step = "replay", !.uncounted = fails]
             view == [page[c] EXCEPT !.unread = IF fails THEN 0 ELSE Unread(stream[c].marker)]
  <2>2. s \in StreamState /\ s.queue = stream[c].queue /\ s.step = "replay"
    BY <1>2 DEF StreamState, StreamSteps
  <2>3. view \in PageState
    <3>1. IsFiniteSet(Packets)
      BY FS_Interval, EventStreamAssumption DEF Packets
    <3>2. {p \in chats : p > stream[c].marker} \in SUBSET Packets
      BY <1>1, ReceivedArePackets
    <3>3. Unread(stream[c].marker) \in Nat
      BY <3>1, <3>2, FS_Subset, FS_CardinalityType DEF Unread
    <3> QED
      BY <1>2, <3>3 DEF PageState
  <2>4. stream' = [stream EXCEPT ![c] = s] /\ page' = [page EXCEPT ![c] = view]
    BY <1>2, <2>1
  <2>5. opened' = opened /\ UNCHANGED <<replays, packetVars, lastRead>>
    BY <1>6 DEF WriteChatStatus
  <2> HIDE DEF s, view
  <2> QED
    BY <1>2, <2>2, <2>3, <2>4, <2>5, OneStreamKeepsIInv
<1>7. CASE Disconnect(c)
  <2>1. stream' = [stream EXCEPT ![c] = Closed] /\ page' = [page EXCEPT ![c] = page[c]]
    BY <1>2, <1>7 DEF Disconnect
  <2>2. page[c] \in PageState /\ opened' = opened /\ UNCHANGED <<replays, packetVars, lastRead>>
    BY <1>2, <1>7 DEF Disconnect
  <2> QED
    BY <1>2, <2>1, <2>2, OneStreamKeepsIInv
<1> QED
  BY <1>3, <1>4, <1>5, <1>6, <1>7

\* Reading the log covers it, writing what was read moves it to the page.
LEMMA ReplayKeepsIInv ==
    ASSUME IInv, NEW c \in Clients, Replay(c) \/ WriteReplay(c)
    PROVE  IInv'
<1>1. TypeOK /\ LogCovered
  BY DEF IInv
<1>2. /\ stream \in [Clients -> StreamState] /\ page \in [Clients -> PageState]
      /\ Len(stream[c].queue) <= BusCap /\ opened \in [Clients -> 0 .. MaxStreams]
  BY <1>1 DEF TypeOK, StreamState, PageState
<1>3. CASE Replay(c)
  <2> DEFINE s == [stream[c] EXCEPT !.step = "write", !.records = Replayable]
  <2>1. Replayable \in SUBSET Packets
    BY <1>1, ReceivedArePackets DEF Replayable
  <2>2. /\ s \in StreamState /\ s.queue = stream[c].queue /\ s.step = "write"
        /\ s.records = Replayable
    BY <1>2, <2>1 DEF StreamState, StreamSteps
  <2>3. stream' = [stream EXCEPT ![c] = s] /\ page' = [page EXCEPT ![c] = page[c]]
    BY <1>2, <1>3 DEF Replay
  <2>4. page[c] \in PageState /\ opened' = opened /\ UNCHANGED <<replays, packetVars, lastRead>>
    BY <1>2, <1>3 DEF Replay
  <2>5. replays => \A p \in receiveLog : kinds[p] # "broken" => p \in s.records
    BY <2>2 DEF Replayable
  <2> HIDE DEF s
  <2> QED
    BY <1>2, <2>2, <2>3, <2>4, <2>5, OneStreamKeepsIInv
<1>4. CASE WriteReplay(c)
  <2> DEFINE s    == [stream[c] EXCEPT !.step = "live", !.records = {}]
             view == [page[c] EXCEPT !.list = @ \cup stream[c].records]
  <2>1. /\ s \in StreamState /\ s.queue = stream[c].queue /\ s.step = "live"
        /\ s.dropped = stream[c].dropped
    BY <1>2 DEF StreamState, StreamSteps
  <2>2. view \in PageState /\ view.list = page[c].list \cup stream[c].records
    BY <1>2 DEF StreamState, PageState
  <2>3. stream' = [stream EXCEPT ![c] = s] /\ page' = [page EXCEPT ![c] = view]
    BY <1>2, <1>4 DEF WriteReplay
  <2>4. opened' = opened /\ UNCHANGED <<replays, packetVars, lastRead>> /\ At(c, "write")
    BY <1>4 DEF WriteReplay
  <2>5. replays /\ ~s.dropped =>
          \A p \in receiveLog : kinds[p] # "broken" =>
              p \in view.list \cup Range(s.queue) \cup Unannounced
    BY <1>1, <2>1, <2>2, <2>4 DEF LogCovered, Replayed, At
  <2> HIDE DEF s, view
  <2> QED
    BY <1>2, <2>1, <2>2, <2>3, <2>4, <2>5, OneStreamKeepsIInv
<1> QED
  BY <1>3, <1>4

\* A live event moves from the channel to the list.
LEMMA WriteLiveKeepsIInv ==
    ASSUME IInv, NEW c \in Clients, WriteLive(c)
    PROVE  IInv'
<1>1. TypeOK /\ LogCovered /\ At(c, "live") /\ stream[c].queue # << >>
  BY DEF IInv, WriteLive
<1>2. /\ stream \in [Clients -> StreamState] /\ page \in [Clients -> PageState]
      /\ Len(stream[c].queue) <= BusCap /\ opened \in [Clients -> 0 .. MaxStreams]
  BY <1>1 DEF TypeOK, StreamState, PageState
<1> DEFINE q == stream[c].queue
           p == Head(q)
           s == [stream[c] EXCEPT !.queue = Tail(@)]
<1>3. PICK view \in ReceiveLive(page[c], p) : page' = [page EXCEPT ![c] = view]
  BY DEF WriteLive
<1>4. q \in Seq(Packets) /\ q # << >> /\ p \in Packets /\ Tail(q) \in Seq(Packets)
      /\ Len(Tail(q)) <= Len(q)
  BY <1>1, <1>2 DEF StreamState
<1>5. view \in PageState /\ view.list = page[c].list \cup {p}
  <2>1. page[c] \in PageState /\ chats \subseteq Packets
    BY <1>1, <1>2, ReceivedArePackets
  <2> DEFINE listed == [page[c] EXCEPT !.list = @ \cup {p}]
  <2>2. listed \in PageState /\ listed.list = page[c].list \cup {p}
    BY <1>4, <2>1 DEF PageState
  <2>3. Clear(listed) \in PageState /\ Clear(listed).list = listed.list
    BY <2>1, <2>2 DEF PageState, Clear
  <2>4. /\ [listed EXCEPT !.unread = @ + 1] \in PageState
        /\ [listed EXCEPT !.unread = @ + 1].list = listed.list
    <3> HIDE DEF listed
    <3>1. listed.unread + 1 \in Nat
      BY <2>2 DEF PageState
    <3> QED
      BY <2>2, <3>1 DEF PageState
  <2>5. view \in {listed, Clear(listed), [listed EXCEPT !.unread = @ + 1]}
    BY <1>3 DEF ReceiveLive
  <2> QED
    BY <2>2, <2>3, <2>4, <2>5
<1>6. /\ s \in StreamState /\ s.queue = Tail(q) /\ s.step = "live"
      /\ s.dropped = stream[c].dropped
  BY <1>1, <1>2, <1>4 DEF StreamState, At
<1>7. stream' = [stream EXCEPT ![c] = s]
  BY <1>2 DEF WriteLive
<1>8. opened' = opened /\ UNCHANGED <<replays, packetVars, lastRead>>
  BY DEF WriteLive
<1>9. replays /\ ~s.dropped =>
        \A r \in receiveLog : kinds[r] # "broken" =>
            r \in view.list \cup Range(s.queue) \cup Unannounced
  <2>1. Range(q) \subseteq Range(Tail(q)) \cup {p}
    BY <1>4, RangeTail
  <2>2. replays /\ ~stream[c].dropped =>
          \A r \in receiveLog : kinds[r] # "broken" =>
              r \in page[c].list \cup Range(q) \cup Unannounced
    BY <1>1 DEF LogCovered, Replayed, At
  <2> HIDE DEF s, p, q
  <2> QED
    BY <1>5, <1>6, <2>1, <2>2
<1>10. Len(s.queue) <= BusCap
  <2>1. Len(Tail(q)) \in Nat /\ Len(q) \in Nat
    BY <1>4
  <2> QED
    BY <1>2, <1>4, <1>6, <2>1, EventStreamAssumption
<1> HIDE DEF s, p, q
<1> QED
  BY <1>2, <1>5, <1>6, <1>7, <1>3, <1>8, <1>9, <1>10, OneStreamKeepsIInv

\* What the user and the page do on their own leaves the lists and the streams
\* alone.
LEMMA PageStepKeepsIInv ==
    ASSUME IInv, NEW c \in Clients,
           Look(c) \/ LookAway(c) \/ MarkCurrentRead(c) \/ MarkRead(c) \/ MarkReadLost(c)
    PROVE  IInv'
<1>1. TypeOK /\ BusyWithPacket /\ LogCovered
  BY DEF IInv
<1>2. page \in [Clients -> PageState] /\ chats \subseteq Packets
  BY <1>1, ReceivedArePackets DEF TypeOK, PageState
<1>3. UNCHANGED <<replays, packetVars, stream, opened>>
  BY DEF Look, LookAway, MarkCurrentRead, MarkRead, MarkReadLost
<1>4. lastRead' \in 0 .. Len(kinds)
  <2>1. Len(kinds) \in 0 .. Len(kinds)
    BY <1>1, ReceivedArePackets
  <2> QED
    BY <1>1, <2>1
    DEF TypeOK, Look, LookAway, MarkCurrentRead, MarkRead, MarkReadLost, Newest
<1>5. PICK view \in PageState : page' = [page EXCEPT ![c] = view] /\ view.list = page[c].list
  <2>1. page[c] \in PageState
    BY <1>2
  <2>2. CASE Look(c)
    <3> DEFINE view == [page[c] EXCEPT !.looking = TRUE, !.fetching = TRUE]
    <3>1. page' = [page EXCEPT ![c] = view]
      BY <1>2, <2>2 DEF Look
    <3>2. view \in PageState /\ view.list = page[c].list
      BY <2>1 DEF PageState
    <3> QED
      BY <3>1, <3>2
  <2>3. CASE LookAway(c)
    <3> DEFINE view == [page[c] EXCEPT !.looking = FALSE]
    <3>1. page' = [page EXCEPT ![c] = view]
      BY <1>2, <2>3 DEF LookAway
    <3>2. view \in PageState /\ view.list = page[c].list
      BY <2>1 DEF PageState
    <3> QED
      BY <3>1, <3>2
  <2>4. CASE MarkCurrentRead(c)
    <3> DEFINE shown == IF page[c].unread > 0 THEN Clear(page[c]) ELSE page[c]
               sent  == shown.posting \/ page[c].unread > 0
               view  == [shown EXCEPT !.fetching = FALSE, !.posting = sent]
    <3>1. page' = [page EXCEPT ![c] = view]
      BY <2>4, Zenon DEF MarkCurrentRead
    <3>2. shown \in PageState /\ shown.list = page[c].list
      BY <1>2, <2>1 DEF PageState, Clear
    <3>3. sent \in BOOLEAN
      OBVIOUS
    <3>4. view \in PageState /\ view.list = shown.list
      <4> HIDE DEF shown, sent
      <4> QED
        BY <3>2, <3>3 DEF PageState
    <3> HIDE DEF view, shown
    <3> QED
      BY <3>1, <3>2, <3>4
  <2>5. CASE MarkRead(c) \/ MarkReadLost(c)
    <3> DEFINE view == [page[c] EXCEPT !.posting = FALSE]
    <3>1. page' = [page EXCEPT ![c] = view]
      BY <1>2, <2>5 DEF MarkRead, MarkReadLost
    <3>2. view \in PageState /\ view.list = page[c].list
      BY <2>1 DEF PageState
    <3> QED
      BY <3>1, <3>2
  <2> QED
    BY <2>2, <2>3, <2>4, <2>5
<1>6. /\ page' \in [Clients -> PageState]
      /\ \A d \in Clients : page'[d].list = page[d].list
  BY <1>2, <1>5
<1>7. TypeOK'
  BY <1>1, <1>3, <1>4, <1>6 DEF TypeOK, PageState, packetVars, Received
<1>8. BusyWithPacket'
  BY <1>1, <1>3 DEF BusyWithPacket, packetVars
<1>9. LogCovered'
  BY <1>1, <1>3, <1>6 DEF LogCovered, Replayed, At, Unannounced, Newest, packetVars
<1> QED
  BY <1>7, <1>8, <1>9 DEF IInv

\* Every step keeps the invariant.
LEMMA NextIInv == IInv /\ [Next]_vars => IInv'
<1> SUFFICES ASSUME IInv, [Next]_vars PROVE IInv'
  OBVIOUS
<1>1. CASE \E kind \in Kinds : Process(kind)
  BY <1>1, ProcessKeepsIInv
<1>2. CASE Processor
  BY <1>2, StoringKeepsIInv, PublishKeepsIInv DEF Processor
<1>3. ASSUME NEW c \in Clients,
             \/ Open(c) \/ Stream(c) \/ Disconnect(c)
             \/ Look(c) \/ LookAway(c)
             \/ MarkCurrentRead(c) \/ MarkRead(c) \/ MarkReadLost(c)
      PROVE  IInv'
  BY <1>3, EarlyStepKeepsIInv, ReplayKeepsIInv, WriteLiveKeepsIInv, PageStepKeepsIInv DEF Stream
<1>4. CASE UNCHANGED vars
  BY <1>4 DEF vars, packetVars, IInv, TypeOK, BusyWithPacket, LogCovered, Replayed, At,
              Unannounced, Newest, Received
<1> QED
  BY <1>1, <1>2, <1>3, <1>4 DEF Next

\* The invariant gives the property of the run.
LEMMA IInvNoGap == IInv => NoGap
BY DEF IInv, LogCovered, NoGap, Replayed, At

THEOREM InvariantHolds == Spec => []IInv
<1> QED
  BY InitIInv, NextIInv, PTL DEF Spec

\* The state of ingestion, streams and pages is well typed, and no channel ever
\* holds more than its capacity.
THEOREM TypeCorrect == Spec => []TypeOK
<1>1. IInv => TypeOK
  BY DEF IInv
<1> QED
  BY <1>1, InvariantHolds, PTL

\* Subscribing before reading the log leaves no gap: every logged packet a live
\* stream has not written is in its channel or about to be published, unless the
\* channel was full.
THEOREM NoGapBetweenReplayAndLive == Spec => []NoGap
<1> QED
  BY IInvNoGap, InvariantHolds, PTL

----------------------------------------------------------------------------
(***************************************************************************)
(* The unread counter.  A stream of which nothing was lost owes the page   *)
(* the texts that are stored, unread and not cleared away; it pays for     *)
(* them in its snapshot or, later, out of its channel.                     *)
(***************************************************************************)
\* The read markers of a snapshot are never ahead of those of the server.
MarkersBehind == \A c \in Clients : stream[c].marker <= lastRead

\* From its snapshot on, a stream that lost nothing keeps the count.
Counting(c) ==
    /\ stream[c].step \in {"replay", "write", "live"}
    /\ ~stream[c].dropped /\ ~stream[c].uncounted

\* The texts the counter must cover already: those neither in the channel nor
\* about to be published.
Owed(c) ==
    {p \in chats \ page[c].cleared :
        kinds[p] = "text" /\ p > lastRead /\ p \notin Range(stream[c].queue) \cup Unannounced}

OwedCounted ==
    \A c \in Clients : Counting(c) => Cardinality(Owed(c)) <= page[c].unread

\* The inductive invariant of the counter, relative to IInv.
CounterInv == MarkersBehind /\ OwedCounted

\* A part of a set of packets is finite and has no more members.
LEMMA FewerPackets ==
    ASSUME NEW T \in SUBSET Packets, NEW S \in SUBSET T
    PROVE  /\ Cardinality(S) \in Nat /\ Cardinality(T) \in Nat
           /\ Cardinality(S) <= Cardinality(T)
<1>1. IsFiniteSet(Packets)
  BY FS_Interval, EventStreamAssumption DEF Packets
<1>2. IsFiniteSet(T)
  BY <1>1, FS_Subset
<1>3. IsFiniteSet(S) /\ Cardinality(S) <= Cardinality(T)
  BY <1>2, FS_Subset
<1> QED
  BY <1>2, <1>3, FS_CardinalityType

LEMMA OneMorePacket ==
    ASSUME NEW T \in SUBSET Packets, NEW p \in Packets, NEW S \in SUBSET (T \cup {p})
    PROVE  Cardinality(S) <= Cardinality(T) + 1
<1>1. IsFiniteSet(Packets)
  BY FS_Interval, EventStreamAssumption DEF Packets
<1>2. IsFiniteSet(T) /\ Cardinality(T) \in Nat
  BY <1>1, FS_Subset, FS_CardinalityType
<1>3. Cardinality(T \cup {p}) \in {Cardinality(T), Cardinality(T) + 1}
  BY <1>2, FS_AddElement
<1>4. T \cup {p} \in SUBSET Packets
  OBVIOUS
<1>5. Cardinality(S) \in Nat /\ Cardinality(S) <= Cardinality(T \cup {p})
  BY <1>4, FewerPackets
<1> QED
  BY <1>2, <1>3, <1>5

LEMMA OwedArePackets ==
    ASSUME TypeOK, NEW c \in Clients
    PROVE  Owed(c) \in SUBSET Packets
BY ReceivedArePackets DEF Owed

\* A step after which a counting stream owes no more than before, to a counter
\* that is no smaller, keeps the account.
LEMMA OwesNoMore ==
    ASSUME TypeOK, TypeOK', OwedCounted, NEW c \in Clients, Counting(c),
           Owed(c)' \subseteq Owed(c), page[c].unread <= page'[c].unread
    PROVE  Cardinality(Owed(c)') <= page'[c].unread
<1>1. Owed(c) \in SUBSET Packets
  BY OwedArePackets
<1>2. /\ Cardinality(Owed(c)') \in Nat /\ Cardinality(Owed(c)) \in Nat
      /\ Cardinality(Owed(c)') <= Cardinality(Owed(c))
  BY <1>1, FewerPackets
<1>3. Cardinality(Owed(c)) <= page[c].unread
  BY DEF OwedCounted
<1>4. page[c].unread \in Nat /\ page'[c].unread \in Nat
  BY DEF TypeOK
<1> QED
  BY <1>2, <1>3, <1>4

LEMMA InitCounterInv == Init => CounterInv
<1> SUFFICES ASSUME Init PROVE CounterInv
  OBVIOUS
<1>1. \A c \in Clients : stream[c] = Closed /\ Closed.marker = 0 /\ Closed.step = "closed"
  BY DEF Init, Closed
<1> QED
  BY <1>1 DEF Init, CounterInv, MarkersBehind, OwedCounted, Counting

\* What Process receives and stores is not announced yet, and not owed.
LEMMA ReceptionKeepsCounter ==
    ASSUME IInv, IInv', CounterInv,
           (\E kind \in Kinds : Process(kind)) \/ LogReceivedPacket \/ StorePacket
    PROVE  CounterInv'
<1>1. TypeOK /\ TypeOK' /\ OwedCounted /\ MarkersBehind
  BY DEF IInv, CounterInv
<1>2. UNCHANGED <<lastRead, stream, page>>
  BY DEF Process, LogReceivedPacket, StorePacket
<1>3. ASSUME NEW c \in Clients
      PROVE  Owed(c)' \subseteq Owed(c)
  <2>1. CASE \E kind \in Kinds : Process(kind)
    <3>1. PICK kind \in Kinds : Process(kind)
      BY <2>1
    <3>2. /\ kinds' = Append(kinds, kind) /\ UNCHANGED chats
          /\ Unannounced = {}
      BY <3>1 DEF Process, Unannounced
    <3>3. \A p \in chats : kinds'[p] = kinds[p]
      <4>1. kinds \in Seq(Kinds) /\ \A p \in chats : p \in 1 .. Len(kinds)
        BY <1>1 DEF TypeOK, Received
      <4> QED
        BY <3>2, <4>1
    <3> QED
      BY <1>2, <3>2, <3>3 DEF Owed
  <2>2. CASE LogReceivedPacket \/ StorePacket
    <3>1. /\ chats' \in {chats, chats \cup {Newest}} /\ UNCHANGED kinds
          /\ processing # "idle" /\ processing' # "idle"
      BY <2>2 DEF LogReceivedPacket, StorePacket, NextStep
    <3>2. Unannounced' = Unannounced /\ Unannounced = {Newest}
      BY <3>1 DEF Unannounced, Newest
    <3> QED
      BY <1>2, <3>1, <3>2 DEF Owed
  <2> QED
    BY <2>1, <2>2
<1>4. OwedCounted'
  <2> SUFFICES ASSUME NEW c \in Clients, Counting(c)'
               PROVE  Cardinality(Owed(c)') <= page'[c].unread
    BY DEF OwedCounted
  <2>1. Counting(c) /\ page[c].unread <= page'[c].unread
    <3>1. page[c].unread \in Nat
      BY <1>1 DEF TypeOK
    <3> QED
      BY <1>2, <3>1 DEF Counting
  <2> QED
    BY <1>1, <1>3, <2>1, OwesNoMore
<1>5. MarkersBehind'
  BY <1>1, <1>2 DEF MarkersBehind
<1> QED
  BY <1>4, <1>5 DEF CounterInv

\* An announced packet is in the channel of every stream that lost nothing.
LEMMA PublishKeepsCounter ==
    ASSUME IInv, IInv', CounterInv, Publish
    PROVE  CounterInv'
<1>1. TypeOK /\ TypeOK' /\ BusyWithPacket /\ OwedCounted /\ MarkersBehind
  BY DEF IInv, CounterInv
<1>2. processing = "publish" /\ processing' = "idle"
  BY DEF Publish, NextStep
<1>3. UNCHANGED <<kinds, chats, lastRead, page>>
  BY DEF Publish
<1>4. Newest \in Packets
  BY <1>1, <1>2, NewestIsReceived, ReceivedArePackets
<1>5. \A c \in Clients : stream'[c] = IF c \in Subscribed THEN Deliver(stream[c]) ELSE stream[c]
  BY <1>1 DEF Publish, TypeOK
<1>6. MarkersBehind'
  <2> SUFFICES ASSUME NEW c \in Clients PROVE stream'[c].marker <= lastRead
    BY <1>3 DEF MarkersBehind
  <2>1. stream'[c].marker = stream[c].marker
    BY <1>1, <1>4, <1>5, DeliverSpec
  <2> QED
    BY <1>1, <2>1 DEF MarkersBehind
<1>7. OwedCounted'
  <2> SUFFICES ASSUME NEW c \in Clients, Counting(c)'
               PROVE  Cardinality(Owed(c)') <= page'[c].unread
    BY DEF OwedCounted
  <2>1. c \in Subscribed /\ stream'[c] = Deliver(stream[c])
    <3>1. c \in Subscribed
      BY <1>5 DEF Counting, Subscribed
    <3> QED
      BY <1>5, <3>1
  <2>2. /\ Counting(c)
        /\ Range(stream'[c].queue) = Range(stream[c].queue) \cup {Newest}
    BY <1>1, <1>4, <2>1, DeliverSpec DEF Counting
  <2>3. Owed(c)' \subseteq Owed(c)
    <3>1. Unannounced = {Newest} /\ Unannounced' = {}
      BY <1>2 DEF Unannounced
    <3> QED
      BY <1>3, <2>2, <3>1 DEF Owed
  <2>4. page[c].unread <= page'[c].unread
    <3>1. page[c].unread \in Nat
      BY <1>1 DEF TypeOK
    <3> QED
      BY <1>3, <3>1
  <2> QED
    BY <1>1, <2>2, <2>3, <2>4, OwesNoMore
<1> QED
  BY <1>6, <1>7 DEF CounterInv

\* A step of one stream or page concerns the account of that page only.
LEMMA OneCounterKeepsCounter ==
    ASSUME IInv, IInv', CounterInv, NEW c \in Clients,
           UNCHANGED <<packetVars, lastRead>>,
           \A d \in Clients \ {c} : stream'[d] = stream[d] /\ page'[d] = page[d],
           stream'[c].marker <= lastRead,
           Counting(c)' => Cardinality(Owed(c)') <= page'[c].unread
    PROVE  CounterInv'
<1>1. TypeOK /\ TypeOK' /\ OwedCounted /\ MarkersBehind
  BY DEF IInv, CounterInv
<1>2. MarkersBehind'
  BY <1>1 DEF MarkersBehind
<1>3. OwedCounted'
  <2> SUFFICES ASSUME NEW d \in Clients, Counting(d)'
               PROVE  Cardinality(Owed(d)') <= page'[d].unread
    BY DEF OwedCounted
  <2>1. CASE d = c
    BY <2>1
  <2>2. CASE d # c
    <3>1. stream'[d] = stream[d] /\ page'[d] = page[d]
      BY <2>2
    <3>2. Counting(d) /\ Owed(d)' \subseteq Owed(d)
      BY <3>1 DEF Counting, Owed, Unannounced, Newest, packetVars
    <3>3. page[d].unread <= page'[d].unread
      <4>1. page[d].unread \in Nat
        BY <1>1 DEF TypeOK
      <4> QED
        BY <3>1, <4>1
    <3> QED
      BY <1>1, <3>2, <3>3, OwesNoMore
  <2> QED
    BY <2>1, <2>2
<1> QED
  BY <1>2, <1>3 DEF CounterInv

\* The snapshot counts at least what is owed, because its markers may be old
\* but are never ahead; a stream that starts or ends owes nothing.
LEMMA EarlyStepKeepsCounter ==
    ASSUME IInv, IInv', CounterInv, NEW c \in Clients,
           \/ Open(c) \/ Subscribe(c) \/ SnapshotReads(c) \/ WriteChatStatus(c) \/ Disconnect(c)
    PROVE  CounterInv'
<1>1. TypeOK /\ OwedCounted /\ MarkersBehind
  BY DEF IInv, CounterInv
<1>2. stream \in [Clients -> StreamState] /\ page \in [Clients -> PageState]
  BY <1>1 DEF TypeOK, StreamState, PageState
<1>3. UNCHANGED <<packetVars, lastRead>>
  BY DEF Open, Subscribe, SnapshotReads, WriteChatStatus, Disconnect
<1>4. \A d \in Clients \ {c} : stream'[d] = stream[d] /\ page'[d] = page[d]
  BY <1>2 DEF Open, Subscribe, SnapshotReads, WriteChatStatus, Disconnect
<1>5. stream'[c].marker <= lastRead
  <2>1. stream[c].marker <= lastRead /\ lastRead <= lastRead /\ 0 <= lastRead
    BY <1>1 DEF MarkersBehind, TypeOK
  <2>2. stream'[c].marker \in {stream[c].marker, lastRead, 0}
    BY <1>2 DEF Open, Subscribe, SnapshotReads, WriteChatStatus, Disconnect, Closed, StreamState
  <2> QED
    BY <2>1, <2>2
<1>6. CASE ~WriteChatStatus(c)
  <2>1. stream'[c].step \in {"closed", "subscribe", "markers", "count"}
    BY <1>2, <1>6 DEF Open, Subscribe, SnapshotReads, Disconnect, Closed, StreamState
  <2>2. ~Counting(c)'
    BY <2>1 DEF Counting
  <2> QED
    BY <1>3, <1>4, <1>5, <2>2, OneCounterKeepsCounter
<1>7. CASE WriteChatStatus(c)
  <2>1. PICK fails \in BOOLEAN :
            /\ page' = [page EXCEPT ![c].unread = IF fails THEN 0 ELSE Unread(stream[c].marker)]
            /\ stream' = [stream EXCEPT ![c].step = "replay", ![c].uncounted = fails]
    BY <1>7 DEF WriteChatStatus
  <2>2. stream'[c].uncounted = fails
    BY <1>2, <2>1 DEF StreamState
  <2>3. CASE fails
    BY <1>3, <1>4, <1>5, <2>2, <2>3, OneCounterKeepsCounter DEF Counting
  <2>4. CASE ~fails
    <3>1. page'[c].unread = Unread(stream[c].marker)
      BY <1>2, <2>1, <2>4 DEF PageState
    <3>2. {p \in chats : p > stream[c].marker} \in SUBSET Packets
      BY <1>1, ReceivedArePackets
    <3>3. \A p \in chats : p > lastRead => p > stream[c].marker
      <4>1. stream[c].marker <= lastRead /\ lastRead \in Nat /\ stream[c].marker \in Nat
        BY <1>1, <1>2 DEF MarkersBehind, TypeOK
      <4>2. \A p \in chats : p \in Nat
        BY <1>1, ReceivedArePackets DEF Packets
      <4> QED
        BY <4>1, <4>2
    <3>4. Owed(c)' \subseteq {p \in chats : p > stream[c].marker}
      <4>1. chats' = chats /\ lastRead' = lastRead
        BY <1>3 DEF packetVars
      <4> QED
        BY <3>3, <4>1 DEF Owed
    <3>5. Cardinality(Owed(c)') <= page'[c].unread
      BY <3>1, <3>2, <3>4, FewerPackets DEF Unread
    <3> QED
      BY <1>3, <1>4, <1>5, <3>5, OneCounterKeepsCounter
  <2> QED
    BY <2>3, <2>4
<1> QED
  BY <1>6, <1>7

\* The replay does not touch counter or channel.
LEMMA ReplayKeepsCounter ==
    ASSUME IInv, IInv', CounterInv, NEW c \in Clients, Replay(c) \/ WriteReplay(c)
    PROVE  CounterInv'
<1>1. TypeOK /\ TypeOK' /\ OwedCounted /\ MarkersBehind
  BY DEF IInv, CounterInv
<1>2. stream \in [Clients -> StreamState] /\ page \in [Clients -> PageState]
  BY <1>1 DEF TypeOK, StreamState, PageState
<1>3. UNCHANGED <<packetVars, lastRead>>
  BY DEF Replay, WriteReplay
<1>4. \A d \in Clients \ {c} : stream'[d] = stream[d] /\ page'[d] = page[d]
  BY <1>2 DEF Replay, WriteReplay
<1>5. /\ stream'[c].marker = stream[c].marker /\ stream'[c].queue = stream[c].queue
      /\ stream'[c].dropped = stream[c].dropped /\ stream'[c].uncounted = stream[c].uncounted
      /\ stream[c].step \in {"replay", "write"}
  BY <1>2 DEF Replay, WriteReplay, At, StreamState
<1>6. page'[c].cleared = page[c].cleared /\ page'[c].unread = page[c].unread
  BY <1>2 DEF Replay, WriteReplay, PageState
<1>7. Counting(c)' => Cardinality(Owed(c)') <= page'[c].unread
  <2> SUFFICES ASSUME Counting(c)' PROVE Cardinality(Owed(c)') <= page'[c].unread
    OBVIOUS
  <2>1. Counting(c)
    BY <1>5 DEF Counting
  <2>2. Owed(c)' \subseteq Owed(c)
    BY <1>3, <1>5, <1>6 DEF Owed, Unannounced, Newest, packetVars
  <2>3. page[c].unread <= page'[c].unread
    <3>1. page[c].unread \in Nat
      BY <1>1 DEF TypeOK
    <3> QED
      BY <1>6, <3>1
  <2> QED
    BY <1>1, <2>1, <2>2, <2>3, OwesNoMore
<1>8. stream'[c].marker <= lastRead
  BY <1>1, <1>5 DEF MarkersBehind
<1> QED
  BY <1>3, <1>4, <1>7, <1>8, OneCounterKeepsCounter

\* A live event is owed once it has left the channel: the page counts a text,
\* or has the conversation open and clears everything stored so far.
LEMMA WriteLiveKeepsCounter ==
    ASSUME IInv, IInv', CounterInv, NEW c \in Clients, WriteLive(c)
    PROVE  CounterInv'
<1>1. TypeOK /\ TypeOK' /\ OwedCounted /\ MarkersBehind /\ stream[c].queue # << >>
  BY DEF IInv, CounterInv, WriteLive
<1>2. stream \in [Clients -> StreamState] /\ page \in [Clients -> PageState]
  BY <1>1 DEF TypeOK, StreamState, PageState
<1>3. UNCHANGED <<packetVars, lastRead>>
  BY DEF WriteLive
<1> DEFINE q == stream[c].queue
           p == Head(q)
<1>4. PICK view \in ReceiveLive(page[c], p) : page' = [page EXCEPT ![c] = view]
  BY DEF WriteLive
<1>5. \A d \in Clients \ {c} : stream'[d] = stream[d] /\ page'[d] = page[d]
  BY <1>2, <1>4 DEF WriteLive
<1>6. /\ stream'[c].marker = stream[c].marker /\ stream'[c].queue = Tail(q)
      /\ stream'[c].step = stream[c].step
      /\ stream'[c].dropped = stream[c].dropped /\ stream'[c].uncounted = stream[c].uncounted
  BY <1>2 DEF WriteLive, StreamState
<1>7. page'[c] = view
  BY <1>2, <1>4
<1>8. q \in Seq(Packets) /\ p \in Packets /\ Range(q) \subseteq Range(Tail(q)) \cup {p}
  <2>1. q \in Seq(Packets) /\ q # << >>
    BY <1>1, <1>2 DEF StreamState
  <2> QED
    BY <2>1, RangeTail
<1>9. page[c] \in PageState /\ page[c].unread \in Nat
  BY <1>2 DEF PageState
<1> DEFINE listed == [page[c] EXCEPT !.list = @ \cup {p}]
<1>10. /\ listed.unread = page[c].unread /\ listed.cleared = page[c].cleared
       /\ listed.looking = page[c].looking /\ listed \in PageState
  BY <1>8, <1>9 DEF PageState
<1>11. \/ kinds[p] # "text" /\ view = listed
       \/ view = Clear(listed)
       \/ view = [listed EXCEPT !.unread = @ + 1]
  <2>1. CASE kinds[p] = "broken"
    BY <1>4, <2>1 DEF ReceiveLive
  <2>2. CASE kinds[p] # "broken" /\ page[c].looking
    BY <1>4, <2>2 DEF ReceiveLive
  <2>3. CASE kinds[p] = "echo" /\ ~page[c].looking
    BY <1>4, <2>3 DEF ReceiveLive
  <2>4. CASE kinds[p] \notin {"broken", "echo"} /\ ~page[c].looking
    BY <1>4, <2>4 DEF ReceiveLive
  <2> QED
    BY <2>1, <2>2, <2>3, <2>4
<1>12. Unannounced' = Unannounced /\ chats' = chats /\ kinds' = kinds /\ lastRead' = lastRead
  BY <1>3 DEF packetVars, Unannounced, Newest
<1> HIDE DEF p, q, listed
<1>13. ASSUME Counting(c)'
       PROVE  Cardinality(Owed(c)') <= page'[c].unread
  <2>1. Counting(c)
    BY <1>6, <1>13 DEF Counting
  <2>2. CASE kinds[p] # "text" /\ view = listed
    <3>1. Owed(c)' \subseteq Owed(c)
      BY <1>6, <1>7, <1>8, <1>10, <1>12, <2>2 DEF Owed, q
    <3>2. page[c].unread <= page'[c].unread
      BY <1>7, <1>9, <1>10, <2>2
    <3> QED
      BY <1>1, <2>1, <3>1, <3>2, OwesNoMore
  <2>3. CASE view = Clear(listed)
    <3>1. view.unread = 0 /\ chats \subseteq view.cleared
      BY <1>10, <2>3 DEF Clear, PageState
    <3>2. Owed(c)' = {}
      BY <1>7, <1>12, <3>1 DEF Owed
    <3> QED
      BY <1>7, <3>1, <3>2, FS_EmptySet
  <2>4. CASE view = [listed EXCEPT !.unread = @ + 1]
    <3>1. view.unread = page[c].unread + 1 /\ view.cleared = page[c].cleared
      BY <1>10, <2>4 DEF PageState
    <3>2. Owed(c)' \subseteq Owed(c) \cup {p}
      BY <1>6, <1>7, <1>8, <1>12, <3>1 DEF Owed, q
    <3>3. Owed(c) \in SUBSET Packets
      BY <1>1, OwedArePackets
    <3>4. Cardinality(Owed(c)') <= Cardinality(Owed(c)) + 1
      BY <1>8, <3>2, <3>3, OneMorePacket
    <3>5. Cardinality(Owed(c)') \in Nat /\ Cardinality(Owed(c)) \in Nat
      <4>1. Owed(c)' \in SUBSET Packets
        BY <1>8, <3>2, <3>3
      <4> QED
        BY <3>3, <4>1, FewerPackets
    <3>6. Cardinality(Owed(c)) <= page[c].unread
      BY <1>1, <2>1 DEF OwedCounted
    <3> QED
      BY <1>7, <1>9, <3>1, <3>4, <3>5, <3>6
  <2> QED
    BY <1>11, <2>2, <2>3, <2>4
<1>14. stream'[c].marker <= lastRead
  BY <1>1, <1>6 DEF MarkersBehind
<1> QED
  BY <1>3, <1>5, <1>13, <1>14, OneCounterKeepsCounter

\* The user's own steps: the counter is reset only together with the account.
LEMMA PageStepKeepsCounter ==
    ASSUME IInv, IInv', CounterInv, NEW c \in Clients,
           Look(c) \/ LookAway(c) \/ MarkCurrentRead(c) \/ MarkReadLost(c)
    PROVE  CounterInv'
<1>1. TypeOK /\ TypeOK' /\ OwedCounted /\ MarkersBehind
  BY DEF IInv, CounterInv
<1>2. page \in [Clients -> PageState] /\ page[c] \in PageState
  BY <1>1 DEF TypeOK, PageState
<1>3. UNCHANGED <<packetVars, lastRead, stream>>
  BY DEF Look, LookAway, MarkCurrentRead, MarkReadLost
<1>4. \A d \in Clients \ {c} : page'[d] = page[d]
  BY <1>2 DEF Look, LookAway, MarkCurrentRead, MarkReadLost
<1>5. \/ page'[c].unread = page[c].unread /\ page'[c].cleared = page[c].cleared
      \/ page'[c].unread = 0 /\ chats \subseteq page'[c].cleared
  <2>1. CASE Look(c) \/ LookAway(c) \/ MarkReadLost(c)
    BY <1>2, <2>1 DEF Look, LookAway, MarkReadLost, PageState
  <2>2. CASE MarkCurrentRead(c)
    <3> DEFINE shown == IF page[c].unread > 0 THEN Clear(page[c]) ELSE page[c]
               sent  == shown.posting \/ page[c].unread > 0
               view  == [shown EXCEPT !.fetching = FALSE, !.posting = sent]
    <3>1. page' = [page EXCEPT ![c] = view]
      BY <2>2, Zenon DEF MarkCurrentRead
    <3>2. \/ shown.unread = page[c].unread /\ shown.cleared = page[c].cleared
          \/ shown.unread = 0 /\ chats \subseteq shown.cleared
      BY <1>2 DEF Clear, PageState
    <3>3. shown \in PageState
      <4>1. chats \subseteq Packets
        BY <1>1, ReceivedArePackets
      <4> QED
        BY <1>2, <4>1 DEF PageState, Clear
    <3>4. view.unread = shown.unread /\ view.cleared = shown.cleared
      <4> HIDE DEF shown, sent
      <4> QED
        BY <3>3 DEF PageState
    <3>5. page'[c] = view
      <4> HIDE DEF view
      <4> QED
        BY <1>2, <3>1
    <3> HIDE DEF view, shown
    <3> QED
      BY <3>2, <3>4, <3>5
  <2> QED
    BY <2>1, <2>2
<1>6. ASSUME Counting(c)'
      PROVE  Cardinality(Owed(c)') <= page'[c].unread
  <2>1. Counting(c)
    BY <1>3, <1>6 DEF Counting
  <2>2. chats' = chats /\ kinds' = kinds /\ Unannounced' = Unannounced
    BY <1>3 DEF packetVars, Unannounced, Newest
  <2>3. CASE page'[c].unread = page[c].unread /\ page'[c].cleared = page[c].cleared
    <3>1. Owed(c)' \subseteq Owed(c)
      BY <1>3, <2>2, <2>3 DEF Owed
    <3>2. page[c].unread <= page'[c].unread
      <4>1. page[c].unread \in Nat
        BY <1>2 DEF PageState
      <4> QED
        BY <2>3, <4>1
    <3> QED
      BY <1>1, <2>1, <3>1, <3>2, OwesNoMore
  <2>4. CASE page'[c].unread = 0 /\ chats \subseteq page'[c].cleared
    <3>1. Owed(c)' = {}
      BY <2>2, <2>4 DEF Owed
    <3> QED
      BY <2>4, <3>1, FS_EmptySet
  <2> QED
    BY <1>5, <2>3, <2>4
<1>7. stream'[c].marker <= lastRead
  BY <1>1, <1>3 DEF MarkersBehind
<1> QED
  BY <1>3, <1>4, <1>6, <1>7, OneCounterKeepsCounter

\* A later read marker only takes texts off every page's account.
LEMMA MarkReadKeepsCounter ==
    ASSUME IInv, IInv', CounterInv, NEW c \in Clients, MarkRead(c)
    PROVE  CounterInv'
<1>1. TypeOK /\ TypeOK' /\ OwedCounted /\ MarkersBehind
  BY DEF IInv, CounterInv
<1>2. UNCHANGED <<packetVars, stream>> /\ lastRead' = Newest
  BY DEF MarkRead
<1>3. lastRead <= lastRead' /\ lastRead \in Nat /\ lastRead' \in Nat
  BY <1>1, <1>2, ReceivedArePackets DEF TypeOK, Newest
<1>4. \A d \in Clients : page'[d].unread = page[d].unread /\ page'[d].cleared = page[d].cleared
  <2>1. page \in [Clients -> PageState] /\ page' = [page EXCEPT ![c].posting = FALSE]
    BY <1>1 DEF TypeOK, PageState, MarkRead
  <2> QED
    BY <2>1 DEF PageState
<1>5. MarkersBehind'
  <2> SUFFICES ASSUME NEW d \in Clients PROVE stream[d].marker <= lastRead'
    BY <1>2 DEF MarkersBehind
  <2>1. stream[d].marker \in Nat /\ stream[d].marker <= lastRead
    BY <1>1 DEF TypeOK, MarkersBehind
  <2> QED
    BY <1>3, <2>1
<1>6. OwedCounted'
  <2> SUFFICES ASSUME NEW d \in Clients, Counting(d)'
               PROVE  Cardinality(Owed(d)') <= page'[d].unread
    BY DEF OwedCounted
  <2>1. Counting(d)
    BY <1>2 DEF Counting
  <2>2. \A p \in chats : p > lastRead' => p > lastRead
    <3>1. \A p \in chats : p \in Nat
      BY <1>1, ReceivedArePackets DEF Packets
    <3> QED
      BY <1>3, <3>1
  <2>3. Owed(d)' \subseteq Owed(d)
    <3>1. chats' = chats /\ kinds' = kinds /\ Unannounced' = Unannounced /\ stream' = stream
      BY <1>2 DEF packetVars, Unannounced, Newest
    <3> QED
      BY <1>4, <2>2, <3>1 DEF Owed
  <2>4. page[d].unread <= page'[d].unread
    <3>1. page[d].unread \in Nat
      BY <1>1 DEF TypeOK
    <3> QED
      BY <1>4, <3>1
  <2> QED
    BY <1>1, <2>1, <2>3, <2>4, OwesNoMore
<1> QED
  BY <1>5, <1>6 DEF CounterInv

\* Every step keeps the account of every page.
LEMMA NextCounterInv == IInv /\ IInv' /\ CounterInv /\ [Next]_vars => CounterInv'
<1> SUFFICES ASSUME IInv, IInv', CounterInv, [Next]_vars PROVE CounterInv'
  OBVIOUS
<1>1. CASE \E kind \in Kinds : Process(kind)
  BY <1>1, ReceptionKeepsCounter
<1>2. CASE Processor
  BY <1>2, ReceptionKeepsCounter, PublishKeepsCounter DEF Processor
<1>3. ASSUME NEW c \in Clients,
             \/ Open(c) \/ Stream(c) \/ Disconnect(c)
             \/ Look(c) \/ LookAway(c)
             \/ MarkCurrentRead(c) \/ MarkRead(c) \/ MarkReadLost(c)
      PROVE  CounterInv'
  BY <1>3, EarlyStepKeepsCounter, ReplayKeepsCounter, WriteLiveKeepsCounter,
     PageStepKeepsCounter, MarkReadKeepsCounter DEF Stream
<1>4. CASE UNCHANGED vars
  BY <1>4 DEF vars, packetVars, CounterInv, MarkersBehind, OwedCounted, Counting, Owed,
              Unannounced, Newest
<1> QED
  BY <1>1, <1>2, <1>3, <1>4 DEF Next

\* With channel and Process empty, all that is owed is counted.
LEMMA CounterInvHidesNothing == CounterInv => UnreadNotHidden
<1> SUFFICES ASSUME CounterInv, NEW c \in Clients,
                    At(c, "live"), stream[c].queue = << >>, processing = "idle",
                    ~stream[c].dropped, ~stream[c].uncounted
             PROVE  page[c].unread >=
                        Cardinality({p \in chats \ page[c].cleared :
                                        kinds[p] = "text" /\ p > lastRead})
  BY DEF UnreadNotHidden
<1>1. Counting(c)
  BY DEF Counting, At
<1>2. Cardinality(Owed(c)) <= page[c].unread
  BY <1>1 DEF CounterInv, OwedCounted
<1>3. Range(stream[c].queue) = {} /\ Unannounced = {}
  BY DEF Range, Unannounced
<1>4. Owed(c) = {p \in chats \ page[c].cleared : kinds[p] = "text" /\ p > lastRead}
  BY <1>3 DEF Owed
<1> QED
  BY <1>2, <1>4

\* The badge never hides a message of somebody else: what is stored, not read
\* and not cleared away on the page is counted, through any interleaving of
\* receiving, snapshot, replay, live events, reconnects and read markers.
THEOREM BadgeHidesNothing == Spec => []UnreadNotHidden
<1>1. Spec => []CounterInv
  BY InvariantHolds, InitCounterInv, NextCounterInv, PTL DEF Spec
<1> QED
  BY <1>1, CounterInvHidesNothing, PTL

----------------------------------------------------------------------------
(***************************************************************************)
(* The order of the live events.  A channel holds packets in the order in  *)
(* which they were announced; a full one loses the newest, never one in    *)
(* the middle of what it holds.                                            *)
(***************************************************************************)
\* The last packet that Publish has handed out.
Announced == IF processing = "idle" THEN Newest ELSE Newest - 1

\* A channel is an increasing part of what was announced.
Increasing(q) ==
    /\ \A i \in 1 .. Len(q) : q[i] <= Announced
    /\ \A i, j \in 1 .. Len(q) : i < j => q[i] < q[j]

ChannelsInOrder == \A c \in Clients : Increasing(stream[c].queue)

\* What the page will not be given live any more: announced, and before all
\* that its channel holds.
Past(c) == {p \in Packets : p <= Announced /\ \A i \in 1 .. Len(stream[c].queue) : p < stream[c].queue[i]}

\* A step that leaves Process and the channels as they are, but for one channel
\* that is emptied, keeps the order; nothing that is past comes back.
LEMMA UndisturbedOrder ==
    ASSUME TypeOK, ChannelsInOrder, Announced' = Announced, stream' \in [Clients -> StreamState],
           \A c \in Clients : stream'[c].queue = stream[c].queue \/ stream'[c].queue = << >>
    PROVE  ChannelsInOrder' /\ \A c \in Clients : Past(c) \subseteq Past(c)'
<1> SUFFICES ASSUME NEW c \in Clients
             PROVE  Increasing(stream[c].queue)' /\ Past(c) \subseteq Past(c)'
  BY DEF ChannelsInOrder
<1>1. CASE stream'[c].queue = stream[c].queue
  BY <1>1 DEF ChannelsInOrder, Increasing, Past
<1>2. CASE stream'[c].queue = << >>
  <2>1. 1 .. Len(stream'[c].queue) = {}
    BY <1>2
  <2> QED
    BY <2>1 DEF Increasing, Past
<1> QED
  BY <1>1, <1>2

\* While Process works on a packet, that packet is not announced; a packet that
\* has just arrived is not either.
LEMMA ReceptionKeepsOrder ==
    ASSUME IInv, ChannelsInOrder,
           (\E kind \in Kinds : Process(kind)) \/ LogReceivedPacket \/ StorePacket
    PROVE  ChannelsInOrder' /\ \A c \in Clients : Past(c) \subseteq Past(c)'
<1>1. TypeOK
  BY DEF IInv
<1>2. stream' = stream /\ stream \in [Clients -> StreamState]
  BY <1>1 DEF Process, LogReceivedPacket, StorePacket, TypeOK, StreamState
<1>3. Announced' = Announced
  <2>1. CASE \E kind \in Kinds : Process(kind)
    <3>1. PICK kind \in Kinds : Process(kind)
      BY <2>1
    <3>2. kinds \in Seq(Kinds) /\ kinds' = Append(kinds, kind)
      BY <1>1, <3>1 DEF TypeOK, Process
    <3>3. Len(kinds') = Len(kinds) + 1 /\ Len(kinds) \in Nat
      BY <3>2
    <3> QED
      BY <3>1, <3>3 DEF Process, Announced, Newest
  <2>2. CASE LogReceivedPacket \/ StorePacket
    BY <2>2 DEF LogReceivedPacket, StorePacket, NextStep, Announced, Newest
  <2> QED
    BY <2>1, <2>2
<1> QED
  BY <1>1, <1>2, <1>3, UndisturbedOrder

\* The packet that is announced is newer than everything in a channel.
LEMMA PublishKeepsOrder ==
    ASSUME IInv, ChannelsInOrder, Publish
    PROVE  ChannelsInOrder' /\ \A c \in Clients : Past(c) \subseteq Past(c)'
<1>1. TypeOK /\ BusyWithPacket /\ processing = "publish"
  BY DEF IInv, Publish
<1>2. /\ Newest \in Packets /\ Newest \in Nat
      /\ Announced = Newest - 1 /\ Announced' = Newest
  <2>1. Newest \in Packets
    BY <1>1, NewestIsReceived, ReceivedArePackets
  <2> QED
    BY <1>1, <2>1, EventStreamAssumption DEF Packets, Publish, NextStep, Announced, Newest
<1> SUFFICES ASSUME NEW c \in Clients
             PROVE  Increasing(stream[c].queue)' /\ Past(c) \subseteq Past(c)'
  BY DEF ChannelsInOrder
<1> DEFINE q == stream[c].queue
<1>3. /\ q \in Seq(Packets) /\ Len(q) \in Nat /\ \A i \in 1 .. Len(q) : q[i] \in Packets
      /\ stream[c] \in StreamState
  BY <1>1 DEF TypeOK, StreamState
<1>4. /\ \A i \in 1 .. Len(q) : q[i] < Newest
      /\ \A i, j \in 1 .. Len(q) : i < j => q[i] < q[j]
  <2>1. /\ \A i \in 1 .. Len(q) : q[i] <= Newest - 1
        /\ \A i, j \in 1 .. Len(q) : i < j => q[i] < q[j]
    BY <1>2 DEF ChannelsInOrder, Increasing
  <2>2. \A i \in 1 .. Len(q) : q[i] \in Nat
    BY <1>3, EventStreamAssumption DEF Packets
  <2> QED
    BY <1>2, <2>1, <2>2
<1>5. \/ stream'[c].queue = q
      \/ stream'[c].queue = Append(q, Newest)
  BY <1>1, <1>3 DEF Publish, Deliver, StreamState
<1>6. CASE stream'[c].queue = q
  BY <1>2, <1>3, <1>4, <1>6, EventStreamAssumption DEF Increasing, Past, Packets
<1>7. CASE stream'[c].queue = Append(q, Newest)
  <2> DEFINE r == Append(q, Newest)
  <2>1. Len(r) = Len(q) + 1 /\ r[Len(q) + 1] = Newest /\ \A i \in 1 .. Len(q) : r[i] = q[i]
    BY <1>2, <1>3
  <2>2. \A i \in 1 .. Len(r) : i \in 1 .. Len(q) \/ i = Len(q) + 1
    BY <1>3, <2>1
  <2>3. Increasing(stream[c].queue)'
    <3>1. \A i \in 1 .. Len(r) : r[i] <= Newest
      BY <1>2, <1>3, <1>4, <2>1, <2>2, EventStreamAssumption DEF Packets
    <3>2. ASSUME NEW i \in 1 .. Len(r), NEW j \in 1 .. Len(r), i < j
          PROVE  r[i] < r[j]
      <4>1. i \in 1 .. Len(q)
        BY <1>3, <2>1, <3>2
      <4> QED
        BY <1>4, <2>1, <2>2, <3>2, <4>1
    <3> QED
      BY <1>2, <1>7, <3>1, <3>2 DEF Increasing
  <2>4. ASSUME NEW p \in Past(c) PROVE p \in Past(c)'
    <3>1. p \in Packets /\ p <= Newest /\ p < Newest /\ \A i \in 1 .. Len(q) : p < q[i]
      BY <1>2, EventStreamAssumption DEF Past, Packets
    <3>2. \A i \in 1 .. Len(r) : p < r[i]
      BY <2>1, <2>2, <3>1
    <3> QED
      BY <1>2, <1>7, <3>1, <3>2 DEF Past
  <2> QED
    BY <2>3, <2>4
<1> QED
  BY <1>5, <1>6, <1>7

\* An event that is written leaves a channel of newer ones; it was still to come
\* and is past from then on.
LEMMA WriteLiveKeepsOrder ==
    ASSUME IInv, ChannelsInOrder, NEW c \in Clients, WriteLive(c)
    PROVE  /\ ChannelsInOrder' /\ \A d \in Clients : Past(d) \subseteq Past(d)'
           /\ Head(stream[c].queue) \in Past(c)' \ Past(c)
<1>1. TypeOK
  BY DEF IInv
<1> DEFINE q == stream[c].queue
<1>2. /\ q \in Seq(Packets) /\ q # << >> /\ Len(q) \in Nat \ {0}
      /\ \A i \in 1 .. Len(q) : q[i] \in Packets
  BY <1>1 DEF TypeOK, WriteLive
<1>3. Announced' = Announced
  BY DEF WriteLive, packetVars, Announced, Newest
<1>4. /\ stream'[c].queue = Tail(q)
      /\ \A d \in Clients \ {c} : stream'[d].queue = stream[d].queue
  BY <1>1 DEF TypeOK, WriteLive
<1>5. /\ Head(q) = q[1] /\ Len(Tail(q)) = Len(q) - 1
      /\ \A i \in 1 .. Len(q) - 1 : Tail(q)[i] = q[i + 1] /\ i + 1 \in 1 .. Len(q)
  BY <1>2
<1>6. /\ \A i \in 1 .. Len(q) : q[i] <= Announced
      /\ \A i, j \in 1 .. Len(q) : i < j => q[i] < q[j]
  BY DEF ChannelsInOrder, Increasing
<1>7. Increasing(stream[c].queue)'
  <2>1. \A i \in 1 .. Len(q) - 1 : Tail(q)[i] <= Announced
    BY <1>5, <1>6
  <2>2. \A i, j \in 1 .. Len(q) - 1 : i < j => Tail(q)[i] < Tail(q)[j]
    BY <1>2, <1>5, <1>6
  <2> QED
    BY <1>3, <1>4, <1>5, <2>1, <2>2 DEF Increasing
<1>8. Past(c) \subseteq Past(c)'
  BY <1>3, <1>4, <1>5 DEF Past
<1>9. Head(q) \in Past(c)' \ Past(c)
  <2>1. 1 \in 1 .. Len(q) /\ q[1] \in Packets /\ q[1] <= Announced
    BY <1>2, <1>6
  <2>2. \A i \in 1 .. Len(q) - 1 : q[1] < Tail(q)[i]
    BY <1>2, <1>5, <1>6, <2>1
  <2>3. q[1] \in Past(c)'
    BY <1>3, <1>4, <1>5, <2>1, <2>2 DEF Past
  <2>4. ~(q[1] < q[1])
    BY <2>1, EventStreamAssumption DEF Packets
  <2>5. q[1] \notin Past(c)
    BY <2>1, <2>4 DEF Past
  <2> QED
    BY <1>5, <2>3, <2>5
<1>10. ASSUME NEW d \in Clients \ {c}
       PROVE  Increasing(stream[d].queue)' /\ Past(d) \subseteq Past(d)'
  BY <1>3, <1>4 DEF ChannelsInOrder, Increasing, Past
<1> QED
  BY <1>7, <1>8, <1>9, <1>10 DEF ChannelsInOrder

\* The other steps of a stream leave its channel alone or end the stream, and
\* what a page does concerns no channel.
LEMMA OtherStepKeepsOrder ==
    ASSUME IInv, IInv', ChannelsInOrder, NEW c \in Clients,
           \/ Open(c) \/ Subscribe(c) \/ SnapshotReads(c) \/ WriteChatStatus(c)
           \/ Replay(c) \/ WriteReplay(c) \/ Disconnect(c)
           \/ Look(c) \/ LookAway(c) \/ MarkCurrentRead(c) \/ MarkRead(c) \/ MarkReadLost(c)
    PROVE  ChannelsInOrder' /\ \A d \in Clients : Past(d) \subseteq Past(d)'
<1>1. TypeOK /\ stream \in [Clients -> StreamState] /\ stream' \in [Clients -> StreamState]
  BY DEF IInv, TypeOK, StreamState
<1>2. Announced' = Announced
  BY DEF Open, Subscribe, SnapshotReads, WriteChatStatus, Replay, WriteReplay, Disconnect, Look,
         LookAway, MarkCurrentRead, MarkRead, MarkReadLost, packetVars, Announced, Newest
<1>3. \A d \in Clients : stream'[d].queue = stream[d].queue \/ stream'[d].queue = << >>
  <2>1. CASE Disconnect(c)
    BY <1>1, <2>1 DEF Disconnect, Closed
  <2>2. CASE \/ Open(c) \/ Subscribe(c) \/ SnapshotReads(c) \/ WriteChatStatus(c)
             \/ Replay(c) \/ WriteReplay(c)
    <3> SUFFICES ASSUME NEW d \in Clients PROVE stream'[d].queue = stream[d].queue
      OBVIOUS
    <3>1. stream[d] \in StreamState
      BY <1>1
    <3>2. CASE Open(c)
      BY <1>1, <3>1, <3>2 DEF Open, StreamState
    <3>3. CASE Subscribe(c)
      BY <1>1, <3>1, <3>3 DEF Subscribe, StreamState
    <3>4. CASE SnapshotReads(c)
      BY <1>1, <3>1, <3>4 DEF SnapshotReads, StreamState
    <3>5. CASE WriteChatStatus(c)
      <4>1. PICK fails \in BOOLEAN :
                stream' = [stream EXCEPT ![c].step = "replay", ![c].uncounted = fails]
        BY <3>5 DEF WriteChatStatus
      <4> QED
        BY <1>1, <3>1, <4>1 DEF StreamState
    <3>6. CASE Replay(c)
      BY <1>1, <3>1, <3>6 DEF Replay, StreamState
    <3>7. CASE WriteReplay(c)
      BY <1>1, <3>1, <3>7 DEF WriteReplay, StreamState
    <3> QED
      BY <2>2, <3>2, <3>3, <3>4, <3>5, <3>6, <3>7
  <2>3. CASE Look(c) \/ LookAway(c) \/ MarkCurrentRead(c) \/ MarkRead(c) \/ MarkReadLost(c)
    BY <2>3 DEF Look, LookAway, MarkCurrentRead, MarkRead, MarkReadLost
  <2> QED
    BY <2>1, <2>2, <2>3
<1> QED
  BY <1>1, <1>2, <1>3, UndisturbedOrder

\* A new stream of a page included, what is past stays past; an event that is
\* written was still to come and is past from then on.
LiveInOrder ==
    \A c \in Clients :
        /\ Past(c) \subseteq Past(c)'
        /\ WriteLive(c) => Head(stream[c].queue) \in Past(c)' \ Past(c)

\* A server that has just started has nothing in a channel.
LEMMA InitOrder == Init => ChannelsInOrder
<1> SUFFICES ASSUME Init, NEW c \in Clients PROVE Increasing(stream[c].queue)
  BY DEF ChannelsInOrder
<1>1. stream[c].queue = << >>
  BY DEF Init, Closed
<1>2. 1 .. Len(stream[c].queue) = {}
  BY <1>1
<1> QED
  BY <1>2 DEF Increasing

\* Every step keeps the order of every channel and writes in that order.
LEMMA NextOrder ==
    IInv /\ IInv' /\ ChannelsInOrder /\ [Next]_vars => ChannelsInOrder' /\ [LiveInOrder]_vars
<1> SUFFICES ASSUME IInv, IInv', ChannelsInOrder, [Next]_vars
             PROVE  ChannelsInOrder' /\ [LiveInOrder]_vars
  OBVIOUS
<1>1. CASE UNCHANGED vars
  BY <1>1 DEF vars, packetVars, ChannelsInOrder, Increasing, Announced, Newest
<1>2. CASE Next
  <2>1. ChannelsInOrder' /\ \A c \in Clients : Past(c) \subseteq Past(c)'
    <3>1. CASE (\E kind \in Kinds : Process(kind)) \/ Processor
      BY <3>1, ReceptionKeepsOrder, PublishKeepsOrder DEF Processor
    <3>2. ASSUME NEW c \in Clients,
                 \/ Open(c) \/ Stream(c) \/ Disconnect(c)
                 \/ Look(c) \/ LookAway(c)
                 \/ MarkCurrentRead(c) \/ MarkRead(c) \/ MarkReadLost(c)
          PROVE  ChannelsInOrder' /\ \A d \in Clients : Past(d) \subseteq Past(d)'
      BY <3>2, OtherStepKeepsOrder, WriteLiveKeepsOrder DEF Stream
    <3> QED
      BY <1>2, <3>1, <3>2 DEF Next
  <2>2. \A c \in Clients : WriteLive(c) => Head(stream[c].queue) \in Past(c)' \ Past(c)
    BY WriteLiveKeepsOrder
  <2> QED
    BY <2>1, <2>2 DEF LiveInOrder
<1> QED
  BY <1>1, <1>2

\* The live events of a page are written in the order in which Publish announced
\* them and none is written twice, over any number of streams of that page: an
\* event that is written makes itself and all older ones past, for good.
THEOREM LiveEventsInOrder == Spec => [][LiveInOrder]_vars
<1> QED
  BY InvariantHolds, InitOrder, NextOrder, PTL DEF Spec
=============================================================================
