------------------------------ MODULE ChatLog ------------------------------
(***************************************************************************)
(* internal/chatlog/chatlog.go: the conversations stored in chats_dm and   *)
(* chats_public, the handlers of internal/httpapi/server.go that list,     *)
(* read, mark and delete them, and the read markers and unread counts of   *)
(* internal/chatstatus/status.go that go with them.                        *)
(*                                                                         *)
(* A callsign is <<base, ssid>>, ssid 0 when it has none.  A conversation  *)
(* is <<"P", channel>> or <<"DM", caller, peer>>: under which caller a     *)
(* direct message is filed, listed, read and counted (the base callsign in *)
(* the table, the full one in the interface) is what this module is about. *)
(* A legacy DM_<peer>, written while no callsign was set, has caller       *)
(* NoCall.  Times are ticks of a second or more: within a second the order *)
(* of the timestamps as texts, which the queries use, may not be that of   *)
(* the times, because RFC3339Nano drops trailing zeros.                    *)
(***************************************************************************)
EXTENDS Naturals, FiniteSets, Functions

CONSTANTS
    Devices,        \* the callsigns that the station may be given
    Texts,          \* texts that are heard, or that failed to be sent
    DedupeWindow,   \* recordDedupeWindow
    Retention,      \* policy.PublicChatRetention
    MaxRecords,     \* bound on the ids of rows
    MaxLoad,        \* bound on the rows and the requests that mark or delete, together
    MaxTime         \* bound on the clock

NoCall == <<"", 0>>
BaseCall(call) == <<call[1], 0>>

\* A text: its msg_id (0 if it has none), the origin of its source path, its
\* destination (a callsign, or <<channel, 0>>), the sequence number
\* it ends with, the number that the two acknowledgement patterns find in it
\* (in any text with a number in the right place), whether it is a
\* store-and-forward notice, and whether it is the record of a failed send.
TextType ==
    [id : Nat, src : Devices \cup {t.src : t \in Texts}, dst : {t.dst : t \in Texts},
     dm : BOOLEAN, seq : Nat, acks : Nat, notice : BOOLEAN, outbound : BOOLEAN]

ASSUME ChatAssumption ==
    /\ Texts \subseteq TextType
    \* callsign.Pattern: identity.Update accepts no callsign without a base.
    /\ \A d \in Devices : d[1] # ""
    \* A node numbers its messages: copies of a message are equal.
    /\ \A s, t \in Texts : s.id # 0 /\ s.id = t.id /\ s.src = t.src => s = t
    /\ {DedupeWindow, Retention, MaxRecords, MaxLoad, MaxTime} \subseteq Nat /\ MaxTime # 0

VARIABLES
    mycall,         \* identity.Current()
    chats,          \* the rows of chats_dm and chats_public, by id
    lastRow,        \* AUTOINCREMENT: the id of the last row, stored or gone
    last_read,      \* chatstatus.Store.entries; 0 where there is none
    chat_reads,     \* the table of the same name
    request,        \* the mark-read or delete request under way
    undisturbed,    \* history: see DeleteComplete
    served,         \* history: requests so far
    chatClock

chatVars ==
    <<mycall, chats, lastRow, last_read, chat_reads, request, undisturbed, served, chatClock>>

Involved == Devices \cup {t.src : t \in Texts} \cup {t.dst : t \in {u \in Texts : u.dm}}
Bases == {BaseCall(c) : c \in Involved} \cup {NoCall}
Channels == {t.dst : t \in {u \in Texts : ~u.dm}}
Public == {<<"P", c>> : c \in Channels}
Conversations ==
    Public \cup {<<"DM", caller, peer>> : caller \in Involved \cup Bases, peer \in Involved}
IsDM(id) == id[1] = "DM"

None == [op |-> "none"]
Requests ==
    [op : {"read", "delete"}, id : Conversations, pc : {"remove", "snapshot", "apply"},
     stamp : 0 .. MaxTime, keys : SUBSET Conversations] \cup {None}

Record == [conv : Conversations, text : Texts, at : 1 .. MaxTime, acked : 0 .. MaxTime]

ChatTypeOK ==
    /\ mycall \in Devices \cup {NoCall}
    /\ lastRow \in 0 .. MaxRecords
    /\ DOMAIN chats \subseteq 1 .. lastRow /\ chats \in [DOMAIN chats -> Record]
    /\ last_read \in [Conversations -> 0 .. MaxTime]
    /\ chat_reads \in [Conversations -> 0 .. MaxTime]
    /\ request \in Requests
    /\ undisturbed \in BOOLEAN
    /\ served \in 0 .. MaxLoad
    /\ chatClock \in 1 .. MaxTime

ChatInit ==
    /\ mycall = NoCall
    /\ chats = <<>> /\ lastRow = 0
    /\ last_read = [k \in Conversations |-> 0]
    /\ chat_reads = [k \in Conversations |-> 0]
    /\ request = None
    /\ undisturbed = TRUE
    /\ served = 0
    /\ chatClock = 1

----------------------------------------------------------------------------
(* Where a text belongs. *)

Ours(text, mine) == BaseCall(mine) \in {BaseCall(text.src), BaseCall(text.dst)}

\* The other end, as filenameForMsg and StatusKey choose it.
Interlocutor(text, mine) ==
    IF BaseCall(text.dst) = BaseCall(mine) THEN text.src ELSE text.dst

\* filenameForMsg: the conversations, none or one, that record the text.
FileIDs(text, mine) ==
    IF ~text.dm THEN {<<"P", text.dst>>}
    ELSE IF mine = NoCall THEN {<<"DM", NoCall, text.dst>>}
    ELSE IF Ours(text, mine) THEN {<<"DM", BaseCall(mine), Interlocutor(text, mine)>>}
    ELSE {}

\* A plausible bug: the API id is taken for the id in the table.
FileIDUnchanged(id) == id

FileIDForAPIID(id) == IF IsDM(id) THEN <<"DM", BaseCall(id[2]), id[3]>> ELSE id

\* A plausible bug: unread texts are counted under the id in the table.
StatusKeyShared(r) == r.conv

\* status.go, dmStatusKey: the key under which a stored record is counted.
StatusKey(r) ==
    LET local == r.conv[2]
    IN  IF ~IsDM(r.conv) \/ local = NoCall THEN r.conv
        ELSE IF BaseCall(r.text.src) = local THEN <<"DM", r.text.src, r.conv[3]>>
        ELSE IF BaseCall(r.text.dst) = local THEN <<"DM", r.text.dst, r.conv[3]>>
        ELSE r.conv

RecordMatchesSSID(r, ssid) == ssid \in {r.text.src, r.text.dst}

isDMKeyForBasecallAndPeer(key, base, peer) ==
    IsDM(key) /\ key[2] # NoCall /\ key[3] = peer /\ BaseCall(key[2]) = base

----------------------------------------------------------------------------
(* Reading. *)

\* The ids of the records of a conversation.
FileOf(fileID) == {i \in DOMAIN chats : chats[i].conv = fileID}

\* The order of readSinceSQLite: by the text of the time, then by id.  Texts order
\* ticks as times do; rows of one tick are taken by id, where the code may take them
\* otherwise (no property is about the order within a tick).
Before(i, j) == chats[i].at < chats[j].at \/ (chats[i].at = chats[j].at /\ i < j)

SameMessage(r, s) ==
    /\ r.text.id = s.text.id /\ r.text.src = s.text.src
    /\ r.at <= s.at + DedupeWindow /\ s.at <= r.at + DedupeWindow

\* A plausible bug: the last copy is compared, not all of them.
isDuplicateRecordLast(seen, r) ==
    /\ r.text.id # 0
    /\ \E i \in seen : SameMessage(chats[i], r) /\ \A j \in seen : ~Before(i, j)

isDuplicateRecord(seen, r) ==
    r.text.id # 0 /\ \E i \in seen : SameMessage(chats[i], r)

\* The rows that the loop over a conversation keeps: each one that is no copy of
\* those that it has kept before.
ReadAll(fileID) ==
    CHOOSE kept \in SUBSET FileOf(fileID) :
        \A i \in FileOf(fileID) :
            i \in kept <=> ~isDuplicateRecord({j \in kept : Before(j, i)}, chats[i])

ReadSince(fileID, since) == {i \in ReadAll(fileID) : chats[i].at >= since}

\* getConversation of an API id in mycall scope.
getConversation(id, since) ==
    {i \in ReadSince(FileIDForAPIID(id), since) :
        IsDM(id) /\ id[2] # NoCall => RecordMatchesSSID(chats[i], id[2])}

\* Logger.List: store notices do not make a conversation.
Listed == {r.conv : r \in {s \in Range(chats) : ~s.text.notice}}

\* listConversations in mycall scope.
listConversations ==
    {id \in Listed : ~IsDM(id) \/ id[2] = NoCall}
    \cup {<<"DM", mycall, id[3]>> :
            id \in {f \in Listed :
                /\ IsDM(f) /\ f[2] # NoCall /\ f[2] = BaseCall(mycall)
                /\ \E i \in FileOf(f) : RecordMatchesSSID(chats[i], mycall)}}

\* status.go, snapshotSQLite: the rows that the unread count of a key counts.
Unread(key) ==
    {i \in DOMAIN chats :
        StatusKey(chats[i]) = key /\ ~chats[i].text.notice /\ chats[i].at > last_read[key]}

Snapshot ==
    {StatusKey(r) : r \in {s \in Range(chats) : ~s.text.notice}}
    \cup {k \in Conversations : last_read[k] # 0}

----------------------------------------------------------------------------
(* Storing. *)

\* The record that updateRecentOutboundAck marks, if any: the newest failed text
\* to the sender of the acknowledgement that awaits one of its number.
AwaitingAck(records, conv, text, at) ==
    {i \in DOMAIN records :
        LET r == records[i]
        IN  /\ r.conv = conv /\ r.text.outbound /\ r.text.seq = text.acks
            /\ r.acked = 0 /\ r.text.dst = text.src
            /\ at <= r.at + DedupeWindow /\ r.at <= at}

MarkAcked(records, conv, text, at) ==
    LET awaiting == AwaitingAck(records, conv, text, at)
        newest == CHOOSE i \in awaiting :
                      \A j \in awaiting \ {i} :
                          \/ records[j].at < records[i].at
                          \/ records[j].at = records[i].at /\ j < i
    IN  IF text.acks = 0 \/ awaiting = {} THEN records
        ELSE [records EXCEPT ![newest].acked = at]

\* A record reaches the tables a while after it was stamped: another transport
\* may overtake it.
Stamps == {t \in {chatClock - 1, chatClock} : t >= 1}

\* The conversation that a delete under way is about to empty.
Emptied == IF request.op = "delete" THEN {FileIDForAPIID(request.id)} ELSE {}

\* The keys whose markers belong to it.
MarkersOf(fileID) ==
    {k \in Conversations : FileIDForAPIID(k) = fileID /\ (IsDM(k) => k[2] # NoCall)}

\* appendSQLite.  The mark is a statement of its own and may fail.
appendSQLite(text, mine, at) ==
    /\ lastRow < MaxRecords /\ Cardinality(DOMAIN chats) + served < MaxLoad
    /\ lastRow' = lastRow + 1
    /\ \E conv \in FileIDs(text, mine) :
           LET row == [conv |-> conv, text |-> text, at |-> at, acked |-> 0]
               stored == [i \in DOMAIN chats \cup {lastRow'} |->
                             IF i = lastRow' THEN row ELSE chats[i]]
           IN  /\ chats' \in {stored} \cup
                     (IF IsDM(conv) THEN {MarkAcked(stored, conv, text, at)} ELSE {})
               /\ undisturbed' = (undisturbed /\ conv \notin Emptied)
    /\ UNCHANGED <<mycall, last_read, chat_reads, request, served, chatClock>>

\* Logger.Append of a received text, called by the ingest.
AppendReceived ==
    \E text \in {t \in Texts : ~t.outbound}, at \in Stamps : appendSQLite(text, mycall, at)

\* Logger.AppendFailed: the text is filed under the callsign it was sent with.
AppendFailed ==
    \E text \in {t \in Texts : t.outbound}, at \in Stamps : appendSQLite(text, text.src, at)

\* DELETE FROM the tables.
DeleteRows(gone) ==
    /\ chats' = [i \in DOMAIN chats \ gone |-> chats[i]]
    /\ UNCHANGED lastRow

\* storage.go, Purge, as far as the conversations go.
PurgeChats ==
    LET old == {i \in DOMAIN chats :
                    ~IsDM(chats[i].conv) /\ chats[i].at + Retention < chatClock}
    IN  /\ old # {}
        /\ DeleteRows(old)
        /\ UNCHANGED <<mycall, last_read, chat_reads, request, undisturbed, served, chatClock>>

----------------------------------------------------------------------------
(* The handlers that take several steps. *)

\* SaveIfDirty, whose failure the handlers log and the save loop retries.
Saved == chat_reads' \in {chat_reads, last_read'}

\* The ids that a page may send: of stored conversations, as either scope lists
\* them now or did under another callsign.
Known == {r.conv : r \in Range(chats)} \cup {StatusKey(r) : r \in Range(chats)}

Serve == Cardinality(DOMAIN chats) + served < MaxLoad /\ served' = served + 1

\* markConversationRead in mycall scope: one marker, saved by the loop.  The
\* time was read before, maybe before that of a marker that is already there.
MarkRead ==
    \E id \in Known, stamp \in Stamps :
        /\ Serve
        /\ last_read' = [last_read EXCEPT ![id] = stamp]
        /\ undisturbed' = (undisturbed /\ FileIDForAPIID(id) \notin Emptied)
        /\ UNCHANGED <<mycall, chats, lastRow, chat_reads, request, chatClock>>

\* markConversationRead in basecall scope, or deleteConversation, begins.
BeginRead ==
    /\ request = None
    /\ Serve
    /\ \E id \in Known, stamp \in Stamps :
           IsDM(id) /\ request' = [op |-> "read", id |-> id, pc |-> "snapshot",
                                   stamp |-> stamp, keys |-> {}]
    /\ UNCHANGED <<mycall, chats, lastRow, last_read, chat_reads, undisturbed, chatClock>>

BeginDelete ==
    /\ request = None
    /\ Serve
    /\ \E id \in Known :
           request' = [op |-> "delete", id |-> id, pc |-> "remove", stamp |-> 0, keys |-> {}]
    /\ undisturbed' = TRUE
    /\ UNCHANGED <<mycall, chats, lastRow, last_read, chat_reads, chatClock>>

\* Logger.Remove of the rows.  An error answers the request and is not a step.
RemoveRows ==
    /\ request.op = "delete" /\ request.pc = "remove"
    /\ DeleteRows(FileOf(FileIDForAPIID(request.id)))
    /\ request' = [request EXCEPT !.pc = "snapshot"]
    /\ UNCHANGED <<mycall, last_read, chat_reads, undisturbed, served, chatClock>>

\* A plausible bug: deleting removes the marker of the id it was given only.
CollectKeysExact ==
    /\ request # None /\ request.pc = "snapshot"
    /\ request' = [request EXCEPT !.pc = "apply", !.keys = {request.id}]
    /\ undisturbed' = (undisturbed
                       /\ (IsDM(request.id) => BaseCall(request.id[2]) = BaseCall(mycall)))
    /\ UNCHANGED <<mycall, chats, lastRow, last_read, chat_reads, served, chatClock>>

\* The keys of this operator and peer.  A snapshot whose query fails is empty.
CollectKeys ==
    LET id == request.id
        keys == IF IsDM(id) THEN {k \in Snapshot :
                    isDMKeyForBasecallAndPeer(k, BaseCall(mycall), id[3])} ELSE {id}
    IN  /\ request # None /\ request.pc = "snapshot"
        /\ \E failed \in BOOLEAN :
               /\ failed => IsDM(id)
               /\ request' = [request EXCEPT !.pc = "apply",
                                             !.keys = IF failed THEN {} ELSE keys]
               /\ undisturbed' = (undisturbed /\ ~failed
                                  /\ (IsDM(id) => BaseCall(id[2]) = BaseCall(mycall)))
        /\ UNCHANGED <<mycall, chats, lastRow, last_read, chat_reads, served, chatClock>>

\* MarkRead or Remove of each of them, and SaveIfDirty.
ApplyKeys ==
    /\ request # None /\ request.pc = "apply"
    /\ last_read' = [k \in Conversations |->
                        IF k \in request.keys THEN request.stamp ELSE last_read[k]]
    /\ Saved
    /\ request' = None
    /\ UNCHANGED <<mycall, chats, lastRow, undisturbed, served, chatClock>>

\* A tick of the save loop of the chat status.
SaveMarkers ==
    /\ chat_reads # last_read
    /\ chat_reads' = last_read
    /\ UNCHANGED <<mycall, chats, lastRow, last_read, request, undisturbed, served, chatClock>>

\* identity.Update: the station, or the settings, give another callsign.
SetCall ==
    /\ \E call \in Devices \ {mycall} : mycall' = call
    /\ UNCHANGED <<chats, lastRow, last_read, chat_reads, request, undisturbed, served, chatClock>>

\* The process stops at any step and starts again.
RestartChat ==
    /\ last_read' = chat_reads
    /\ request' = None
    /\ UNCHANGED <<mycall, chats, lastRow, chat_reads, undisturbed, served, chatClock>>

ChatTick ==
    /\ chatClock < MaxTime
    /\ chatClock' = chatClock + 1
    /\ UNCHANGED <<mycall, chats, lastRow, last_read, chat_reads, request, undisturbed, served>>

ChatNext ==
    \/ AppendReceived \/ AppendFailed \/ PurgeChats
    \/ MarkRead \/ BeginRead \/ BeginDelete \/ RemoveRows \/ CollectKeys \/ ApplyKeys
    \/ SaveMarkers \/ SetCall \/ RestartChat \/ ChatTick

ChatSpec == ChatInit /\ [][ChatNext]_chatVars

----------------------------------------------------------------------------
(* Properties *)

\* What the list offers can be read, and what is stored can be found: every
\* listed conversation has records to show, and every direct message that this
\* callsign sent or received under its base is shown, or a copy of it, by the
\* conversation that the list gives for it.  Four conversions of ids must agree.
ListedReadable ==
    /\ \A id \in listConversations : getConversation(id, 1) # {}
    /\ \A i \in DOMAIN chats :
           LET r == chats[i]
               id == <<"DM", mycall, r.conv[3]>>
           IN  /\ IsDM(r.conv) /\ r.conv[2] = BaseCall(mycall) /\ r.conv[2] # NoCall
               /\ RecordMatchesSSID(r, mycall) /\ ~r.text.notice
               => /\ id \in listConversations
                  /\ \E j \in getConversation(id, 1) : j = i \/ SameMessage(chats[j], r)

\* What the status counts as unread under the id of a listed conversation (with a
\* peer of another base) is what a reader of that conversation has not seen: each
\* record that is counted is shown there, or held back as a copy of one that is
\* shown there, and each record shown there that came after the marker is counted.
CountedAreListed ==
    \A id \in {c \in listConversations : IsDM(c) /\ c[2] # NoCall} :
        BaseCall(id[3]) # BaseCall(id[2]) =>
            LET shown == getConversation(id, 1)
            IN  /\ \A i \in Unread(id) : i \in shown \/ isDuplicateRecord(shown, chats[i])
                /\ \A i \in shown :
                       ~chats[i].text.notice /\ chats[i].at > last_read[id] => i \in Unread(id)

\* A text heard through several relays or transports is shown once: no two
\* records of an answer are copies, and a record that is held back is held back
\* for a copy that is shown.
DuplicatesHidden ==
    \A conv \in {r.conv : r \in Range(chats)} :
        LET shown == ReadAll(conv)
        IN  /\ \A i, j \in shown :
                   i # j /\ chats[i].text.id # 0 => ~SameMessage(chats[i], chats[j])
            /\ \A i \in FileOf(conv) \ shown :
                   \E j \in shown : SameMessage(chats[j], chats[i])

\* What a conversation shows is what was stored for it, once.
ConversationsShown == ListedReadable /\ DuplicatesHidden

\* A deleted conversation takes its read markers along: when no query failed, the
\* operator is the conversation's and nothing else touched it meanwhile, neither
\* records nor markers of it, under any of the operator's callsigns, remain.
DeleteComplete ==
    [][ApplyKeys /\ request.op = "delete" /\ undisturbed =>
          LET file == FileIDForAPIID(request.id)
          IN  /\ \A r \in Range(chats') : r.conv # file
              /\ \A k \in MarkersOf(file) : last_read'[k] = 0]_chatVars
=============================================================================
