------------------------------- MODULE Stats -------------------------------
(***************************************************************************)
(* internal/stats: the hourly counters that the collector keeps from the   *)
(* events of the bus, and how they are saved and loaded.                   *)
(*                                                                         *)
(* The counters of a channel and of a distance bin are maps that a bucket  *)
(* points to.  The copy that save makes under the lock shares them with    *)
(* the bucket, so the write that follows may see counts made after it (or  *)
(* the runtime ends the process: RestartStats).  Each map is one counter   *)
(* here, "channels" and "distance", the sum of its values.                 *)
(***************************************************************************)
EXTENDS Naturals

CONSTANTS
    Kinds,              \* the events that occur
    RetentionHours,     \* s.retentionDays, in hours; 0 keeps everything
    MaxHeard,           \* bound on the events
    MaxHour             \* bound on the clock

Hours == 1 .. MaxHour
Shared == {"channels", "distance"}
Counters == {"dm", "dm_ack", "public", "telemetry", "position", "errors", "total"} \cup Shared

\* What RecordPacket and RecordDMAck count for each event, and whether the
\* collector calls RecordChannel after it.
Counted ==
    [dm |-> {"dm", "total"}, public |-> {"public", "total"},
     telemetry |-> {"telemetry", "total"}, position |-> {"position", "total"},
     located |-> {"position", "total", "distance"},
     error |-> {"errors"}, delivered |-> {"dm_ack"}]
WithChannel == {"dm", "public", "delivered"}

ASSUME StatsAssumption ==
    /\ Kinds \subseteq DOMAIN Counted
    /\ {RetentionHours, MaxHeard} \subseteq Nat /\ MaxHour \in Nat \ {0}

VARIABLES
    buckets,        \* s.buckets; Empty where there is none
    statsDirty,     \* s.dirty
    rows,           \* stats_hourly, stats_channels and stats_distance
    flushing,       \* where the loop of Start is: "idle", "pruned", "writing"
    copied,         \* the copy that save is writing
    pendingChannel, \* the hour for which RecordChannel is still due, 0 if none
    heard,          \* history: events so far, by hour and counter
    eventsHeard,    \* history: how many
    saveFailed,     \* history: a save has failed and none has succeeded since
    hour            \* the clock

statsVars == <<buckets, statsDirty, rows, flushing, copied, pendingChannel, heard,
               eventsHeard, saveFailed, hour>>

Empty == [c \in Counters |-> 0]
NoBuckets == [h \in Hours |-> Empty]
Tables == [Hours -> [Counters -> 0 .. MaxHeard]]

StatsTypeOK ==
    /\ buckets \in Tables /\ rows \in Tables /\ copied \in Tables /\ heard \in Tables
    /\ statsDirty \in BOOLEAN /\ saveFailed \in BOOLEAN
    /\ flushing \in {"idle", "pruned", "writing"}
    /\ pendingChannel \in 0 .. MaxHour
    /\ eventsHeard \in 0 .. MaxHeard
    /\ hour \in Hours

StatsInit ==
    /\ buckets = NoBuckets /\ rows = NoBuckets /\ copied = NoBuckets /\ heard = NoBuckets
    /\ statsDirty = FALSE /\ saveFailed = FALSE
    /\ flushing = "idle"
    /\ pendingChannel = 0
    /\ eventsHeard = 0
    /\ hour = 1

Bump(table, h, counters) ==
    [table EXCEPT ![h] = [c \in Counters |-> @[c] + IF c \in counters THEN 1 ELSE 0]]

\* pruneExpired and loadSQLite: the hours that are within the retention.
Cutoff == IF RetentionHours = 0 \/ hour <= RetentionHours THEN 0 ELSE hour - RetentionHours
Within(table) == [h \in Hours |-> IF h < Cutoff THEN Empty ELSE table[h]]

----------------------------------------------------------------------------
\* Collector.handle up to RecordPacket or RecordDMAck.  Most events are of the
\* current hour, a packet may have been stamped in the last one.
RecordPacket(kind, h) ==
    /\ pendingChannel = 0
    /\ eventsHeard < MaxHeard
    /\ h \in {hour - 1, hour} \cap Hours
    /\ buckets' = Bump(buckets, h, Counted[kind])
    /\ heard' = Bump(heard, h, Counted[kind])
    /\ eventsHeard' = eventsHeard + 1
    /\ statsDirty' = TRUE
    /\ pendingChannel' = IF kind \in WithChannel THEN h ELSE 0
    /\ UNCHANGED <<rows, flushing, copied, saveFailed, hour>>

\* The collector's RecordChannel, a critical section of its own.
RecordChannel ==
    /\ pendingChannel # 0
    /\ buckets' = Bump(buckets, pendingChannel, {"channels"})
    /\ heard' = Bump(heard, pendingChannel, {"channels"})
    /\ statsDirty' = TRUE
    /\ pendingChannel' = 0
    /\ UNCHANGED <<rows, flushing, copied, eventsHeard, saveFailed, hour>>

----------------------------------------------------------------------------
\* A tick of the loop of Start: pruneExpired, and then save.
PruneExpired ==
    /\ flushing = "idle"
    /\ flushing' = "pruned"
    /\ buckets' = Within(buckets)
    /\ statsDirty' = (statsDirty \/ buckets' # buckets)
    /\ UNCHANGED <<rows, copied, pendingChannel, heard, eventsHeard, saveFailed, hour>>

\* save under the lock, and out of it when there is nothing to do.
CopyBuckets ==
    /\ flushing = "pruned"
    /\ flushing' = IF statsDirty THEN "writing" ELSE "idle"
    /\ copied' = IF statsDirty THEN buckets ELSE copied
    /\ statsDirty' = FALSE
    /\ UNCHANGED <<buckets, rows, pendingChannel, heard, eventsHeard, saveFailed, hour>>

\* What the writer may read of the maps `c`: one that had entries when it was
\* copied is the live one.
MayRead(c) ==
    {seen \in [Hours -> 0 .. MaxHeard] :
        \A h \in Hours :
            \/ seen[h] = copied[h][c]
            \/ copied[h][c] # 0 /\ seen[h] \in copied[h][c] .. buckets[h][c]}

\* A plausible bug: the store is marked clean once the write has succeeded.
WriteStatsClean ==
    /\ flushing = "writing"
    /\ rows' = copied
    /\ flushing' = "idle"
    /\ copied' = NoBuckets
    /\ statsDirty' = FALSE /\ saveFailed' = FALSE
    /\ UNCHANGED <<buckets, pendingChannel, heard, eventsHeard, hour>>

\* saveSQLite commits: the tables are emptied and filled again.
WriteStats ==
    /\ flushing = "writing"
    /\ \E channels \in MayRead("channels"), distance \in MayRead("distance") :
           rows' = [h \in Hours |-> [copied[h] EXCEPT !.channels = channels[h],
                                                      !.distance = distance[h]]]
    /\ flushing' = "idle"
    /\ copied' = NoBuckets
    /\ saveFailed' = FALSE
    /\ UNCHANGED <<buckets, statsDirty, pendingChannel, heard, eventsHeard, hour>>

\* Or it is rolled back, and the buckets stay clean until the next event.
WriteStatsFails ==
    /\ flushing = "writing"
    /\ flushing' = "idle"
    /\ copied' = NoBuckets
    /\ saveFailed' = TRUE
    /\ UNCHANGED <<buckets, statsDirty, rows, pendingChannel, heard, eventsHeard, hour>>

\* The process ends at any step, the flush at the end lost or not, and Load reads
\* the rows of the retention again.
RestartStats ==
    /\ buckets' = Within(rows)
    /\ statsDirty' = FALSE
    /\ flushing' = "idle"
    /\ copied' = NoBuckets
    /\ pendingChannel' = 0
    /\ saveFailed' = FALSE
    /\ UNCHANGED <<rows, heard, eventsHeard, hour>>

StatsTick ==
    /\ hour < MaxHour
    /\ hour' = hour + 1
    /\ UNCHANGED <<buckets, statsDirty, rows, flushing, copied, pendingChannel, heard,
                   eventsHeard, saveFailed>>

StatsNext ==
    \/ \E kind \in Kinds, h \in Hours : RecordPacket(kind, h)
    \/ RecordChannel \/ PruneExpired \/ CopyBuckets \/ WriteStats \/ WriteStatsFails
    \/ RestartStats \/ StatsTick

StatsSpec == StatsInit /\ [][StatsNext]_statsVars

----------------------------------------------------------------------------
(* Properties *)

\* Every event is counted at most once, in memory and in the tables, over saves
\* that fail, share their maps with the collector or are cut off by a restart.
NeverOvercounted ==
    \A h \in Hours, c \in Counters : buckets[h][c] <= heard[h][c] /\ rows[h][c] <= heard[h][c]

\* The sum of the kinds is the total, in every bucket and in every row.
TotalsAdd ==
    \A b \in {buckets[h] : h \in Hours} \cup {rows[h] : h \in Hours} :
        b["total"] = b["dm"] + b["public"] + b["telemetry"] + b["position"]

\* When the store is clean and its last save has not failed, the tables hold what
\* memory holds: nothing was recorded between the copy and the clean mark, and a
\* count that the shared maps let through early is not counted again later.
QuietMeansSaved ==
    flushing # "writing" /\ ~statsDirty /\ ~saveFailed =>
        \A h \in Hours : h >= Cutoff => rows[h] = buckets[h]

\* The statistics survive as they were heard.
StatsFaithful == NeverOvercounted /\ TotalsAdd /\ QuietMeansSaved
=============================================================================
