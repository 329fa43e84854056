----------------------------- MODULE Positions -----------------------------
(***************************************************************************)
(* internal/positions/store.go: the nodes heard by the station, in memory  *)
(* and in the table nodes, and the purge of internal/storage/storage.go    *)
(* that deletes rows of it behind the back of the store.                   *)
(*                                                                         *)
(* Of a record the model keeps the four instants: `fix` of its coordinates *)
(* (and via), `first` and `seen`, and `direct` with the signal values it   *)
(* came with; 0 is no direct reception.  Signal reports are present.       *)
(***************************************************************************)
EXTENDS Naturals, Sequences, SequencesExt

CONSTANTS
    Nodes,              \* callsigns
    Paths,              \* source paths: an origin and the relays after it
    NodesRetention,     \* policy.NodesRetention
    MaxSeen             \* bound on the clock

\* meshcom.SplitSourcePath
Origin(path) == path[1]
Via(path) == Tail(path)

ASSUME PositionsAssumption ==
    /\ \A path \in Paths : path \in Seq(Nodes) /\ path # <<>>
    /\ NodesRetention \in Nat /\ MaxSeen \in Nat \ {0}

VARIABLES
    records,        \* s.records; Unknown where there is none
    dirtyNodes,     \* s.dirtyNodes, not empty exactly when s.dirty
    nodes,          \* the table; Unknown where there is no row
    saving,         \* the records that SaveIfDirty is writing, FALSE if none
    purgedNodes,    \* history: the nodes without a row since a purge
    seenAt          \* the clock

positionVars == <<records, dirtyNodes, nodes, saving, purgedNodes, seenAt>>

Unknown == [fix |-> 0, first |-> 0, seen |-> 0, direct |-> 0]
Instants == 0 .. MaxSeen
NodeRecords == [fix : Instants, first : Instants, seen : Instants, direct : Instants]
Exists(table, n) == table[n] # Unknown

NoSave == [n \in Nodes |-> Unknown]

PositionsTypeOK ==
    /\ records \in [Nodes -> NodeRecords]
    /\ dirtyNodes \in SUBSET Nodes
    /\ nodes \in [Nodes -> NodeRecords]
    /\ saving \in [Nodes -> NodeRecords]
    /\ purgedNodes \in SUBSET Nodes
    /\ seenAt \in 1 .. MaxSeen

PositionsInit ==
    /\ records = NoSave
    /\ dirtyNodes = {}
    /\ nodes = NoSave
    /\ saving = NoSave
    /\ purgedNodes = {}
    /\ seenAt = 1

----------------------------------------------------------------------------
\* A plausible bug: the node's clock, ahead of ours, is taken over.
DirectAhead(record) == [record EXCEPT !.seen = seenAt + 1, !.direct = seenAt + 1]

\* applyFreshness
Direct(record) == [record EXCEPT !.seen = seenAt, !.direct = seenAt]
Indirect(record) == [record EXCEPT !.seen = seenAt]

\* The relays of a path that are known: all that touchViaChainLocked changes.
KnownVia(path) == {n \in Range(Via(path)) : Exists(records, n)}

\* touchViaChainLocked: the last relay was heard directly, the others were not.
touchViaChainLocked(path) ==
    [n \in Nodes |->
        IF n \notin KnownVia(path) THEN records[n]
        ELSE IF n = Last(path) THEN Direct(records[n]) ELSE Indirect(records[n])]

\* The record that Update builds for the origin.
Heard(path) ==
    LET current == records[Origin(path)]
        record == [fix |-> seenAt, seen |-> seenAt, direct |-> current.direct,
                   first |-> IF current = Unknown THEN seenAt ELSE current.first]
    IN  IF Via(path) = <<>> THEN Direct(record) ELSE record

\* A plausible bug: the relays are touched without being marked dirty.
UpdateOriginOnly(path) ==
    LET origin == Origin(path)
    IN  /\ records' = [touchViaChainLocked(path) EXCEPT ![origin] = Heard(path)]
        /\ dirtyNodes' = dirtyNodes \cup {origin}
        /\ UNCHANGED <<nodes, saving, purgedNodes, seenAt>>

\* Store.Update: a position packet.  One that changes nothing is not stored.
Update(path) ==
    LET origin == Origin(path)
        touched == touchViaChainLocked(path)
    IN  /\ records' = [touched EXCEPT ![origin] = Heard(path)]
        /\ dirtyNodes' = dirtyNodes \cup KnownVia(path) \cup
               (IF Heard(path) = records[origin] THEN {} ELSE {origin})
        /\ UNCHANGED <<nodes, saving, purgedNodes, seenAt>>

\* Store.TouchFromPacket: a text or telemetry packet; it creates no record.
TouchFromPacket(path) ==
    LET origin == Origin(path)
        freshened == IF Via(path) = <<>> THEN Direct(records[origin])
                     ELSE Indirect(records[origin])
        first == IF Exists(records, origin) THEN [records EXCEPT ![origin] = freshened]
                 ELSE records
    IN  /\ records' = [n \in Nodes |->
               IF n \notin KnownVia(path) THEN first[n]
               ELSE IF n = Last(path) THEN Direct(first[n]) ELSE Indirect(first[n])]
        /\ dirtyNodes' = dirtyNodes \cup KnownVia(path) \cup
               (IF Exists(records, origin) THEN {origin} ELSE {})
        /\ UNCHANGED <<nodes, saving, purgedNodes, seenAt>>

----------------------------------------------------------------------------
\* SaveIfDirty, under the lock: the dirty records are copied.  Only the loop of
\* Start calls it, the flush at the end included.
TakeDirty ==
    /\ saving = NoSave /\ dirtyNodes # {}
    /\ saving' = [n \in Nodes |-> IF n \in dirtyNodes THEN records[n] ELSE Unknown]
    /\ dirtyNodes' = {}
    /\ UNCHANGED <<records, nodes, purgedNodes, seenAt>>

\* writeSQLite: one transaction upserts them all.
WriteNodes ==
    /\ saving # NoSave
    /\ nodes' = [n \in Nodes |-> IF Exists(saving, n) THEN saving[n] ELSE nodes[n]]
    /\ purgedNodes' = {n \in purgedNodes : ~Exists(saving, n)}
    /\ saving' = NoSave
    /\ UNCHANGED <<records, dirtyNodes, seenAt>>

\* Or it fails as a whole, and they are dirty again beside those that became so.
WriteNodesFails ==
    /\ saving # NoSave
    /\ dirtyNodes' = dirtyNodes \cup {n \in Nodes : Exists(saving, n)}
    /\ saving' = NoSave
    /\ UNCHANGED <<records, nodes, purgedNodes, seenAt>>

\* DB.Purge: the rows that have not been seen for long.  Memory keeps the records.
PurgeNodes ==
    LET old == {n \in Nodes : Exists(nodes, n) /\ nodes[n].seen + NodesRetention < seenAt}
    IN  /\ old # {}
        /\ nodes' = [n \in Nodes |-> IF n \in old THEN Unknown ELSE nodes[n]]
        /\ purgedNodes' = purgedNodes \cup old
        /\ UNCHANGED <<records, dirtyNodes, saving, seenAt>>

\* The process stops between any two steps, and Load reads the table; when it
\* fails the process does not start.
RestartPositions ==
    /\ records' = nodes
    /\ dirtyNodes' = {}
    /\ saving' = NoSave
    /\ UNCHANGED <<nodes, purgedNodes, seenAt>>

PositionTick ==
    /\ seenAt < MaxSeen
    /\ seenAt' = seenAt + 1
    /\ UNCHANGED <<records, dirtyNodes, nodes, saving, purgedNodes>>

PositionsNext ==
    \/ \E path \in Paths : Update(path) \/ TouchFromPacket(path)
    \/ TakeDirty \/ WriteNodes \/ WriteNodesFails \/ PurgeNodes \/ RestartPositions
    \/ PositionTick

PositionsSpec == PositionsInit /\ [][PositionsNext]_positionVars

----------------------------------------------------------------------------
(* Properties *)

\* No node is forgotten by the incremental save: a record that differs from its
\* row, which the purge has not deleted, is dirty or being written as it is now,
\* whatever was updated, failed or restarted in between.
PositionsNothingForgotten ==
    \A n \in Nodes :
        \/ records[n] = nodes[n]
        \/ n \in dirtyNodes
        \/ saving[n] = records[n]
        \/ n \in purgedNodes
=============================================================================
