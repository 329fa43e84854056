----------------------------- MODULE WriteBehind -----------------------------
(***************************************************************************)
(* The write-behind stores station.Identity, chatstatus, channelshow and   *)
(* dmstats: each keeps its data in memory under a mutex and saves all of   *)
(* it to SQLite from a flush loop.  A save copies the data and clears the  *)
(* dirty flag under the mutex, writes outside it, and, when the write      *)
(* fails, takes the mutex again to set the flag: three steps, with         *)
(* everybody else in between.                                              *)
(*                                                                         *)
(* The variable `store` says which of them the behaviour is of: dmstats    *)
(* does not set the flag again, and identity and chatstatus are saved by   *)
(* HTTP handlers too.  The data is the number of the last change in it.    *)
(***************************************************************************)
EXTENDS Naturals

CONSTANTS
    Flusher,        \* the goroutine of Start
    Handlers,       \* requests that change the store and then save it
    MaxUpdates      \* bound on the changes of a behaviour

ASSUME WriteBehindAssumption == Flusher \notin Handlers /\ MaxUpdates \in Nat

VARIABLES
    store,          \* the store this behaviour is of
    updates,        \* how many changes have been made
    memory,         \* the data in memory
    dirty,          \* the dirty flag
    db,             \* the data in SQLite
    saver,          \* each goroutine that saves
    last,           \* Start has seen its context end
    overlapped,     \* history: a save began while another one was writing
    writeFailed     \* history: a write has failed

storeVars == <<updates, memory, dirty>>
historyVars == <<overlapped, writeFailed>>
vars == <<store, storeVars, db, saver, last, historyVars>>

Savers == Handlers \cup {Flusher}
Versions == 0 .. MaxUpdates

Stores == {"identity", "chatstatus", "channelshow", "dmstats"}

\* The stores that set the flag again after a failed write, those that a
\* handler saves, and those that are changed without being saved at once.
Restores == store # "dmstats"
SavedByHandlers == store \in {"identity", "chatstatus"}
LeftToTheLoop == store # "identity"

SaverSteps == {"idle", "save", "write", "restore", "stopped"}

TypeOK ==
    /\ store \in Stores
    /\ updates \in Versions
    /\ memory \in Versions
    /\ dirty \in BOOLEAN
    /\ db \in Versions
    /\ saver \in [Savers -> [step : SaverSteps, snapshot : Versions]]
    /\ last \in BOOLEAN
    /\ overlapped \in BOOLEAN
    /\ writeFailed \in BOOLEAN

Init ==
    /\ store \in Stores
    /\ updates = 0 /\ memory = 0 /\ db = 0
    /\ dirty = FALSE
    /\ saver = [s \in Savers |-> [step |-> "idle", snapshot |-> 0]]
    /\ last = FALSE
    /\ overlapped = FALSE /\ writeFailed = FALSE

At(s, step) == saver[s].step = step
Goto(s, step) == saver' = [saver EXCEPT ![s].step = step]

\* Where a saver goes when its save has returned.
AfterSave(s) == IF s = Flusher /\ ~last THEN "idle" ELSE "stopped"

----------------------------------------------------------------------------
(***************************************************************************)
(* Plausible bugs, each to be compared with the definition it would spoil; *)
(* none is part of Next.                                                   *)
(***************************************************************************)
\* The counter of changes is read after the next one.
Change_Ahead ==
    /\ updates < MaxUpdates
    /\ updates' = updates + 1
    /\ memory' = updates + 2
    /\ dirty' = TRUE

\* The flag is cleared when the write has succeeded, not with the snapshot.
WriteSucceeds_ClearsFlag(s) ==
    /\ At(s, "write")
    /\ db' = saver[s].snapshot
    /\ dirty' = FALSE
    /\ Goto(s, AfterSave(s))
    /\ UNCHANGED <<store, updates, memory, last, historyVars>>

\* The transaction that has deleted the old rows is not rolled back.
WriteFails_NoRollback(s) ==
    /\ At(s, "write")
    /\ writeFailed' = TRUE
    /\ db' = 0
    /\ Goto(s, "restore")
    /\ UNCHANGED <<store, storeVars, last, overlapped>>

\* No store sets the flag again.
SaveReturns_Forgets(s) ==
    /\ At(s, "restore")
    /\ Goto(s, AfterSave(s))
    /\ UNCHANGED <<store, storeVars, db, last, historyVars>>

----------------------------------------------------------------------------
Change ==
    /\ updates < MaxUpdates
    /\ updates' = updates + 1
    /\ memory' = updates + 1
    /\ dirty' = TRUE

\* A change by somebody who leaves saving to the flush loop: a text sent or
\* acknowledged, a list of channels, a conversation read.
Record ==
    /\ LeftToTheLoop
    /\ Change
    /\ UNCHANGED <<store, db, saver, last, historyVars>>

\* A handler changes the store, or finds its value there already, and goes on
\* to call SaveIfDirty.
HandlerUpdates(h) ==
    /\ SavedByHandlers /\ At(h, "idle")
    /\ Change \/ UNCHANGED storeVars
    /\ Goto(h, "save")
    /\ UNCHANGED <<store, db, last, historyVars>>

\* The loop of Start: a tick, or the end of the context and the last save.
Tick ==
    /\ At(Flusher, "idle")
    /\ Goto(Flusher, "save")
    /\ last' \in BOOLEAN
    /\ UNCHANGED <<store, storeVars, db, historyVars>>

\* SaveIfDirty under the mutex, nothing to save.
SaveNothing(s) ==
    /\ At(s, "save") /\ ~dirty
    /\ Goto(s, AfterSave(s))
    /\ UNCHANGED <<store, storeVars, db, last, historyVars>>

\* SaveIfDirty under the mutex: the copy is taken and the flag cleared.
TakeSnapshot(s) ==
    /\ At(s, "save") /\ dirty
    /\ dirty' = FALSE
    /\ saver' = [saver EXCEPT ![s] = [step |-> "write", snapshot |-> memory]]
    /\ overlapped' = (overlapped \/ \E other \in Savers : At(other, "write"))
    /\ UNCHANGED <<store, updates, memory, db, last, writeFailed>>

\* The transaction commits.
WriteSucceeds(s) ==
    /\ At(s, "write")
    /\ db' = saver[s].snapshot
    /\ Goto(s, AfterSave(s))
    /\ UNCHANGED <<store, storeVars, last, historyVars>>

\* The transaction fails and is rolled back.
WriteFails(s) ==
    /\ At(s, "write")
    /\ writeFailed' = TRUE
    /\ Goto(s, "restore")
    /\ UNCHANGED <<store, storeVars, db, last, overlapped>>

\* The save returns the error, setting dirty again where the store does so.
SaveReturns(s) ==
    /\ At(s, "restore")
    /\ dirty' = (dirty \/ Restores)
    /\ Goto(s, AfterSave(s))
    /\ UNCHANGED <<store, updates, memory, db, last, historyVars>>

Save(s) ==
    \/ SaveNothing(s)
    \/ TakeSnapshot(s)
    \/ WriteSucceeds(s)
    \/ WriteFails(s)
    \/ SaveReturns(s)

Next ==
    \/ Record
    \/ \E h \in Handlers : HandlerUpdates(h)
    \/ Tick
    \/ \E s \in Savers : Save(s)

Spec == Init /\ [][Next]_vars

\* The ticker ticks, savers run, and a database that is tried again and again
\* in the end accepts a write.
FairSpec ==
    /\ Spec
    /\ WF_vars(Tick)
    /\ \A s \in Savers : WF_vars(Save(s)) /\ SF_vars(WriteSucceeds(s))

----------------------------------------------------------------------------
\* Where two saves never wrote at the same time, and the store sets the flag
\* again or no write failed.
Orderly == ~overlapped /\ (Restores \/ ~writeFailed)

\* A change that is not in the database is not forgotten: the flag is set, or
\* a saver is about to write it or to set the flag.
NothingForgotten ==
    Orderly /\ memory # db =>
        \/ dirty
        \/ \E s \in Savers : At(s, "write") /\ saver[s].snapshot = memory
        \/ \E s \in Savers : At(s, "restore")

\* The database never goes back to older data, a failed write included.
DatabaseNeverReverts == [][~overlapped => db' >= db]_vars

\* What was changed reaches the database, unless the loop has ended.
EventuallySaved == \A v \in Versions : (memory >= v /\ Orderly) ~> (db >= v \/ last \/ ~Orderly)

\* docs/backend.md: the update of the callsign is "persisted in SQLite": once
\* nobody is saving and nothing is dirty, the database has what memory has.
QuietMeansPersisted ==
    /\ store = "identity" /\ ~writeFailed /\ ~dirty
    /\ \A s \in Savers : saver[s].step \in {"idle", "stopped"}
    => db = memory
=============================================================================
