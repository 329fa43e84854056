-------------------------- MODULE WriteBehindProofs --------------------------
(***************************************************************************)
(* Proofs about the write-behind stores for any number of handlers and of  *)
(* changes.                                                                *)
(***************************************************************************)
EXTENDS WriteBehind, TLAPS

Writing(s) == At(s, "write")

\* Neither the database nor a snapshot is ahead of memory.
NothingAhead ==
    /\ memory = updates
    /\ db <= memory
    /\ \A s \in Savers : saver[s].snapshot <= memory

\* Only a failed write leads to the step that sets the flag again, and only
\* with a handler can two saves write at the same time.
HistoryIsTrue ==
    /\ \A s \in Savers : At(s, "restore") => writeFailed
    /\ overlapped => Handlers # {}

\* As long as saves do not overlap there is one writer, its snapshot is not
\* older than the database, and what it misses is still marked dirty.
OneWriter ==
    ~overlapped =>
        /\ \A s, t \in Savers : Writing(s) /\ Writing(t) => s = t
        /\ \A s \in Savers : Writing(s) => db <= saver[s].snapshot
        /\ \A s \in Savers : Writing(s) => dirty \/ saver[s].snapshot = memory

\* The inductive invariant.
IInv == TypeOK /\ NothingAhead /\ HistoryIsTrue /\ OneWriter /\ NothingForgotten

\* The stores start with nothing to save.
LEMMA InitIInv == Init => IInv
<1> SUFFICES ASSUME Init PROVE IInv
  OBVIOUS
<1>1. /\ 0 \in Versions /\ "idle" \in SaverSteps
      /\ \A s \in Savers : saver[s] = [step |-> "idle", snapshot |-> 0]
  BY WriteBehindAssumption DEF Init, Versions, SaverSteps
<1>2. TypeOK
  BY <1>1 DEF Init, TypeOK
<1>3. NothingAhead /\ HistoryIsTrue /\ OneWriter /\ NothingForgotten
  BY <1>1 DEF Init, NothingAhead, HistoryIsTrue, OneWriter, NothingForgotten, Writing, At
<1> QED
  BY <1>2, <1>3 DEF IInv

\* A change to memory sets the flag, which keeps every part of the invariant;
\* the step that goes with it moves a saver nowhere near a write.
LEMMA ChangeKeepsIInv ==
    ASSUME IInv, Change \/ UNCHANGED storeVars,
           UNCHANGED <<store, db, last, overlapped, writeFailed>>,
           saver' \in [Savers -> [step : SaverSteps, snapshot : Versions]],
           \A s \in Savers : /\ saver'[s].snapshot = saver[s].snapshot
                             /\ At(s, "write")' = At(s, "write")
                             /\ At(s, "restore")' = At(s, "restore")
    PROVE  IInv'
<1>1. /\ memory' \in Versions /\ updates' \in Versions /\ dirty' \in BOOLEAN
      /\ memory' = updates' /\ memory <= memory'
      /\ dirty' \/ (dirty' = dirty /\ memory' = memory)
  <2>1. memory \in Nat /\ dirty \in BOOLEAN /\ memory = updates /\ updates \in Versions
    BY DEF IInv, TypeOK, NothingAhead, Versions
  <2>2. CASE Change
    BY <2>1, <2>2, WriteBehindAssumption DEF Change, Versions
  <2>3. CASE UNCHANGED storeVars
    <3>1. memory' = memory /\ updates' = updates /\ dirty' = dirty
      BY <2>3 DEF storeVars
    <3> QED
      BY <2>1, <3>1
  <2> QED
    BY <2>2, <2>3
<1>2. TypeOK'
  BY <1>1 DEF IInv, TypeOK
<1>3. NothingAhead'
  BY <1>1 DEF IInv, TypeOK, NothingAhead, Versions
<1>4. HistoryIsTrue'
  BY DEF IInv, HistoryIsTrue
<1>5. OneWriter'
  BY <1>1 DEF IInv, OneWriter, Writing
<1>6. NothingForgotten'
  BY <1>1 DEF IInv, NothingForgotten, Orderly, Restores
<1> QED
  BY <1>2, <1>3, <1>4, <1>5, <1>6 DEF IInv

\* What a save does to the step of its saver.
LEMMA SaverMoves ==
    ASSUME TypeOK, NEW s \in Savers, NEW step \in SaverSteps, Goto(s, step)
    PROVE  /\ saver' \in [Savers -> [step : SaverSteps, snapshot : Versions]]
           /\ saver'[s].step = step
           /\ \A t \in Savers : saver'[t].snapshot = saver[t].snapshot
           /\ \A t \in Savers \ {s} : saver'[t] = saver[t]
BY DEF TypeOK, Goto

\* A save keeps the invariant, whoever makes it and whatever becomes of it.
LEMMA SaveKeepsIInv ==
    ASSUME IInv, NEW s \in Savers, Save(s)
    PROVE  IInv'
<1> USE DEF IInv
<1>0. AfterSave(s) \in SaverSteps \ {"write", "restore"}
  BY DEF AfterSave, SaverSteps
<1>1. CASE SaveNothing(s)
  <2>1. Goto(s, AfterSave(s)) /\ At(s, "save") /\ ~dirty
    BY <1>1 DEF SaveNothing
  <2>2. \A t \in Savers : /\ At(t, "write")' = At(t, "write")
                          /\ At(t, "restore")' = At(t, "restore")
    BY <1>0, <2>1, SaverMoves DEF At
  <2> QED
    BY <1>0, <1>1, <2>1, <2>2, SaverMoves, ChangeKeepsIInv DEF SaveNothing, storeVars, historyVars
<1>2. CASE TakeSnapshot(s)
  <2>1. /\ saver' \in [Savers -> [step : SaverSteps, snapshot : Versions]]
        /\ saver'[s] = [step |-> "write", snapshot |-> memory]
        /\ \A t \in Savers \ {s} : saver'[t] = saver[t]
    BY <1>2 DEF TakeSnapshot, TypeOK, SaverSteps
  <2>2. TypeOK'
    BY <1>2, <2>1 DEF TakeSnapshot, TypeOK
  <2>3. NothingAhead'
    BY <1>2, <2>1 DEF TakeSnapshot, TypeOK, NothingAhead, Versions
  <2>4. HistoryIsTrue'
    <3>1. ASSUME Handlers = {} PROVE ~overlapped'
      <4>1. \A t \in Savers : t = s
        BY <3>1 DEF Savers
      <4> QED
        BY <1>2, <3>1, <4>1 DEF TakeSnapshot, HistoryIsTrue, At
    <3> QED
      BY <1>2, <2>1, <3>1 DEF TakeSnapshot, HistoryIsTrue, At
  <2>5. OneWriter'
    <3> SUFFICES ASSUME ~overlapped' PROVE OneWriter'
      BY DEF OneWriter
    <3>1. \A t \in Savers : Writing(t)' => t = s
      BY <1>2, <2>1 DEF TakeSnapshot, Writing, At
    <3> QED
      BY <1>2, <2>1, <3>1 DEF TakeSnapshot, OneWriter, NothingAhead
  <2>6. NothingForgotten'
    BY <1>2, <2>1 DEF TakeSnapshot, NothingForgotten, At
  <2> QED
    BY <2>2, <2>3, <2>4, <2>5, <2>6
<1>3. CASE WriteSucceeds(s)
  <2>1. Goto(s, AfterSave(s)) /\ Writing(s) /\ db' = saver[s].snapshot
    BY <1>3 DEF WriteSucceeds, Writing
  <2>2. /\ \A t \in Savers : At(t, "restore")' = At(t, "restore")
        /\ ~Writing(s)'
        /\ \A t \in Savers \ {s} : Writing(t)' = Writing(t)
    BY <1>0, <2>1, SaverMoves DEF At, Writing
  <2>3. TypeOK'
    BY <1>0, <1>3, <2>1, SaverMoves DEF WriteSucceeds, TypeOK, storeVars, historyVars
  <2>4. NothingAhead'
    BY <1>0, <1>3, <2>1, SaverMoves DEF WriteSucceeds, NothingAhead, storeVars
  <2>5. HistoryIsTrue'
    BY <1>3, <2>2 DEF WriteSucceeds, HistoryIsTrue, historyVars
  <2>6. OneWriter'
    BY <1>3, <2>1, <2>2 DEF WriteSucceeds, OneWriter, historyVars
  <2>7. NothingForgotten'
    <3> SUFFICES ASSUME Orderly', memory' # db' PROVE dirty'
      BY DEF NothingForgotten
    <3> QED
      BY <1>3, <2>1 DEF WriteSucceeds, OneWriter, Orderly, Restores, storeVars, historyVars
  <2> QED
    BY <2>3, <2>4, <2>5, <2>6, <2>7
<1>4. CASE WriteFails(s)
  <2>1. Goto(s, "restore") /\ "restore" \in SaverSteps
    BY <1>4 DEF WriteFails, SaverSteps
  <2>2. /\ At(s, "restore")'
        /\ \A t \in Savers : Writing(t)' => Writing(t)
    BY <2>1, SaverMoves DEF At, Writing
  <2>3. TypeOK'
    BY <1>4, <2>1, SaverMoves DEF WriteFails, TypeOK, storeVars
  <2>4. NothingAhead'
    BY <1>4, <2>1, SaverMoves DEF WriteFails, NothingAhead, storeVars
  <2>5. HistoryIsTrue' /\ NothingForgotten'
    BY <1>4, <2>2 DEF WriteFails, HistoryIsTrue, NothingForgotten
  <2>6. OneWriter'
    BY <1>4, <2>1, <2>2, SaverMoves DEF WriteFails, OneWriter, storeVars
  <2> QED
    BY <2>3, <2>4, <2>5, <2>6
<1>5. CASE SaveReturns(s)
  <2>1. Goto(s, AfterSave(s)) /\ At(s, "restore") /\ dirty' = (dirty \/ Restores)
    BY <1>5 DEF SaveReturns
  <2>2. /\ \A t \in Savers : At(t, "restore")' => At(t, "restore")
        /\ \A t \in Savers : Writing(t)' = Writing(t)
    BY <1>0, <2>1, SaverMoves DEF At, Writing
  <2>3. TypeOK'
    BY <1>0, <1>5, <2>1, SaverMoves DEF SaveReturns, TypeOK, Restores, historyVars
  <2>4. NothingAhead'
    BY <1>0, <1>5, <2>1, SaverMoves DEF SaveReturns, NothingAhead
  <2>5. HistoryIsTrue'
    BY <1>5, <2>2 DEF SaveReturns, HistoryIsTrue, historyVars
  <2>6. OneWriter'
    BY <1>0, <1>5, <2>1, <2>2, SaverMoves DEF SaveReturns, OneWriter, historyVars
  <2>7. NothingForgotten'
    <3> SUFFICES ASSUME Orderly' PROVE dirty'
      BY DEF NothingForgotten
    <3> QED
      BY <1>5, <2>1 DEF SaveReturns, Orderly, HistoryIsTrue, Restores, historyVars
  <2> QED
    BY <2>3, <2>4, <2>5, <2>6, <2>7
<1> QED
  BY <1>1, <1>2, <1>3, <1>4, <1>5 DEF Save

\* Every step keeps the invariant.
LEMMA NextKeepsIInv == IInv /\ [Next]_vars => IInv'
<1> SUFFICES ASSUME IInv, [Next]_vars PROVE IInv'
  OBVIOUS
<1>0. saver \in [Savers -> [step : SaverSteps, snapshot : Versions]]
  BY DEF IInv, TypeOK
<1>1. CASE Record
  <2>1. saver' = saver
    BY <1>1 DEF Record
  <2> QED
    BY <1>0, <1>1, <2>1, ChangeKeepsIInv DEF Record, historyVars, At
<1>2. ASSUME NEW h \in Handlers, HandlerUpdates(h) PROVE IInv'
  <2>1. h \in Savers /\ "save" \in SaverSteps /\ Goto(h, "save") /\ At(h, "idle")
    BY <1>2 DEF HandlerUpdates, Savers, SaverSteps
  <2>2. \A t \in Savers : /\ At(t, "write")' = At(t, "write")
                          /\ At(t, "restore")' = At(t, "restore")
    BY <2>1, SaverMoves DEF At, IInv
  <2> QED
    BY <1>2, <2>1, <2>2, SaverMoves, ChangeKeepsIInv DEF HandlerUpdates, historyVars, IInv
<1>3. CASE Tick
  <2>1. Flusher \in Savers /\ "save" \in SaverSteps /\ Goto(Flusher, "save") /\ At(Flusher, "idle")
    BY <1>3 DEF Tick, Savers, SaverSteps
  <2>2. \A t \in Savers : /\ At(t, "write")' = At(t, "write")
                          /\ At(t, "restore")' = At(t, "restore")
    BY <2>1, SaverMoves DEF At, IInv
  <2>3. TypeOK' /\ NothingAhead'
    BY <1>3, <2>1, SaverMoves DEF Tick, TypeOK, NothingAhead, IInv, storeVars, historyVars
  <2>4. HistoryIsTrue' /\ OneWriter' /\ NothingForgotten'
    BY <1>3, <2>1, <2>2, SaverMoves
    DEF Tick, HistoryIsTrue, OneWriter, NothingForgotten, Writing, IInv,
        Orderly, Restores, storeVars, historyVars
  <2> QED
    BY <2>3, <2>4 DEF IInv
<1>4. ASSUME NEW s \in Savers, Save(s) PROVE IInv'
  BY <1>4, SaveKeepsIInv
<1>5. CASE UNCHANGED vars
  BY <1>5 DEF vars, storeVars, historyVars, IInv, TypeOK, NothingAhead, HistoryIsTrue,
              OneWriter, NothingForgotten, Writing, At, Orderly, Restores
<1> QED
  BY <1>1, <1>2, <1>3, <1>4, <1>5 DEF Next

\* The invariant holds in every reachable state.
THEOREM Invariance == Spec => []IInv
<1>1. Init => IInv
  BY InitIInv
<1>2. IInv /\ [Next]_vars => IInv'
  BY NextKeepsIInv
<1> QED
  BY <1>1, <1>2, PTL DEF Spec

\* The state of a store is always well typed.
THEOREM TypeCorrect == Spec => []TypeOK
<1>1. IInv => TypeOK
  BY DEF IInv
<1> QED
  BY <1>1, Invariance, PTL

\* As long as no two saves overlap, and the store sets its flag again or no
\* write fails, a change that is not yet in SQLite is on its way there.
THEOREM ChangesAreNotForgotten == Spec => []NothingForgotten
<1>1. IInv => NothingForgotten
  BY DEF IInv
<1> QED
  BY <1>1, Invariance, PTL

\* A store that is saved by its flush loop alone has no overlapping saves, so
\* what ChangesAreNotForgotten asks for is always given.
THEOREM LoopAloneNeverOverlaps ==
    ASSUME Handlers = {}
    PROVE  Spec => []~overlapped
<1>1. IInv => ~overlapped
  BY DEF IInv, HistoryIsTrue
<1> QED
  BY <1>1, Invariance, PTL

\* As long as no two saves overlap SQLite never goes back to older data.
THEOREM NoRevert == Spec => DatabaseNeverReverts
<1>1. IInv /\ [Next]_vars => [~overlapped => db' >= db]_vars
  <2> SUFFICES ASSUME IInv, Next, ~overlapped PROVE db' >= db
    OBVIOUS
  <2>0. db \in Nat
    BY DEF IInv, TypeOK, Versions
  <2>1. ASSUME NEW s \in Savers, WriteSucceeds(s) PROVE db' >= db
    BY <2>0, <2>1 DEF WriteSucceeds, IInv, OneWriter, Writing, TypeOK, Versions
  <2>2. CASE ~ \E s \in Savers : WriteSucceeds(s)
    <3>1. db' = db
      BY <2>2 DEF Next, Record, HandlerUpdates, Tick, Save, SaveNothing, TakeSnapshot,
                  WriteFails, SaveReturns
    <3> QED
      BY <2>0, <3>1
  <2> QED
    BY <2>1, <2>2
<1> QED
  BY <1>1, Invariance, PTL DEF Spec, DatabaseNeverReverts
=============================================================================
