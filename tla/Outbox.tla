------------------------------- MODULE Outbox -------------------------------
(***************************************************************************)
(* internal/outbox/outbox.go: the messages handed to the node and not yet  *)
(* confirmed by an echo.  Every operation runs under Outbox.mu, so it is   *)
(* one action; what is not under the mutex is the runtime that fires a     *)
(* timer and starts the goroutine that calls expire, and the onFailure     *)
(* callback that expire makes after it has released the mutex.             *)
(*                                                                         *)
(* An id is the value of the counter nextID that the code puts in it, so   *)
(* nextID is Len(sent).  The map o.pending is the set `pending`: the       *)
(* PendingMessage stored under an id never changes and is sent[id].        *)
(***************************************************************************)
EXTENDS Messages, Sequences, Functions

CONSTANTS
    TTL,            \* o.ttl; main.go passes 5 seconds, 0 disables the timers
    MaxSends        \* bound on nextID

ASSUME OutboxAssumption == TTL \in Nat /\ MaxSends \in Nat

VARIABLES
    sent,       \* sent[id]: the PendingMessage Register built under id
    pending,    \* the ids in o.pending
    byKey,      \* o.byKey; << >> is an absent key
    timers,     \* the ids in o.timers
    timer,      \* the runtime's view of the AfterFunc timer of each id
    calling,    \* the ids for which onFailure is being called
    outcome     \* history: the verdict each message has received

vars == <<sent, pending, byKey, timers, timer, calling, outcome>>

Ids == 1 .. MaxSends

TimerStates == {"none", "armed", "fired", "over"}

TypeOK ==
    /\ sent \in Seq(Requests)
    /\ Len(sent) \in 0 .. MaxSends
    /\ pending \in SUBSET (1 .. Len(sent))
    /\ byKey \in [Keys -> Seq(Ids)]
    /\ timers \in SUBSET Ids
    /\ timer \in [Ids -> TimerStates]
    /\ calling \in SUBSET Ids
    /\ outcome \in [Ids -> {"unsent", "pending", "delivered", "cancelled", "failed"}]

Init ==
    /\ sent = << >>
    /\ pending = {}
    /\ byKey = [key \in Keys |-> << >>]
    /\ timers = {}
    /\ timer = [id \in Ids |-> "none"]
    /\ calling = {}
    /\ outcome = [id \in Ids |-> "unsent"]

----------------------------------------------------------------------------
(***************************************************************************)
(* Plausible bugs, each standing beside the operation it would spoil; none *)
(* is part of Next.                                                        *)
(***************************************************************************)
\* The id is built before the counter is incremented.
Register_StaleCounter(key, at) ==
    /\ Len(sent) < MaxSends
    /\ sent' = Append(sent, [key |-> key, at |-> at])
    /\ pending' = pending \cup {Len(sent)}
    /\ byKey' = [byKey EXCEPT ![key] = Append(@, Len(sent))]
    /\ UNCHANGED <<timers, timer, calling, outcome>>

\* A second message with the same key shares the timer of the first.
Register_SharedTimer(key, at) ==
    LET id == Len(sent) + 1
    IN  /\ id <= MaxSends
        /\ sent' = Append(sent, [key |-> key, at |-> at])
        /\ pending' = pending \cup {id}
        /\ byKey' = [byKey EXCEPT ![key] = Append(@, id)]
        /\ timers' = timers \cup {id}
        /\ timer' = IF byKey[key] = << >> THEN [timer EXCEPT ![id] = "armed"] ELSE timer
        /\ outcome' = [outcome EXCEPT ![id] = "pending"]
        /\ UNCHANGED calling

\* The timer is unfiled but not stopped.
StopTimer_Running(id) ==
    /\ timers' = timers \ {id}
    /\ UNCHANGED timer

\* The id stays in the list of its key.
RemoveLocked_KeepsIndex(id, idx) ==
    /\ pending' = pending \ {id}
    /\ timers' = timers \ {id}
    /\ timer' = IF timer[id] = "armed" THEN [timer EXCEPT ![id] = "over"] ELSE timer
    /\ byKey' = idx

\* expire does not look whether the message is still pending.
ExpireLate_Unchecked(id) ==
    /\ timer[id] = "fired"
    /\ timer' = [timer EXCEPT ![id] = "over"]
    /\ pending' = pending \ {id}
    /\ timers' = timers \ {id}
    /\ calling' = calling \cup {id}
    /\ outcome' = [outcome EXCEPT ![id] = "failed"]
    /\ UNCHANGED <<sent, byKey>>

----------------------------------------------------------------------------
\* append(ids[:i], ids[i+1:]...) for the first i that holds target.
removeID(ids, target) ==
    IF \E i \in DOMAIN ids : ids[i] = target
    THEN LET i == CHOOSE i \in DOMAIN ids :
                     ids[i] = target /\ \A j \in 1 .. (i - 1) : ids[j] # target
         IN  [j \in 1 .. (Len(ids) - 1) |-> IF j < i THEN ids[j] ELSE ids[j + 1]]
    ELSE ids

\* delete(o.timers, id) after timer.Stop(): a timer that has fired is not
\* stopped, its goroutine is already on its way to expire.
StopTimer(id) ==
    /\ timers' = timers \ {id}
    /\ timer' = IF id \in timers /\ timer[id] = "armed"
                THEN [timer EXCEPT ![id] = "over"]
                ELSE timer

Register(key, at) ==
    LET id == Len(sent) + 1
    IN  /\ id <= MaxSends
        /\ sent' = Append(sent, [key |-> key, at |-> at])
        /\ pending' = pending \cup {id}
        /\ byKey' = [byKey EXCEPT ![key] = Append(@, id)]
        /\ IF TTL > 0
           THEN /\ timers' = timers \cup {id}
                /\ timer' = [timer EXCEPT ![id] = "armed"]
           ELSE UNCHANGED <<timers, timer>>
        /\ outcome' = [outcome EXCEPT ![id] = "pending"]
        /\ UNCHANGED calling

\* Confirm, the loop over byKey[key]: the first id that is still pending.
ConfirmExact(key) ==
    \E i \in DOMAIN byKey[key] :
        LET id == byKey[key][i]
        IN  /\ id \in pending
            /\ \A j \in 1 .. (i - 1) : byKey[key][j] \notin pending
            /\ pending' = pending \ {id}
            /\ StopTimer(id)
            /\ byKey' = [byKey EXCEPT ![key] = SubSeq(@, i + 1, Len(@))]
            /\ outcome' = [outcome EXCEPT ![id] = "delivered"]
            /\ UNCHANGED <<sent, calling>>

NoExact(key) == \A i \in DOMAIN byKey[key] : byKey[key][i] \notin pending

Candidates(key) == {id \in pending : Matches(sent[id], key)}

\* o.removeLocked, on the index idx.
RemoveLocked(id, idx) ==
    /\ pending' = pending \ {id}
    /\ StopTimer(id)
    /\ byKey' = [idx EXCEPT ![sent[id].key] = removeID(@, id)]

\* Confirm, the scan of o.pending.  The map is iterated in any order, so of
\* several candidates with the least CreatedAt any may be the one kept.
ConfirmScan(key) ==
    /\ NoExact(key)
    /\ \E id \in Candidates(key) :
        /\ \A other \in Candidates(key) : sent[id].at <= sent[other].at
        /\ RemoveLocked(id, [byKey EXCEPT ![key] = << >>])
        /\ outcome' = [outcome EXCEPT ![id] = "delivered"]
    /\ UNCHANGED <<sent, calling>>

\* Confirm returns false; it has still dropped the index entry of the key.
ConfirmNone(key) ==
    /\ NoExact(key)
    /\ Candidates(key) = {}
    /\ byKey' = [byKey EXCEPT ![key] = << >>]
    /\ UNCHANGED <<sent, pending, timers, timer, calling, outcome>>

Confirm(key) == ConfirmExact(key) \/ ConfirmScan(key) \/ ConfirmNone(key)

\* Cancel returns true.  When the id is not pending it returns false and
\* changes nothing.
Cancel(id) ==
    /\ id \in pending
    /\ RemoveLocked(id, byKey)
    /\ outcome' = [outcome EXCEPT ![id] = "cancelled"]
    /\ UNCHANGED <<sent, calling>>

\* The ttl elapses: the runtime starts the goroutine that calls expire.
Fire(id) ==
    /\ timer[id] = "armed"
    /\ timer' = [timer EXCEPT ![id] = "fired"]
    /\ UNCHANGED <<sent, pending, byKey, timers, calling, outcome>>

\* expire, when the message was confirmed or cancelled before it got the lock.
ExpireLate(id) ==
    /\ timer[id] = "fired"
    /\ id \notin pending
    /\ timer' = [timer EXCEPT ![id] = "over"]
    /\ UNCHANGED <<sent, pending, byKey, timers, calling, outcome>>

\* expire, when the message is still pending; it goes on to call onFailure.
Expire(id) ==
    /\ timer[id] = "fired"
    /\ id \in pending
    /\ timer' = [timer EXCEPT ![id] = "over"]
    /\ pending' = pending \ {id}
    /\ timers' = timers \ {id}
    /\ byKey' = [byKey EXCEPT ![sent[id].key] = removeID(@, id)]
    /\ calling' = calling \cup {id}
    /\ outcome' = [outcome EXCEPT ![id] = "failed"]
    /\ UNCHANGED sent

\* onFailure returns.
FailureReported(id) ==
    /\ id \in calling
    /\ calling' = calling \ {id}
    /\ UNCHANGED <<sent, pending, byKey, timers, timer, outcome>>

Next ==
    \/ \E key \in Keys, at \in Times : Register(key, at)
    \/ \E key \in Keys : Confirm(key)
    \/ \E id \in Ids : Cancel(id)
    \/ \E id \in Ids : Fire(id)
    \/ \E id \in Ids : ExpireLate(id)
    \/ \E id \in Ids : Expire(id)
    \/ \E id \in Ids : FailureReported(id)

\* Timers fire when their time has come, goroutines run and callbacks return.
Fairness ==
    \A id \in Ids :
        /\ WF_vars(Fire(id))
        /\ WF_vars(ExpireLate(id) \/ Expire(id))
        /\ WF_vars(FailureReported(id))

Spec == Init /\ [][Next]_vars

FairSpec == Spec /\ Fairness

----------------------------------------------------------------------------
Increasing(ids) == \A i, j \in DOMAIN ids : i < j => ids[i] < ids[j]

\* The index is exact: the ids filed under a key are the pending messages with
\* that key, each once, earliest registration first.  Confirm relies on it to
\* credit an echo to the oldest message (the tests only look at two messages),
\* and a stale or lost id would never be collected.
IndexExact ==
    \A key \in Keys :
        /\ Range(byKey[key]) = {id \in pending : sent[id].key = key}
        /\ Increasing(byKey[key])

\* While a message is pending its timer is filed and will still run or is
\* running, so that nothing can be pending forever; once it is resolved no
\* timer is filed.  An expire already under way when Confirm or Cancel stopped
\* the timer is harmless.
TimerGuards ==
    /\ timers = IF TTL > 0 THEN pending ELSE {}
    /\ \A id \in timers : timer[id] \in {"armed", "fired"}
    /\ \A id \in Ids \ timers : timer[id] # "armed"

\* The verdict the callers see is the state of the map: a message without a
\* verdict is in o.pending, and onFailure only ever runs for a failed one.
VerdictsAgree ==
    /\ \A id \in Ids : outcome[id] = "unsent" <=> id > Len(sent)
    /\ \A id \in Ids : outcome[id] = "pending" <=> id \in pending
    /\ \A id \in calling : outcome[id] = "failed"

\* The outbox implements Delivery: one verdict per message and echoes
\* credited to the right message, whatever the index and the timers do.
D == INSTANCE Delivery WITH sent <- sent, outcome <- outcome
Implements == D!Spec

\* With timers on, every registered message gets a verdict.
EveryMessageResolved ==
    TTL > 0 => \A id \in Ids : (outcome[id] = "pending") ~> (outcome[id] \in D!Verdicts)
=============================================================================
