------------------------------ MODULE Delivery ------------------------------
(***************************************************************************)
(* What internal/outbox promises, without its index and its timers: every  *)
(* registered message gets at most one verdict, and an echo is credited to *)
(* the message it should be credited to.                                   *)
(***************************************************************************)
EXTENDS Messages, Sequences

CONSTANT MaxSends       \* bound on the messages registered in a behaviour

VARIABLES
    sent,       \* every message registered so far, in registration order
    outcome     \* the verdict each of them has received

vars == <<sent, outcome>>

Ids == 1 .. MaxSends

Verdicts == {"delivered", "cancelled", "failed"}

Open(i) == outcome[i] = "pending"

Init ==
    /\ sent = << >>
    /\ outcome = [i \in Ids |-> "unsent"]

Submit(request) ==
    /\ Len(sent) < MaxSends
    /\ sent' = Append(sent, request)
    /\ outcome' = [outcome EXCEPT ![Len(sent) + 1] = "pending"]

GiveVerdict(i, verdict) ==
    /\ Open(i)
    /\ outcome' = [outcome EXCEPT ![i] = verdict]
    /\ UNCHANGED sent

\* The earliest registered open message with exactly the key of the echo.
Exact(i, key) ==
    /\ sent[i].key = key
    /\ \A j \in Ids : Open(j) /\ sent[j].key = key => i <= j

\* Failing that, an open message the echo matches but for its marker, and of
\* those one with the least CreatedAt.
Loose(i, key) ==
    /\ \A j \in Ids : Open(j) => sent[j].key # key
    /\ Matches(sent[i], key)
    /\ \A j \in Ids : Open(j) /\ Matches(sent[j], key) => sent[i].at <= sent[j].at

Deliver(i, key) ==
    /\ Open(i)
    /\ Exact(i, key) \/ Loose(i, key)
    /\ GiveVerdict(i, "delivered")

Next ==
    \/ \E request \in Requests : Submit(request)
    \/ \E i \in Ids, key \in Keys : Deliver(i, key)
    \/ \E i \in Ids : GiveVerdict(i, "cancelled")
    \/ \E i \in Ids : GiveVerdict(i, "failed")

Spec == Init /\ [][Next]_vars
=============================================================================
