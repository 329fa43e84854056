------------------------------ MODULE UdpLink ------------------------------
(***************************************************************************)
(* The UDP transport as a source of datagrams: Bridge.Listen               *)
(* (internal/udpbridge/bridge.go) hands every datagram to the forwarder    *)
(* (internal/udpforward/forwarder.go), whose workers write it to their     *)
(* targets, and run closes the forwarder when the transport has returned   *)
(* or has taken too long to.                                               *)
(*                                                                         *)
(* Listen takes one step for every select of Forward.  Datagrams are       *)
(* numbered in the order they are read.                                    *)
(***************************************************************************)
EXTENDS Naturals, Sequences

CONSTANTS
    NTargets,       \* the targets, 1 .. NTargets
    ChannelCap,     \* workerChannelCap
    MaxDatagrams    \* bound on the datagrams read in one life of the process

ASSUME UdpLinkAssumption ==
    NTargets \in Nat /\ ChannelCap \in Nat \ {0} /\ MaxDatagrams \in Nat

VARIABLES
    listening,      \* what Listen is doing
    datagram,       \* the last datagram read
    target, step,   \* the target whose turn it is in Forward, and the select
    ch,             \* the channel of each worker
    taken,          \* the datagram that a worker writes; 0 if none
    working,        \* the workers that have not returned
    forwarder,      \* "open", "closing" once done is closed, then "closed"
    attempted       \* history: the datagrams whose writes have ended

udpVars == <<listening, datagram, target, step, ch, taken, working, forwarder, attempted>>

Targets == 1 .. NTargets
Datagrams == 1 .. MaxDatagrams

UdpLinkTypeOK ==
    /\ listening \in {"reading", "forwarding", "processing", "returned"}
    /\ datagram \in 0 .. MaxDatagrams
    /\ target \in 1 .. NTargets + 1
    /\ step \in {"enqueue", "drop", "retry"}
    /\ ch \in [Targets -> Seq(Datagrams)]
    /\ \A t \in Targets : Len(ch[t]) <= ChannelCap
    /\ taken \in [Targets -> 0 .. MaxDatagrams]
    /\ working \subseteq Targets
    /\ forwarder \in {"open", "closing", "closed"}
    /\ attempted \in [Targets -> Seq(Datagrams)]

UdpLinkInit ==
    /\ listening = "reading" /\ datagram = 0
    /\ target = 1 /\ step = "enqueue"
    /\ ch = [t \in Targets |-> <<>>] /\ taken = [t \in Targets |-> 0]
    /\ working = Targets /\ forwarder = "open"
    /\ attempted = [t \in Targets |-> <<>>]

----------------------------------------------------------------------------
(* Bridge.Listen and Forwarder.Forward, one thread *)

\* conn.ReadFromUDP returns a datagram.
ReadDatagram ==
    /\ listening = "reading" /\ datagram < MaxDatagrams
    /\ datagram' = datagram + 1
    /\ listening' = "forwarding" /\ target' = 1
    /\ UNCHANGED <<step, ch, taken, working, forwarder, attempted>>

\* It returns an error, for the context is done or for another reason.
ListenReturns ==
    /\ listening = "reading"
    /\ listening' = "returned"
    /\ UNCHANGED <<datagram, target, step, ch, taken, working, forwarder, attempted>>

HasRoom == Len(ch[target]) < ChannelCap

Send == ch' = [ch EXCEPT ![target] = Append(@, datagram)]

\* To the next target.
Advance == target' = target + 1 /\ step' = "enqueue"

\* The first select of Forward.
Enqueue ==
    /\ listening = "forwarding" /\ target <= NTargets /\ step = "enqueue"
    /\ \/ HasRoom /\ Send /\ Advance
       \/ ~HasRoom /\ step' = "drop" /\ UNCHANGED <<ch, target>>
    /\ UNCHANGED <<listening, datagram, taken, working, forwarder, attempted>>

\* The second: the oldest is dropped, unless the worker has emptied the channel.
DropOldest ==
    /\ listening = "forwarding" /\ step = "drop"
    /\ ch' = IF ch[target] = <<>> THEN ch ELSE [ch EXCEPT ![target] = Tail(@)]
    /\ step' = "retry"
    /\ UNCHANGED <<listening, datagram, target, taken, working, forwarder, attempted>>

\* A plausible bug: the newest is dropped with the oldest.
RetryNever ==
    /\ listening = "forwarding" /\ step = "retry"
    /\ Advance
    /\ UNCHANGED <<listening, datagram, ch, taken, working, forwarder, attempted>>

\* The third, whose default drops the newest.
Retry ==
    /\ listening = "forwarding" /\ step = "retry"
    /\ IF HasRoom THEN Send ELSE UNCHANGED ch
    /\ Advance
    /\ UNCHANGED <<listening, datagram, taken, working, forwarder, attempted>>

\* Forward returns, and handleDatagram processes the datagram.
HandleDatagram ==
    /\ \/ listening = "forwarding" /\ target > NTargets /\ listening' = "processing"
       \/ listening = "processing" /\ listening' = "reading"
    /\ UNCHANGED <<datagram, target, step, ch, taken, working, forwarder, attempted>>

----------------------------------------------------------------------------
(* runWorker and Close *)

TakeDatagram(t) ==
    /\ t \in working /\ taken[t] = 0 /\ ch[t] # <<>>
    /\ taken' = [taken EXCEPT ![t] = Head(ch[t])]
    /\ ch' = [ch EXCEPT ![t] = Tail(@)]
    /\ UNCHANGED <<listening, datagram, target, step, working, forwarder, attempted>>

\* conn.Write returns; an error is logged and nothing else.
WriteDatagram(t) ==
    /\ taken[t] # 0
    /\ attempted' = [attempted EXCEPT ![t] = Append(@, taken[t])]
    /\ taken' = [taken EXCEPT ![t] = 0]
    /\ UNCHANGED <<listening, datagram, target, step, ch, working, forwarder>>

\* The select finds done closed, full channel or not.
WorkerReturns(t) ==
    /\ t \in working /\ taken[t] = 0 /\ forwarder # "open"
    /\ working' = working \ {t}
    /\ UNCHANGED <<listening, datagram, target, step, ch, taken, forwarder, attempted>>

\* run returns, after the transport or without waiting longer for it, and Close
\* closes done ...
CloseDone ==
    /\ forwarder = "open"
    /\ forwarder' = "closing"
    /\ UNCHANGED <<listening, datagram, target, step, ch, taken, working, attempted>>

\* ... and the connections after the last worker.
CloseConnections ==
    /\ forwarder = "closing" /\ working = {}
    /\ forwarder' = "closed"
    /\ UNCHANGED <<listening, datagram, target, step, ch, taken, working, attempted>>

\* The process ends, with Listen at any step, and New serves the next one.
New ==
    /\ forwarder = "closed"
    /\ listening' = "reading" /\ datagram' = 0
    /\ target' = 1 /\ step' = "enqueue"
    /\ ch' = [t \in Targets |-> <<>>] /\ taken' = [t \in Targets |-> 0]
    /\ working' = Targets /\ forwarder' = "open"
    /\ attempted' = [t \in Targets |-> <<>>]

UdpLinkNext ==
    \/ ReadDatagram \/ ListenReturns \/ Enqueue \/ DropOldest \/ Retry \/ HandleDatagram
    \/ \E t \in Targets : TakeDatagram(t) \/ WriteDatagram(t) \/ WorkerReturns(t)
    \/ CloseDone \/ CloseConnections \/ New

UdpLinkSpec == UdpLinkInit /\ [][UdpLinkNext]_udpVars

----------------------------------------------------------------------------
(* Properties *)

\* What a target has been given and not lost, in the order it is written.
Given(t) == attempted[t] \o (IF taken[t] = 0 THEN <<>> ELSE <<taken[t]>>) \o ch[t]

\* Forward has dealt with the last datagram for a target.
Past(t) == datagram > 0 /\ (listening # "forwarding" \/ target > t)

\* A target gets datagrams in the order they were read and none twice; however the
\* selects of Forward and the receives of a worker interleave, the datagram that is
\* lost is an old one: the newest is in the channel when Forward returns, so that
\* the third select never takes its default; and Close closes no connection that a
\* worker still writes to.
ForwardedNewest ==
    /\ \A t \in Targets : \A i, j \in DOMAIN Given(t) : i < j => Given(t)[i] < Given(t)[j]
    /\ \A t \in Targets : Past(t) => \E i \in DOMAIN Given(t) : Given(t)[i] = datagram
    /\ forwarder = "closed" => \A t \in Targets : taken[t] = 0
=============================================================================
