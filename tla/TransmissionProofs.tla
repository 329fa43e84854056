------------------------- MODULE TransmissionProofs -------------------------
(***************************************************************************)
(* Proofs about Transmission for any set of requests, any texts and any    *)
(* capacity of the subscription channel: the verdicts that clients are     *)
(* told, the acknowledgements that are counted and what a failed request   *)
(* leaves behind.  The outbox inside keeps the invariant that OutboxProofs *)
(* establishes, whose lemmas are used here through P.                      *)
(***************************************************************************)
EXTENDS Transmission, FiniteSetTheorems, SequenceTheorems, TLAPS

P == INSTANCE OutboxProofs

(***************************************************************************)
(* The inductive invariant.                                                *)
(***************************************************************************)
HandlerRecords == [step : Steps, to : Destinations, text : Texts,
                   id : {0} \cup Ids, answer : Answers]

\* A request keeps what it was asked to send, knows an id only once Register
\* has given it one, and is answered last.
RequestsSane ==
    \A h \in Handlers :
        /\ handler[h].text \in Typed
        /\ handler[h].id <= Len(sent)
        /\ handler[h].step # "done" => handler[h].answer = 0

\* The packets in the watcher's channel that may confirm a message with this key,
\* and the messages with this key that have been delivered.
Waiting(key) == {i \in 1 .. Len(queue) : /\ queue[i].type = "packet.received"
                                         /\ key \in Confirmable(queue[i].key)}
Credited(key) == {id \in Ids : outcome[id] = "delivered" /\ sent[id].key = key}

\* A text that was received waits in the channel, has confirmed one message, or
\* is gone.
PacketsAccounted ==
    \A key \in Keys : Cardinality(Credited(key)) + Cardinality(Waiting(key)) <= heard[key]

\* Whoever announces a verdict announces the one the outbox gave.
AnnouncedAgree ==
    /\ \A id \in Ids : announced[id] \subseteq {outcome[id]}
    /\ watching # 0 => outcome[watching] = "delivered"

IInv ==
    /\ P!IInv
    /\ TypeOK
    /\ RequestsSane
    /\ PacketsAccounted
    /\ AnnouncedAgree
    /\ ErrorLeavesNothingPending
    /\ AcksCountDeliveries

----------------------------------------------------------------------------
(***************************************************************************)
(* The outbox, seen through the two instances of it.                       *)
(***************************************************************************)
LEMMA CountsSends == MaxSends \in Nat
  BY TransmissionAssumption, FS_CardinalityType DEF MaxSends

\* The definitions of the two instances are the same.
LEMMA SameData ==
    /\ P!Ids = Ids /\ Outbox!Ids = Ids
    /\ P!Texts = Texts /\ Outbox!Texts = Texts
    /\ P!Keys = Keys /\ Outbox!Keys = Keys
    /\ P!Requests = Requests /\ Outbox!Requests = Requests
    /\ P!TimerStates = Outbox!TimerStates
  BY DEF P!Ids, Ids, Outbox!Ids, P!Texts, Texts, Outbox!Texts, P!Keys, Keys, Outbox!Keys,
         P!Requests, Requests, Outbox!Requests, P!TimerStates, Outbox!TimerStates

LEMMA OutboxTyped ==
    /\ P!IInv => Outbox!TypeOK
    /\ P!IInv' => Outbox!TypeOK'
<1> USE SameData DEF P!IInv, P!TypeOK, Outbox!TypeOK
<1>1. P!IInv => Outbox!TypeOK
  OBVIOUS
<1>2. P!IInv' => Outbox!TypeOK'
  BY DEF Ids, Outbox!Ids, P!Ids, MaxSends, Texts, Outbox!Texts, P!Texts, Keys, Outbox!Keys, P!Keys,
         Requests, Outbox!Requests, P!Requests, P!TimerStates, Outbox!TimerStates
<1> QED
  BY <1>1, <1>2

\* The ids in o.pending are those without a verdict, onFailure runs for failed
\* ones, and an id above nextID has not been sent.
LEMMA OutboxShape ==
    ASSUME P!IInv
    PROVE  /\ sent \in Seq(Requests) /\ Len(sent) \in 0 .. MaxSends
           /\ pending \subseteq 1 .. Len(sent)
           /\ outcome \in [Ids -> {"unsent", "pending", "delivered", "cancelled", "failed"}]
           /\ calling \subseteq Ids
           /\ Ids = 1 .. MaxSends
           /\ \A id \in Ids : outcome[id] = "unsent" <=> id > Len(sent)
           /\ \A id \in Ids : outcome[id] = "pending" <=> id \in pending
           /\ \A id \in calling : outcome[id] = "failed"
<1>1. Ids = 1 .. MaxSends
  BY DEF Ids, Outbox!Ids
<1> QED
  BY <1>1, SameData DEF P!IInv, P!TypeOK, P!VerdictsAgree

LEMMA RegisterStep ==
    ASSUME P!IInv, NEW key \in Keys, NEW at \in Times, Outbox!Register(key, at)
    PROVE  /\ P!IInv'
           /\ Len(sent) + 1 \in Ids \ pending
           /\ Len(sent') = Len(sent) + 1
           /\ \A id \in 1 .. Len(sent) : sent'[id] = sent[id]
           /\ sent'[Len(sent) + 1].key = key
           /\ pending' = pending \cup {Len(sent) + 1}
           /\ outcome' = [outcome EXCEPT ![Len(sent) + 1] = "pending"]
           /\ calling' = calling
<1>1. P!Register(key, at) /\ key \in P!Keys
  BY SameData DEF P!Register, Outbox!Register
<1>2. TTL \in Nat
  BY TransmissionAssumption
<1>3. P!IInv'
  BY <1>1, <1>2, CountsSends, MarkerAssumption, TimesAssumption, P!RegisterKeepsIInv
<1>4. /\ Len(sent) + 1 \in P!Ids \ pending
      /\ Len(sent') = Len(sent) + 1
      /\ \A id \in 1 .. Len(sent) : sent'[id] = sent[id]
      /\ sent'[Len(sent) + 1].key = key
      /\ pending' = pending \cup {Len(sent) + 1}
      /\ outcome' = [outcome EXCEPT ![Len(sent) + 1] = "pending"]
      /\ calling' = calling
  BY <1>1, <1>2, CountsSends, MarkerAssumption, TimesAssumption, P!RegisterEffect
<1> QED
  BY <1>3, <1>4, SameData

LEMMA ConfirmStep ==
    ASSUME P!IInv, NEW key \in Keys, Outbox!Confirm(key)
    PROVE  /\ P!IInv'
           /\ UNCHANGED <<sent, calling>>
           /\ \/ UNCHANGED <<pending, outcome>>
              \/ \E id \in pending : /\ pending' = pending \ {id}
                                     /\ outcome' = [outcome EXCEPT ![id] = "delivered"]
                                     /\ Matches(sent[id], key)
<1>1. P!Confirm(key) /\ key \in P!Keys
  BY SameData
     DEF P!Confirm, Outbox!Confirm, P!ConfirmExact, Outbox!ConfirmExact, P!ConfirmScan,
         Outbox!ConfirmScan, P!ConfirmNone, Outbox!ConfirmNone, P!StopTimer, Outbox!StopTimer,
         P!NoExact, Outbox!NoExact, P!Candidates, Outbox!Candidates, P!Matches, Outbox!Matches,
         P!messageMatches, Outbox!messageMatches, P!RemoveLocked, Outbox!RemoveLocked,
         P!removeID, Outbox!removeID
<1>2. TTL \in Nat
  BY TransmissionAssumption
<1>3. P!IInv'
  BY <1>1, <1>2, CountsSends, MarkerAssumption, TimesAssumption, P!ConfirmKeepsIInv
<1>4. /\ UNCHANGED <<sent, calling>>
      /\ \/ UNCHANGED <<pending, outcome>>
         \/ \E id \in pending : /\ pending' = pending \ {id}
                                /\ outcome' = [outcome EXCEPT ![id] = "delivered"]
                                /\ P!Matches(sent[id], key)
  BY <1>1, <1>2, CountsSends, MarkerAssumption, TimesAssumption, P!ConfirmEffect
<1>5. \A id : P!Matches(sent[id], key) => Matches(sent[id], key)
  BY DEF P!Matches, Matches, P!messageMatches, messageMatches
<1> QED
  BY <1>3, <1>4, <1>5

LEMMA OtherStep ==
    ASSUME P!IInv, NEW id \in Ids,
           \/ Outbox!Cancel(id)
           \/ Outbox!Fire(id) \/ Outbox!ExpireLate(id) \/ Outbox!Expire(id)
           \/ Outbox!FailureReported(id)
    PROVE  /\ P!IInv'
           /\ sent' = sent
           /\ pending' \subseteq pending
           /\ Outbox!Cancel(id) => id \notin pending'
           /\ calling' \subseteq calling \cup {id}
           /\ \/ outcome' = outcome
              \/ id \in pending /\ \E verdict \in {"cancelled", "failed"} :
                                      outcome' = [outcome EXCEPT ![id] = verdict]
<1>1. /\ id \in P!Ids
      /\ P!Cancel(id) <=> Outbox!Cancel(id)
      /\ P!Fire(id) <=> Outbox!Fire(id)
      /\ P!ExpireLate(id) <=> Outbox!ExpireLate(id)
      /\ P!Expire(id) <=> Outbox!Expire(id)
      /\ P!FailureReported(id) <=> Outbox!FailureReported(id)
  BY SameData
     DEF P!Cancel, Outbox!Cancel, P!Fire, Outbox!Fire, P!ExpireLate, Outbox!ExpireLate,
         P!Expire, Outbox!Expire, P!FailureReported, Outbox!FailureReported,
         P!StopTimer, Outbox!StopTimer, P!RemoveLocked, Outbox!RemoveLocked,
         P!removeID, Outbox!removeID
<1>2. TTL \in Nat
  BY TransmissionAssumption
<1>3. P!IInv'
  BY <1>1, <1>2, CountsSends, MarkerAssumption, TimesAssumption,
     P!CancelKeepsIInv, P!ExpireKeepsIInv, P!OtherStepsKeepIInv
<1>4. /\ sent' = sent
      /\ pending' \subseteq pending
      /\ P!Cancel(id) => id \notin pending'
      /\ calling' \subseteq calling \cup {id}
      /\ \/ outcome' = outcome
         \/ id \in pending /\ \E verdict \in {"cancelled", "failed"} :
                                 outcome' = [outcome EXCEPT ![id] = verdict]
  BY <1>1, <1>2, CountsSends, MarkerAssumption, TimesAssumption, P!OtherEffects
<1> QED
  BY <1>1, <1>3, <1>4

----------------------------------------------------------------------------
(***************************************************************************)
(* What the steps have in common.                                          *)
(***************************************************************************)
\* Publishing appends at most the event and never exceeds the capacity.
LEMMA PublishedSpec ==
    ASSUME TypeOK, NEW event \in Events
    PROVE  /\ Published(event) \in Seq(Events)
           /\ Len(Published(event)) <= BusCap
           /\ \A i \in 1 .. Len(Published(event)) :
                  \/ i \in 1 .. Len(queue) /\ Published(event)[i] = queue[i]
                  \/ i = Len(queue) + 1 /\ Published(event)[i] = event
<1>1. queue \in Seq(Events) /\ Len(queue) \in Nat /\ Len(queue) <= BusCap /\ BusCap \in Nat
  BY TransmissionAssumption DEF TypeOK
<1>2. CASE Len(queue) < BusCap
  <2>1. Published(event) = Append(queue, event)
    BY <1>2 DEF Published
  <2>2. /\ Append(queue, event) \in Seq(Events)
        /\ Len(Append(queue, event)) = Len(queue) + 1
        /\ \A i \in 1 .. Len(queue) : Append(queue, event)[i] = queue[i]
        /\ Append(queue, event)[Len(queue) + 1] = event
    BY <1>1
  <2> QED
    BY <1>1, <1>2, <2>1, <2>2
<1>3. CASE ~ (Len(queue) < BusCap)
  BY <1>1, <1>3 DEF Published
<1> QED
  BY <1>2, <1>3

\* Receiving takes the oldest event.
LEMMA ReceivedSpec ==
    ASSUME TypeOK, queue # << >>
    PROVE  /\ Tail(queue) \in Seq(Events)
           /\ Len(Tail(queue)) <= BusCap
           /\ \A i \in 1 .. Len(Tail(queue)) : i + 1 \in 1 .. Len(queue) /\ Tail(queue)[i] = queue[i + 1]
           /\ 1 \in 1 .. Len(queue) /\ Head(queue) = queue[1] /\ Head(queue) \in Events
<1>1. queue \in Seq(Events) /\ Len(queue) \in Nat /\ Len(queue) <= BusCap /\ BusCap \in Nat
  BY TransmissionAssumption DEF TypeOK
<1>2. Len(queue) > 0
  BY <1>1
<1>3. Tail(queue) \in Seq(Events) /\ Len(Tail(queue)) = Len(queue) - 1
  BY <1>1, <1>2
<1>4. \A i \in 1 .. Len(Tail(queue)) : Tail(queue)[i] = queue[i + 1]
  BY <1>1, <1>2, <1>3
<1>5. 1 \in 1 .. Len(queue) /\ Head(queue) = queue[1] /\ queue[1] \in Events
  BY <1>1, <1>2
<1> QED
  BY <1>1, <1>2, <1>3, <1>4, <1>5

\* The two sets in the next state.
LEMMA AccountsPrimed ==
    ASSUME NEW key
    PROVE  /\ Waiting(key)' = {i \in 1 .. Len(queue') : /\ queue'[i].type = "packet.received"
                                                        /\ key \in Confirmable(queue'[i].key)}
           /\ Credited(key)' = {id \in Ids : outcome'[id] = "delivered" /\ sent'[id].key = key}
<1>1. Ids' = Ids
  BY DEF Ids, Outbox!Ids, MaxSends
<1> QED
  BY <1>1 DEF Waiting, Credited, Confirmable, Matches, messageMatches, Keys, Texts

LEMMA AccountsFinite ==
    ASSUME TypeOK, NEW key
    PROVE  /\ IsFiniteSet(Waiting(key)) /\ Cardinality(Waiting(key)) \in Nat
           /\ IsFiniteSet(Credited(key)) /\ Cardinality(Credited(key)) \in Nat
<1>1. IsFiniteSet(1 .. Len(queue)) /\ IsFiniteSet(Ids)
  <2>1. Len(queue) \in Nat /\ Ids = 1 .. MaxSends
    BY DEF TypeOK, Ids, Outbox!Ids
  <2> QED
    BY <2>1, CountsSends, FS_Interval
<1>2. Waiting(key) \in SUBSET (1 .. Len(queue)) /\ Credited(key) \in SUBSET Ids
  BY DEF Waiting, Credited
<1>3. IsFiniteSet(Waiting(key)) /\ IsFiniteSet(Credited(key))
  BY <1>1, <1>2, FS_Subset
<1> QED
  BY <1>3, FS_CardinalityType

\* The account holds as long as nothing new is delivered and no packet is added.
LEMMA AccountKept ==
    ASSUME TypeOK, PacketsAccounted, heard' = heard,
           \A id \in Ids : /\ outcome'[id] = "delivered" <=> outcome[id] = "delivered"
                           /\ outcome[id] = "delivered" => sent'[id] = sent[id],
           \A i \in 1 .. Len(queue') :
               \/ i \in 1 .. Len(queue) /\ queue'[i] = queue[i]
               \/ queue'[i].type # "packet.received"
    PROVE  PacketsAccounted'
<1> SUFFICES ASSUME NEW key \in Keys
             PROVE  Cardinality(Credited(key)') + Cardinality(Waiting(key)') <= heard'[key]
  BY Zenon DEF PacketsAccounted, Keys, Texts
<1>1. Credited(key)' = Credited(key)
  BY AccountsPrimed DEF Credited
<1>2. Waiting(key)' \in SUBSET Waiting(key)
  BY AccountsPrimed DEF Waiting
<1>3. Cardinality(Waiting(key)') <= Cardinality(Waiting(key))
  BY <1>2, AccountsFinite, FS_Subset
<1>4. Cardinality(Waiting(key)') \in Nat
  BY <1>2, AccountsFinite, FS_Subset, FS_CardinalityType
<1>5. Cardinality(Credited(key)) + Cardinality(Waiting(key)) <= heard[key]
  BY DEF PacketsAccounted
<1>6. heard[key] \in Nat
  BY TransmissionAssumption DEF TypeOK
<1> QED
  BY <1>1, <1>3, <1>4, <1>5, <1>6, AccountsFinite

\* What the watcher takes from the channel waits no longer.
LEMMA WaitingAfterReceive ==
    ASSUME TypeOK, queue # << >>, queue' = Tail(queue), NEW key
    PROVE  /\ Cardinality(Waiting(key)') \in Nat
           /\ Cardinality(Waiting(key)') <= Cardinality(Waiting(key))
           /\ 1 \in Waiting(key) => Cardinality(Waiting(key)') + 1 <= Cardinality(Waiting(key))
<1> DEFINE left == Waiting(key) \ {1}
           f == [i \in Waiting(key)' |-> i + 1]
<1>1. \A i \in 1 .. Len(Tail(queue)) :
          i + 1 \in 1 .. Len(queue) /\ Tail(queue)[i] = queue[i + 1]
  BY ReceivedSpec
<1>2. \A i \in Waiting(key)' : i \in Nat /\ i # 0 /\ i + 1 \in Waiting(key)
  <2>1. \A i \in Waiting(key)' : i \in 1 .. Len(Tail(queue))
    BY AccountsPrimed
  <2>2. \A i \in 1 .. Len(Tail(queue)) : i \in Nat /\ i # 0
    OBVIOUS
  <2>3. \A i \in Waiting(key)' : i + 1 \in Waiting(key)
    BY <1>1, <2>1, AccountsPrimed DEF Waiting
  <2> QED
    BY <2>1, <2>2, <2>3
<1>3. f \in Injection(Waiting(key)', left)
  <2>1. f \in [Waiting(key)' -> left]
    BY <1>2
  <2>2. IsInjective(f)
    BY <1>2 DEF IsInjective
  <2> QED
    BY <2>1, <2>2 DEF Injection
<1>4. /\ IsFiniteSet(left)
      /\ Cardinality(left) = IF 1 \in Waiting(key) THEN Cardinality(Waiting(key)) - 1
                                                   ELSE Cardinality(Waiting(key))
  BY AccountsFinite, FS_RemoveElement
<1> HIDE DEF left, f
<1>5. IsFiniteSet(Waiting(key)') /\ Cardinality(Waiting(key)') <= Cardinality(left)
  BY <1>3, <1>4, FS_Injection
<1>6. Cardinality(Waiting(key)') \in Nat
  BY <1>5, FS_CardinalityType
<1> QED
  BY <1>4, <1>5, <1>6, AccountsFinite

\* Acknowledgements stay in step as long as no message is delivered or reported.
LEMMA AcksKept ==
    ASSUME AcksCountDeliveries,
           \A to \in Destinations : counts'[to].ack = counts[to].ack,
           \A id \in Ids : /\ outcome'[id] = "delivered" /\ id # watching' <=>
                                  outcome[id] = "delivered" /\ id # watching
                           /\ outcome[id] = "delivered" => sent'[id] = sent[id]
    PROVE  AcksCountDeliveries'
<1>1. Ids' = Ids
  BY DEF Ids, Outbox!Ids, MaxSends
<1> SUFFICES ASSUME NEW to \in Destinations
             PROVE  counts'[to].ack = Cardinality({id \in Ids : /\ outcome'[id] = "delivered"
                                                                /\ sent'[id].key.destination = to
                                                                /\ id # watching'})
  BY <1>1, Zenon DEF AcksCountDeliveries
<1>2. {id \in Ids : /\ outcome'[id] = "delivered"
                    /\ sent'[id].key.destination = to
                    /\ id # watching'}
         = {id \in Ids : /\ outcome[id] = "delivered"
                         /\ sent[id].key.destination = to
                         /\ id # watching}
  OBVIOUS
<1> QED
  BY <1>2, Zenon DEF AcksCountDeliveries

\* A step that leaves the outbox alone keeps its invariant.
LEMMA OutboxUnchanged ==
    ASSUME P!IInv, UNCHANGED outboxVars
    PROVE  P!IInv'
  BY DEF outboxVars, P!IInv, P!TypeOK, P!IndexExact, P!TimerGuards, P!VerdictsAgree

\* Nothing but where request h stands and what it was answered changes.
Moves(h) ==
    /\ handler' \in [Handlers -> HandlerRecords]
    /\ \A g \in Handlers : /\ handler'[g].to = handler[g].to
                           /\ handler'[g].text = handler[g].text
                           /\ handler'[g].id = handler[g].id
    /\ \A g \in Handlers \ {h} : handler'[g] = handler[g]

\* Goto and Answer move one request and keep what it was asked to send.
LEMMA GotoMoves ==
    ASSUME IInv, NEW h \in Handlers, NEW step \in Steps, Goto(h, step)
    PROVE  Moves(h) /\ handler'[h].step = step /\ handler'[h].answer = handler[h].answer
<1> DEFINE r == [handler[h] EXCEPT !.step = step]
<1>1. handler \in [Handlers -> HandlerRecords] /\ handler[h] \in HandlerRecords
  BY DEF IInv, TypeOK, HandlerRecords
<1>2. /\ r \in HandlerRecords /\ r.step = step
      /\ r.to = handler[h].to /\ r.text = handler[h].text /\ r.id = handler[h].id
      /\ r.answer = handler[h].answer
  BY <1>1 DEF HandlerRecords
<1>3. handler' = [handler EXCEPT ![h] = r]
  BY <1>1 DEF Goto, HandlerRecords
<1> HIDE DEF r
<1>4. /\ handler' \in [Handlers -> HandlerRecords] /\ handler'[h] = r
      /\ \A g \in Handlers \ {h} : handler'[g] = handler[g]
  BY <1>1, <1>2, <1>3
<1> QED
  BY <1>2, <1>4 DEF Moves

LEMMA AnswerMoves ==
    ASSUME IInv, NEW h \in Handlers, NEW code \in Answers, Answer(h, code)
    PROVE  Moves(h) /\ handler'[h].step = "done" /\ handler'[h].answer = code
<1> DEFINE r == [handler[h] EXCEPT !.step = "done", !.answer = code]
<1>1. handler \in [Handlers -> HandlerRecords] /\ handler[h] \in HandlerRecords
  BY DEF IInv, TypeOK, HandlerRecords
<1>2. /\ r \in HandlerRecords /\ r.step = "done" /\ r.answer = code
      /\ r.to = handler[h].to /\ r.text = handler[h].text /\ r.id = handler[h].id
  BY <1>1 DEF HandlerRecords, Steps
<1>3. handler' = [handler EXCEPT ![h] = r]
  BY <1>1 DEF Answer, HandlerRecords
<1> HIDE DEF r
<1>4. /\ handler' \in [Handlers -> HandlerRecords] /\ handler'[h] = r
      /\ \A g \in Handlers \ {h} : handler'[g] = handler[g]
  BY <1>1, <1>2, <1>3
<1> QED
  BY <1>2, <1>4 DEF Moves

\* A step of one request, or of nobody, that touches neither the outbox nor the
\* watcher.
LEMMA RequestStepKeepsIInv ==
    ASSUME IInv, UNCHANGED <<outboxVars, heard, queue, watching, announced>>, TypeOK',
           \A to \in Destinations : counts'[to].ack = counts[to].ack,
           NEW h, Moves(h),
           h \in Handlers => /\ handler'[h].step # "done" => handler'[h].answer = 0
                             /\ handler'[h].answer = 502 => handler[h].id \notin pending
    PROVE  IInv'
<1>0. \A g \in Handlers :
          /\ handler'[g].to = handler[g].to
          /\ handler'[g].text = handler[g].text
          /\ handler'[g].id = handler[g].id
          /\ handler'[g].step # "done" => handler'[g].answer = 0
          /\ handler'[g].answer = 502 => handler[g].id \notin pending
  BY DEF Moves, IInv, RequestsSane, ErrorLeavesNothingPending
<1>1. P!IInv' /\ UNCHANGED <<sent, pending, outcome>>
  BY OutboxUnchanged DEF IInv, outboxVars
<1>2. RequestsSane' /\ ErrorLeavesNothingPending' /\ AnnouncedAgree'
  BY <1>0, <1>1 DEF IInv, RequestsSane, ErrorLeavesNothingPending, AnnouncedAgree, Typed, Texts,
              Ids, Outbox!Ids, MaxSends
<1>3. PacketsAccounted'
  BY <1>1, AccountKept DEF IInv
<1>4. AcksCountDeliveries'
  BY <1>1, AcksKept DEF IInv
<1> QED
  BY <1>1, <1>2, <1>3, <1>4 DEF IInv

----------------------------------------------------------------------------
(***************************************************************************)
(* The steps of the request handlers.                                      *)
(***************************************************************************)
LEMMA ReserveKeepsIInv ==
    ASSUME IInv, NEW h \in Handlers, CheckReserve(h) \/ AddReserve(h)
    PROVE  IInv'
<1>1. /\ handler \in [Handlers -> HandlerRecords]
      /\ cache \in SUBSET Pairs /\ admitted \in [Pairs -> SUBSET Handlers]
      /\ handler[h].text \in Typed
  BY DEF IInv, TypeOK, HandlerRecords, RequestsSane
<1>2. Pair(h) \in Pairs
  BY <1>1 DEF Pair, Pairs, HandlerRecords
<1>3. /\ Moves(h) /\ handler'[h].answer # 502
      /\ handler'[h].step # "done" => handler'[h].answer = 0
  <2>1. "add" \in Steps /\ "register" \in Steps /\ 429 \in Answers
    BY DEF Steps, Answers
  <2>2. handler[h].answer = 0
    BY DEF CheckReserve, AddReserve, At, IInv, RequestsSane
  <2>3. Answer(h, 429) \/ Goto(h, "add") \/ Goto(h, "register")
    BY DEF CheckReserve, AddReserve
  <2> QED
    BY <2>1, <2>2, <2>3, GotoMoves, AnswerMoves
<1>4. cache' \in SUBSET Pairs /\ admitted' \in [Pairs -> SUBSET Handlers]
  BY <1>1, <1>2 DEF CheckReserve, AddReserve
<1>5. UNCHANGED <<outboxVars, demo, heard, queue, watching, reportVars>>
  BY DEF CheckReserve, AddReserve
<1>6. TypeOK'
  BY <1>3, <1>4, <1>5, OutboxTyped, OutboxUnchanged
     DEF IInv, TypeOK, Moves, HandlerRecords, outboxVars, reportVars
<1> QED
  BY <1>3, <1>5, <1>6, RequestStepKeepsIInv DEF reportVars

LEMMA ForgetKeepsIInv ==
    ASSUME IInv, NEW pair \in Pairs, ForgetReserve(pair)
    PROVE  IInv'
<1>1. cache' \in SUBSET Pairs /\ admitted' \in [Pairs -> SUBSET Handlers]
  BY DEF IInv, TypeOK, ForgetReserve
<1>2. UNCHANGED <<outboxVars, demo, handler, heard, queue, watching, reportVars>>
  BY DEF ForgetReserve
<1>3. TypeOK'
  BY <1>1, <1>2, OutboxTyped, OutboxUnchanged
     DEF IInv, TypeOK, outboxVars, reportVars
<1>4. \A h : Moves(h)
  BY <1>2 DEF IInv, TypeOK, HandlerRecords, Moves
<1> QED
  BY <1>2, <1>3, <1>4, RequestStepKeepsIInv
     DEF IInv, RequestsSane, ErrorLeavesNothingPending, reportVars

\* SendText succeeds, and the 202 that follows.
LEMMA SentKeepsIInv ==
    ASSUME IInv, NEW h \in Handlers, Transmit(h) \/ Accept(h)
    PROVE  IInv'
<1>1. /\ handler \in [Handlers -> HandlerRecords]
      /\ counts \in [Destinations -> [sent : Nat, ack : Nat]]
  BY DEF IInv, TypeOK, HandlerRecords
<1>2. /\ Moves(h) /\ handler'[h].answer # 502
      /\ handler'[h].step # "done" => handler'[h].answer = 0
  <2>1. "written" \in Steps /\ 202 \in Answers
    BY DEF Steps, Answers
  <2>2. handler[h].answer = 0
    BY DEF Transmit, Accept, At, IInv, RequestsSane
  <2>3. Answer(h, 202) \/ Goto(h, "written")
    BY DEF Transmit, Accept
  <2> QED
    BY <2>1, <2>2, <2>3, GotoMoves, AnswerMoves
<1>3. UNCHANGED <<outboxVars, demo, cache, admitted, heard, queue, watching, announced, unstored>>
  BY DEF Transmit, Accept, reportVars
<1>4. /\ counts' \in [Destinations -> [sent : Nat, ack : Nat]]
      /\ \A to \in Destinations : counts'[to].ack = counts[to].ack
  <2>1. CASE Transmit(h)
    BY <1>1, <2>1 DEF Transmit, reportVars
  <2>2. CASE Accept(h)
    <3> DEFINE to == handler[h].to
               one == [counts[to] EXCEPT !.sent = counts[to].sent + 1]
    <3>1. to \in Destinations
      BY <1>1 DEF HandlerRecords
    <3>2. one \in [sent : Nat, ack : Nat] /\ one.ack = counts[to].ack
      BY <1>1, <3>1
    <3>3. counts' = [counts EXCEPT ![to] = one]
      BY <1>1, <2>2, <3>1 DEF Accept
    <3> HIDE DEF to, one
    <3> QED
      BY <1>1, <3>1, <3>2, <3>3
  <2> QED
    BY <2>1, <2>2
<1>5. TypeOK'
  BY <1>2, <1>3, <1>4, OutboxTyped, OutboxUnchanged
     DEF IInv, TypeOK, Moves, HandlerRecords, outboxVars
<1> QED
  BY <1>2, <1>3, <1>4, <1>5, RequestStepKeepsIInv

\* outbox.Register: the new id is in no other request's hands, and not among the
\* announced ones.
LEMMA RegisterKeepsIInv ==
    ASSUME IInv, NEW h \in Handlers, NEW at \in Times, RegisterPending(h, at)
    PROVE  IInv'
<1>1. /\ handler \in [Handlers -> HandlerRecords]
      /\ handler[h].answer = 0
      /\ "send" \in Steps
      /\ UNCHANGED <<demo, cache, admitted, heard, queue, watching, reportVars>>
  BY DEF RegisterPending, At, IInv, TypeOK, HandlerRecords, RequestsSane, Steps
<1>2. CASE demo
  <2>1. Goto(h, "send") /\ UNCHANGED outboxVars
    BY <1>2 DEF RegisterPending
  <2>2. Moves(h) /\ handler'[h].answer = 0
    BY <1>1, <2>1, GotoMoves
  <2>3. TypeOK'
    BY <1>1, <2>1, <2>2, OutboxTyped, OutboxUnchanged
       DEF IInv, TypeOK, Moves, HandlerRecords, outboxVars, reportVars
  <2> QED
    BY <1>1, <2>1, <2>2, <2>3, RequestStepKeepsIInv DEF reportVars
<1>3. CASE ~demo
  <2> DEFINE id == Len(sent) + 1
             r == [handler[h] EXCEPT !.step = "send", !.id = id]
  <2>1. Outbox!Register(Key(h), at) /\ handler' = [handler EXCEPT ![h] = r]
    BY <1>1, <1>3 DEF RegisterPending, HandlerRecords
  <2>2. Key(h) \in Keys
    BY <1>1, TransmissionAssumption DEF Key, Keys, HandlerRecords
  <2>3. /\ P!IInv' /\ calling' = calling
        /\ id \in Ids \ pending
        /\ Len(sent') = id
        /\ \A x \in 1 .. Len(sent) : sent'[x] = sent[x]
        /\ pending' = pending \cup {id}
        /\ outcome' = [outcome EXCEPT ![id] = "pending"]
    BY <2>1, <2>2, RegisterStep DEF IInv
  <2>4. /\ Len(sent) \in Nat /\ Ids \subseteq Nat
        /\ outcome \in [Ids -> {"unsent", "pending", "delivered", "cancelled", "failed"}]
        /\ outcome[id] = "unsent"
        /\ \A x \in Ids : outcome[x] # "unsent" => x \in 1 .. Len(sent)
    BY <2>3, OutboxShape, CountsSends DEF IInv
  <2>5. /\ r \in HandlerRecords /\ r.to = handler[h].to /\ r.text = handler[h].text
        /\ r.id = id /\ r.answer = 0
    BY <1>1, <2>3 DEF HandlerRecords
  <2> HIDE DEF r
  <2>6. /\ handler' \in [Handlers -> HandlerRecords] /\ handler'[h] = r
        /\ \A g \in Handlers \ {h} : handler'[g] = handler[g]
    BY <1>1, <2>1, <2>5
  <2>7. TypeOK'
    BY <1>1, <2>3, <2>6, OutboxTyped DEF IInv, TypeOK, HandlerRecords, reportVars
  <2>8. RequestsSane'
    <3>1. \A g \in Handlers : handler[g].id \in Nat /\ handler[g].id <= Len(sent)
      <4>1. \A g \in Handlers : handler[g].id \in {0} \cup Ids
        BY <1>1 DEF HandlerRecords
      <4>2. \A g \in Handlers : handler[g].id <= Len(sent)
        BY DEF IInv, RequestsSane
      <4>3. {0} \cup Ids \subseteq Nat
        BY <2>4
      <4> QED
        BY <4>1, <4>2, <4>3, Zenon
    <3> QED
      BY <2>3, <2>4, <2>5, <2>6, <3>1 DEF IInv, RequestsSane, Typed, Texts
  <2>9. ErrorLeavesNothingPending'
    <3>1. \A g \in Handlers : handler[g].id # id
      BY <1>1, <2>4 DEF IInv, RequestsSane, HandlerRecords
    <3> QED
      BY <2>3, <2>5, <2>6, <3>1 DEF IInv, ErrorLeavesNothingPending
  <2>10. \A x \in Ids : /\ outcome'[x] = "delivered" <=> outcome[x] = "delivered"
                        /\ outcome[x] = "delivered" => sent'[x] = sent[x] /\ outcome'[x] = outcome[x]
                        /\ outcome[x] # "unsent" => outcome'[x] = outcome[x]
    BY <2>3, <2>4
  <2>11. AnnouncedAgree'
    <3>1. announced \in [Ids -> SUBSET {"delivered", "failed"}] /\ watching \in {0} \cup Ids
      BY DEF IInv, TypeOK
    <3> QED
      BY <1>1, <2>10, <3>1 DEF IInv, AnnouncedAgree, reportVars, Ids, Outbox!Ids, MaxSends
  <2>12. PacketsAccounted'
    BY <1>1, <2>10, AccountKept DEF IInv
  <2>13. AcksCountDeliveries'
    BY <1>1, <2>10, AcksKept DEF IInv, reportVars
  <2> QED
    BY <2>3, <2>7, <2>8, <2>9, <2>11, <2>12, <2>13 DEF IInv
<1> QED
  BY <1>2, <1>3

\* A step of the outbox that confirms nothing, taken while the watcher and the
\* requests rest.
LEMMA OutboxStepKeepsIInv ==
    ASSUME IInv, TypeOK', P!IInv', sent' = sent, pending' \subseteq pending,
           NEW x \in Ids,
           \/ outcome' = outcome
           \/ x \in pending /\ \E verdict \in {"cancelled", "failed"} :
                                   outcome' = [outcome EXCEPT ![x] = verdict],
           NEW h, Moves(h),
           h \in Handlers => /\ handler'[h].step # "done" => handler'[h].answer = 0
                             /\ handler'[h].answer = 502 => handler[h].id \notin pending',
           UNCHANGED <<heard, watching, counts>>,
           \A id \in Ids : announced'[id] \subseteq announced[id] \cup ({outcome[id]} \ {"pending"}),
           \A i \in 1 .. Len(queue') :
               \/ i \in 1 .. Len(queue) /\ queue'[i] = queue[i]
               \/ queue'[i].type # "packet.received"
    PROVE  IInv'
<1>1. /\ \A id \in Ids : outcome[id] = "pending" <=> id \in pending
      /\ outcome \in [Ids -> {"unsent", "pending", "delivered", "cancelled", "failed"}]
      /\ watching \in {0} \cup Ids
      /\ announced \in [Ids -> SUBSET {"delivered", "failed"}]
  BY OutboxShape DEF IInv, TypeOK
<1>2. \A id \in Ids : /\ outcome'[id] = "delivered" <=> outcome[id] = "delivered"
                      /\ outcome[id] # "pending" => outcome'[id] = outcome[id]
  BY <1>1
<1>3. \A g \in Handlers :
          /\ handler'[g].to = handler[g].to
          /\ handler'[g].text = handler[g].text
          /\ handler'[g].id = handler[g].id
          /\ handler'[g].step # "done" => handler'[g].answer = 0
          /\ handler'[g].answer = 502 => handler[g].id \notin pending'
  BY DEF Moves, IInv, RequestsSane, ErrorLeavesNothingPending
<1>4. RequestsSane' /\ ErrorLeavesNothingPending'
  BY <1>3 DEF IInv, RequestsSane, ErrorLeavesNothingPending, Typed, Texts
<1>5. AnnouncedAgree'
  <2>1. ASSUME NEW id \in Ids
        PROVE  announced'[id] \subseteq {outcome'[id]}
    BY <1>1, <1>2, <2>1 DEF IInv, AnnouncedAgree
  <2>2. watching # 0 => outcome'[watching] = "delivered"
    BY <1>1, <1>2 DEF IInv, AnnouncedAgree
  <2> QED
    BY <2>1, <2>2 DEF AnnouncedAgree, Ids, Outbox!Ids, MaxSends
<1>6. PacketsAccounted'
  BY <1>2, AccountKept DEF IInv
<1>7. AcksCountDeliveries'
  BY <1>2, AcksKept DEF IInv
<1> QED
  BY <1>4, <1>5, <1>6, <1>7 DEF IInv

\* SendText fails: Cancel withdraws the message, whoever may hold the id.
LEMMA SendFailsKeepsIInv ==
    ASSUME IInv, NEW h \in Handlers, SendFails(h)
    PROVE  IInv'
<1>1. /\ Answer(h, 502) /\ 502 \in Answers
      /\ UNCHANGED <<demo, cache, admitted, heard, queue, watching, reportVars>>
  BY DEF SendFails, Answers
<1>2. Moves(h) /\ handler'[h].step = "done"
  BY <1>1, AnswerMoves
<1>3. CASE handler[h].id \in pending
  <2> DEFINE id == handler[h].id
  <2>1. id \in Ids /\ Outbox!Cancel(id)
    <3>1. pending \subseteq 1 .. Len(sent) /\ Len(sent) \in 0 .. MaxSends /\ Ids = 1 .. MaxSends
      BY OutboxShape DEF IInv
    <3>2. pending \subseteq Ids
      BY <3>1, CountsSends
    <3> QED
      BY <1>3, <3>2 DEF SendFails
  <2>2. /\ P!IInv' /\ sent' = sent /\ pending' \subseteq pending /\ id \notin pending'
        /\ \/ outcome' = outcome
           \/ id \in pending /\ \E verdict \in {"cancelled", "failed"} :
                                   outcome' = [outcome EXCEPT ![id] = verdict]
    BY <2>1, OtherStep DEF IInv
  <2>3. TypeOK'
    BY <1>1, <1>2, <2>2, OutboxTyped DEF IInv, TypeOK, Moves, HandlerRecords, reportVars
  <2>4. Len(queue') \in Nat /\ Len(queue') = Len(queue)
    BY <1>1 DEF IInv, TypeOK
  <2> HIDE DEF id
  <2> QED
    BY <1>1, <1>2, <2>1, <2>2, <2>3, <2>4, OutboxStepKeepsIInv DEF reportVars, id
<1>4. CASE handler[h].id \notin pending
  <2>1. UNCHANGED outboxVars
    BY <1>4 DEF SendFails
  <2>2. TypeOK'
    BY <1>1, <1>2, <2>1, OutboxTyped, OutboxUnchanged
       DEF IInv, TypeOK, Moves, HandlerRecords, outboxVars, reportVars
  <2> QED
    BY <1>1, <1>2, <1>4, <2>1, <2>2, RequestStepKeepsIInv DEF reportVars
<1> QED
  BY <1>3, <1>4

----------------------------------------------------------------------------
(***************************************************************************)
(* The timers of the outbox and the failure callback.                      *)
(***************************************************************************)
LEMMA TimerKeepsIInv ==
    ASSUME IInv, NEW id \in Ids, OutboxTimer(id)
    PROVE  IInv'
<1>1. UNCHANGED <<demo, requestVars, heard, queue, watching, reportVars>>
  BY DEF OutboxTimer
<1>2. /\ P!IInv' /\ sent' = sent /\ pending' \subseteq pending
      /\ \/ outcome' = outcome
         \/ id \in pending /\ \E verdict \in {"cancelled", "failed"} :
                                 outcome' = [outcome EXCEPT ![id] = verdict]
  BY OtherStep DEF OutboxTimer, IInv
<1>3. TypeOK'
  BY <1>1, <1>2, OutboxTyped DEF IInv, TypeOK, requestVars, reportVars
<1>4. \A h : Moves(h) /\ (h \in Handlers => handler'[h] = handler[h])
  BY <1>1 DEF IInv, TypeOK, HandlerRecords, Moves, requestVars
<1>5. \A h \in Handlers : /\ handler'[h].step # "done" => handler'[h].answer = 0
                          /\ handler'[h].answer = 502 => handler[h].id \notin pending'
  BY <1>2, <1>4 DEF IInv, RequestsSane, ErrorLeavesNothingPending
<1> QED
  BY <1>1, <1>2, <1>3, <1>4, <1>5, OutboxStepKeepsIInv DEF reportVars

\* handleOutgoingTimeout reports what the outbox has failed.
LEMMA CallbackKeepsIInv ==
    ASSUME IInv, NEW id \in Ids, Callback(id)
    PROVE  IInv'
<1> DEFINE event == [type |-> "message.failed", key |-> sent[id].key]
<1>1. /\ Outbox!FailureReported(id)
      /\ UNCHANGED <<demo, requestVars, heard, watching, counts>>
      /\ unstored' \in SUBSET Ids
  BY DEF Callback, ReportFailure, FailureNotStored, reportVars, IInv, TypeOK
<1>2. id \in calling /\ outcome' = outcome /\ sent' = sent /\ pending' = pending
  BY <1>1 DEF Outbox!FailureReported
<1>3. P!IInv'
  BY <1>1, OtherStep DEF IInv
<1>4. outcome[id] = "failed" /\ event \in Events
  <2>1. /\ outcome[id] = "failed" /\ id \in 1 .. Len(sent) /\ sent \in Seq(Requests)
    BY <1>2, OutboxShape, CountsSends DEF IInv
  <2>2. sent[id] \in Requests
    BY <2>1
  <2> QED
    BY <2>1, <2>2 DEF Requests, Events
<1>5. /\ announced' \in [Ids -> SUBSET {"delivered", "failed"}]
      /\ \A x \in Ids : announced'[x] \subseteq announced[x] \cup ({outcome[x]} \ {"pending"})
  <2>1. announced \in [Ids -> SUBSET {"delivered", "failed"}]
    BY DEF IInv, TypeOK
  <2>2. announced' = announced \/ announced' = [announced EXCEPT ![id] = announced[id] \cup {"failed"}]
    BY DEF Callback, ReportFailure, FailureNotStored
  <2> QED
    BY <1>4, <2>1, <2>2
<1>6. /\ queue' \in Seq(Events) /\ Len(queue') <= BusCap
      /\ \A i \in 1 .. Len(queue') :
             \/ i \in 1 .. Len(queue) /\ queue'[i] = queue[i]
             \/ queue'[i].type # "packet.received"
  <2>1. queue' = queue \/ queue' = Published(event)
    BY DEF Callback, ReportFailure, FailureNotStored
  <2>2. event.type # "packet.received"
    OBVIOUS
  <2>3. queue \in Seq(Events) /\ Len(queue) <= BusCap
    BY DEF IInv, TypeOK
  <2> HIDE DEF event
  <2> QED
    BY <1>4, <2>1, <2>2, <2>3, PublishedSpec DEF IInv
<1>7. TypeOK'
  BY <1>1, <1>3, <1>5, <1>6, OutboxTyped DEF IInv, TypeOK, requestVars
<1>8. \A h : Moves(h) /\ (h \in Handlers => handler'[h] = handler[h])
  BY <1>1 DEF IInv, TypeOK, HandlerRecords, Moves, requestVars
<1>9. \A h \in Handlers : /\ handler'[h].step # "done" => handler'[h].answer = 0
                          /\ handler'[h].answer = 502 => handler[h].id \notin pending'
  BY <1>2, <1>8 DEF IInv, RequestsSane, ErrorLeavesNothingPending
<1> QED
  BY <1>1, <1>2, <1>3, <1>5, <1>6, <1>7, <1>8, <1>9, OutboxStepKeepsIInv

----------------------------------------------------------------------------
(***************************************************************************)
(* The packets that are received, and the watcher.                         *)
(***************************************************************************)
\* A text is received: it is counted for the keys it may confirm, and waits for
\* the watcher unless the channel is full.
LEMMA ReceiveKeepsIInv ==
    ASSUME IInv, NEW observed \in Keys, Receive(observed)
    PROVE  IInv'
<1> DEFINE event == [type |-> "packet.received", key |-> observed]
<1>1. /\ \A key \in Confirmable(observed) : heard[key] < MaxHeard
      /\ heard' = [key \in Keys |->
                      IF key \in Confirmable(observed) THEN heard[key] + 1 ELSE heard[key]]
      /\ queue' = Published(event)
      /\ UNCHANGED <<outboxVars, demo, requestVars, watching, reportVars>>
  BY DEF Receive
<1>2. /\ heard \in [Keys -> 0 .. MaxHeard] /\ MaxHeard \in Nat
      /\ Len(queue) \in Nat
  BY TransmissionAssumption DEF IInv, TypeOK
<1>3. heard' \in [Keys -> 0 .. MaxHeard]
  BY <1>1, <1>2
<1>4. handler' = handler /\ P!IInv' /\ UNCHANGED <<sent, pending, outcome>>
  BY <1>1, OutboxUnchanged DEF IInv, requestVars, outboxVars
<1>5. event \in Events
  BY DEF Events
<1>6. /\ queue' \in Seq(Events) /\ Len(queue') <= BusCap
      /\ \A i \in 1 .. Len(queue') :
             \/ i \in 1 .. Len(queue) /\ queue'[i] = queue[i]
             \/ i = Len(queue) + 1 /\ queue'[i].key = observed
  <2>1. event.key = observed
    OBVIOUS
  <2> HIDE DEF event
  <2> QED
    BY <1>1, <1>5, <2>1, PublishedSpec DEF IInv
<1>7. TypeOK'
  BY <1>1, <1>3, <1>4, <1>6, OutboxTyped DEF IInv, TypeOK, requestVars, reportVars
<1>8. PacketsAccounted'
  <2> SUFFICES ASSUME NEW key \in Keys
               PROVE  Cardinality(Credited(key)') + Cardinality(Waiting(key)') <= heard'[key]
    BY Zenon DEF PacketsAccounted, Keys, Texts
  <2>1. Credited(key)' = Credited(key)
    BY <1>4, AccountsPrimed DEF Credited
  <2>2. Cardinality(Credited(key)) + Cardinality(Waiting(key)) <= heard[key]
    BY DEF IInv, PacketsAccounted
  <2>3. /\ IsFiniteSet(Waiting(key)) /\ Cardinality(Waiting(key)) \in Nat
        /\ Cardinality(Credited(key)) \in Nat
    BY AccountsFinite DEF IInv
  <2>4. CASE key \in Confirmable(observed)
    <3> DEFINE more == Waiting(key) \cup {Len(queue) + 1}
    <3>1. Waiting(key)' \in SUBSET more
      BY <1>6, AccountsPrimed DEF Waiting
    <3>2. IsFiniteSet(more) /\ Cardinality(more) <= Cardinality(Waiting(key)) + 1
      <4>1. /\ IsFiniteSet(more)
            /\ Cardinality(more) = IF Len(queue) + 1 \in Waiting(key)
                                   THEN Cardinality(Waiting(key)) ELSE Cardinality(Waiting(key)) + 1
        BY <2>3, FS_AddElement
      <4> QED
        BY <2>3, <4>1
    <3> HIDE DEF more
    <3>3. /\ IsFiniteSet(Waiting(key)')
          /\ Cardinality(Waiting(key)') <= Cardinality(more)
      BY <3>1, <3>2, FS_Subset
    <3>4. Cardinality(Waiting(key)') \in Nat /\ Cardinality(more) \in Nat
      BY <3>2, <3>3, FS_CardinalityType
    <3>5. heard'[key] = heard[key] + 1 /\ heard[key] \in Nat
      BY <1>1, <1>2, <2>4
    <3> QED
      BY <2>1, <2>2, <2>3, <3>2, <3>3, <3>4, <3>5
  <2>5. CASE key \notin Confirmable(observed)
    <3>1. Waiting(key)' \in SUBSET Waiting(key)
      BY <1>6, <2>5, AccountsPrimed DEF Waiting
    <3>2. IsFiniteSet(Waiting(key)') /\ Cardinality(Waiting(key)') <= Cardinality(Waiting(key))
      BY <2>3, <3>1, FS_Subset
    <3>3. Cardinality(Waiting(key)') \in Nat
      BY <3>2, FS_CardinalityType
    <3>4. heard'[key] = heard[key] /\ heard[key] \in Nat
      BY <1>1, <1>2, <2>5
    <3> QED
      BY <2>1, <2>2, <2>3, <3>2, <3>3, <3>4
  <2> QED
    BY <2>4, <2>5
<1>9. RequestsSane' /\ ErrorLeavesNothingPending' /\ AnnouncedAgree'
  BY <1>1, <1>4 DEF IInv, RequestsSane, ErrorLeavesNothingPending, AnnouncedAgree, Typed, Texts,
              Ids, Outbox!Ids, MaxSends, reportVars
<1>10. AcksCountDeliveries'
  BY <1>1, <1>4, AcksKept DEF IInv, reportVars
<1> QED
  BY <1>4, <1>7, <1>8, <1>9, <1>10 DEF IInv

LEMMA WatchSkipKeepsIInv ==
    ASSUME IInv, WatchSkip
    PROVE  IInv'
<1>1. /\ queue # << >> /\ queue' = Tail(queue)
      /\ UNCHANGED <<outboxVars, demo, requestVars, heard, watching, reportVars>>
  BY DEF WatchSkip
<1>2. queue' \in Seq(Events) /\ Len(queue') <= BusCap
  BY <1>1, ReceivedSpec DEF IInv
<1>3. P!IInv' /\ UNCHANGED <<sent, pending, outcome, handler>>
  BY <1>1, OutboxUnchanged DEF IInv, requestVars, outboxVars
<1>4. TypeOK'
  BY <1>1, <1>2, <1>3, OutboxTyped DEF IInv, TypeOK, requestVars, reportVars
<1>5. RequestsSane' /\ ErrorLeavesNothingPending' /\ AnnouncedAgree'
  BY <1>1, <1>3 DEF IInv, RequestsSane, ErrorLeavesNothingPending, AnnouncedAgree, Typed, Texts,
              Ids, Outbox!Ids, MaxSends, reportVars
<1>6. PacketsAccounted'
  <2> SUFFICES ASSUME NEW key \in Keys
               PROVE  Cardinality(Credited(key)') + Cardinality(Waiting(key)') <= heard'[key]
    BY Zenon DEF PacketsAccounted, Keys, Texts
  <2>1. Credited(key)' = Credited(key)
    BY <1>3, AccountsPrimed DEF Credited
  <2>2. Cardinality(Waiting(key)') \in Nat /\ Cardinality(Waiting(key)') <= Cardinality(Waiting(key))
    BY <1>1, WaitingAfterReceive DEF IInv
  <2>3. Cardinality(Waiting(key)) \in Nat /\ Cardinality(Credited(key)) \in Nat
    BY AccountsFinite DEF IInv
  <2>4. Cardinality(Credited(key)) + Cardinality(Waiting(key)) <= heard[key] /\ heard[key] \in Nat
    BY TransmissionAssumption DEF IInv, TypeOK, PacketsAccounted
  <2> QED
    BY <1>1, <2>1, <2>2, <2>3, <2>4
<1>7. AcksCountDeliveries'
  BY <1>1, <1>3, AcksKept DEF IInv, reportVars
<1> QED
  BY <1>2, <1>3, <1>4, <1>5, <1>6, <1>7 DEF IInv

\* The watcher confirms: the one message that may leave o.pending is delivered,
\* is the one the watcher reports next, and reads like the text just received.
LEMMA WatchConfirmKeepsIInv ==
    ASSUME IInv, WatchConfirm
    PROVE  IInv'
<1> DEFINE key == Head(queue).key
<1>1. /\ watching = 0 /\ queue # << >> /\ queue' = Tail(queue)
      /\ Head(queue).type = "packet.received"
      /\ Outbox!Confirm(key)
      /\ watching' = IF pending' = pending THEN 0 ELSE CHOOSE id \in pending : id \notin pending'
      /\ UNCHANGED <<demo, requestVars, heard, reportVars>>
  BY DEF WatchConfirm
<1>2. /\ queue' \in Seq(Events) /\ Len(queue') <= BusCap
      /\ Head(queue) \in Events
      /\ 1 \in 1 .. Len(queue) /\ Head(queue) = queue[1]
  BY <1>1, ReceivedSpec DEF IInv
<1>3. key \in Keys
  BY <1>2 DEF Events
<1>4. UNCHANGED <<handler, heard, announced, counts>>
  BY <1>1 DEF requestVars, reportVars
<1>5. /\ outcome \in [Ids -> {"unsent", "pending", "delivered", "cancelled", "failed"}]
      /\ pending \subseteq Ids /\ 0 \notin Ids
      /\ \A id \in Ids : outcome[id] = "pending" <=> id \in pending
  <2>1. pending \subseteq 1 .. Len(sent) /\ Len(sent) \in 0 .. MaxSends /\ Ids = 1 .. MaxSends
    BY OutboxShape DEF IInv
  <2>2. pending \subseteq Ids /\ 0 \notin Ids
    BY <2>1, CountsSends
  <2> QED
    BY <2>2, OutboxShape DEF IInv
<1>6. /\ P!IInv' /\ UNCHANGED <<sent, calling>>
      /\ \/ UNCHANGED <<pending, outcome>>
         \/ \E id \in pending : /\ pending' = pending \ {id}
                                /\ outcome' = [outcome EXCEPT ![id] = "delivered"]
                                /\ Matches(sent[id], key)
  BY <1>1, <1>3, ConfirmStep DEF IInv
<1>7. ASSUME NEW k \in Keys
      PROVE  /\ Cardinality(Waiting(k)') \in Nat
             /\ Cardinality(Waiting(k)') <= Cardinality(Waiting(k))
             /\ k \in Confirmable(key) =>
                    Cardinality(Waiting(k)') + 1 <= Cardinality(Waiting(k))
  <2>1. k \in Confirmable(key) => 1 \in Waiting(k)
    BY <1>1, <1>2 DEF Waiting
  <2> QED
    BY <1>1, <2>1, WaitingAfterReceive DEF IInv
<1>8. ASSUME NEW k \in Keys
      PROVE  /\ IsFiniteSet(Credited(k)) /\ Cardinality(Credited(k)) \in Nat
             /\ Cardinality(Waiting(k)) \in Nat /\ heard[k] \in Nat
             /\ Cardinality(Credited(k)) + Cardinality(Waiting(k)) <= heard[k]
  BY AccountsFinite, TransmissionAssumption DEF IInv, TypeOK, PacketsAccounted
<1> HIDE DEF key
<1>9. pending' \subseteq pending
  BY <1>6
<1>10. RequestsSane' /\ ErrorLeavesNothingPending'
  BY <1>4, <1>6, <1>9 DEF IInv, RequestsSane, ErrorLeavesNothingPending, Typed, Texts
<1>11. CASE UNCHANGED <<pending, outcome>>
  <2>1. watching' = watching
    BY <1>1, <1>11
  <2>2. TypeOK'
    BY <1>1, <1>2, <1>6, <2>1, OutboxTyped DEF IInv, TypeOK, requestVars, reportVars
  <2>3. AnnouncedAgree'
    BY <1>4, <1>11, <2>1 DEF IInv, AnnouncedAgree, Ids, Outbox!Ids, MaxSends
  <2>4. PacketsAccounted'
    <3> SUFFICES ASSUME NEW k \in Keys
                 PROVE  Cardinality(Credited(k)') + Cardinality(Waiting(k)') <= heard'[k]
      BY Zenon DEF PacketsAccounted, Keys, Texts
    <3>1. Credited(k)' = Credited(k)
      BY <1>6, <1>11, AccountsPrimed DEF Credited
    <3> QED
      BY <1>4, <1>7, <1>8, <3>1
  <2>5. AcksCountDeliveries'
    BY <1>4, <1>6, <1>11, <2>1, AcksKept DEF IInv
  <2> QED
    BY <1>6, <1>10, <2>2, <2>3, <2>4, <2>5 DEF IInv
<1>12. ASSUME NEW id \in pending,
              pending' = pending \ {id},
              outcome' = [outcome EXCEPT ![id] = "delivered"],
              Matches(sent[id], key)
       PROVE  IInv'
  <2>1. watching' = id
    <3>1. pending' # pending
      BY <1>12
    <3>2. \A x \in pending : x \notin pending' <=> x = id
      BY <1>12
    <3>3. (CHOOSE x \in pending : x \notin pending') = id
      BY <3>2
    <3> QED
      BY <1>1, <3>1, <3>3
  <2>2. /\ id \in Ids /\ outcome[id] = "pending" /\ outcome'[id] = "delivered"
        /\ \A x \in Ids \ {id} : outcome'[x] = outcome[x]
    BY <1>5, <1>12
  <2>3. TypeOK'
    BY <1>1, <1>2, <1>6, <2>1, <2>2, OutboxTyped DEF IInv, TypeOK, requestVars, reportVars
  <2>4. AnnouncedAgree'
    <3>1. announced \in [Ids -> SUBSET {"delivered", "failed"}]
      BY DEF IInv, TypeOK
    <3>2. announced[id] = {}
      BY <2>2, <3>1 DEF IInv, AnnouncedAgree
    <3>3. \A x \in Ids : announced'[x] \subseteq {outcome'[x]}
      BY <1>4, <2>2, <3>2 DEF IInv, AnnouncedAgree
    <3> QED
      BY <2>1, <2>2, <3>3 DEF AnnouncedAgree, Ids, Outbox!Ids, MaxSends
  <2>5. PacketsAccounted'
    <3> SUFFICES ASSUME NEW k \in Keys
                 PROVE  Cardinality(Credited(k)') + Cardinality(Waiting(k)') <= heard'[k]
      BY Zenon DEF PacketsAccounted, Keys, Texts
    <3>1. CASE k = sent[id].key
      <4>1. k \in Confirmable(key)
        BY <1>12, <3>1 DEF Confirmable, Matches
      <4>2. Credited(k)' = Credited(k) \cup {id} /\ id \notin Credited(k)
        BY <1>6, <2>2, <3>1, AccountsPrimed DEF Credited
      <4>3. Cardinality(Credited(k)') = Cardinality(Credited(k)) + 1
        BY <1>8, <4>2, FS_AddElement
      <4> QED
        BY <1>4, <1>7, <1>8, <4>1, <4>3
    <3>2. CASE k # sent[id].key
      <4>1. Credited(k)' = Credited(k)
        BY <1>6, <2>2, <3>2, AccountsPrimed DEF Credited
      <4> QED
        BY <1>4, <1>7, <1>8, <4>1
    <3> QED
      BY <3>1, <3>2
  <2>6. AcksCountDeliveries'
    <3>1. \A x \in Ids : /\ outcome'[x] = "delivered" /\ x # watching' <=>
                                outcome[x] = "delivered" /\ x # watching
                         /\ outcome[x] = "delivered" => sent'[x] = sent[x]
      BY <1>1, <1>5, <1>6, <2>1, <2>2
    <3> QED
      BY <1>4, <3>1, AcksKept DEF IInv
  <2> QED
    BY <1>6, <1>10, <2>3, <2>4, <2>5, <2>6 DEF IInv
<1> QED
  BY <1>6, <1>11, <1>12

\* The watcher reports the message it has confirmed: it is counted once, for the
\* destination it was sent to.
LEMMA WatchReportKeepsIInv ==
    ASSUME IInv, WatchReport
    PROVE  IInv'
<1> DEFINE w == watching
           dest == sent[w].key.destination
           event == [type |-> "message.delivered", key |-> sent[w].key]
           acked == [counts[dest] EXCEPT !.ack = counts[dest].ack + 1]
<1>1. /\ w # 0
      /\ counts' = [counts EXCEPT ![dest].ack = counts[dest].ack + 1]
      /\ announced' = [announced EXCEPT ![w] = announced[w] \cup {"delivered"}]
      /\ queue' = Published(event)
      /\ watching' = 0
      /\ UNCHANGED <<outboxVars, demo, requestVars, heard, unstored>>
  BY DEF WatchReport
<1>2. /\ P!IInv'
      /\ UNCHANGED <<sent, pending, outcome, handler>>
  BY <1>1, OutboxUnchanged DEF IInv, requestVars, outboxVars
<1>3. /\ counts \in [Destinations -> [sent : Nat, ack : Nat]]
      /\ announced \in [Ids -> SUBSET {"delivered", "failed"}]
      /\ w \in Ids /\ outcome[w] = "delivered"
  BY <1>1 DEF IInv, TypeOK, AnnouncedAgree
<1>4. /\ sent[w] \in Requests /\ Ids = 1 .. MaxSends
  <2>1. sent \in Seq(Requests) /\ Len(sent) \in 0 .. MaxSends /\ Ids = 1 .. MaxSends
        /\ (outcome[w] = "unsent" <=> w > Len(sent))
    BY <1>3, OutboxShape DEF IInv
  <2>2. w \in 1 .. Len(sent)
    BY <1>3, <2>1, CountsSends
  <2> QED
    BY <2>1, <2>2
<1>5. sent[w].key \in Keys /\ dest \in Destinations /\ event \in Events /\ event.type # "packet.received"
  BY <1>4 DEF Requests, Keys, Events
<1>6. /\ acked \in [sent : Nat, ack : Nat] /\ acked.ack = counts[dest].ack + 1
      /\ counts' = [counts EXCEPT ![dest] = acked]
  BY <1>1, <1>3, <1>5
<1>7. /\ queue' \in Seq(Events) /\ Len(queue') <= BusCap
      /\ \A i \in 1 .. Len(queue') :
             \/ i \in 1 .. Len(queue) /\ queue'[i] = queue[i]
             \/ queue'[i].type # "packet.received"
  <2> HIDE DEF event
  <2> QED
    BY <1>1, <1>5, PublishedSpec DEF IInv
<1> HIDE DEF dest, acked
<1>8. /\ counts' \in [Destinations -> [sent : Nat, ack : Nat]]
      /\ counts'[dest].ack = counts[dest].ack + 1
      /\ \A to \in Destinations \ {dest} : counts'[to].ack = counts[to].ack
  BY <1>3, <1>5, <1>6
<1>9. /\ announced' \in [Ids -> SUBSET {"delivered", "failed"}]
      /\ \A x \in Ids : announced'[x] \subseteq {outcome[x]}
  BY <1>1, <1>3 DEF IInv, AnnouncedAgree
<1>10. TypeOK'
  BY <1>1, <1>2, <1>7, <1>8, <1>9, OutboxTyped DEF IInv, TypeOK, requestVars
<1>11. RequestsSane' /\ ErrorLeavesNothingPending' /\ AnnouncedAgree'
  BY <1>1, <1>2, <1>9 DEF IInv, RequestsSane, ErrorLeavesNothingPending, AnnouncedAgree, Typed, Texts,
              Ids, Outbox!Ids, MaxSends
<1>12. PacketsAccounted'
  BY <1>1, <1>2, <1>7, AccountKept DEF IInv
<1>13. AcksCountDeliveries'
  <2> DEFINE Counted(to) == {id \in Ids : /\ outcome[id] = "delivered"
                                          /\ sent[id].key.destination = to
                                          /\ id # w}
             CountedAll(to) == {id \in Ids : /\ outcome[id] = "delivered"
                                             /\ sent[id].key.destination = to
                                             /\ id # 0}
  <2> SUFFICES ASSUME NEW to \in Destinations
               PROVE  counts'[to].ack = Cardinality(CountedAll(to))
    BY <1>1, <1>2, Zenon DEF AcksCountDeliveries, Ids, Outbox!Ids, MaxSends
  <2>1. counts[to].ack = Cardinality(Counted(to))
    BY Zenon DEF IInv, AcksCountDeliveries
  <2>2. 0 \notin Ids
    BY <1>4, CountsSends
  <2>3. CASE to = dest
    <3>1. CountedAll(to) = Counted(to) \cup {w} /\ w \notin Counted(to)
      BY <1>3, <2>2, <2>3 DEF dest
    <3>2. IsFiniteSet(Counted(to))
      <4>1. IsFiniteSet(Ids)
        BY <1>4, CountsSends, FS_Interval
      <4>2. Counted(to) \subseteq Ids
        OBVIOUS
      <4> QED
        BY <4>1, <4>2, FS_Subset
    <3> HIDE DEF Counted, CountedAll
    <3>3. Cardinality(Counted(to) \cup {w}) = Cardinality(Counted(to)) + 1
      BY <3>1, <3>2, FS_AddElement
    <3> QED
      BY <1>8, <2>1, <2>3, <3>1, <3>3
  <2>4. CASE to # dest
    <3>1. CountedAll(to) = Counted(to)
      BY <1>3, <2>2, <2>4 DEF dest
    <3> HIDE DEF Counted, CountedAll
    <3> QED
      BY <1>8, <2>1, <2>4, <3>1
  <2> QED
    BY <2>3, <2>4
<1> QED
  BY <1>2, <1>10, <1>11, <1>12, <1>13 DEF IInv

----------------------------------------------------------------------------
LEMMA InitIInv == Init => IInv
<1> SUFFICES ASSUME Init PROVE IInv
  OBVIOUS
<1>1. P!IInv
  <2>1. P!Init
    BY SameData DEF Init, Outbox!Init, P!Init
  <2> QED
    BY <2>1, CountsSends, TransmissionAssumption, MarkerAssumption, TimesAssumption, P!InitIInv
<1>2. /\ handler \in [Handlers -> HandlerRecords]
      /\ \A h \in Handlers : /\ handler[h].text \in Typed /\ handler[h].id = 0
                             /\ handler[h].answer = 0
  <2> DEFINE Fresh == {[step |-> "idle", to |-> to, text |-> text, id |-> 0, answer |-> 0] :
                          to \in Destinations, text \in Typed}
  <2>1. handler \in [Handlers -> Fresh]
    BY DEF Init
  <2>2. \A r \in Fresh : r \in HandlerRecords /\ r.text \in Typed /\ r.id = 0 /\ r.answer = 0
    BY DEF HandlerRecords, Typed, Steps, Answers
  <2> HIDE DEF Fresh
  <2> QED
    BY <2>1, <2>2
<1>3. heard \in [Keys -> 0 .. MaxHeard] /\ BusCap \in Nat
  BY TransmissionAssumption DEF Init
<1>4. /\ queue \in Seq(Events) /\ Len(queue) <= BusCap /\ Len(queue) = 0
      /\ counts \in [Destinations -> [sent : Nat, ack : Nat]]
      /\ announced \in [Ids -> SUBSET {"delivered", "failed"}]
      /\ admitted \in [Pairs -> SUBSET Handlers]
  BY <1>3 DEF Init
<1>5. TypeOK
  BY <1>1, <1>2, <1>3, <1>4, OutboxTyped DEF Init, TypeOK, HandlerRecords
<1>6. Len(sent) \in Nat /\ pending = {} /\ \A id \in Ids : outcome[id] = "unsent"
  <2>1. Len(sent) \in 0 .. MaxSends
    BY <1>1, OutboxShape
  <2> QED
    BY <2>1, CountsSends, SameData DEF Init, Outbox!Init
<1>7. RequestsSane /\ ErrorLeavesNothingPending
  BY <1>2, <1>6 DEF RequestsSane, ErrorLeavesNothingPending
<1>8. PacketsAccounted
  <2> SUFFICES ASSUME NEW key \in Keys
               PROVE  Cardinality(Credited(key)) + Cardinality(Waiting(key)) <= heard[key]
    BY DEF PacketsAccounted
  <2>1. Credited(key) = {} /\ Waiting(key) = {}
    BY <1>4, <1>6 DEF Credited, Waiting
  <2>2. heard[key] = 0
    BY DEF Init
  <2> QED
    BY <2>1, <2>2, FS_EmptySet
<1>9. AnnouncedAgree
  BY DEF Init, AnnouncedAgree
<1>10. AcksCountDeliveries
  <2> SUFFICES ASSUME NEW to \in Destinations
               PROVE  counts[to].ack = Cardinality({id \in Ids : /\ outcome[id] = "delivered"
                                                                 /\ sent[id].key.destination = to
                                                                 /\ id # watching})
    BY Zenon DEF AcksCountDeliveries
  <2>1. {id \in Ids : /\ outcome[id] = "delivered"
                      /\ sent[id].key.destination = to
                      /\ id # watching} = {}
    BY <1>6
  <2>2. counts[to].ack = 0
    BY DEF Init
  <2> QED
    BY <2>1, <2>2, FS_EmptySet
<1> QED
  BY <1>1, <1>5, <1>7, <1>8, <1>9, <1>10 DEF IInv

LEMMA NextKeepsIInv == IInv /\ [Next]_vars => IInv'
<1> SUFFICES ASSUME IInv, [Next]_vars PROVE IInv'
  OBVIOUS
<1>1. ASSUME NEW h \in Handlers, HandlerStep(h)
      PROVE  IInv'
  BY <1>1, ReserveKeepsIInv, RegisterKeepsIInv, SentKeepsIInv, SendFailsKeepsIInv DEF HandlerStep
<1>2. ASSUME NEW pair \in Pairs, ForgetReserve(pair)
      PROVE  IInv'
  BY <1>2, ForgetKeepsIInv
<1>3. ASSUME NEW observed \in Keys, Receive(observed)
      PROVE  IInv'
  BY <1>3, ReceiveKeepsIInv
<1>4. CASE WatcherStep
  BY <1>4, WatchSkipKeepsIInv, WatchConfirmKeepsIInv, WatchReportKeepsIInv DEF WatcherStep
<1>5. ASSUME NEW id \in Ids, OutboxTimer(id) \/ Callback(id)
      PROVE  IInv'
  BY <1>5, TimerKeepsIInv, CallbackKeepsIInv
<1>6. CASE UNCHANGED vars
  <2>1. /\ UNCHANGED <<outboxVars, heard, queue, watching, announced, counts, handler>>
        /\ UNCHANGED <<demo, cache, admitted, unstored>>
    BY <1>6 DEF vars, requestVars, reportVars
  <2>2. TypeOK'
    BY <2>1, OutboxTyped, OutboxUnchanged DEF IInv, TypeOK, outboxVars
  <2>3. \A h : Moves(h)
    BY <2>1 DEF IInv, TypeOK, HandlerRecords, Moves
  <2> QED
    BY <2>1, <2>2, <2>3, RequestStepKeepsIInv DEF IInv, RequestsSane, ErrorLeavesNothingPending
<1> QED
  BY <1>1, <1>2, <1>3, <1>4, <1>5, <1>6 DEF Next

\* IInv holds in every reachable state.
THEOREM Invariance == Spec => []IInv
<1> QED
  BY InitIInv, NextKeepsIInv, PTL DEF Spec

\* Every variable keeps the values the code gives it: in particular the channel
\* of the watcher never exceeds its capacity.
THEOREM Typing == Spec => []TypeOK
<1>1. IInv => TypeOK
  BY DEF IInv
<1> QED
  BY <1>1, Invariance, PTL

\* No message is ever announced both as delivered and as failed.
THEOREM OneVerdictAnnounced == Spec => []VerdictsNotContradicted
<1>1. ASSUME IInv PROVE VerdictsNotContradicted
  <2> SUFFICES ASSUME NEW id \in Ids PROVE Cardinality(announced[id]) <= 1
    BY DEF VerdictsNotContradicted
  <2>1. announced[id] \in SUBSET {outcome[id]}
    BY <1>1 DEF IInv, AnnouncedAgree
  <2>2. IsFiniteSet({outcome[id]}) /\ Cardinality({outcome[id]}) = 1
    BY FS_Singleton
  <2> QED
    BY <2>1, <2>2, FS_Subset
<1> QED
  BY <1>1, Invariance, PTL

\* Of the messages sent with the same words to the same destination no more are
\* delivered than texts that read like them have been received.
THEOREM DeliveriesAreHeard == Spec => []DeliveriesWereHeard
<1>1. ASSUME IInv PROVE DeliveriesWereHeard
  <2> SUFFICES ASSUME NEW key \in Keys PROVE Cardinality(Credited(key)) <= heard[key]
    BY Zenon DEF DeliveriesWereHeard, Credited
  <2>1. Cardinality(Credited(key)) \in Nat /\ Cardinality(Waiting(key)) \in Nat
    BY <1>1, AccountsFinite DEF IInv
  <2>2. Cardinality(Credited(key)) + Cardinality(Waiting(key)) <= heard[key] /\ heard[key] \in Nat
    BY <1>1, TransmissionAssumption DEF IInv, TypeOK, PacketsAccounted
  <2> QED
    BY <2>1, <2>2
<1> QED
  BY <1>1, Invariance, PTL

\* A request answered with an error has no message left in o.pending.
THEOREM ErrorsWithdrawMessages == Spec => []ErrorLeavesNothingPending
<1>1. IInv => ErrorLeavesNothingPending
  BY DEF IInv
<1> QED
  BY <1>1, Invariance, PTL

\* dmstats holds one acknowledgement for every delivered message of a
\* destination, save the one the watcher has in hand.
THEOREM AcknowledgementsExact == Spec => []AcksCountDeliveries
<1>1. IInv => AcksCountDeliveries
  BY DEF IInv
<1> QED
  BY <1>1, Invariance, PTL
=============================================================================
