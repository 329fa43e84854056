---------------------------- MODULE OutboxProofs ----------------------------
(***************************************************************************)
(* Proofs about internal/outbox for any sets of messages, any TTL and any  *)
(* number of sends.                                                        *)
(***************************************************************************)
EXTENDS Outbox, SequenceTheorems, TLAPS

(***************************************************************************)
(* What removeID returns on an increasing list of ids.                     *)
(***************************************************************************)
\* removeID drops target from an increasing list and keeps the rest in order.
LEMMA RemoveIDSpec ==
    ASSUME NEW ids \in Seq(Ids), NEW target, Increasing(ids)
    PROVE  /\ removeID(ids, target) \in Seq(Ids)
           /\ Range(removeID(ids, target)) = Range(ids) \ {target}
           /\ Increasing(removeID(ids, target))
<1>0. /\ Len(ids) \in Nat
      /\ DOMAIN ids = 1 .. Len(ids)
      /\ \A i \in 1 .. Len(ids) : ids[i] \in Ids /\ ids[i] \in Int
      /\ \A i, j \in 1 .. Len(ids) : i < j => ids[i] < ids[j]
  BY OutboxAssumption DEF Ids, Increasing
<1>1. CASE ~ \E i \in DOMAIN ids : ids[i] = target
  <2>1. removeID(ids, target) = ids
    BY <1>1 DEF removeID
  <2>2. target \notin Range(ids)
    BY <1>1 DEF Range
  <2> QED
    BY <2>1, <2>2
<1>2. CASE \E i \in DOMAIN ids : ids[i] = target
  <2>1. PICK i \in 1 .. Len(ids) : ids[i] = target
    BY <1>0, <1>2
  <2>2. \A j \in 1 .. Len(ids) : ids[j] = target => j = i
    BY <1>0, <2>1
  <2>3. i = CHOOSE k \in DOMAIN ids :
                 ids[k] = target /\ \A j \in 1 .. (k - 1) : ids[j] # target
    <3>1. \A j \in 1 .. (i - 1) : ids[j] # target
      BY <1>0, <2>2
    <3> QED
      BY <1>0, <2>1, <2>2, <3>1
  <2> DEFINE rest == [j \in 1 .. (Len(ids) - 1) |-> IF j < i THEN ids[j] ELSE ids[j + 1]]
  <2>4. removeID(ids, target) = rest
    BY <1>2, <2>3, Zenon DEF removeID
  <2> DEFINE n == Len(ids) - 1
  <2>5. n \in Nat /\ n + 1 = Len(ids) /\ i \in 1 .. (n + 1)
    BY <1>0
  <2>6. DOMAIN rest = 1 .. n
    OBVIOUS
  <2>7. \A j \in 1 .. n : rest[j] = IF j < i THEN ids[j] ELSE ids[j + 1]
    OBVIOUS
  <2>8. rest \in [1 .. n -> Ids]
    BY <1>0, <2>5
  <2>9. rest \in Seq(Ids)
    BY <2>5, <2>8
  <2> HIDE DEF rest, n
  <2>10. Increasing(rest)
    <3> SUFFICES ASSUME NEW j \in 1 .. n, NEW k \in 1 .. n, j < k
                 PROVE  rest[j] < rest[k]
      BY <2>6 DEF Increasing
    <3>1. /\ j \in Int /\ k \in Int /\ j + 1 < k + 1
          /\ {j, k, j + 1, k + 1} \subseteq 1 .. Len(ids)
      BY <2>5
    <3> QED
      BY <1>0, <2>5, <2>7, <3>1
  <2>11. \A x \in Range(rest) : x \in Range(ids) /\ x # target
    <3> SUFFICES ASSUME NEW j \in 1 .. n
                 PROVE  \E k \in 1 .. Len(ids) : ids[k] = rest[j] /\ k # i
      BY <1>0, <2>2, <2>6 DEF Range
    <3>1. j \in 1 .. Len(ids) /\ j + 1 \in 1 .. Len(ids)
      BY <2>5
    <3> QED
      BY <2>5, <2>7, <3>1
  <2>12. \A x \in Range(ids) : x # target => x \in Range(rest)
    <3> SUFFICES ASSUME NEW k \in 1 .. Len(ids), ids[k] # target
                 PROVE  \E j \in 1 .. n : rest[j] = ids[k]
      BY <1>0, <2>6 DEF Range
    <3>1. CASE k < i
      BY <1>0, <2>5, <2>7, <3>1
    <3>2. CASE k > i
      <4>1. k - 1 \in 1 .. n /\ ~ (k - 1 < i) /\ (k - 1) + 1 = k
        BY <1>0, <2>5, <3>2
      <4> QED
        BY <2>7, <4>1
    <3> QED
      BY <1>0, <2>1, <2>5, <3>1, <3>2
  <2> QED
    BY <2>4, <2>9, <2>10, <2>11, <2>12
<1> QED
  BY <1>1, <1>2

\* An increasing list of ids without its first element.
LEMMA RestSpec ==
    ASSUME NEW ids \in Seq(Ids), Increasing(ids), 1 \in DOMAIN ids
    PROVE  /\ SubSeq(ids, 2, Len(ids)) \in Seq(Ids)
           /\ Range(SubSeq(ids, 2, Len(ids))) = Range(ids) \ {ids[1]}
           /\ Increasing(SubSeq(ids, 2, Len(ids)))
<1> DEFINE rest == SubSeq(ids, 2, Len(ids))
           n == Len(ids) - 1
<1>1. /\ n \in Nat /\ n + 1 = Len(ids)
      /\ DOMAIN ids = 1 .. (n + 1)
      /\ \A i \in 1 .. (n + 1) : ids[i] \in Ids /\ ids[i] \in Int
      /\ \A i, j \in 1 .. (n + 1) : i < j => ids[i] < ids[j]
  BY OutboxAssumption DEF Ids, Increasing
<1>2. /\ rest \in Seq(Ids)
      /\ DOMAIN rest = 1 .. n
      /\ \A j \in 1 .. n : rest[j] = ids[j + 1]
  BY <1>1
<1> HIDE DEF rest, n
<1>3. \A j \in 1 .. n : j + 1 \in 1 .. (n + 1) /\ 1 < j + 1
  BY <1>1
<1>4. \A k \in 1 .. (n + 1) : k # 1 => k - 1 \in 1 .. n /\ (k - 1) + 1 = k
  BY <1>1
<1>5. Increasing(rest)
  <2> SUFFICES ASSUME NEW j \in 1 .. n, NEW k \in 1 .. n, j < k
               PROVE  rest[j] < rest[k]
    BY <1>2 DEF Increasing
  <2>1. j + 1 < k + 1
    BY <1>1
  <2> QED
    BY <1>1, <1>2, <1>3, <2>1
<1>6. \A x \in Range(rest) : x \in Range(ids) /\ x # ids[1]
  <2> SUFFICES ASSUME NEW j \in 1 .. n
               PROVE  rest[j] \in Range(ids) /\ rest[j] # ids[1]
    BY <1>2 DEF Range
  <2>1. j + 1 \in 1 .. (n + 1) /\ 1 \in 1 .. (n + 1) /\ 1 < j + 1
    BY <1>1, <1>3
  <2>2. ids[1] < ids[j + 1] /\ ids[1] \in Int /\ ids[j + 1] \in Int
    BY <1>1, <2>1
  <2>3. rest[j] = ids[j + 1] /\ rest[j] # ids[1]
    BY <1>2, <2>2
  <2> QED
    BY <1>1, <2>1, <2>3 DEF Range
<1>7. \A x \in Range(ids) : x # ids[1] => x \in Range(rest)
  <2> SUFFICES ASSUME NEW x \in Range(ids), x # ids[1]
               PROVE  x \in Range(rest)
    OBVIOUS
  <2>1. PICK k \in 1 .. (n + 1) : x = ids[k]
    BY <1>1 DEF Range
  <2>2. k - 1 \in 1 .. n /\ (k - 1) + 1 = k
    BY <1>4, <2>1
  <2>3. rest[k - 1] = x
    BY <1>2, <2>1, <2>2
  <2> QED
    BY <1>2, <2>2, <2>3 DEF Range
<1> QED
  BY <1>2, <1>5, <1>6, <1>7 DEF rest

----------------------------------------------------------------------------
(***************************************************************************)
(* The inductive invariant.  IndexExact alone is not inductive: what       *)
(* Confirm drops from the index is right only because the index holds no   *)
(* resolved id, and a new id is new only because of the counter.           *)
(***************************************************************************)
IInv == TypeOK /\ IndexExact /\ TimerGuards /\ VerdictsAgree

\* Shape of the state: what the steps below use of TypeOK.
LEMMA Shape ==
    ASSUME TypeOK
    PROVE  /\ Len(sent) \in Nat /\ Len(sent) <= MaxSends
           /\ DOMAIN sent = 1 .. Len(sent)
           /\ pending \subseteq Ids /\ Ids \subseteq Nat
           /\ \A id \in 1 .. Len(sent) : id \in Ids /\ sent[id] \in Requests
           /\ \A id \in pending : id \in 1 .. Len(sent) /\ sent[id].key \in Keys
           /\ \A key \in Keys : /\ byKey[key] \in Seq(Ids)
                               /\ Len(byKey[key]) \in Nat
                               /\ DOMAIN byKey[key] = 1 .. Len(byKey[key])
<1>1. Len(sent) \in Nat /\ Len(sent) <= MaxSends /\ DOMAIN sent = 1 .. Len(sent)
  BY OutboxAssumption DEF TypeOK
<1>2. pending \subseteq 1 .. Len(sent) /\ 1 .. Len(sent) \subseteq Ids
  BY <1>1, OutboxAssumption DEF TypeOK, Ids
<1>3. Ids \subseteq Nat
  BY OutboxAssumption DEF Ids
<1>4. \A id \in 1 .. Len(sent) : sent[id] \in Requests /\ sent[id].key \in Keys
  <2>1. \A id \in 1 .. Len(sent) : sent[id] \in Requests
    BY DEF TypeOK
  <2>2. \A r \in Requests : r.key \in Keys
    BY DEF Requests
  <2> QED
    BY <2>1, <2>2
<1>5. \A key \in Keys : byKey[key] \in Seq(Ids)
  BY DEF TypeOK
<1> QED
  BY <1>1, <1>2, <1>3, <1>4, <1>5

\* Every id filed under a key is pending.
LEMMA FiledIsPending ==
    ASSUME IndexExact, NEW key \in Keys, NEW i \in DOMAIN byKey[key]
    PROVE  byKey[key][i] \in pending /\ sent[byKey[key][i]].key = key
BY DEF IndexExact, Range

\* When no id filed under a key is pending, none is filed at all, so that
\* Confirm's clearing of the entry changes nothing.
LEMMA NoExactMeansEmpty ==
    ASSUME TypeOK, IndexExact, NEW key \in Keys, NoExact(key)
    PROVE  [byKey EXCEPT ![key] = << >>] = byKey
<1>1. byKey[key] = << >>
  <2>1. DOMAIN byKey[key] = {}
    BY FiledIsPending DEF NoExact
  <2>2. byKey[key] \in Seq(Ids) /\ 1 .. Len(byKey[key]) = {}
    BY <2>1, Shape
  <2>3. Len(byKey[key]) = 0
    BY <2>2, Shape
  <2> QED
    BY <2>2, <2>3, EmptySeq
<1> QED
  BY <1>1 DEF TypeOK

\* Taking one id out of o.pending and out of the list of its key.
LEMMA RemovalKeepsIndex ==
    ASSUME TypeOK, IndexExact, NEW id \in pending,
           pending' = pending \ {id},
           sent' = sent,
           byKey' = [byKey EXCEPT ![sent[id].key] = removeID(@, id)]
    PROVE  /\ byKey' \in [Keys -> Seq(Ids)]
           /\ IndexExact'
<1>1. sent[id].key \in Keys
  BY Shape
<1>2. \A key \in Keys : byKey'[key] = IF key = sent[id].key
                                     THEN removeID(byKey[key], id)
                                     ELSE byKey[key]
  BY <1>1 DEF TypeOK
<1>3. byKey' = [key \in Keys |-> byKey'[key]]
  BY DEF TypeOK
<1>4. ASSUME NEW key \in Keys
      PROVE  /\ byKey'[key] \in Seq(Ids)
             /\ Range(byKey'[key]) = {x \in pending' : sent'[x].key = key}
             /\ Increasing(byKey'[key])
  <2>1. /\ byKey[key] \in Seq(Ids)
        /\ Range(byKey[key]) = {x \in pending : sent[x].key = key}
        /\ Increasing(byKey[key])
    BY Shape DEF IndexExact
  <2>2. CASE key = sent[id].key
    BY <1>2, <2>1, <2>2, RemoveIDSpec
  <2>3. CASE key # sent[id].key
    BY <1>2, <2>1, <2>3
  <2> QED
    BY <2>2, <2>3
<1>5. byKey' \in [Keys -> Seq(Ids)]
  BY <1>3, <1>4
<1>6. IndexExact'
  <2> SUFFICES ASSUME NEW key \in Keys
               PROVE  /\ Range(byKey'[key]) = {x \in pending' : sent'[x].key = key}
                      /\ Increasing(byKey'[key])
    BY DEF IndexExact, Increasing
  <2> QED
    BY <1>4
<1> QED
  BY <1>5, <1>6

\* A timer that is stopped and unfiled together with its message.
LEMMA StoppedTimerKeepsGuards ==
    ASSUME TypeOK, TimerGuards, NEW id \in pending,
           pending' = pending \ {id}, StopTimer(id)
    PROVE  /\ timers' \in SUBSET Ids
           /\ timer' \in [Ids -> TimerStates]
           /\ TimerGuards'
<1>1. id \in Ids
  BY Shape
<1> QED
  BY <1>1 DEF TypeOK, TimerGuards, StopTimer, TimerStates

\* The verdict of a message that leaves o.pending.
LEMMA VerdictKeepsAgreement ==
    ASSUME TypeOK, VerdictsAgree, NEW id \in pending,
           NEW verdict \in {"delivered", "cancelled", "failed"},
           pending' = pending \ {id},
           sent' = sent,
           outcome' = [outcome EXCEPT ![id] = verdict],
           calling' = calling \/ (verdict = "failed" /\ calling' = calling \cup {id})
    PROVE  /\ calling' \in SUBSET Ids
           /\ outcome' \in [Ids -> {"unsent", "pending", "delivered", "cancelled", "failed"}]
           /\ VerdictsAgree'
<1>1. id \in Ids /\ ~ (id > Len(sent))
  BY Shape
<1>2. \A x \in calling : x \in Ids /\ x # id
  BY DEF TypeOK, VerdictsAgree
<1> QED
  BY <1>1, <1>2 DEF TypeOK, VerdictsAgree

\* A function stays within its set of functions when one value is replaced.
LEMMA FunctionUpdate ==
    ASSUME NEW S, NEW T, NEW f \in [S -> T], NEW k \in S, NEW v \in T
    PROVE  [f EXCEPT ![k] = v] \in [S -> T]
OBVIOUS

\* Register files the new id last under its key and arms its timer.
LEMMA RegisterKeepsIInv ==
    ASSUME IInv, NEW key \in Keys, NEW at \in Times, Register(key, at)
    PROVE  IInv'
<1> USE DEF IInv
<1> DEFINE id == Len(sent) + 1
<1>1. /\ id \in Ids
      /\ id \notin pending
      /\ sent' = Append(sent, [key |-> key, at |-> at])
      /\ Len(sent') = id
      /\ \A x \in 1 .. Len(sent) : sent'[x] = sent[x]
      /\ sent'[id] = [key |-> key, at |-> at]
  <2>1. Len(sent) \in Nat /\ id <= MaxSends /\ sent \in Seq(Requests)
    BY Shape DEF Register, TypeOK
  <2>2. id \in Ids /\ id \notin pending
    BY <2>1, OutboxAssumption, Shape DEF Ids
  <2> QED
    BY <2>1, <2>2 DEF Register
<1>2. TypeOK'
  <2>1. sent' \in Seq(Requests)
    <3>1. [key |-> key, at |-> at] \in Requests
      BY DEF Requests
    <3> QED
      BY <1>1, <3>1 DEF TypeOK
  <2>2. Len(sent') \in 0 .. MaxSends /\ pending' \in SUBSET (1 .. Len(sent'))
    <3>1. Len(sent) \in Nat /\ id \in 1 .. MaxSends /\ pending \subseteq 1 .. Len(sent)
      BY <1>1, Shape DEF Ids
    <3>2. pending' = pending \cup {id}
      BY DEF Register
    <3>3. 1 .. Len(sent') = (1 .. Len(sent)) \cup {id}
      BY <1>1, <3>1
    <3>4. Len(sent') \in 0 .. MaxSends
      BY <1>1, <3>1, OutboxAssumption
    <3> QED
      BY <3>1, <3>2, <3>3, <3>4, Zenon
  <2>3. byKey' \in [Keys -> Seq(Ids)]
    <3>1. byKey \in [Keys -> Seq(Ids)] /\ byKey[key] \in Seq(Ids)
      BY DEF TypeOK
    <3> HIDE DEF id
    <3>2. Append(byKey[key], id) \in Seq(Ids)
      BY <1>1, <3>1
    <3>3. byKey' = [byKey EXCEPT ![key] = Append(byKey[key], id)]
      BY DEF Register, id
    <3>4. [byKey EXCEPT ![key] = Append(byKey[key], id)] \in [Keys -> Seq(Ids)]
      BY <3>1, <3>2, FunctionUpdate, Zenon
    <3> QED
      BY <3>3, <3>4, Zenon
  <2>4. timers' \in SUBSET Ids /\ timer' \in [Ids -> TimerStates]
    <3>1. timers \in SUBSET Ids /\ timer \in [Ids -> TimerStates] /\ "armed" \in TimerStates
      BY DEF TypeOK, TimerStates
    <3>2. [timer EXCEPT ![id] = "armed"] \in [Ids -> TimerStates]
      BY <1>1, <3>1, FunctionUpdate, Zenon
    <3>3. \/ timers' = timers \cup {id} /\ timer' = [timer EXCEPT ![id] = "armed"]
          \/ UNCHANGED <<timers, timer>>
      BY DEF Register
    <3> QED
      BY <1>1, <3>1, <3>2, <3>3, Zenon
  <2>5. /\ calling' \in SUBSET Ids
        /\ outcome' \in [Ids -> {"unsent", "pending", "delivered", "cancelled", "failed"}]
    BY <1>1 DEF Register, TypeOK
  <2> QED
    BY <2>1, <2>2, <2>3, <2>4, <2>5 DEF TypeOK
<1>3. IndexExact'
  <2> SUFFICES ASSUME NEW k \in Keys
               PROVE  /\ Range(byKey'[k]) = {x \in pending' : sent'[x].key = k}
                      /\ Increasing(byKey'[k])
    BY DEF IndexExact, Increasing
  <2>1. /\ byKey[k] \in Seq(Ids)
        /\ Range(byKey[k]) = {x \in pending : sent[x].key = k}
        /\ Increasing(byKey[k])
    BY Shape DEF IndexExact
  <2>2. \A x \in pending : sent'[x] = sent[x] /\ x < id
    BY <1>1, Shape
  <2>3. pending' = pending \cup {id} /\ sent'[id].key = key
    BY <1>1 DEF Register
  <2>4. CASE k # key
    <3>1. byKey'[k] = byKey[k]
      BY <2>4 DEF Register, TypeOK
    <3> QED
      BY <2>1, <2>2, <2>3, <2>4, <3>1
  <2>5. CASE k = key
    <3> DEFINE ids == byKey[k]
    <3>1. byKey'[k] = Append(ids, id)
      BY <2>5 DEF Register, TypeOK
    <3>2. \A i \in 1 .. Len(ids) : ids[i] \in pending /\ ids[i] < id /\ ids[i] \in Int
      BY <2>1, <2>2, Shape DEF Range
    <3>3. /\ Len(ids) \in Nat
          /\ Len(Append(ids, id)) = Len(ids) + 1
          /\ DOMAIN Append(ids, id) = 1 .. (Len(ids) + 1)
          /\ Append(ids, id)[Len(ids) + 1] = id
          /\ \A i \in 1 .. Len(ids) : Append(ids, id)[i] = ids[i]
      BY <1>1, <2>1
    <3>4. Range(Append(ids, id)) = Range(ids) \cup {id}
      BY <2>1, <3>3 DEF Range
    <3>5. Increasing(Append(ids, id))
      <4> SUFFICES ASSUME NEW i \in 1 .. (Len(ids) + 1), NEW j \in 1 .. (Len(ids) + 1), i < j
                   PROVE  Append(ids, id)[i] < Append(ids, id)[j]
        BY <3>3 DEF Increasing
      <4>1. i \in 1 .. Len(ids)
        BY <3>3
      <4>2. CASE j = Len(ids) + 1
        BY <3>2, <3>3, <4>1, <4>2
      <4>3. CASE j \in 1 .. Len(ids)
        BY <2>1, <3>3, <4>1, <4>3 DEF Increasing
      <4> QED
        BY <3>3, <4>2, <4>3
    <3> QED
      BY <2>1, <2>2, <2>3, <2>5, <3>1, <3>4, <3>5
  <2> QED
    BY <2>4, <2>5
<1>4. TimerGuards'
  <2>1. pending' = pending \cup {id} /\ timer \in [Ids -> TimerStates] /\ timers \subseteq Ids
    BY DEF Register, TypeOK
  <2>2. CASE TTL > 0
    <3>1. timers' = timers \cup {id} /\ timer' = [timer EXCEPT ![id] = "armed"]
      BY <2>2 DEF Register
    <3>2. timers' = pending'
      BY <2>1, <2>2, <3>1 DEF TimerGuards
    <3>3. timer'[id] = "armed" /\ \A x \in Ids \ {id} : timer'[x] = timer[x]
      BY <1>1, <2>1, <3>1
    <3>4. \A x \in timers' : timer'[x] \in {"armed", "fired"}
      BY <2>1, <3>1, <3>3 DEF TimerGuards
    <3>5. \A x \in Ids \ timers' : timer'[x] # "armed"
      BY <2>1, <3>1, <3>3 DEF TimerGuards
    <3> QED
      BY <2>2, <3>2, <3>4, <3>5 DEF TimerGuards
  <2>3. CASE ~ (TTL > 0)
    <3>1. UNCHANGED <<timers, timer>>
      BY <2>3 DEF Register
    <3> QED
      BY <2>3, <3>1 DEF TimerGuards
  <2> QED
    BY <2>2, <2>3
<1>5. VerdictsAgree'
  <2>1. Len(sent') = Len(sent) + 1 /\ Len(sent) \in Nat /\ Ids \subseteq Nat
    BY <1>1, Shape
  <2>2. id \notin calling
    BY <1>1, <2>1 DEF VerdictsAgree
  <2> QED
    BY <1>1, <2>1, <2>2 DEF Register, TypeOK, VerdictsAgree
<1> QED
  BY <1>2, <1>3, <1>4, <1>5

\* Confirm takes the oldest message of the key, or one of the scan, out of
\* everything it is filed in.
LEMMA ConfirmKeepsIInv ==
    ASSUME IInv, NEW key \in Keys, Confirm(key)
    PROVE  IInv'
<1> USE DEF IInv
<1>1. CASE ConfirmExact(key)
  <2>1. PICK i \in DOMAIN byKey[key] :
            /\ byKey[key][i] \in pending
            /\ \A j \in 1 .. (i - 1) : byKey[key][j] \notin pending
            /\ pending' = pending \ {byKey[key][i]}
            /\ StopTimer(byKey[key][i])
            /\ byKey' = [byKey EXCEPT ![key] = SubSeq(@, i + 1, Len(@))]
            /\ outcome' = [outcome EXCEPT ![byKey[key][i]] = "delivered"]
            /\ UNCHANGED <<sent, calling>>
    BY <1>1 DEF ConfirmExact
  <2> DEFINE ids == byKey[key]
             id == ids[i]
             rest == SubSeq(ids, 2, Len(ids))
  <2>2. /\ ids \in Seq(Ids) /\ Len(ids) \in Nat /\ DOMAIN ids = 1 .. Len(ids)
        /\ Range(ids) = {x \in pending : sent[x].key = key}
        /\ Increasing(ids)
        /\ \A x \in Ids : x \in Int
        /\ \A j \in 1 .. Len(ids) : ids[j] \in Ids
    BY Shape DEF IndexExact
  <2>3. i = 1
    <3>1. 1 \in DOMAIN ids => ids[1] \in pending
      BY FiledIsPending
    <3> QED
      BY <2>1, <2>2, <3>1
  <2>4. /\ rest \in Seq(Ids)
        /\ Range(rest) = Range(ids) \ {id}
        /\ Increasing(rest)
    BY <2>2, <2>3, RestSpec
  <2>7. byKey' = [byKey EXCEPT ![key] = rest]
    BY <2>1, <2>3
  <2>8. byKey' \in [Keys -> Seq(Ids)]
    BY <2>4, <2>7 DEF TypeOK
  <2>9. IndexExact'
    <3> SUFFICES ASSUME NEW k \in Keys
                 PROVE  /\ Range(byKey'[k]) = {x \in pending' : sent'[x].key = k}
                        /\ Increasing(byKey'[k])
      BY DEF IndexExact, Increasing
    <3>1. pending' = pending \ {id} /\ sent' = sent /\ sent[id].key = key
      BY <2>1, FiledIsPending
    <3>2. CASE k = key
      <4>1. byKey'[k] = rest
        BY <2>7, <3>2 DEF TypeOK
      <4> QED
        BY <2>2, <2>4, <3>1, <3>2, <4>1
    <3>3. CASE k # key
      <4>1. byKey'[k] = byKey[k]
        BY <2>7, <3>3 DEF TypeOK
      <4> QED
        BY <3>1, <3>3, <4>1 DEF IndexExact
    <3> QED
      BY <3>2, <3>3
  <2>10. /\ timers' \in SUBSET Ids
         /\ timer' \in [Ids -> TimerStates]
         /\ TimerGuards'
    BY <2>1, StoppedTimerKeepsGuards
  <2>11. /\ calling' \in SUBSET Ids
         /\ outcome' \in [Ids -> {"unsent", "pending", "delivered", "cancelled", "failed"}]
         /\ VerdictsAgree'
    BY <2>1, VerdictKeepsAgreement
  <2> QED
    BY <2>1, <2>8, <2>9, <2>10, <2>11 DEF TypeOK
<1>2. CASE ConfirmScan(key)
  <2>1. PICK id \in Candidates(key) :
            /\ RemoveLocked(id, [byKey EXCEPT ![key] = << >>])
            /\ outcome' = [outcome EXCEPT ![id] = "delivered"]
    BY <1>2 DEF ConfirmScan
  <2>2. id \in pending /\ UNCHANGED <<sent, calling>> /\ NoExact(key)
    BY <1>2 DEF ConfirmScan, Candidates
  <2>3. /\ pending' = pending \ {id}
        /\ StopTimer(id)
        /\ byKey' = [byKey EXCEPT ![sent[id].key] = removeID(@, id)]
    BY <2>1, <2>2, NoExactMeansEmpty DEF RemoveLocked
  <2>4. /\ byKey' \in [Keys -> Seq(Ids)]
        /\ IndexExact'
    BY <2>2, <2>3, RemovalKeepsIndex
  <2>5. /\ timers' \in SUBSET Ids
        /\ timer' \in [Ids -> TimerStates]
        /\ TimerGuards'
    BY <2>2, <2>3, StoppedTimerKeepsGuards
  <2>6. /\ calling' \in SUBSET Ids
        /\ outcome' \in [Ids -> {"unsent", "pending", "delivered", "cancelled", "failed"}]
        /\ VerdictsAgree'
    BY <2>1, <2>2, <2>3, VerdictKeepsAgreement
  <2> QED
    BY <2>2, <2>3, <2>4, <2>5, <2>6 DEF TypeOK
<1>3. CASE ConfirmNone(key)
  <2>1. UNCHANGED vars
    BY <1>3, NoExactMeansEmpty DEF ConfirmNone, vars
  <2> QED
    BY <2>1 DEF vars, TypeOK, IndexExact, TimerGuards, VerdictsAgree
<1> QED
  BY <1>1, <1>2, <1>3 DEF Confirm

\* Cancel goes through removeLocked and leaves nothing of the message behind.
LEMMA CancelKeepsIInv ==
    ASSUME IInv, NEW id \in Ids, Cancel(id)
    PROVE  IInv'
<1> USE DEF IInv
<1>1. /\ id \in pending /\ UNCHANGED <<sent, calling>>
      /\ pending' = pending \ {id}
      /\ StopTimer(id)
      /\ byKey' = [byKey EXCEPT ![sent[id].key] = removeID(@, id)]
      /\ outcome' = [outcome EXCEPT ![id] = "cancelled"]
  BY DEF Cancel, RemoveLocked
<1>2. byKey' \in [Keys -> Seq(Ids)] /\ IndexExact'
  BY <1>1, RemovalKeepsIndex
<1>3. timers' \in SUBSET Ids /\ timer' \in [Ids -> TimerStates] /\ TimerGuards'
  BY <1>1, StoppedTimerKeepsGuards
<1>4. /\ calling' \in SUBSET Ids
      /\ outcome' \in [Ids -> {"unsent", "pending", "delivered", "cancelled", "failed"}]
      /\ VerdictsAgree'
  BY <1>1, VerdictKeepsAgreement
<1> QED
  BY <1>1, <1>2, <1>3, <1>4 DEF TypeOK

\* expire takes a message that is still pending out of map, index and timers.
LEMMA ExpireKeepsIInv ==
    ASSUME IInv, NEW id \in Ids, Expire(id)
    PROVE  IInv'
<1> USE DEF IInv
<1>1. /\ id \in pending /\ UNCHANGED sent
      /\ pending' = pending \ {id}
      /\ timers' = timers \ {id}
      /\ timer' = [timer EXCEPT ![id] = "over"]
      /\ byKey' = [byKey EXCEPT ![sent[id].key] = removeID(@, id)]
      /\ calling' = calling \cup {id}
      /\ outcome' = [outcome EXCEPT ![id] = "failed"]
  BY DEF Expire
<1>2. byKey' \in [Keys -> Seq(Ids)] /\ IndexExact'
  BY <1>1, RemovalKeepsIndex
<1>3. timers' \in SUBSET Ids /\ timer' \in [Ids -> TimerStates] /\ TimerGuards'
  BY <1>1 DEF TypeOK, TimerGuards, TimerStates
<1>4. /\ calling' \in SUBSET Ids
      /\ outcome' \in [Ids -> {"unsent", "pending", "delivered", "cancelled", "failed"}]
      /\ VerdictsAgree'
  BY <1>1, VerdictKeepsAgreement
<1> QED
  BY <1>1, <1>2, <1>3, <1>4 DEF TypeOK

\* Steps that touch neither the messages nor the index.
LEMMA OtherStepsKeepIInv ==
    ASSUME IInv, NEW id \in Ids, Fire(id) \/ ExpireLate(id) \/ FailureReported(id)
    PROVE  IInv'
<1> USE DEF IInv
<1>1. IndexExact'
  BY DEF Fire, ExpireLate, FailureReported, IndexExact
<1>2. TypeOK'
  BY DEF Fire, ExpireLate, FailureReported, TypeOK, TimerStates
<1>3. TimerGuards'
  BY DEF Fire, ExpireLate, FailureReported, TypeOK, TimerGuards
<1>4. VerdictsAgree'
  BY DEF Fire, ExpireLate, FailureReported, TypeOK, VerdictsAgree
<1> QED
  BY <1>1, <1>2, <1>3, <1>4

\* A new outbox is empty.
LEMMA InitIInv == Init => IInv
<1> SUFFICES ASSUME Init PROVE IInv
  OBVIOUS
<1>1. TypeOK
  BY OutboxAssumption DEF Init, TypeOK, TimerStates, Ids
<1>2. IndexExact
  <2> SUFFICES ASSUME NEW key \in Keys
               PROVE  Range(byKey[key]) = {} /\ Increasing(byKey[key])
    BY DEF IndexExact, Init
  <2>1. byKey[key] = << >>
    BY DEF Init
  <2> QED
    BY <2>1 DEF Range, Increasing
<1>3. TimerGuards
  BY DEF Init, TimerGuards
<1>4. VerdictsAgree
  BY OutboxAssumption DEF Init, VerdictsAgree, Ids
<1> QED
  BY <1>1, <1>2, <1>3, <1>4 DEF IInv

\* Every step of the outbox keeps the invariant.
LEMMA NextKeepsIInv == IInv /\ [Next]_vars => IInv'
<1> SUFFICES ASSUME IInv, [Next]_vars PROVE IInv'
  OBVIOUS
<1>1. CASE \E key \in Keys, at \in Times : Register(key, at)
  BY <1>1, RegisterKeepsIInv
<1>2. CASE \E key \in Keys : Confirm(key)
  BY <1>2, ConfirmKeepsIInv
<1>3. CASE \E id \in Ids : Cancel(id)
  BY <1>3, CancelKeepsIInv
<1>4. CASE \E id \in Ids : Fire(id) \/ ExpireLate(id) \/ FailureReported(id)
  BY <1>4, OtherStepsKeepIInv
<1>5. CASE \E id \in Ids : Expire(id)
  BY <1>5, ExpireKeepsIInv
<1>6. CASE UNCHANGED vars
  BY <1>6 DEF vars, IInv, TypeOK, IndexExact, TimerGuards, VerdictsAgree
<1> QED
  BY <1>1, <1>2, <1>3, <1>4, <1>5, <1>6 DEF Next

\* The outbox keeps its invariant in every reachable state.
THEOREM Invariance == Spec => []IInv
<1>1. Init => IInv
  BY InitIInv
<1>2. IInv /\ [Next]_vars => IInv'
  BY NextKeepsIInv
<1> QED
  BY <1>1, <1>2, PTL DEF Spec

\* The state of the outbox is always well typed.
THEOREM TypeCorrect == Spec => []TypeOK
<1>1. IInv => TypeOK
  BY DEF IInv
<1> QED
  BY <1>1, Invariance, PTL

\* The ids filed under a key are always the pending messages with that key,
\* each once and in the order of registration.
THEOREM IndexIsExact == Spec => []IndexExact
<1>1. IInv => IndexExact
  BY DEF IInv
<1> QED
  BY <1>1, Invariance, PTL

\* While timers are on every pending message has a timer that will expire it,
\* and a resolved message has none.
THEOREM TimersGuardPending == Spec => []TimerGuards
<1>1. IInv => TimerGuards
  BY DEF IInv
<1> QED
  BY <1>1, Invariance, PTL

----------------------------------------------------------------------------
(***************************************************************************)
(* What a caller sees of each operation: the registered messages, those in *)
(* o.pending and the verdicts.                                             *)
(***************************************************************************)
\* Register gives the message the next id, which nobody has held before.
LEMMA RegisterEffect ==
    ASSUME IInv, NEW key \in Keys, NEW at \in Times, Register(key, at)
    PROVE  /\ Len(sent) + 1 \in Ids \ pending
           /\ Len(sent') = Len(sent) + 1
           /\ \A id \in 1 .. Len(sent) : sent'[id] = sent[id]
           /\ sent'[Len(sent) + 1].key = key
           /\ pending' = pending \cup {Len(sent) + 1}
           /\ outcome' = [outcome EXCEPT ![Len(sent) + 1] = "pending"]
           /\ calling' = calling
<1>1. sent \in Seq(Requests) /\ Len(sent) \in Nat
  BY Shape DEF IInv, TypeOK
<1>2. Len(sent) + 1 \in Ids
  BY <1>1, OutboxAssumption DEF Register, Ids
<1>3. Len(sent) + 1 \notin pending
  BY <1>1, Shape DEF IInv
<1>4. sent' = Append(sent, [key |-> key, at |-> at])
  BY DEF Register
<1> QED
  BY <1>1, <1>2, <1>3, <1>4 DEF Register

\* Confirm takes at most one message, one that the echo matches.
LEMMA ConfirmEffect ==
    ASSUME IInv, NEW key \in Keys, Confirm(key)
    PROVE  /\ UNCHANGED <<sent, calling>>
           /\ \/ UNCHANGED <<pending, outcome>>
              \/ \E id \in pending : /\ pending' = pending \ {id}
                                     /\ outcome' = [outcome EXCEPT ![id] = "delivered"]
                                     /\ Matches(sent[id], key)
<1>1. CASE ConfirmExact(key)
  <2>1. PICK i \in DOMAIN byKey[key] :
            /\ byKey[key][i] \in pending
            /\ pending' = pending \ {byKey[key][i]}
            /\ outcome' = [outcome EXCEPT ![byKey[key][i]] = "delivered"]
            /\ UNCHANGED <<sent, calling>>
    BY <1>1 DEF ConfirmExact
  <2>2. sent[byKey[key][i]].key = key
    BY FiledIsPending DEF IInv
  <2>3. Matches(sent[byKey[key][i]], key)
    BY <2>2 DEF Matches, messageMatches
  <2> QED
    BY <2>1, <2>3
<1>2. CASE ConfirmScan(key)
  BY <1>2 DEF ConfirmScan, RemoveLocked, Candidates
<1>3. CASE ConfirmNone(key)
  BY <1>3 DEF ConfirmNone
<1> QED
  BY <1>1, <1>2, <1>3 DEF Confirm

\* No other operation confirms a message, and a verdict is final.
LEMMA OtherEffects ==
    ASSUME IInv, NEW id \in Ids,
           Cancel(id) \/ Fire(id) \/ ExpireLate(id) \/ Expire(id) \/ FailureReported(id)
    PROVE  /\ sent' = sent
           /\ pending' \subseteq pending
           /\ Cancel(id) => id \notin pending'
           /\ calling' \subseteq calling \cup {id}
           /\ \/ outcome' = outcome
              \/ id \in pending /\ \E verdict \in {"cancelled", "failed"} :
                                      outcome' = [outcome EXCEPT ![id] = verdict]
  BY DEF Cancel, RemoveLocked, Fire, ExpireLate, Expire, FailureReported

----------------------------------------------------------------------------
(***************************************************************************)
(* The outbox implements Delivery.                                         *)
(***************************************************************************)
\* A new outbox is one to which nothing was submitted.
LEMMA InitRefines == Init => D!Init
BY DEF Init, D!Init, Ids, D!Ids

\* Giving one pending message a verdict is a step of Delivery.
LEMMA VerdictRefines ==
    ASSUME IInv, NEW id \in pending, NEW verdict \in {"cancelled", "failed"},
           sent' = sent, outcome' = [outcome EXCEPT ![id] = verdict]
    PROVE  D!Next
<1>1. id \in D!Ids /\ D!Open(id)
  BY Shape DEF IInv, VerdictsAgree, D!Ids, D!Open, Ids
<1>2. D!GiveVerdict(id, verdict)
  BY <1>1 DEF D!GiveVerdict
<1> QED
  BY <1>1, <1>2 DEF D!Next

\* The message Confirm picks is one Delivery would credit the echo to; an echo
\* without a match changes nothing Delivery sees.
LEMMA ConfirmRefines ==
    ASSUME IInv, NEW key \in Keys, Confirm(key)
    PROVE  D!Next \/ UNCHANGED D!vars
<1> USE DEF IInv
<1>0. /\ \A x : x \in pending <=> x \in Ids /\ D!Open(x)
      /\ D!Ids = Ids
      /\ key \in D!Keys
      /\ \A x \in pending : sent[x].at \in Int
  <2>1. \A x \in pending : sent[x] \in Requests
    BY Shape
  <2>2. \A r \in Requests : r.at \in Int
    <3>1. \A r \in Requests : r.at \in Times
      BY DEF Requests
    <3>2. \A t \in Times : t \in Int
      BY TimesAssumption
    <3> QED
      BY <3>1, <3>2, Zenon
  <2>3. \A x : x \in pending <=> x \in Ids /\ D!Open(x)
    BY Shape DEF VerdictsAgree, D!Open
  <2>4. D!Ids = Ids /\ key \in D!Keys
    BY DEF D!Ids, Ids, D!Keys, Keys, D!Texts, Texts
  <2> QED
    BY <2>1, <2>2, <2>3, <2>4
<1>1. CASE ConfirmExact(key)
  <2>1. PICK i \in DOMAIN byKey[key] :
            /\ byKey[key][i] \in pending
            /\ \A j \in 1 .. (i - 1) : byKey[key][j] \notin pending
            /\ outcome' = [outcome EXCEPT ![byKey[key][i]] = "delivered"]
            /\ sent' = sent
    BY <1>1 DEF ConfirmExact
  <2> DEFINE id == byKey[key][i]
  <2>2. sent[id].key = key
    BY FiledIsPending
  <2>3. ASSUME NEW j \in Ids, D!Open(j), sent[j].key = key
        PROVE  id <= j
    <3>1. j \in Range(byKey[key])
      BY <1>0, <2>3 DEF IndexExact
    <3>2. PICK k \in DOMAIN byKey[key] : byKey[key][k] = j
      BY <3>1 DEF Range
    <3>3. k \in Int /\ i \in Int /\ DOMAIN byKey[key] = 1 .. Len(byKey[key])
      BY Shape
    <3>4. ~ (k < i)
      BY <2>1, <3>2, <3>3, FiledIsPending
    <3>5. id \in Int /\ j \in Int
      BY <1>0, <2>1, Shape
    <3>6. i < k => id < j
      BY <3>2 DEF IndexExact, Increasing
    <3> QED
      BY <3>2, <3>3, <3>4, <3>5, <3>6
  <2>4. D!Exact(id, key)
    BY <1>0, <2>2, <2>3 DEF D!Exact
  <2>5. D!Deliver(id, key)
    BY <1>0, <2>1, <2>4 DEF D!Deliver, D!GiveVerdict
  <2> QED
    BY <1>0, <2>1, <2>5 DEF D!Next
<1>2. CASE ConfirmScan(key)
  <2>1. PICK id \in Candidates(key) :
            /\ \A other \in Candidates(key) : sent[id].at <= sent[other].at
            /\ outcome' = [outcome EXCEPT ![id] = "delivered"]
            /\ sent' = sent
            /\ NoExact(key)
    BY <1>2 DEF ConfirmScan
  <2>2. id \in pending /\ Matches(sent[id], key)
    BY DEF Candidates
  <2>3. ASSUME NEW j \in Ids, D!Open(j)
        PROVE  sent[j].key # key
    <3>1. j \in pending
      BY <1>0, <2>3
    <3>2. SUFFICES ASSUME sent[j].key = key PROVE FALSE
      OBVIOUS
    <3>3. j \in Range(byKey[key])
      BY <3>1, <3>2 DEF IndexExact
    <3> QED
      BY <2>1, <3>1, <3>3 DEF Range, NoExact
  <2>4. \A j \in Ids : D!Open(j) /\ Matches(sent[j], key) => sent[id].at <= sent[j].at
    BY <1>0, <2>1 DEF Candidates
  <2>5. D!Loose(id, key)
    BY <1>0, <2>2, <2>3, <2>4 DEF D!Loose, D!Matches, Matches, D!messageMatches, messageMatches
  <2>6. D!Deliver(id, key)
    BY <1>0, <2>1, <2>2, <2>5 DEF D!Deliver, D!GiveVerdict
  <2> QED
    BY <1>0, <2>2, <2>6 DEF D!Next
<1>3. CASE ConfirmNone(key)
  BY <1>3 DEF ConfirmNone, D!vars
<1> QED
  BY <1>1, <1>2, <1>3 DEF Confirm

\* Register submits a message.
LEMMA RegisterRefines ==
    ASSUME IInv, NEW key \in Keys, NEW at \in Times, Register(key, at)
    PROVE  D!Next
<1> DEFINE request == [key |-> key, at |-> at]
<1>1. request \in Requests
  BY DEF Requests
<1>2. Len(sent) < MaxSends
  BY Shape, OutboxAssumption DEF IInv, Register
<1>3. D!Submit(request)
  BY <1>2 DEF Register, D!Submit
<1> QED
  BY <1>1, <1>3 DEF D!Next, D!Requests, D!Keys, D!Texts, Requests, Keys, Texts

\* Every step of the outbox is a step of Delivery or changes nothing it sees.
LEMMA NextRefines == IInv /\ [Next]_vars => [D!Next]_D!vars
<1> SUFFICES ASSUME IInv, [Next]_vars PROVE D!Next \/ UNCHANGED D!vars
  OBVIOUS
<1>1. CASE \E key \in Keys, at \in Times : Register(key, at)
  BY <1>1, RegisterRefines
<1>2. CASE \E key \in Keys : Confirm(key)
  BY <1>2, ConfirmRefines
<1>3. CASE \E id \in Ids : Cancel(id)
  BY <1>3, VerdictRefines DEF Cancel
<1>4. CASE \E id \in Ids : Fire(id) \/ ExpireLate(id) \/ FailureReported(id)
  BY <1>4 DEF Fire, ExpireLate, FailureReported, D!vars
<1>5. CASE \E id \in Ids : Expire(id)
  BY <1>5, VerdictRefines DEF Expire
<1>6. CASE UNCHANGED vars
  BY <1>6 DEF vars, D!vars
<1> QED
  BY <1>1, <1>2, <1>3, <1>4, <1>5, <1>6 DEF Next

\* Whatever the index and the timers do, a message gets at most one verdict
\* and an echo is credited to the earliest message with exactly its key or,
\* failing one, to an oldest message that it matches but for its marker.
THEOREM OutboxImplementsDelivery == Spec => Implements
<1>1. Init => D!Init
  BY InitRefines
<1>2. IInv /\ [Next]_vars => [D!Next]_D!vars
  BY NextRefines
<1> QED
  BY <1>1, <1>2, Invariance, PTL DEF Spec, Implements, D!Spec
=============================================================================
