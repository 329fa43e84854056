--------------------------- MODULE ArchiveProofs ---------------------------
(***************************************************************************)
(* Theorems about what the daemon keeps of the traffic: the conversations  *)
(* of ChatLog, the counters of Stats and the incremental save of           *)
(* Positions; and that Archive, which is model-checked, runs these         *)
(* components and keeps what they keep.                                    *)
(***************************************************************************)
EXTENDS Archive, FiniteSetTheorems, WellFoundedInduction, TLAPS

----------------------------------------------------------------------------
(* ChatLog: for any callsigns, texts, window and retention. *)

\* The callsigns under which texts are filed: the station's, or that of a sender.
Filers == Devices \cup {NoCall} \cup {t.src : t \in Texts}

\* Each row is where filenameForMsg put its text, under some callsign.
Filed(r) == \E mine \in Filers : r.conv \in FileIDs(r.text, mine)
RecordsFiled == \A i \in DOMAIN chats : Filed(chats[i])

\* What a delete that nothing disturbs has done so far: the rows are gone, and each
\* marker is either absent or among the keys that it will remove.
DeleteUnderWay ==
    request.op = "delete" =>
        /\ request.stamp = 0
        /\ undisturbed /\ request.pc # "remove" =>
               FileOf(FileIDForAPIID(request.id)) = {}
        /\ undisturbed /\ request.pc = "apply" =>
               \A k \in MarkersOf(FileIDForAPIID(request.id)) :
                   last_read[k] = 0 \/ k \in request.keys

ChatInv == ChatTypeOK /\ RecordsFiled /\ DeleteUnderWay

LEMMA TextParts ==
    ASSUME NEW t \in Texts
    PROVE  /\ t.src \in Involved /\ t.dm \in BOOLEAN
           /\ t.dm => t.dst \in Involved
           /\ ~t.dm => t.dst \in Channels
BY ChatAssumption DEF TextType, Involved, Channels

\* A text is filed under one of the conversations of the model.
LEMMA FileIDsInConversations ==
    ASSUME NEW t \in Texts, NEW mine \in Filers
    PROVE  FileIDs(t, mine) \subseteq Conversations
<1>1. mine = NoCall \/ mine \in Involved
    BY DEF Filers, Involved
<1>2. CASE ~t.dm
    BY <1>2, TextParts DEF FileIDs, Conversations, Public
<1>3. CASE t.dm
  <2>1. BaseCall(mine) \in Bases \/ mine = NoCall
    BY <1>1 DEF Bases
  <2>2. Interlocutor(t, mine) \in Involved /\ t.dst \in Involved
    BY <1>3, TextParts DEF Interlocutor
  <2>3. NoCall \in Bases
    BY DEF Bases
  <2>4. \A caller \in Bases, peer \in Involved : <<"DM", caller, peer>> \in Conversations
    BY DEF Conversations
  <2> QED
    BY <1>3, <2>1, <2>2, <2>3, <2>4 DEF FileIDs
<1> QED
    BY <1>2, <1>3, TextParts

\* Who a direct message in the tables is from, or for.
LEMMA FiledSpec ==
    ASSUME NEW r \in Record, Filed(r), IsDM(r.conv)
    PROVE  /\ r.conv = <<"DM", r.conv[2], r.conv[3]>>
           /\ r.conv[3] \in {r.text.src, r.text.dst} /\ r.text.dm
           /\ \/ r.conv[2] = NoCall
              \/ /\ r.conv[2] \in {BaseCall(r.text.src), BaseCall(r.text.dst)}
                 /\ BaseCall(r.text.dst) = r.conv[2] => r.conv[3] = r.text.src
<1>1. PICK mine \in Filers : r.conv \in FileIDs(r.text, mine)
    BY DEF Filed
<1>2. r.text.dm
  <2> SUFFICES ASSUME ~r.text.dm PROVE FALSE
    OBVIOUS
  <2>1. r.conv = <<"P", r.text.dst>>
    BY <1>1 DEF FileIDs
  <2> QED
    BY <2>1 DEF IsDM
<1>3. CASE mine = NoCall
  <2>1. r.conv = <<"DM", NoCall, r.text.dst>>
    BY <1>1, <1>2, <1>3 DEF FileIDs
  <2> QED
    BY <1>2, <2>1
<1>4. CASE mine # NoCall
  <2>1. /\ r.conv = <<"DM", BaseCall(mine), Interlocutor(r.text, mine)>>
        /\ Ours(r.text, mine)
    BY <1>1, <1>2, <1>4 DEF FileIDs
  <2>2. r.conv[2] = BaseCall(mine) /\ r.conv[3] = Interlocutor(r.text, mine)
    BY <2>1
  <2> QED
    BY <1>2, <2>1, <2>2 DEF Ours, Interlocutor
<1> QED
    BY <1>3, <1>4

LEMMA StatusKeyInConversations ==
    ASSUME NEW r \in Record, Filed(r)
    PROVE  StatusKey(r) \in Conversations
<1>1. r.conv \in Conversations /\ r.text \in Texts
    BY DEF Record
<1>2. CASE ~IsDM(r.conv)
    BY <1>1, <1>2 DEF StatusKey
<1>3. CASE IsDM(r.conv)
  <2>1. {r.text.src, r.text.dst} \subseteq Involved /\ r.conv[3] \in Involved
    BY <1>1, <1>3, FiledSpec, TextParts
  <2>2. \A caller, peer \in Involved : <<"DM", caller, peer>> \in Conversations
    BY DEF Conversations
  <2>3. StatusKey(r) \in {r.conv, <<"DM", r.text.src, r.conv[3]>>, <<"DM", r.text.dst, r.conv[3]>>}
    BY DEF StatusKey
  <2> QED
    BY <1>1, <2>1, <2>2, <2>3
<1> QED
    BY <1>2, <1>3

LEMMA DeviceHasBase ==
    ASSUME NEW call \in Devices
    PROVE  call # NoCall /\ BaseCall(call) # NoCall
<1>1. call[1] # ""
    BY ChatAssumption
<1>2. NoCall[1] = "" /\ BaseCall(call)[1] = call[1]
    BY DEF NoCall, BaseCall
<1> QED
    BY <1>1, <1>2

\* A row is counted under the full callsign of the operator's device that sent or
\* received it, which is how the list shows it.
LEMMA CountedWhereListed ==
    ASSUME NEW r \in Record, Filed(r), NEW call \in Devices, NEW peer,
           BaseCall(peer) # BaseCall(call)
    PROVE  StatusKey(r) = <<"DM", call, peer>>
               <=> /\ r.conv = <<"DM", BaseCall(call), peer>>
                   /\ RecordMatchesSSID(r, call)
<1> DEFINE local == r.conv[2]
           src == r.text.src
           dst == r.text.dst
<1>1. call # NoCall /\ BaseCall(call) # NoCall
    BY DeviceHasBase
<1>2. CASE ~IsDM(r.conv)
    BY <1>2 DEF StatusKey, IsDM
<1>3. CASE IsDM(r.conv) /\ local = NoCall
  <2>1. StatusKey(r) = r.conv
    BY <1>3 DEF StatusKey
  <2> QED
    BY <1>1, <1>3, <2>1
<1>4. CASE IsDM(r.conv) /\ local # NoCall
  <2>1. /\ r.conv = <<"DM", local, r.conv[3]>>
        /\ local \in {BaseCall(src), BaseCall(dst)}
        /\ BaseCall(dst) = local => r.conv[3] = src
    BY <1>4, FiledSpec
  <2>2. CASE BaseCall(src) = local
    <3>1. StatusKey(r) = <<"DM", src, r.conv[3]>>
      BY <1>4, <2>2 DEF StatusKey
    <3>2. BaseCall(dst) = local => r.conv # <<"DM", BaseCall(call), peer>>
      BY <2>1, <2>2
    <3> HIDE DEF local
    <3> QED
      BY <2>1, <2>2, <3>1, <3>2 DEF RecordMatchesSSID
  <2>3. CASE BaseCall(src) # local
    <3>1. StatusKey(r) = <<"DM", dst, r.conv[3]>> /\ BaseCall(dst) = local
      BY <1>4, <2>1, <2>3 DEF StatusKey
    <3> HIDE DEF local
    <3> QED
      BY <2>1, <2>3, <3>1 DEF RecordMatchesSSID
  <2> QED
    BY <2>2, <2>3
<1> QED
    BY <1>2, <1>3, <1>4

LEMMA BoundsAreNumbers ==
    ASSUME ChatTypeOK
    PROVE  lastRow \in Nat /\ MaxTime \in Nat
<1>1. lastRow \in 0 .. MaxRecords /\ MaxRecords \in Nat /\ MaxTime \in Nat
    BY ChatAssumption DEF ChatTypeOK
<1> QED
    BY <1>1

LEMMA RowsFinite ==
    ASSUME ChatTypeOK
    PROVE  IsFiniteSet(DOMAIN chats)
<1>1. 1 \in Int /\ lastRow \in Int
    BY BoundsAreNumbers
<1>2. DOMAIN chats \subseteq 1 .. lastRow
    BY DEF ChatTypeOK
<1>3. IsFiniteSet(1 .. lastRow)
    BY <1>1, FS_Interval
<1> QED
    BY <1>2, <1>3, FS_Subset

LEMMA LeastNumber ==
    ASSUME NEW S \in SUBSET Nat, S # {}
    PROVE  \E n \in S : \A m \in S : n <= m
<1>1. IsWellFoundedOn(OpToRel(<, Nat), Nat)
    BY NatLessThanWellFounded
<1>2. PICK n \in S : \A m \in S : ~ (<<m, n>> \in OpToRel(<, Nat))
    BY <1>1, WFMin
<1>3. \A m \in S : ~(m < n)
    BY <1>2 DEF OpToRel
<1> QED
    BY <1>3

\* Two rows are read one after the other, and not in both orders.
LEMMA BeforeIsTotal ==
    ASSUME ChatTypeOK, NEW i \in DOMAIN chats, NEW j \in DOMAIN chats, i # j
    PROVE  /\ Before(i, j) \/ Before(j, i)
           /\ ~(Before(i, j) /\ Before(j, i))
           /\ ~Before(i, i)
<1>1. {i, j} \subseteq 1 .. lastRow /\ {chats[i], chats[j]} \subseteq Record
    BY DEF ChatTypeOK
<1>2. lastRow \in Nat /\ MaxTime \in Nat
    BY BoundsAreNumbers
<1>3. i \in Nat /\ j \in Nat /\ chats[i].at \in Nat /\ chats[j].at \in Nat
    BY <1>1, <1>2 DEF Record
<1> QED
    BY <1>3 DEF Before

\* There is a row that is read last.
LEMMA LastRead ==
    ASSUME ChatTypeOK, NEW ids \in SUBSET (DOMAIN chats), ids # {}
    PROVE  \E last \in ids : \A i \in ids : ~Before(last, i)
<1> DEFINE early == {MaxTime - chats[i].at : i \in ids}
<1>1. \A i \in ids : i \in 1 .. lastRow /\ chats[i].at \in 1 .. MaxTime
    BY DEF ChatTypeOK, Record
<1>2. lastRow \in Nat /\ MaxTime \in Nat
    BY BoundsAreNumbers
<1>3. early \in SUBSET Nat /\ early # {}
    BY <1>1, <1>2
<1>4. PICK n \in early : \A m \in early : n <= m
    BY <1>3, LeastNumber
<1>5. PICK latest \in ids : n = MaxTime - chats[latest].at
    BY DEF early
<1>6. ASSUME NEW i \in ids PROVE chats[i].at <= chats[latest].at
  <2>1. MaxTime - chats[i].at \in early
    OBVIOUS
  <2>2. MaxTime - chats[latest].at <= MaxTime - chats[i].at
    BY <1>4, <1>5, <2>1
  <2>3. chats[i].at \in 1 .. MaxTime /\ chats[latest].at \in 1 .. MaxTime
    BY <1>1
  <2> QED
    BY <1>2, <2>2, <2>3
<1> DEFINE together == {i \in ids : chats[i].at = chats[latest].at}
           small == {lastRow - i : i \in together}
<1>7. small \in SUBSET Nat /\ small # {}
    BY <1>1, <1>2
<1>8. PICK k \in small : \A m \in small : k <= m
    BY <1>7, LeastNumber
<1>9. PICK last \in together : k = lastRow - last
    BY DEF small
<1>10. \A i \in together : i <= last
    BY <1>1, <1>2, <1>8, <1>9
<1>11. ASSUME NEW i \in ids, Before(last, i) PROVE FALSE
  <2>1. chats[i].at = chats[last].at /\ last < i
    BY <1>1, <1>2, <1>6, <1>9, <1>11 DEF Before
  <2>2. i <= last
    BY <1>9, <1>10, <2>1
  <2> QED
    BY <1>1, <1>2, <2>1, <2>2
<1> QED
    BY <1>9, <1>11

\* What the loop of readSinceSQLite keeps of some rows.
KeptOf(ids, kept) ==
    \A i \in ids : i \in kept <=> ~isDuplicateRecord({j \in kept : Before(j, i)}, chats[i])

\* There is such a set: that of the rows but the last, with the last one or without it.
LEMMA SomeAreKept ==
    ASSUME ChatTypeOK, NEW ids \in SUBSET (DOMAIN chats)
    PROVE  \E kept \in SUBSET ids : KeptOf(ids, kept)
<1> DEFINE Bad == {s \in SUBSET (DOMAIN chats) : ~ \E kept \in SUBSET s : KeptOf(s, kept)}
           sizes == {Cardinality(s) : s \in Bad}
<1> SUFFICES ASSUME Bad # {} PROVE FALSE
    OBVIOUS
<1>1. \A s \in SUBSET (DOMAIN chats) : IsFiniteSet(s) /\ Cardinality(s) \in Nat
    BY RowsFinite, FS_Subset, FS_CardinalityType
<1>2. PICK s \in Bad : \A t \in Bad : Cardinality(s) <= Cardinality(t)
  <2>1. sizes \in SUBSET Nat /\ sizes # {}
    BY <1>1
  <2>2. PICK n \in sizes : \A m \in sizes : n <= m
    BY <2>1, LeastNumber
  <2> QED
    BY <2>2
<1>3. s \in SUBSET (DOMAIN chats) /\ IsFiniteSet(s) /\ Cardinality(s) \in Nat
    BY <1>1
<1>4. s # {}
  <2>1. {} \in SUBSET {} /\ KeptOf({}, {})
    BY DEF KeptOf
  <2> QED
    BY <2>1
<1>5. PICK last \in s : \A i \in s : ~Before(last, i)
    BY <1>3, <1>4, LastRead
<1> DEFINE rest == s \ {last}
<1>6. rest \in SUBSET (DOMAIN chats) /\ ~(Cardinality(s) <= Cardinality(rest))
  <2>1. Cardinality(rest) = Cardinality(s) - 1
    BY <1>3, FS_RemoveElement
  <2> QED
    BY <1>3, <2>1
<1>7. PICK kept \in SUBSET rest : KeptOf(rest, kept)
    BY <1>2, <1>6
<1> DEFINE all == IF isDuplicateRecord(kept, chats[last]) THEN kept ELSE kept \cup {last}
<1> HIDE DEF Bad, sizes
<1>8. \A i \in rest : {j \in all : Before(j, i)} = {j \in kept : Before(j, i)}
    BY <1>5
<1>9. {j \in all : Before(j, last)} = kept
  <2>1. ASSUME NEW j \in kept PROVE Before(j, last)
    BY <1>3, <1>5, BeforeIsTotal
  <2>2. ~Before(last, last)
    BY <1>5
  <2> QED
    BY <2>1, <2>2
<1>10. \A i \in rest : i \in all <=> i \in kept
    OBVIOUS
<1>11. last \in all <=> ~isDuplicateRecord(kept, chats[last])
    OBVIOUS
<1>12. all \in SUBSET s
    OBVIOUS
<1> HIDE DEF all
<1>13. KeptOf(s, all)
  <2> SUFFICES ASSUME NEW i \in s
               PROVE  i \in all <=> ~isDuplicateRecord({j \in all : Before(j, i)}, chats[i])
    BY DEF KeptOf
  <2>1. CASE i = last
    BY <1>9, <1>11, <2>1
  <2>2. CASE i \in rest
    <3>1. i \in kept <=> ~isDuplicateRecord({j \in kept : Before(j, i)}, chats[i])
      BY <1>7, <2>2 DEF KeptOf
    <3> QED
      BY <1>8, <1>10, <2>2, <3>1
  <2> QED
    BY <2>1, <2>2
<1> QED
    BY <1>12, <1>13 DEF Bad

LEMMA ReadAllIsKept ==
    ASSUME ChatTypeOK, NEW conv
    PROVE  ReadAll(conv) \in SUBSET FileOf(conv) /\ KeptOf(FileOf(conv), ReadAll(conv))
<1>1. FileOf(conv) \in SUBSET (DOMAIN chats)
    BY DEF FileOf
<1>2. \E kept \in SUBSET FileOf(conv) : KeptOf(FileOf(conv), kept)
    BY <1>1, SomeAreKept
<1>3. ReadAll(conv) = CHOOSE kept \in SUBSET FileOf(conv) : KeptOf(FileOf(conv), kept)
    BY DEF ReadAll, KeptOf
<1> QED
    BY <1>2, <1>3

\* A row that the loop holds back is held back for a copy, which has the same text.
LEMMA HeldBackForACopy ==
    ASSUME ChatTypeOK, NEW conv, NEW i \in FileOf(conv)
    PROVE  \/ i \in ReadAll(conv)
           \/ /\ chats[i].text.id # 0
              /\ \E j \in ReadAll(conv) :
                     SameMessage(chats[j], chats[i]) /\ chats[j].text = chats[i].text
<1> SUFFICES ASSUME i \notin ReadAll(conv)
             PROVE  /\ chats[i].text.id # 0
                    /\ \E j \in ReadAll(conv) : /\ SameMessage(chats[j], chats[i])
                                                /\ chats[j].text = chats[i].text
    OBVIOUS
<1>1. isDuplicateRecord({j \in ReadAll(conv) : Before(j, i)}, chats[i])
    BY ReadAllIsKept DEF KeptOf
<1>2. chats[i].text.id # 0 /\ \E j \in ReadAll(conv) : SameMessage(chats[j], chats[i])
    BY <1>1 DEF isDuplicateRecord
<1>3. PICK j \in ReadAll(conv) : SameMessage(chats[j], chats[i])
    BY <1>2
<1>4. i \in DOMAIN chats /\ j \in DOMAIN chats
    BY ReadAllIsKept DEF FileOf
<1>5. chats[i].text \in Texts /\ chats[j].text \in Texts
    BY <1>4 DEF ChatTypeOK, Record
<1>6. chats[j].text = chats[i].text
    BY <1>2, <1>3, <1>5, ChatAssumption DEF SameMessage
<1> QED
    BY <1>2, <1>3, <1>6

\* Two rows that are kept are not copies of each other: the later would have been
\* held back.
LEMMA CopiesAreHidden ==
    ASSUME ChatTypeOK
    PROVE  DuplicatesHidden
<1>1. ASSUME NEW conv, NEW i \in ReadAll(conv), NEW j \in ReadAll(conv), Before(j, i),
             chats[i].text.id # 0
      PROVE  ~SameMessage(chats[j], chats[i])
  <2>1. i \in FileOf(conv) /\ ~isDuplicateRecord({k \in ReadAll(conv) : Before(k, i)}, chats[i])
    BY <1>1, ReadAllIsKept DEF KeptOf
  <2> QED
    BY <1>1, <2>1 DEF isDuplicateRecord
<1>2. ASSUME NEW conv, NEW i \in ReadAll(conv), NEW j \in ReadAll(conv), i # j,
             chats[i].text.id # 0, SameMessage(chats[i], chats[j])
      PROVE  FALSE
  <2>1. chats[j].text.id # 0 /\ SameMessage(chats[j], chats[i])
    BY <1>2 DEF SameMessage
  <2>2. i \in DOMAIN chats /\ j \in DOMAIN chats
    BY <1>2, ReadAllIsKept DEF FileOf
  <2> QED
    BY <1>1, <1>2, <2>1, <2>2, BeforeIsTotal
<1>3. ASSUME NEW conv, NEW i \in FileOf(conv) \ ReadAll(conv)
      PROVE  \E j \in ReadAll(conv) : SameMessage(chats[j], chats[i])
    BY <1>3, HeldBackForACopy
<1> QED
    BY <1>2, <1>3 DEF DuplicatesHidden

LEMMA StoredSinceTheStart ==
    ASSUME ChatTypeOK, NEW i \in DOMAIN chats
    PROVE  chats[i].at >= 1
<1>1. chats[i].at \in 1 .. MaxTime
    BY DEF ChatTypeOK, Record
<1> QED
    BY <1>1

\* A row of the operator's device is shown under the id that the list gives.
LEMMA MatchingIsShown ==
    ASSUME ChatTypeOK, RecordsFiled, NEW i \in DOMAIN chats,
           IsDM(chats[i].conv), chats[i].conv[2] = BaseCall(mycall),
           RecordMatchesSSID(chats[i], mycall)
    PROVE  \E j \in getConversation(<<"DM", mycall, chats[i].conv[3]>>, 1) :
               j = i \/ (chats[i].text.id # 0 /\ SameMessage(chats[j], chats[i]))
<1> DEFINE conv == chats[i].conv
           id == <<"DM", mycall, conv[3]>>
<1>1. conv = <<"DM", conv[2], conv[3]>>
    BY FiledSpec DEF ChatTypeOK, RecordsFiled
<1>2. FileIDForAPIID(id) = conv
    BY <1>1 DEF FileIDForAPIID, IsDM
<1>3. i \in FileOf(conv)
    BY DEF FileOf
<1>4. PICK j \in ReadAll(conv) :
               /\ j = i \/ (chats[i].text.id # 0 /\ SameMessage(chats[j], chats[i]))
               /\ chats[j].text = chats[i].text
    BY <1>3, HeldBackForACopy
<1>5. j \in DOMAIN chats
    BY ReadAllIsKept DEF FileOf
<1>6. chats[j].at >= 1 /\ RecordMatchesSSID(chats[j], mycall)
    BY <1>4, <1>5, StoredSinceTheStart DEF RecordMatchesSSID
<1>7. j \in getConversation(id, 1)
    BY <1>2, <1>6 DEF getConversation, ReadSince
<1> QED
    BY <1>4, <1>7

\* So the status counts under an id of the list what the list shows for it.
LEMMA ShownAreCounted ==
    ASSUME ChatTypeOK, RecordsFiled
    PROVE  CountedAreListed
<1> SUFFICES ASSUME NEW id \in listConversations, IsDM(id), id[2] # NoCall,
                    BaseCall(id[3]) # BaseCall(id[2])
             PROVE  /\ \A i \in Unread(id) : \/ i \in getConversation(id, 1)
                                             \/ isDuplicateRecord(getConversation(id, 1), chats[i])
                    /\ \A i \in getConversation(id, 1) :
                           ~chats[i].text.notice /\ chats[i].at > last_read[id] => i \in Unread(id)
    BY DEF CountedAreListed
<1>1. id = <<"DM", mycall, id[3]>>
    BY DEF listConversations
<1>2. id[2] = mycall /\ mycall \in Devices
    BY <1>1 DEF ChatTypeOK
<1>3. FileIDForAPIID(id) = <<"DM", BaseCall(id[2]), id[3]>>
    BY DEF FileIDForAPIID
<1>4. ASSUME NEW i \in DOMAIN chats
      PROVE  StatusKey(chats[i]) = id
                 <=> /\ chats[i].conv = FileIDForAPIID(id)
                     /\ RecordMatchesSSID(chats[i], id[2])
  <2>1. chats[i] \in Record /\ Filed(chats[i])
    BY <1>4 DEF ChatTypeOK, RecordsFiled
  <2> QED
    BY <1>1, <1>2, <1>3, <2>1, CountedWhereListed
<1>5. ASSUME NEW i \in Unread(id)
      PROVE  i \in getConversation(id, 1) \/ isDuplicateRecord(getConversation(id, 1), chats[i])
  <2>1. /\ i \in DOMAIN chats
        /\ chats[i].conv = <<"DM", BaseCall(mycall), id[3]>>
        /\ RecordMatchesSSID(chats[i], mycall)
    BY <1>2, <1>3, <1>4 DEF Unread
  <2>2. /\ IsDM(chats[i].conv) /\ chats[i].conv[2] = BaseCall(mycall)
        /\ <<"DM", mycall, chats[i].conv[3]>> = id
    BY <1>1, <2>1 DEF IsDM
  <2> QED
    BY <2>1, <2>2, MatchingIsShown DEF isDuplicateRecord
<1>6. ASSUME NEW i \in getConversation(id, 1),
             ~chats[i].text.notice, chats[i].at > last_read[id]
      PROVE  i \in Unread(id)
  <2>1. i \in ReadAll(FileIDForAPIID(id)) /\ RecordMatchesSSID(chats[i], id[2])
    BY DEF getConversation, ReadSince
  <2>2. i \in DOMAIN chats /\ chats[i].conv = FileIDForAPIID(id)
    BY <2>1, ReadAllIsKept DEF FileOf
  <2> QED
    BY <1>4, <1>6, <2>1, <2>2 DEF Unread
<1> QED
    BY <1>5, <1>6

LEMMA ListIsReadable ==
    ASSUME ChatTypeOK, RecordsFiled
    PROVE  ListedReadable
<1>1. ASSUME NEW id \in Listed, ~IsDM(id) \/ id[2] = NoCall
      PROVE  getConversation(id, 1) # {}
  <2>1. PICK i \in DOMAIN chats : chats[i].conv = id
    BY DEF Listed, Range
  <2>2. FileIDForAPIID(id) = id
    <3>1. CASE ~IsDM(id)
      BY <3>1 DEF FileIDForAPIID
    <3>2. CASE IsDM(id) /\ id[2] = NoCall
      <4>1. id = <<"DM", id[2], id[3]>>
        BY <2>1, <3>2, FiledSpec DEF ChatTypeOK, RecordsFiled
      <4>2. BaseCall(id[2]) = id[2]
        <5>1. NoCall[1] = "" /\ BaseCall(NoCall) = <<NoCall[1], 0>>
          BY DEF NoCall, BaseCall
        <5> QED
          BY <3>2, <5>1 DEF NoCall
      <4> QED
        BY <3>2, <4>1, <4>2 DEF FileIDForAPIID
    <3> QED
      BY <1>1, <3>1, <3>2
  <2>3. i \in FileOf(id)
    BY <2>1 DEF FileOf
  <2>4. PICK j \in ReadAll(id) : TRUE
    BY <2>3, HeldBackForACopy
  <2>5. j \in DOMAIN chats
    BY ReadAllIsKept DEF FileOf
  <2>6. j \in ReadSince(id, 1)
    BY <2>5, StoredSinceTheStart DEF ReadSince
  <2>7. j \in getConversation(id, 1)
    BY <1>1, <2>2, <2>6 DEF getConversation
  <2> QED
    BY <2>7
<1>2. ASSUME NEW f \in Listed, IsDM(f), f[2] = BaseCall(mycall),
             NEW i \in FileOf(f), RecordMatchesSSID(chats[i], mycall)
      PROVE  getConversation(<<"DM", mycall, f[3]>>, 1) # {}
  <2>1. i \in DOMAIN chats /\ chats[i].conv = f
    BY DEF FileOf
  <2> QED
    BY <1>2, <2>1, MatchingIsShown
<1>3. ASSUME NEW id \in listConversations PROVE getConversation(id, 1) # {}
    BY <1>1, <1>2, <1>3 DEF listConversations
<1>4. ASSUME NEW i \in DOMAIN chats, IsDM(chats[i].conv),
             chats[i].conv[2] = BaseCall(mycall), chats[i].conv[2] # NoCall,
             RecordMatchesSSID(chats[i], mycall), ~chats[i].text.notice
      PROVE  <<"DM", mycall, chats[i].conv[3]>> \in listConversations
  <2>1. chats[i].conv \in Listed
    BY <1>4 DEF Listed, Range
  <2>2. i \in FileOf(chats[i].conv)
    BY DEF FileOf
  <2> QED
    BY <1>4, <2>1, <2>2 DEF listConversations
<1> QED
    BY <1>3, <1>4, MatchingIsShown DEF ListedReadable

LEMMA ChatInitially == ChatInit => ChatInv
<1> SUFFICES ASSUME ChatInit PROVE ChatInv
    OBVIOUS
<1>1. DOMAIN chats = {}
    BY DEF ChatInit
<1>2. ChatTypeOK
  <2>1. {MaxRecords, MaxLoad, MaxTime} \subseteq Nat /\ MaxTime # 0
    BY ChatAssumption
  <2>2. 1 \in 1 .. MaxTime /\ 0 \in 0 .. MaxTime /\ 0 \in 0 .. MaxLoad /\ 0 \in 0 .. MaxRecords
    BY <2>1
  <2> QED
    BY <1>1, <2>2 DEF ChatInit, ChatTypeOK, Requests
<1> QED
    BY <1>1, <1>2 DEF ChatInit, ChatInv, RecordsFiled, DeleteUnderWay, None

\* The mark of an acknowledgement changes no conversation and no text.
LEMMA MarkedRows ==
    ASSUME NEW table, table \in [DOMAIN table -> Record], NEW conv, NEW text, NEW at \in 0 .. MaxTime
    PROVE  /\ MarkAcked(table, conv, text, at) \in [DOMAIN table -> Record]
           /\ \A i \in DOMAIN table :
                  /\ MarkAcked(table, conv, text, at)[i].conv = table[i].conv
                  /\ MarkAcked(table, conv, text, at)[i].text = table[i].text
<1> DEFINE marked(n) == [table EXCEPT ![n].acked = at]
<1>1. ASSUME NEW n
      PROVE  /\ marked(n) \in [DOMAIN table -> Record]
             /\ \A i \in DOMAIN table : /\ marked(n)[i].conv = table[i].conv
                                       /\ marked(n)[i].text = table[i].text
    BY DEF Record
<1>2. \/ MarkAcked(table, conv, text, at) = table
      \/ \E n : MarkAcked(table, conv, text, at) = marked(n)
    BY DEF MarkAcked
<1> HIDE DEF marked
<1> QED
    BY <1>1, <1>2

LEMMA StampTypes ==
    ASSUME ChatTypeOK, NEW stamp \in Stamps
    PROVE  stamp \in 0 .. MaxTime /\ stamp \in 1 .. MaxTime
<1>1. chatClock \in 1 .. MaxTime /\ MaxTime \in Nat
    BY ChatAssumption DEF ChatTypeOK
<1>2. stamp >= 1 /\ (stamp = chatClock - 1 \/ stamp = chatClock)
    BY DEF Stamps
<1> QED
    BY <1>1, <1>2

\* A new row is the text's, and a delete of its conversation is no longer undisturbed.
LEMMA AppendKeepsChats ==
    ASSUME ChatInv, NEW text \in Texts, NEW mine \in Filers, NEW at \in Stamps,
           appendSQLite(text, mine, at)
    PROVE  ChatInv'
<1>1. PICK conv \in FileIDs(text, mine) :
          LET row == [conv |-> conv, text |-> text, at |-> at, acked |-> 0]
              stored == [i \in DOMAIN chats \cup {lastRow'} |->
                            IF i = lastRow' THEN row ELSE chats[i]]
          IN  /\ chats' \in {stored} \cup
                    (IF IsDM(conv) THEN {MarkAcked(stored, conv, text, at)} ELSE {})
              /\ undisturbed' = (undisturbed /\ conv \notin Emptied)
    BY DEF appendSQLite
<1> DEFINE row == [conv |-> conv, text |-> text, at |-> at, acked |-> 0]
           stored == [i \in DOMAIN chats \cup {lastRow'} |->
                         IF i = lastRow' THEN row ELSE chats[i]]
<1>2. /\ lastRow < MaxRecords /\ lastRow' = lastRow + 1
      /\ UNCHANGED <<mycall, last_read, chat_reads, request, served, chatClock>>
    BY DEF appendSQLite
<1>3. /\ {MaxRecords, MaxTime} \subseteq Nat /\ lastRow \in 0 .. MaxRecords
      /\ DOMAIN chats \subseteq 1 .. lastRow /\ chats \in [DOMAIN chats -> Record]
      /\ chatClock \in 1 .. MaxTime
    BY ChatAssumption DEF ChatInv, ChatTypeOK
<1>4. at \in 0 .. MaxTime /\ at \in 1 .. MaxTime
    BY StampTypes DEF ChatInv
<1>5. row \in Record
  <2>1. conv \in Conversations
    BY FileIDsInConversations
  <2> QED
    BY <1>3, <1>4, <2>1 DEF Record
<1>6. stored \in [DOMAIN stored -> Record] /\ DOMAIN stored = DOMAIN chats \cup {lastRow'}
    BY <1>3, <1>5
<1>7. /\ chats' \in [DOMAIN stored -> Record]
      /\ \A i \in DOMAIN stored : /\ chats'[i].conv = stored[i].conv
                                  /\ chats'[i].text = stored[i].text
  <2> HIDE DEF stored, row
  <2>1. CASE chats' = stored
    BY <1>6, <2>1
  <2>2. CASE chats' = MarkAcked(stored, conv, text, at)
    BY <1>4, <1>6, <2>2, MarkedRows
  <2>3. chats' \in {stored} \cup
            (IF IsDM(conv) THEN {MarkAcked(stored, conv, text, at)} ELSE {})
    BY <1>1 DEF stored, row
  <2> QED
    BY <2>1, <2>2, <2>3
<1>8. \A i \in DOMAIN chats' :
          \/ i \in DOMAIN chats /\ chats'[i].conv = chats[i].conv /\ chats'[i].text = chats[i].text
          \/ chats'[i].conv = conv /\ chats'[i].text = text
  <2>1. \A i \in DOMAIN stored : stored[i] = row \/ (i \in DOMAIN chats /\ stored[i] = chats[i])
    OBVIOUS
  <2>2. row.conv = conv /\ row.text = text
    OBVIOUS
  <2>3. DOMAIN chats' = DOMAIN stored
    BY <1>7
  <2> HIDE DEF stored, row
  <2> QED
    BY <1>7, <2>1, <2>2, <2>3
<1>9. ChatTypeOK'
  <2>1. lastRow' \in 0 .. MaxRecords
    BY <1>2, <1>3
  <2>2. DOMAIN chats' \subseteq 1 .. lastRow' /\ chats' \in [DOMAIN chats' -> Record]
    <3>1. DOMAIN chats' = DOMAIN chats \cup {lastRow'}
      BY <1>6, <1>7
    <3>2. DOMAIN chats' \subseteq 1 .. lastRow'
      BY <1>2, <1>3, <3>1
    <3> QED
      BY <1>6, <1>7, <3>1, <3>2
  <2>3. undisturbed' \in BOOLEAN
    BY <1>1 DEF ChatInv, ChatTypeOK
  <2> QED
    BY <1>2, <2>1, <2>2, <2>3 DEF ChatInv, ChatTypeOK
<1>10. RecordsFiled'
    BY <1>8 DEF ChatInv, RecordsFiled, Filed
<1>11. DeleteUnderWay'
  <2> DEFINE file == FileIDForAPIID(request.id)
  <2>1. request.op = "delete" /\ undisturbed' => undisturbed /\ conv # file
    BY <1>1 DEF Emptied
  <2>2. FileOf(file) = {} /\ conv # file => FileOf(file)' = {}
    BY <1>2, <1>8 DEF FileOf
  <2> QED
    BY <1>2, <2>1, <2>2 DEF ChatInv, DeleteUnderWay
<1> QED
    BY <1>9, <1>10, <1>11 DEF ChatInv

\* Rows that go take nothing else along.
LEMMA DeleteRowsSpec ==
    ASSUME ChatInv, NEW gone, DeleteRows(gone)
    PROVE  /\ lastRow' \in 0 .. MaxRecords
           /\ DOMAIN chats' \subseteq 1 .. lastRow' /\ chats' \in [DOMAIN chats' -> Record]
           /\ RecordsFiled'
           /\ \A file : FileOf(file)' = FileOf(file) \ gone
<1>1. /\ lastRow' = lastRow /\ DOMAIN chats' = DOMAIN chats \ gone
      /\ \A i \in DOMAIN chats \ gone : chats'[i] = chats[i]
      /\ chats' = [i \in DOMAIN chats \ gone |-> chats[i]]
    BY DEF DeleteRows
<1>2. /\ lastRow \in 0 .. MaxRecords /\ DOMAIN chats \subseteq 1 .. lastRow
      /\ \A i \in DOMAIN chats : chats[i] \in Record /\ Filed(chats[i])
    BY DEF ChatInv, ChatTypeOK, RecordsFiled
<1>3. chats' \in [DOMAIN chats' -> Record]
    BY <1>1, <1>2
<1>4. RecordsFiled'
  <2>1. \A i \in DOMAIN chats' : Filed(chats'[i])
    BY <1>1, <1>2
  <2> QED
    BY <2>1 DEF RecordsFiled, Filed
<1>5. \A file : FileOf(file)' = FileOf(file) \ gone
    BY <1>1 DEF FileOf
<1> QED
    BY <1>1, <1>2, <1>3, <1>4, <1>5

LEMMA PurgeKeepsChats ==
    ASSUME ChatInv, PurgeChats
    PROVE  ChatInv'
<1> DEFINE old == {i \in DOMAIN chats :
                       ~IsDM(chats[i].conv) /\ chats[i].at + Retention < chatClock}
<1>1. /\ DeleteRows(old)
      /\ UNCHANGED <<mycall, last_read, chat_reads, request, undisturbed, served, chatClock>>
    BY DEF PurgeChats
<1>2. ChatTypeOK' /\ RecordsFiled'
    BY <1>1, DeleteRowsSpec DEF ChatInv, ChatTypeOK
<1>3. DeleteUnderWay'
  <2>1. \A file : FileOf(file) = {} => FileOf(file)' = {}
    BY <1>1, DeleteRowsSpec
  <2> QED
    BY <1>1, <2>1 DEF ChatInv, DeleteUnderWay
<1> QED
    BY <1>2, <1>3 DEF ChatInv

LEMMA KnownConversations ==
    ASSUME ChatInv
    PROVE  Known \subseteq Conversations /\ Snapshot \subseteq Conversations
<1>1. \A i \in DOMAIN chats :
          {chats[i].conv, StatusKey(chats[i])} \subseteq Conversations
    BY StatusKeyInConversations DEF ChatInv, ChatTypeOK, RecordsFiled, Record
<1> QED
    BY <1>1 DEF Known, Snapshot, Range

\* A request that is served at all was not yet at the bound.
LEMMA ServeTypes ==
    ASSUME ChatTypeOK, Serve
    PROVE  served' \in 0 .. MaxLoad
<1>1. served \in 0 .. MaxLoad /\ served' = served + 1 /\ MaxLoad \in Nat
    BY ChatAssumption DEF ChatTypeOK, Serve
<1>2. Cardinality(DOMAIN chats) \in Nat
  <2>1. IsFiniteSet(DOMAIN chats)
    BY RowsFinite
  <2> QED
    BY <2>1, FS_CardinalityType
<1>3. Cardinality(DOMAIN chats) + served < MaxLoad
    BY DEF Serve
<1> QED
    BY <1>1, <1>2, <1>3

\* What a delete under way has done stays done when its rows, its markers and its
\* request stay.
LEMMA MarkReadKeepsChats ==
    ASSUME ChatInv, MarkRead
    PROVE  ChatInv'
<1>1. PICK id \in Known, stamp \in Stamps :
          /\ Serve
          /\ last_read' = [last_read EXCEPT ![id] = stamp]
          /\ undisturbed' = (undisturbed /\ FileIDForAPIID(id) \notin Emptied)
          /\ UNCHANGED <<mycall, chats, lastRow, chat_reads, request, chatClock>>
    BY DEF MarkRead
<1>2. ChatTypeOK'
  <2>1. last_read' \in [Conversations -> 0 .. MaxTime]
    BY <1>1, StampTypes DEF ChatInv, ChatTypeOK
  <2>2. served' \in 0 .. MaxLoad
    BY <1>1, ServeTypes DEF ChatInv
  <2>3. undisturbed' \in BOOLEAN
    BY <1>1 DEF ChatInv, ChatTypeOK
  <2> QED
    BY <1>1, <2>1, <2>2, <2>3 DEF ChatInv, ChatTypeOK
<1>3. RecordsFiled'
    BY <1>1 DEF ChatInv, RecordsFiled
<1>4. DeleteUnderWay'
  <2> DEFINE file == FileIDForAPIID(request.id)
  <2>1. request.op = "delete" /\ undisturbed' => undisturbed /\ FileIDForAPIID(id) # file
    BY <1>1 DEF Emptied
  <2>2. ASSUME FileIDForAPIID(id) # file, NEW k \in MarkersOf(file)
        PROVE  last_read'[k] = last_read[k]
    BY <1>1, <2>2 DEF MarkersOf, ChatInv, ChatTypeOK
  <2>3. FileOf(file)' = FileOf(file)
    BY <1>1 DEF FileOf
  <2> QED
    BY <1>1, <2>1, <2>2, <2>3 DEF ChatInv, DeleteUnderWay
<1> QED
    BY <1>2, <1>3, <1>4 DEF ChatInv

\* A request begins with the id that the page gives.
LEMMA BeginKeepsChats ==
    ASSUME ChatInv, BeginRead \/ BeginDelete
    PROVE  ChatInv'
<1>1. /\ Serve /\ undisturbed' \in BOOLEAN
      /\ UNCHANGED <<mycall, chats, lastRow, last_read, chat_reads, chatClock>>
    BY DEF BeginRead, BeginDelete, ChatInv, ChatTypeOK
<1>2. /\ request' \in Requests
      /\ request'.op = "delete" => request'.pc = "remove" /\ request'.stamp = 0
  <2>1. CASE BeginRead
    <3>1. PICK id \in Known, stamp \in Stamps :
              request' = [op |-> "read", id |-> id, pc |-> "snapshot", stamp |-> stamp, keys |-> {}]
      BY <2>1 DEF BeginRead
    <3>2. id \in Conversations /\ stamp \in 0 .. MaxTime
      BY KnownConversations, StampTypes DEF ChatInv
    <3> QED
      BY <3>1, <3>2 DEF Requests
  <2>2. CASE BeginDelete
    <3>1. PICK id \in Known :
              request' = [op |-> "delete", id |-> id, pc |-> "remove", stamp |-> 0, keys |-> {}]
      BY <2>2 DEF BeginDelete
    <3>2. id \in Conversations
      BY KnownConversations DEF ChatInv
    <3>3. MaxTime \in Nat
      BY ChatAssumption
    <3>4. 0 \in 0 .. MaxTime
      BY <3>3
    <3> QED
      BY <3>1, <3>2, <3>4 DEF Requests
  <2> QED
    BY <2>1, <2>2
<1>3. ChatTypeOK'
    BY <1>1, <1>2, ServeTypes DEF ChatInv, ChatTypeOK
<1>4. RecordsFiled'
    BY <1>1 DEF ChatInv, RecordsFiled
<1>5. DeleteUnderWay'
    BY <1>2 DEF DeleteUnderWay
<1> QED
    BY <1>3, <1>4, <1>5 DEF ChatInv

LEMMA RemoveKeepsChats ==
    ASSUME ChatInv, RemoveRows
    PROVE  ChatInv'
<1> DEFINE file == FileIDForAPIID(request.id)
<1>1. /\ request.op = "delete" /\ request.pc = "remove"
      /\ DeleteRows(FileOf(file))
      /\ request' = [request EXCEPT !.pc = "snapshot"]
      /\ UNCHANGED <<mycall, last_read, chat_reads, undisturbed, served, chatClock>>
    BY DEF RemoveRows
<1>2. /\ request' \in Requests /\ request'.pc = "snapshot"
      /\ request'.id = request.id /\ request'.stamp = request.stamp
    BY <1>1 DEF ChatInv, ChatTypeOK, Requests, None
<1>3. ChatTypeOK' /\ RecordsFiled' /\ FileOf(file)' = {}
    BY <1>1, <1>2, DeleteRowsSpec DEF ChatInv, ChatTypeOK
<1>4. DeleteUnderWay'
    BY <1>1, <1>2, <1>3 DEF ChatInv, DeleteUnderWay
<1> QED
    BY <1>3, <1>4 DEF ChatInv

\* Every marker of the conversation is among the keys of the operator and the peer.
LEMMA CollectedKeys ==
    ASSUME NEW id \in Conversations,
           IsDM(id) => BaseCall(id[2]) = BaseCall(mycall),
           NEW k \in MarkersOf(FileIDForAPIID(id)), last_read[k] # 0
    PROVE  IF IsDM(id) THEN k \in Snapshot /\ isDMKeyForBasecallAndPeer(k, BaseCall(mycall), id[3])
           ELSE k = id
<1>1. k \in Conversations /\ FileIDForAPIID(k) = FileIDForAPIID(id) /\ (IsDM(k) => k[2] # NoCall)
    BY DEF MarkersOf
<1>2. k \in Snapshot
    BY <1>1 DEF Snapshot
<1>3. CASE IsDM(id)
  <2>1. FileIDForAPIID(id) = <<"DM", BaseCall(id[2]), id[3]>>
    BY <1>3 DEF FileIDForAPIID
  <2>2. IsDM(k)
    BY <1>1, <2>1 DEF FileIDForAPIID, IsDM
  <2>3. FileIDForAPIID(k) = <<"DM", BaseCall(k[2]), k[3]>>
    BY <2>2 DEF FileIDForAPIID
  <2>4. BaseCall(k[2]) = BaseCall(id[2]) /\ k[3] = id[3]
    BY <1>1, <2>1, <2>3
  <2> QED
    BY <1>1, <1>2, <1>3, <2>2, <2>4 DEF isDMKeyForBasecallAndPeer
<1>4. CASE ~IsDM(id)
  <2>1. FileIDForAPIID(id) = id
    BY <1>4 DEF FileIDForAPIID
  <2>2. ~IsDM(k)
    BY <1>1, <1>4, <2>1 DEF FileIDForAPIID, IsDM
  <2> QED
    BY <1>1, <1>4, <2>1, <2>2 DEF FileIDForAPIID
<1> QED
    BY <1>3, <1>4

LEMMA CollectKeepsChats ==
    ASSUME ChatInv, CollectKeys
    PROVE  ChatInv'
<1> DEFINE id == request.id
           keys == IF IsDM(id) THEN {k \in Snapshot :
                       isDMKeyForBasecallAndPeer(k, BaseCall(mycall), id[3])} ELSE {id}
<1>1. PICK failed \in BOOLEAN :
          /\ request # None /\ request.pc = "snapshot"
          /\ request' = [request EXCEPT !.pc = "apply", !.keys = IF failed THEN {} ELSE keys]
          /\ undisturbed' = (undisturbed /\ ~failed
                             /\ (IsDM(id) => BaseCall(id[2]) = BaseCall(mycall)))
          /\ UNCHANGED <<mycall, chats, lastRow, last_read, chat_reads, served, chatClock>>
    BY DEF CollectKeys
<1>2. id \in Conversations
    BY <1>1 DEF ChatInv, ChatTypeOK, Requests
<1>3. keys \subseteq Conversations
    BY <1>2, KnownConversations
<1> HIDE DEF keys
<1>4. /\ request' \in Requests
      /\ request'.op = request.op /\ request'.id = id /\ request'.stamp = request.stamp
      /\ request'.pc = "apply" /\ (~failed => request'.keys = keys)
    BY <1>1, <1>3 DEF ChatInv, ChatTypeOK, Requests
<1> HIDE DEF id
<1>5. undisturbed' \in BOOLEAN
    BY <1>1 DEF ChatInv, ChatTypeOK
<1>6. ChatTypeOK'
    BY <1>1, <1>4, <1>5 DEF ChatInv, ChatTypeOK
<1>7. RecordsFiled'
    BY <1>1 DEF ChatInv, RecordsFiled
<1>8. ASSUME request'.op = "delete" PROVE request'.stamp = 0
    BY <1>4, <1>8 DEF ChatInv, DeleteUnderWay
<1>9. ASSUME request'.op = "delete", undisturbed'
      PROVE  /\ FileOf(FileIDForAPIID(request.id))' = {}
             /\ \A k \in MarkersOf(FileIDForAPIID(id)) : last_read'[k] = 0 \/ k \in request'.keys
  <2>1. undisturbed /\ ~failed /\ (IsDM(id) => BaseCall(id[2]) = BaseCall(mycall))
    BY <1>1, <1>9
  <2>2. FileOf(FileIDForAPIID(id)) = {}
    BY <1>1, <1>4, <1>9, <2>1 DEF ChatInv, DeleteUnderWay, id
  <2>3. FileOf(FileIDForAPIID(request.id))' = FileOf(FileIDForAPIID(id))
    BY <1>1, <1>4 DEF FileOf
  <2>4. \A k \in MarkersOf(FileIDForAPIID(id)) : last_read[k] # 0 => k \in keys
    BY <1>2, <2>1, CollectedKeys DEF keys
  <2> QED
    BY <1>1, <1>4, <2>1, <2>2, <2>3, <2>4
<1>10. DeleteUnderWay'
    BY <1>4, <1>8, <1>9 DEF DeleteUnderWay
<1> QED
    BY <1>6, <1>7, <1>10 DEF ChatInv

LEMMA ApplyKeepsChats ==
    ASSUME ChatInv, ApplyKeys
    PROVE  ChatInv'
<1>1. /\ request # None /\ request.pc = "apply" /\ request' = None
      /\ last_read' = [k \in Conversations |->
                          IF k \in request.keys THEN request.stamp ELSE last_read[k]]
      /\ chat_reads' \in {chat_reads, last_read'}
      /\ UNCHANGED <<mycall, chats, lastRow, undisturbed, served, chatClock>>
    BY DEF ApplyKeys, Saved
<1>2. last_read' \in [Conversations -> 0 .. MaxTime]
    BY <1>1 DEF ChatInv, ChatTypeOK, Requests
<1>3. ChatTypeOK'
    BY <1>1, <1>2 DEF ChatInv, ChatTypeOK, Requests
<1>4. RecordsFiled' /\ DeleteUnderWay'
    BY <1>1 DEF ChatInv, RecordsFiled, DeleteUnderWay, None
<1> QED
    BY <1>3, <1>4 DEF ChatInv

\* The save loop, another callsign, a restart and the clock.
LEMMA OthersKeepChats ==
    ASSUME ChatInv, SaveMarkers \/ SetCall \/ RestartChat \/ ChatTick \/ UNCHANGED chatVars
    PROVE  ChatInv'
<1>1. /\ UNCHANGED <<chats, lastRow, undisturbed, served>>
      /\ \/ request' = None
         \/ UNCHANGED <<request, last_read>>
    BY DEF SaveMarkers, SetCall, RestartChat, ChatTick, chatVars
<1>2. ChatTypeOK'
  <2>1. last_read' \in {last_read, chat_reads} /\ chat_reads' \in {last_read, chat_reads}
    BY DEF SaveMarkers, SetCall, RestartChat, ChatTick, chatVars
  <2>2. request' \in Requests
    BY <1>1 DEF ChatInv, ChatTypeOK, Requests
  <2>3. mycall' \in Devices \cup {NoCall}
    BY DEF SaveMarkers, SetCall, RestartChat, ChatTick, chatVars, ChatInv, ChatTypeOK
  <2>4. chatClock' \in 1 .. MaxTime
    <3>1. chatClock \in 1 .. MaxTime /\ MaxTime \in Nat
      BY ChatAssumption DEF ChatInv, ChatTypeOK
    <3>2. chatClock' = chatClock \/ (chatClock < MaxTime /\ chatClock' = chatClock + 1)
      BY DEF SaveMarkers, SetCall, RestartChat, ChatTick, chatVars
    <3> QED
      BY <3>1, <3>2
  <2> QED
    BY <1>1, <2>1, <2>2, <2>3, <2>4 DEF ChatInv, ChatTypeOK
<1>3. RecordsFiled'
    BY <1>1 DEF ChatInv, RecordsFiled
<1>4. DeleteUnderWay'
  <2>1. CASE request' = None
    BY <2>1 DEF DeleteUnderWay, None
  <2>2. CASE UNCHANGED <<request, last_read>>
    BY <1>1, <2>2 DEF ChatInv, DeleteUnderWay, FileOf
  <2> QED
    BY <1>1, <2>1, <2>2
<1> QED
    BY <1>2, <1>3, <1>4 DEF ChatInv

LEMMA ChatStep == ChatInv /\ [ChatNext]_chatVars => ChatInv'
<1> SUFFICES ASSUME ChatInv, [ChatNext]_chatVars PROVE ChatInv'
    OBVIOUS
<1>1. ASSUME AppendReceived PROVE ChatInv'
  <2>1. PICK text \in Texts, at \in Stamps : appendSQLite(text, mycall, at)
    BY <1>1 DEF AppendReceived
  <2>2. mycall \in Filers
    BY DEF ChatInv, ChatTypeOK, Filers
  <2> QED
    BY <2>1, <2>2, AppendKeepsChats
<1>2. ASSUME AppendFailed PROVE ChatInv'
  <2>1. PICK text \in Texts, at \in Stamps : appendSQLite(text, text.src, at)
    BY <1>2 DEF AppendFailed
  <2>2. text.src \in Filers
    BY DEF Filers
  <2> QED
    BY <2>1, <2>2, AppendKeepsChats
<1>3. ASSUME PurgeChats \/ RemoveRows PROVE ChatInv'
    BY <1>3, PurgeKeepsChats, RemoveKeepsChats
<1>4. ASSUME MarkRead \/ BeginRead \/ BeginDelete PROVE ChatInv'
    BY <1>4, MarkReadKeepsChats, BeginKeepsChats
<1>5. ASSUME CollectKeys \/ ApplyKeys PROVE ChatInv'
    BY <1>5, CollectKeepsChats, ApplyKeepsChats
<1>6. ASSUME SaveMarkers \/ SetCall \/ RestartChat \/ ChatTick \/ UNCHANGED chatVars
      PROVE  ChatInv'
    BY <1>6, OthersKeepChats
<1> QED
    BY <1>1, <1>2, <1>3, <1>4, <1>5, <1>6 DEF ChatNext

LEMMA ChatInvariant == ChatSpec => []ChatInv
BY ChatInitially, ChatStep, PTL DEF ChatSpec

\* Rows, markers and the request under way are well typed, for any callsigns, texts
\* and retention; so every id that appendSQLite, the list and the status compute is
\* a conversation.
THEOREM ChatsTypeCorrect == ChatSpec => []ChatTypeOK
<1>1. ChatInv => ChatTypeOK
    BY DEF ChatInv
<1> QED
    BY <1>1, ChatInvariant, PTL

\* The status counts as unread under a listed conversation the records that it shows
\* since its marker, and copies of records that it shows, whatever callsigns the
\* station has had.
THEOREM CountsMatchTheList == ChatSpec => []CountedAreListed
<1>1. ChatInv => CountedAreListed
    BY ShownAreCounted DEF ChatInv
<1> QED
    BY <1>1, ChatInvariant, PTL

\* What the list offers can be read, what is stored is shown by the conversation that
\* the list gives for it, and every text once, for any callsigns, texts and window.
THEOREM StoredIsShown == ChatSpec => []ConversationsShown
<1>1. ChatInv => ConversationsShown
    BY CopiesAreHidden, ListIsReadable DEF ChatInv, ConversationsShown
<1> QED
    BY <1>1, ChatInvariant, PTL

\* A delete that nothing disturbs leaves neither a record of the conversation nor a
\* marker of it, under any callsign of the operator.
THEOREM DeletesAreComplete == ChatSpec => DeleteComplete
<1> DEFINE Complete ==
        ApplyKeys /\ request.op = "delete" /\ undisturbed =>
            LET file == FileIDForAPIID(request.id)
            IN  /\ \A r \in Range(chats') : r.conv # file
                /\ \A k \in MarkersOf(file) : last_read'[k] = 0
<1>1. ChatInv /\ [ChatNext]_chatVars => [Complete]_chatVars
  <2> SUFFICES ASSUME ChatInv, ApplyKeys, request.op = "delete", undisturbed
               PROVE  /\ \A r \in Range(chats') : r.conv # FileIDForAPIID(request.id)
                      /\ \A k \in MarkersOf(FileIDForAPIID(request.id)) : last_read'[k] = 0
    OBVIOUS
  <2>1. /\ request.pc = "apply" /\ chats' = chats
        /\ last_read' = [k \in Conversations |->
                            IF k \in request.keys THEN request.stamp ELSE last_read[k]]
    BY DEF ApplyKeys
  <2>2. /\ request.stamp = 0 /\ FileOf(FileIDForAPIID(request.id)) = {}
        /\ \A k \in MarkersOf(FileIDForAPIID(request.id)) : last_read[k] = 0 \/ k \in request.keys
    BY <2>1 DEF ChatInv, DeleteUnderWay
  <2>3. \A r \in Range(chats') : r.conv # FileIDForAPIID(request.id)
    BY <2>1, <2>2 DEF Range, FileOf
  <2>4. \A k \in MarkersOf(FileIDForAPIID(request.id)) : last_read'[k] = 0
    BY <2>1, <2>2 DEF MarkersOf
  <2> QED
    BY <2>3, <2>4
<1> QED
    BY <1>1, ChatInvariant, PTL DEF ChatSpec, DeleteComplete

----------------------------------------------------------------------------
(* Stats: for any hours to keep and any number of events. *)

CountTables == [Hours -> [Counters -> Nat]]
Balanced(b) == b["total"] = b["dm"] + b["public"] + b["telemetry"] + b["position"]

\* No counter has counted more than the events, one that is still due included.
HeardBounded ==
    \A h \in Hours, c \in Counters :
        heard[h][c] + (IF c = "channels" /\ pendingChannel = h THEN 1 ELSE 0) <= eventsHeard

\* The copy that is written has nothing that memory has not, and all of it while
\* nothing more was recorded.
CopyBehind ==
    /\ \A h \in Hours, c \in Counters : copied[h][c] <= buckets[h][c]
    /\ flushing = "writing" /\ ~statsDirty => copied = buckets
    /\ flushing # "writing" => copied = NoBuckets

AllBalanced ==
    \A h \in Hours : Balanced(buckets[h]) /\ Balanced(rows[h]) /\ Balanced(copied[h])

StatsInv ==
    /\ StatsTypeOK
    /\ NeverOvercounted
    /\ HeardBounded
    /\ CopyBehind
    /\ AllBalanced
    /\ QuietMeansSaved

\* What bounds the counters: no more events than MaxHeard.
LEMMA CountTypes ==
    ASSUME StatsTypeOK
    PROVE  /\ {buckets, rows, copied, heard} \subseteq CountTables
           /\ eventsHeard \in Nat /\ eventsHeard <= MaxHeard
<1>1. ASSUME NEW t \in Tables PROVE t \in CountTables
    BY <1>1, StatsAssumption DEF Tables, CountTables
<1>2. eventsHeard \in 0 .. MaxHeard
    BY DEF StatsTypeOK
<1> QED
    BY <1>1, <1>2, StatsAssumption DEF StatsTypeOK

LEMMA TablesBounded ==
    ASSUME NEW t \in CountTables, \A h \in Hours, c \in Counters : t[h][c] <= MaxHeard
    PROVE  t \in Tables
<1>1. \A h \in Hours : t[h] \in [Counters -> Nat]
    BY DEF CountTables
<1>2. \A h \in Hours, c \in Counters : t[h][c] \in 0 .. MaxHeard
    BY <1>1, StatsAssumption
<1>3. \A h \in Hours : t[h] \in [Counters -> 0 .. MaxHeard]
    BY <1>1, <1>2
<1> QED
    BY <1>3 DEF CountTables, Tables

\* One counter more, of one hour.
LEMMA BumpSpec ==
    ASSUME NEW t \in CountTables, NEW h \in Hours, NEW cs
    PROVE  /\ Bump(t, h, cs) \in CountTables
           /\ \A g \in Hours, c \in Counters :
                  Bump(t, h, cs)[g][c] = t[g][c] + (IF g = h /\ c \in cs THEN 1 ELSE 0)
<1> DEFINE b == [c \in Counters |-> t[h][c] + IF c \in cs THEN 1 ELSE 0]
<1>1. Bump(t, h, cs) = [t EXCEPT ![h] = b]
    BY DEF Bump
<1>2. t[h] \in [Counters -> Nat]
    BY DEF CountTables
<1>3. b \in [Counters -> Nat]
    BY <1>2
<1>4. \A c \in Counters : b[c] = t[h][c] + IF c \in cs THEN 1 ELSE 0
    OBVIOUS
<1> HIDE DEF b
<1>5. /\ Bump(t, h, cs) \in CountTables /\ Bump(t, h, cs)[h] = b
      /\ \A g \in Hours \ {h} : Bump(t, h, cs)[g] = t[g]
    BY <1>1, <1>3 DEF CountTables
<1>6. \A g \in Hours \ {h}, c \in Counters : t[g][c] \in Nat
    BY DEF CountTables
<1> QED
    BY <1>4, <1>5, <1>6

LEMMA BumpBalanced ==
    ASSUME NEW t \in CountTables, NEW h \in Hours, NEW cs,
           cs \in {Counted[kind] : kind \in Kinds} \cup {{"channels"}},
           \A g \in Hours : Balanced(t[g])
    PROVE  \A g \in Hours : Balanced(Bump(t, h, cs)[g])
<1> TAKE g \in Hours
<1>1. cs \in {{"dm", "total"}, {"public", "total"}, {"telemetry", "total"},
              {"position", "total"}, {"position", "total", "distance"}, {"errors"},
              {"dm_ack"}, {"channels"}}
  <2>1. CASE cs = {"channels"}
      BY <2>1
  <2>2. CASE cs \in {Counted[kind] : kind \in Kinds}
    <3>1. PICK kind \in DOMAIN Counted : cs = Counted[kind]
        BY <2>2, StatsAssumption
    <3> QED
        BY <3>1 DEF Counted
  <2> QED
      BY <2>1, <2>2
<1>2. {"total", "dm", "public", "telemetry", "position"} \subseteq Counters
    BY DEF Counters
<1>3. \A c \in Counters : /\ t[g][c] \in Nat
                          /\ Bump(t, h, cs)[g][c] = t[g][c] + (IF g = h /\ c \in cs THEN 1 ELSE 0)
    BY BumpSpec DEF CountTables
<1>4. CASE g = h
  <2> DEFINE one(c) == IF c \in cs THEN 1 ELSE 0
  <2>1. one("total") = one("dm") + one("public") + one("telemetry") + one("position")
      BY <1>1
  <2>2. \A c \in Counters : Bump(t, h, cs)[g][c] = t[g][c] + one(c) /\ one(c) \in Nat
      BY <1>3, <1>4
  <2>3. t[g]["total"] = t[g]["dm"] + t[g]["public"] + t[g]["telemetry"] + t[g]["position"]
      BY DEF Balanced
  <2> HIDE DEF one
  <2> DEFINE b == Bump(t, h, cs)[g]
  <2>4. /\ b["total"] = t[g]["total"] + one("total") /\ b["dm"] = t[g]["dm"] + one("dm")
        /\ b["public"] = t[g]["public"] + one("public")
        /\ b["telemetry"] = t[g]["telemetry"] + one("telemetry")
        /\ b["position"] = t[g]["position"] + one("position")
        /\ \A c \in {"total", "dm", "public", "telemetry", "position"} :
               t[g][c] \in Nat /\ one(c) \in Nat
      BY <1>2, <1>3, <2>2
  <2> HIDE DEF b
  <2>5. b["total"] = b["dm"] + b["public"] + b["telemetry"] + b["position"]
      BY <2>1, <2>3, <2>4
  <2> QED
      BY <2>5 DEF Balanced, b
<1>5. CASE g # h
    BY <1>2, <1>3, <1>5 DEF Balanced
<1> QED
    BY <1>4, <1>5

LEMMA EmptySpec == Empty \in [Counters -> Nat] /\ Balanced(Empty) /\ \A c \in Counters : Empty[c] = 0
<1>1. Empty \in [Counters -> Nat] /\ \A c \in Counters : Empty[c] = 0
    BY DEF Empty
<1>2. {"total", "dm", "public", "telemetry", "position"} \subseteq Counters
    BY DEF Counters
<1> QED
    BY <1>1, <1>2 DEF Balanced

LEMMA NoBucketsSpec == NoBuckets \in CountTables /\ \A h \in Hours : NoBuckets[h] = Empty
BY EmptySpec DEF NoBuckets, CountTables

\* What is within the retention is as it was, the rest is gone.
LEMMA WithinSpec ==
    ASSUME NEW t \in CountTables
    PROVE  /\ Within(t) \in CountTables
           /\ \A h \in Hours : Within(t)[h] = IF h < Cutoff THEN Empty ELSE t[h]
           /\ \A h \in Hours, c \in Counters : Within(t)[h][c] <= t[h][c]
<1>1. \A h \in Hours : t[h] \in [Counters -> Nat]
    BY DEF CountTables
<1>2. \A h \in Hours : Within(t)[h] = IF h < Cutoff THEN Empty ELSE t[h]
    BY DEF Within
<1>3. Within(t) \in CountTables
    BY <1>1, EmptySpec DEF Within, CountTables
<1>4. ASSUME NEW h \in Hours, NEW c \in Counters PROVE Within(t)[h][c] <= t[h][c]
  <2>1. t[h][c] \in Nat
      BY <1>1
  <2>2. Within(t)[h] = Empty \/ Within(t)[h] = t[h]
      BY <1>2
  <2> QED
      BY <2>1, <2>2, EmptySpec
<1> QED
    BY <1>2, <1>3, <1>4

LEMMA TotalsFromBalance ==
    ASSUME AllBalanced
    PROVE  TotalsAdd
BY DEF AllBalanced, Balanced, TotalsAdd

\* The types follow from what is counted.
LEMMA TypesFromCounts ==
    ASSUME {buckets', rows', copied', heard'} \subseteq CountTables,
           NeverOvercounted', HeardBounded', CopyBehind', eventsHeard' \in 0 .. MaxHeard,
           statsDirty' \in BOOLEAN, saveFailed' \in BOOLEAN,
           flushing' \in {"idle", "pruned", "writing"},
           pendingChannel' \in 0 .. MaxHour, hour' \in Hours
    PROVE  StatsTypeOK'
<1>1. ASSUME NEW h \in Hours, NEW c \in Counters
      PROVE  /\ heard'[h][c] <= MaxHeard /\ buckets'[h][c] <= MaxHeard
             /\ rows'[h][c] <= MaxHeard /\ copied'[h][c] <= MaxHeard
  <2>1. /\ heard'[h][c] \in Nat /\ buckets'[h][c] \in Nat
        /\ rows'[h][c] \in Nat /\ copied'[h][c] \in Nat
      BY DEF CountTables
  <2>2. heard'[h][c] <= eventsHeard'
      BY <2>1 DEF HeardBounded
  <2>3. buckets'[h][c] <= heard'[h][c] /\ rows'[h][c] <= heard'[h][c]
      BY DEF NeverOvercounted
  <2>4. copied'[h][c] <= buckets'[h][c]
      BY DEF CopyBehind
  <2> QED
      BY <2>1, <2>2, <2>3, <2>4, StatsAssumption
<1>2. {buckets', rows', copied', heard'} \subseteq Tables
    BY <1>1, TablesBounded
<1> QED
    BY <1>2 DEF StatsTypeOK

LEMMA StatsInitially == StatsInit => StatsInv
<1> SUFFICES ASSUME StatsInit PROVE StatsInv
    OBVIOUS
<1>1. /\ buckets = NoBuckets /\ rows = NoBuckets /\ copied = NoBuckets /\ heard = NoBuckets
      /\ statsDirty = FALSE /\ saveFailed = FALSE /\ flushing = "idle"
      /\ pendingChannel = 0 /\ eventsHeard = 0 /\ hour = 1
    BY DEF StatsInit
<1>2. \A h \in Hours : NoBuckets[h] = Empty /\ \A c \in Counters : NoBuckets[h][c] = 0
    BY NoBucketsSpec, EmptySpec
<1>3. NoBuckets \in Tables
    BY <1>2, NoBucketsSpec, StatsAssumption, TablesBounded
<1>4. /\ 0 \in 0 .. MaxHour /\ 0 \in 0 .. MaxHeard /\ 1 \in Hours
      /\ \A h \in Hours : h # 0
    BY StatsAssumption DEF Hours
<1>5. StatsTypeOK
    BY <1>1, <1>3, <1>4 DEF StatsTypeOK
<1>6. NeverOvercounted /\ CopyBehind /\ QuietMeansSaved
    BY <1>1, <1>2 DEF NeverOvercounted, CopyBehind, QuietMeansSaved
<1>7. HeardBounded
    BY <1>1, <1>2, <1>4 DEF HeardBounded
<1>8. AllBalanced
    BY <1>1, <1>2, EmptySpec DEF AllBalanced
<1> QED
    BY <1>5, <1>6, <1>7, <1>8 DEF StatsInv

\* An event, or the channel of the last one, is counted in memory and in history:
\* as long as that is the same, all but the history's bound is kept.
LEMMA CountedInBoth ==
    ASSUME StatsInv, NEW h \in Hours, NEW cs,
           cs \in {Counted[kind] : kind \in Kinds} \cup {{"channels"}},
           buckets' = Bump(buckets, h, cs), heard' = Bump(heard, h, cs), statsDirty' = TRUE,
           UNCHANGED <<rows, flushing, copied, saveFailed, hour>>
    PROVE  /\ {buckets', rows', copied', heard'} \subseteq CountTables
           /\ NeverOvercounted' /\ CopyBehind' /\ AllBalanced' /\ QuietMeansSaved'
<1>1. /\ {buckets, rows, copied, heard} \subseteq CountTables
      /\ NeverOvercounted /\ CopyBehind /\ AllBalanced
    BY CountTypes DEF StatsInv
<1>2. {buckets', rows', copied', heard'} \subseteq CountTables
    BY <1>1, BumpSpec
<1>3. ASSUME NEW g \in Hours, NEW c \in Counters
      PROVE  /\ buckets'[g][c] <= heard'[g][c] /\ rows'[g][c] <= heard'[g][c]
             /\ copied'[g][c] <= buckets'[g][c]
  <2> DEFINE more == IF g = h /\ c \in cs THEN 1 ELSE 0
  <2>1. buckets'[g][c] = buckets[g][c] + more /\ heard'[g][c] = heard[g][c] + more
      BY <1>1, BumpSpec
  <2>2. more \in Nat
      OBVIOUS
  <2> HIDE DEF more
  <2>3. /\ buckets[g][c] \in Nat /\ rows[g][c] \in Nat
        /\ heard[g][c] \in Nat /\ copied[g][c] \in Nat
      BY <1>1 DEF CountTables
  <2>4. /\ buckets[g][c] <= heard[g][c] /\ rows[g][c] <= heard[g][c]
        /\ copied[g][c] <= buckets[g][c]
      BY <1>1 DEF NeverOvercounted, CopyBehind
  <2>5. rows' = rows /\ copied' = copied
      OBVIOUS
  <2> QED
      BY <2>1, <2>2, <2>3, <2>4, <2>5
<1>4. AllBalanced'
    BY <1>1, BumpBalanced DEF AllBalanced
<1>5. NeverOvercounted'
    BY <1>3 DEF NeverOvercounted
<1>6. CopyBehind'
    BY <1>1, <1>3 DEF CopyBehind
<1>7. QuietMeansSaved'
    BY DEF QuietMeansSaved
<1> QED
    BY <1>2, <1>4, <1>5, <1>6, <1>7

LEMMA RecordKeepsStats ==
    ASSUME StatsInv, NEW kind \in Kinds, NEW h \in Hours, RecordPacket(kind, h)
    PROVE  StatsInv'
<1>1. /\ pendingChannel = 0 /\ eventsHeard < MaxHeard /\ eventsHeard' = eventsHeard + 1
      /\ buckets' = Bump(buckets, h, Counted[kind]) /\ heard' = Bump(heard, h, Counted[kind])
      /\ statsDirty' = TRUE /\ pendingChannel' \in {0, h}
      /\ UNCHANGED <<rows, flushing, copied, saveFailed, hour>>
    BY DEF RecordPacket
<1>2. StatsTypeOK /\ HeardBounded /\ heard \in CountTables /\ eventsHeard \in Nat
    BY CountTypes DEF StatsInv
<1>3. /\ {buckets', rows', copied', heard'} \subseteq CountTables
      /\ NeverOvercounted' /\ CopyBehind' /\ AllBalanced' /\ QuietMeansSaved'
    BY <1>1, CountedInBoth
<1>4. "channels" \notin Counted[kind]
    BY StatsAssumption DEF Counted
<1>5. HeardBounded'
  <2> SUFFICES ASSUME NEW g \in Hours, NEW c \in Counters
               PROVE  heard'[g][c] + (IF c = "channels" /\ pendingChannel' = g THEN 1 ELSE 0)
                      <= eventsHeard'
      BY DEF HeardBounded
  <2>1. g # 0
      BY DEF Hours
  <2>2. heard[g][c] \in Nat /\ heard[g][c] <= eventsHeard
      BY <1>1, <1>2, <2>1 DEF HeardBounded, CountTables
  <2>3. heard'[g][c] = heard[g][c] + (IF g = h /\ c \in Counted[kind] THEN 1 ELSE 0)
      BY <1>1, <1>2, BumpSpec
  <2>4. CASE c = "channels"
    <3>1. heard'[g][c] = heard[g][c]
        BY <1>4, <2>2, <2>3, <2>4
    <3> QED
        BY <1>1, <1>2, <2>2, <3>1
  <2>5. CASE c # "channels"
      BY <1>1, <1>2, <2>2, <2>3, <2>5
  <2> QED
      BY <2>4, <2>5
<1>6. pendingChannel' \in 0 .. MaxHour /\ eventsHeard' \in 0 .. MaxHeard
    BY <1>1, <1>2, StatsAssumption DEF Hours
<1>7. StatsTypeOK'
    BY <1>1, <1>2, <1>3, <1>5, <1>6, TypesFromCounts DEF StatsTypeOK
<1> QED
    BY <1>3, <1>5, <1>7 DEF StatsInv

LEMMA ChannelKeepsStats ==
    ASSUME StatsInv, RecordChannel
    PROVE  StatsInv'
<1> DEFINE h == pendingChannel
<1>1. /\ h # 0 /\ buckets' = Bump(buckets, h, {"channels"})
      /\ heard' = Bump(heard, h, {"channels"})
      /\ statsDirty' = TRUE /\ pendingChannel' = 0
      /\ UNCHANGED <<rows, flushing, copied, eventsHeard, saveFailed, hour>>
    BY DEF RecordChannel
<1>2. StatsTypeOK /\ HeardBounded /\ heard \in CountTables /\ eventsHeard \in Nat
    BY CountTypes DEF StatsInv
<1>3. h \in Hours
    BY <1>1, <1>2, StatsAssumption DEF StatsTypeOK, Hours
<1>4. /\ {buckets', rows', copied', heard'} \subseteq CountTables
      /\ NeverOvercounted' /\ CopyBehind' /\ AllBalanced' /\ QuietMeansSaved'
    BY <1>1, <1>3, CountedInBoth
<1>5. HeardBounded'
  <2> SUFFICES ASSUME NEW g \in Hours, NEW c \in Counters
               PROVE  heard'[g][c] <= eventsHeard'
    <3>1. \A g \in Hours : g # 0
        BY DEF Hours
    <3>2. \A g \in Hours, c \in Counters : heard'[g][c] \in Nat
        BY <1>4 DEF CountTables
    <3> QED
        BY <1>1, <3>1, <3>2 DEF HeardBounded
  <2>1. heard[g][c] \in Nat
      BY <1>2 DEF CountTables
  <2>2. heard[g][c] + (IF c = "channels" /\ h = g THEN 1 ELSE 0) <= eventsHeard
      BY <1>2 DEF HeardBounded
  <2>3. heard'[g][c] = heard[g][c] + (IF g = h /\ c \in {"channels"} THEN 1 ELSE 0)
      BY <1>1, <1>2, <1>3, BumpSpec
  <2> QED
      BY <1>1, <1>2, <2>1, <2>2, <2>3
<1>6. pendingChannel' \in 0 .. MaxHour /\ eventsHeard' \in 0 .. MaxHeard
    BY <1>1, <1>2, StatsAssumption DEF StatsTypeOK
<1>7. StatsTypeOK'
    BY <1>1, <1>2, <1>4, <1>5, <1>6, TypesFromCounts DEF StatsTypeOK
<1> QED
    BY <1>4, <1>5, <1>7 DEF StatsInv

\* What lies before the cutoff is dropped, and that makes the store dirty.
LEMMA PruneKeepsStats ==
    ASSUME StatsInv, PruneExpired
    PROVE  StatsInv'
<1>1. /\ flushing = "idle" /\ flushing' = "pruned" /\ buckets' = Within(buckets)
      /\ statsDirty' = (statsDirty \/ buckets' # buckets)
      /\ UNCHANGED <<rows, copied, pendingChannel, heard, eventsHeard, saveFailed, hour>>
    BY DEF PruneExpired
<1>2. /\ StatsTypeOK /\ NeverOvercounted /\ HeardBounded /\ CopyBehind /\ AllBalanced
      /\ QuietMeansSaved /\ {buckets, rows, copied, heard} \subseteq CountTables
    BY CountTypes DEF StatsInv
<1>3. /\ buckets' \in CountTables
      /\ \A h \in Hours : buckets'[h] = Empty \/ buckets'[h] = buckets[h]
      /\ \A h \in Hours, c \in Counters : buckets'[h][c] <= buckets[h][c]
    BY <1>1, <1>2, WithinSpec
<1>4. NeverOvercounted'
  <2> SUFFICES ASSUME NEW h \in Hours, NEW c \in Counters
               PROVE  buckets'[h][c] <= heard'[h][c] /\ rows'[h][c] <= heard'[h][c]
      BY DEF NeverOvercounted
  <2>1. buckets[h][c] \in Nat /\ buckets'[h][c] \in Nat /\ heard[h][c] \in Nat
      BY <1>2, <1>3 DEF CountTables
  <2>2. buckets[h][c] <= heard[h][c] /\ rows[h][c] <= heard[h][c]
      BY <1>2 DEF NeverOvercounted
  <2> QED
      BY <1>1, <1>3, <2>1, <2>2
<1>5. CopyBehind'
  <2>1. \A h \in Hours, c \in Counters : NoBuckets[h][c] = 0 /\ buckets'[h][c] \in Nat
      BY <1>3, NoBucketsSpec, EmptySpec DEF CountTables
  <2>2. copied' = NoBuckets
      BY <1>1, <1>2 DEF CopyBehind
  <2>3. \A h \in Hours, c \in Counters : copied'[h][c] <= buckets'[h][c]
      BY <2>1, <2>2
  <2> QED
      BY <1>1, <2>2, <2>3 DEF CopyBehind
<1>6. HeardBounded'
    BY <1>1, <1>2 DEF HeardBounded
<1>7. AllBalanced'
    BY <1>1, <1>2, <1>3, EmptySpec DEF AllBalanced
<1>8. ~statsDirty' => ~statsDirty /\ buckets' = buckets
    BY <1>1
<1>9. QuietMeansSaved'
    BY <1>1, <1>2, <1>8 DEF QuietMeansSaved, Cutoff
<1>10. statsDirty' \in BOOLEAN
    BY <1>1, Zenon
<1>11. StatsTypeOK'
    BY <1>1, <1>2, <1>3, <1>4, <1>5, <1>6, <1>10, TypesFromCounts DEF StatsTypeOK
<1> QED
    BY <1>4, <1>5, <1>6, <1>7, <1>9, <1>11 DEF StatsInv

\* save begins: a copy of what is there, or nothing when nothing has changed.
LEMMA CopyKeepsStats ==
    ASSUME StatsInv, CopyBuckets
    PROVE  StatsInv'
<1>1. /\ flushing = "pruned" /\ flushing' = (IF statsDirty THEN "writing" ELSE "idle")
      /\ copied' = (IF statsDirty THEN buckets ELSE copied) /\ statsDirty' = FALSE
      /\ UNCHANGED <<buckets, rows, pendingChannel, heard, eventsHeard, saveFailed, hour>>
    BY DEF CopyBuckets
<1>2. /\ StatsTypeOK /\ NeverOvercounted /\ HeardBounded /\ CopyBehind /\ AllBalanced
      /\ QuietMeansSaved /\ {buckets, rows, copied, heard} \subseteq CountTables
    BY CountTypes DEF StatsInv
<1>3. copied' \in CountTables
    BY <1>1, <1>2
<1>4. NeverOvercounted' /\ HeardBounded' /\ AllBalanced'
    BY <1>1, <1>2 DEF NeverOvercounted, HeardBounded, AllBalanced
<1>5. CopyBehind'
  <2>1. CASE statsDirty
    <3>1. \A h \in Hours, c \in Counters : buckets[h][c] \in Nat
        BY <1>2 DEF CountTables
    <3> QED
        BY <1>1, <2>1, <3>1 DEF CopyBehind
  <2>2. CASE ~statsDirty
      BY <1>1, <1>2, <2>2 DEF CopyBehind
  <2> QED
      BY <2>1, <2>2
<1>6. QuietMeansSaved'
    BY <1>1, <1>2 DEF QuietMeansSaved, Cutoff
<1>7. StatsTypeOK'
  <2>1. flushing' \in {"idle", "pruned", "writing"} /\ statsDirty' \in BOOLEAN
      BY <1>1
  <2> QED
      BY <1>1, <1>2, <1>3, <1>4, <1>5, <2>1, TypesFromCounts DEF StatsTypeOK
<1> QED
    BY <1>4, <1>5, <1>6, <1>7 DEF StatsInv

\* The copy is written, and with it what the maps it shares were given since:
\* never more than was heard, and nothing while the store is clean.
LEMMA WriteKeepsStats ==
    ASSUME StatsInv, WriteStats
    PROVE  StatsInv'
<1>1. /\ flushing = "writing" /\ flushing' = "idle" /\ copied' = NoBuckets
      /\ saveFailed' = FALSE
      /\ UNCHANGED <<buckets, statsDirty, pendingChannel, heard, eventsHeard, hour>>
    BY DEF WriteStats
<1>2. /\ StatsTypeOK /\ NeverOvercounted /\ HeardBounded /\ CopyBehind /\ AllBalanced
      /\ {buckets, rows, copied, heard} \subseteq CountTables
    BY CountTypes DEF StatsInv
<1>3. PICK channels \in MayRead("channels"), distance \in MayRead("distance") :
          rows' = [h \in Hours |-> [copied[h] EXCEPT !.channels = channels[h],
                                                     !.distance = distance[h]]]
    BY DEF WriteStats
<1>4. ASSUME NEW c \in Shared, NEW seen \in MayRead(c), NEW h \in Hours
      PROVE  /\ seen[h] \in Nat /\ seen[h] <= buckets[h][c]
             /\ copied[h][c] = buckets[h][c] => seen[h] = copied[h][c]
  <2>1. seen[h] \in 0 .. MaxHeard
        /\ (seen[h] = copied[h][c] \/ seen[h] \in copied[h][c] .. buckets[h][c])
      BY DEF MayRead
  <2>2. copied[h][c] \in Nat /\ buckets[h][c] \in Nat /\ copied[h][c] <= buckets[h][c]
      BY <1>2 DEF CountTables, CopyBehind, Counters
  <2> QED
      BY <2>1, <2>2, StatsAssumption
<1>5. \A h \in Hours :
          /\ channels[h] \in Nat /\ channels[h] <= buckets[h]["channels"]
          /\ distance[h] \in Nat /\ distance[h] <= buckets[h]["distance"]
          /\ copied[h]["channels"] = buckets[h]["channels"] => channels[h] = copied[h]["channels"]
          /\ copied[h]["distance"] = buckets[h]["distance"] => distance[h] = copied[h]["distance"]
    BY <1>4 DEF Shared
<1>6. ASSUME NEW h \in Hours
      PROVE  /\ rows'[h] \in [Counters -> Nat]
             /\ \A c \in Counters \ Shared : rows'[h][c] = copied[h][c]
             /\ rows'[h]["channels"] = channels[h] /\ rows'[h]["distance"] = distance[h]
  <2>1. rows'[h] = [copied[h] EXCEPT !.channels = channels[h], !.distance = distance[h]]
      BY <1>3
  <2>2. copied[h] \in [Counters -> Nat] /\ {"channels", "distance"} \subseteq Counters
      BY <1>2 DEF CountTables, Counters, Shared
  <2> QED
      BY <1>5, <2>1, <2>2 DEF Shared
<1>7. rows' \in CountTables
  <2>1. rows' = [h \in Hours |-> rows'[h]]
      BY <1>3
  <2> QED
      BY <1>6, <2>1 DEF CountTables
<1>8. ASSUME NEW h \in Hours, NEW c \in Counters
      PROVE  /\ rows'[h][c] <= buckets[h][c]
             /\ copied[h] = buckets[h] => rows'[h][c] = buckets[h][c]
  <2>1. copied[h][c] <= buckets[h][c]
      BY <1>2 DEF CopyBehind
  <2>2. CASE c \in Shared
      BY <1>5, <1>6, <2>2 DEF Shared
  <2>3. CASE c \notin Shared
      BY <1>6, <2>1, <2>3
  <2> QED
      BY <2>2, <2>3
<1>9. NeverOvercounted'
  <2> SUFFICES ASSUME NEW h \in Hours, NEW c \in Counters
               PROVE  buckets'[h][c] <= heard'[h][c] /\ rows'[h][c] <= heard'[h][c]
      BY DEF NeverOvercounted
  <2>1. buckets[h][c] \in Nat /\ rows'[h][c] \in Nat /\ heard[h][c] \in Nat
      BY <1>2, <1>7 DEF CountTables
  <2>2. buckets[h][c] <= heard[h][c]
      BY <1>2 DEF NeverOvercounted
  <2>3. rows'[h][c] <= buckets[h][c]
      BY <1>8
  <2> QED
      BY <1>1, <2>1, <2>2, <2>3
<1>10. CopyBehind' /\ copied' \in CountTables
  <2>1. \A h \in Hours, c \in Counters : NoBuckets[h][c] = 0 /\ buckets[h][c] \in Nat
      BY <1>2, NoBucketsSpec, EmptySpec DEF CountTables
  <2>2. \A h \in Hours, c \in Counters : copied'[h][c] <= buckets'[h][c]
      BY <1>1, <2>1
  <2> QED
      BY <1>1, <2>2, NoBucketsSpec DEF CopyBehind
<1>11. HeardBounded'
    BY <1>1, <1>2 DEF HeardBounded
<1>12. AllBalanced'
  <2> SUFFICES ASSUME NEW h \in Hours
               PROVE  Balanced(buckets'[h]) /\ Balanced(rows'[h]) /\ Balanced(copied'[h])
      BY DEF AllBalanced
  <2>1. Balanced(buckets[h]) /\ Balanced(copied[h])
      BY <1>2 DEF AllBalanced
  <2>2. \A c \in {"total", "dm", "public", "telemetry", "position"} : rows'[h][c] = copied[h][c]
      BY <1>6 DEF Counters, Shared
  <2>3. Balanced(rows'[h])
      BY <2>1, <2>2 DEF Balanced
  <2> QED
      BY <1>1, <2>1, <2>3, NoBucketsSpec, EmptySpec
<1>13. QuietMeansSaved'
  <2> SUFFICES ASSUME ~statsDirty, NEW h \in Hours PROVE rows'[h] = buckets'[h]
      BY <1>1 DEF QuietMeansSaved
  <2>1. copied = buckets
      BY <1>1, <1>2 DEF CopyBehind
  <2>2. \A c \in Counters : rows'[h][c] = buckets[h][c]
      BY <1>8, <2>1
  <2>3. rows'[h] \in [Counters -> Nat] /\ buckets[h] \in [Counters -> Nat]
      BY <1>2, <1>6 DEF CountTables
  <2>4. rows'[h] = buckets[h]
      BY <2>2, <2>3
  <2> QED
      BY <1>1, <2>4
<1>14. StatsTypeOK'
    BY <1>1, <1>2, <1>7, <1>9, <1>10, <1>11, TypesFromCounts DEF StatsTypeOK
<1> QED
    BY <1>9, <1>10, <1>11, <1>12, <1>13, <1>14 DEF StatsInv

\* A write that is rolled back, the end of the process and a new start, and the
\* clock.
LEMMA OthersKeepStats ==
    ASSUME StatsInv, WriteStatsFails \/ RestartStats \/ StatsTick \/ UNCHANGED statsVars
    PROVE  StatsInv'
<1>1. /\ StatsTypeOK /\ NeverOvercounted /\ HeardBounded /\ CopyBehind /\ AllBalanced
      /\ QuietMeansSaved /\ {buckets, rows, copied, heard} \subseteq CountTables
    BY CountTypes DEF StatsInv
<1>2. \A h \in Hours, c \in Counters :
          /\ NoBuckets[h][c] = 0
          /\ buckets[h][c] \in Nat /\ rows[h][c] \in Nat /\ heard[h][c] \in Nat
    BY <1>1, NoBucketsSpec, EmptySpec DEF CountTables
<1>3. CASE WriteStatsFails
  <2>1. /\ flushing' = "idle" /\ copied' = NoBuckets /\ saveFailed' = TRUE
        /\ UNCHANGED <<buckets, statsDirty, rows, pendingChannel, heard, eventsHeard, hour>>
      BY <1>3 DEF WriteStatsFails
  <2>2. NeverOvercounted' /\ HeardBounded' /\ QuietMeansSaved'
      BY <1>1, <2>1 DEF NeverOvercounted, HeardBounded, QuietMeansSaved
  <2>3. \A h \in Hours, c \in Counters : copied'[h][c] <= buckets'[h][c]
      BY <1>2, <2>1
  <2>4. CopyBehind'
      BY <2>1, <2>3 DEF CopyBehind
  <2>5. AllBalanced'
      BY <1>1, <2>1, NoBucketsSpec, EmptySpec DEF AllBalanced
  <2>6. StatsTypeOK'
      BY <1>1, <2>1, <2>2, <2>4, NoBucketsSpec, TypesFromCounts DEF StatsTypeOK
  <2> QED
      BY <2>2, <2>4, <2>5, <2>6 DEF StatsInv
<1>4. CASE RestartStats
  <2>1. /\ buckets' = Within(rows) /\ statsDirty' = FALSE /\ flushing' = "idle"
        /\ copied' = NoBuckets /\ pendingChannel' = 0 /\ saveFailed' = FALSE
        /\ UNCHANGED <<rows, heard, eventsHeard, hour>>
      BY <1>4 DEF RestartStats
  <2>2. /\ buckets' \in CountTables
        /\ \A h \in Hours : buckets'[h] = IF h < Cutoff THEN Empty ELSE rows[h]
        /\ \A h \in Hours, c \in Counters : buckets'[h][c] <= rows[h][c]
      BY <1>1, <2>1, WithinSpec
  <2>3. NeverOvercounted'
    <3> SUFFICES ASSUME NEW h \in Hours, NEW c \in Counters
                 PROVE  buckets'[h][c] <= heard'[h][c] /\ rows'[h][c] <= heard'[h][c]
        BY DEF NeverOvercounted
    <3>1. rows[h][c] <= heard[h][c] /\ buckets'[h][c] \in Nat
        BY <1>1, <2>2 DEF NeverOvercounted, CountTables
    <3> QED
        BY <1>2, <2>1, <2>2, <3>1
  <2>4. HeardBounded'
    <3> SUFFICES ASSUME NEW h \in Hours, NEW c \in Counters
                 PROVE  heard'[h][c] <= eventsHeard'
      <4>1. \A h \in Hours : h # 0
          BY DEF Hours
      <4> QED
          BY <1>2, <2>1, <4>1 DEF HeardBounded
    <3>1. heard[h][c] + (IF c = "channels" /\ pendingChannel = h THEN 1 ELSE 0) <= eventsHeard
        BY <1>1 DEF HeardBounded
    <3> QED
        BY <1>1, <1>2, <2>1, <3>1, CountTypes
  <2>5. \A h \in Hours, c \in Counters : copied'[h][c] <= buckets'[h][c]
      BY <1>2, <2>1, <2>2 DEF CountTables
  <2>6. CopyBehind'
      BY <2>1, <2>5 DEF CopyBehind
  <2>7. AllBalanced'
      BY <1>1, <2>1, <2>2, NoBucketsSpec, EmptySpec DEF AllBalanced
  <2>8. QuietMeansSaved'
    <3>1. Cutoff \in Nat /\ Cutoff' = Cutoff
        BY <1>1, <2>1, StatsAssumption DEF Cutoff, StatsTypeOK, Hours
    <3> QED
        BY <2>1, <2>2, <3>1 DEF QuietMeansSaved, Hours
  <2>9. StatsTypeOK'
    <3>1. 0 \in 0 .. MaxHour
        BY StatsAssumption
    <3> QED
        BY <1>1, <2>1, <2>2, <2>3, <2>4, <2>6, <3>1, NoBucketsSpec, TypesFromCounts
           DEF StatsTypeOK
  <2> QED
      BY <2>3, <2>4, <2>6, <2>7, <2>8, <2>9 DEF StatsInv
<1>5. CASE StatsTick
  <2>1. /\ hour < MaxHour /\ hour' = hour + 1
        /\ UNCHANGED <<buckets, statsDirty, rows, flushing, copied, pendingChannel, heard,
                       eventsHeard, saveFailed>>
      BY <1>5 DEF StatsTick
  <2>2. hour' \in Hours
      BY <1>1, <2>1, StatsAssumption DEF StatsTypeOK, Hours
  <2>3. NeverOvercounted' /\ HeardBounded' /\ CopyBehind' /\ AllBalanced'
      BY <1>1, <2>1 DEF NeverOvercounted, HeardBounded, CopyBehind, AllBalanced
  <2>4. Cutoff <= Cutoff' /\ Cutoff \in Nat /\ Cutoff' \in Nat
      BY <1>1, <2>1, StatsAssumption DEF Cutoff, StatsTypeOK, Hours
  <2>5. \A h \in Hours : h >= Cutoff' => h >= Cutoff
      BY <2>4 DEF Hours
  <2>6. QuietMeansSaved'
      BY <1>1, <2>1, <2>5 DEF QuietMeansSaved
  <2>7. StatsTypeOK'
      BY <1>1, <2>1, <2>2 DEF StatsTypeOK
  <2> QED
      BY <2>3, <2>6, <2>7 DEF StatsInv
<1>6. CASE UNCHANGED statsVars
  <2>1. UNCHANGED <<buckets, statsDirty, rows, flushing, copied, pendingChannel, heard,
                    eventsHeard, saveFailed, hour>>
      BY <1>6 DEF statsVars
  <2>2. StatsTypeOK' /\ NeverOvercounted' /\ HeardBounded' /\ CopyBehind' /\ AllBalanced'
      BY <1>1, <2>1 DEF StatsTypeOK, NeverOvercounted, HeardBounded, CopyBehind, AllBalanced
  <2>3. QuietMeansSaved'
      BY <1>1, <2>1 DEF QuietMeansSaved, Cutoff
  <2> QED
      BY <2>2, <2>3 DEF StatsInv
<1> QED
    BY <1>3, <1>4, <1>5, <1>6

LEMMA StatsStep == StatsInv /\ [StatsNext]_statsVars => StatsInv'
<1> SUFFICES ASSUME StatsInv, [StatsNext]_statsVars PROVE StatsInv'
    OBVIOUS
<1>1. ASSUME NEW kind \in Kinds, NEW h \in Hours, RecordPacket(kind, h) PROVE StatsInv'
    BY <1>1, RecordKeepsStats
<1>2. CASE RecordChannel
    BY <1>2, ChannelKeepsStats
<1>3. CASE PruneExpired
    BY <1>3, PruneKeepsStats
<1>4. CASE CopyBuckets
    BY <1>4, CopyKeepsStats
<1>5. CASE WriteStats
    BY <1>5, WriteKeepsStats
<1>6. CASE WriteStatsFails \/ RestartStats \/ StatsTick \/ UNCHANGED statsVars
    BY <1>6, OthersKeepStats
<1> QED
    BY <1>1, <1>2, <1>3, <1>4, <1>5, <1>6 DEF StatsNext

\* The counters are well typed: none exceeds the number of events.
THEOREM StatsTypeCorrect == StatsSpec => []StatsTypeOK
<1>1. StatsInv => StatsTypeOK
    BY DEF StatsInv
<1> QED
    BY <1>1, StatsInitially, StatsStep, PTL DEF StatsSpec

\* The statistics survive as they were heard, for any events, retention and clock:
\* nothing is counted twice, the kinds make up the total, and a clean store whose
\* last save did not fail has its buckets in the tables.
THEOREM StatisticsFaithful == StatsSpec => []StatsFaithful
<1>1. StatsInv => StatsFaithful
    BY TotalsFromBalance DEF StatsInv, StatsFaithful
<1> QED
    BY <1>1, StatsInitially, StatsStep, PTL DEF StatsSpec

----------------------------------------------------------------------------
(* Positions: for any callsigns, paths and retention. *)

\* What is being written is what memory holds, or dirty again.
SavingCurrent ==
    \A n \in Nodes : Exists(saving, n) => saving[n] = records[n] \/ n \in dirtyNodes

PositionsInv == PositionsTypeOK /\ SavingCurrent /\ PositionsNothingForgotten

USE PositionsAssumption

\* Everything but the records and the dirty nodes stays; the others stay too, for
\* every node that does not become dirty.
MarksWhatChanges ==
    /\ records' \in [Nodes -> NodeRecords]
    /\ dirtyNodes' \in SUBSET Nodes /\ dirtyNodes \subseteq dirtyNodes'
    /\ \A n \in Nodes : records'[n] = records[n] \/ n \in dirtyNodes'
    /\ UNCHANGED <<nodes, saving, purgedNodes, seenAt>>

LEMMA MarkingKeepsPositions ==
    ASSUME PositionsInv, MarksWhatChanges
    PROVE  PositionsInv'
<1>1. PositionsTypeOK'
    BY DEF PositionsInv, PositionsTypeOK, MarksWhatChanges
<1>2. SavingCurrent'
    BY DEF PositionsInv, SavingCurrent, MarksWhatChanges, Exists
<1>3. PositionsNothingForgotten'
    BY DEF PositionsInv, PositionsNothingForgotten, MarksWhatChanges
<1> QED
    BY <1>1, <1>2, <1>3 DEF PositionsInv

LEMMA RecordTypes ==
    ASSUME NEW r \in NodeRecords, seenAt \in 1 .. MaxSeen
    PROVE  Unknown \in NodeRecords /\ Direct(r) \in NodeRecords /\ Indirect(r) \in NodeRecords
<1>1. 0 \in Instants /\ seenAt \in Instants
    BY DEF Instants
<1> QED
    BY <1>1 DEF Unknown, Direct, Indirect, NodeRecords

\* The relays and the origin of a path are callsigns.
LEMMA PathNodes ==
    ASSUME NEW path \in Paths
    PROVE  Origin(path) \in Nodes /\ KnownVia(path) \subseteq Nodes
<1>1. path \in Seq(Nodes) /\ path # <<>>
    OBVIOUS
<1>2. path[1] \in Nodes /\ Tail(path) \in Seq(Nodes)
    BY <1>1
<1>3. Range(Tail(path)) \subseteq Nodes
    BY <1>2 DEF Range
<1> QED
    BY <1>2, <1>3 DEF Origin, Via, KnownVia

LEMMA PositionsInitially == PositionsInit => PositionsInv
<1> SUFFICES ASSUME PositionsInit PROVE PositionsInv
    OBVIOUS
<1>1. Unknown \in NodeRecords /\ 1 \in 1 .. MaxSeen
    BY DEF Unknown, NodeRecords, Instants
<1>2. PositionsTypeOK
    BY <1>1 DEF PositionsInit, PositionsTypeOK, NoSave
<1> QED
    BY <1>2 DEF PositionsInit, PositionsInv, SavingCurrent, PositionsNothingForgotten, Exists, NoSave

\* A position packet marks its origin, unless it is as it was, and the relays.
LEMMA UpdateKeepsPositions ==
    ASSUME PositionsInv, NEW path \in Paths, Update(path)
    PROVE  PositionsInv'
<1> DEFINE origin == Origin(path)
           touched == touchViaChainLocked(path)
<1>1. origin \in Nodes /\ KnownVia(path) \subseteq Nodes
    BY PathNodes
<1>2. seenAt \in 1 .. MaxSeen /\ \A n \in Nodes : records[n] \in NodeRecords
    BY DEF PositionsInv, PositionsTypeOK
<1>3. Heard(path) \in NodeRecords
  <2> DEFINE plain == [fix |-> seenAt, seen |-> seenAt, direct |-> records[origin].direct,
                       first |-> IF records[origin] = Unknown THEN seenAt
                                 ELSE records[origin].first]
  <2>1. plain \in NodeRecords
    BY <1>1, <1>2 DEF NodeRecords, Instants
  <2>2. Direct(plain) \in NodeRecords
    BY <1>2, <2>1, RecordTypes
  <2>3. Heard(path) \in {plain, Direct(plain)}
    BY DEF Heard
  <2> QED
    BY <2>1, <2>2, <2>3
<1>4. touched \in [Nodes -> NodeRecords]
  <2>1. \A n \in Nodes : Direct(records[n]) \in NodeRecords /\ Indirect(records[n]) \in NodeRecords
    BY <1>2, RecordTypes
  <2> QED
    BY <1>2, <2>1 DEF touchViaChainLocked
<1>5. \A n \in Nodes : n \notin KnownVia(path) => touched[n] = records[n]
    BY DEF touchViaChainLocked
<1>6. /\ records' = [touched EXCEPT ![origin] = Heard(path)]
      /\ dirtyNodes' = dirtyNodes \cup KnownVia(path) \cup
             (IF Heard(path) = records[origin] THEN {} ELSE {origin})
      /\ UNCHANGED <<nodes, saving, purgedNodes, seenAt>>
    BY DEF Update
<1> HIDE DEF touched, origin
<1>7. records' \in [Nodes -> NodeRecords]
    BY <1>3, <1>4, <1>6
<1>8. dirtyNodes' \in SUBSET Nodes /\ dirtyNodes \subseteq dirtyNodes'
    BY <1>1, <1>6 DEF PositionsInv, PositionsTypeOK
<1>9. \A n \in Nodes : records'[n] = records[n] \/ n \in dirtyNodes'
    BY <1>1, <1>4, <1>5, <1>6
<1> QED
    BY <1>6, <1>7, <1>8, <1>9, MarkingKeepsPositions DEF MarksWhatChanges

LEMMA TouchKeepsPositions ==
    ASSUME PositionsInv, NEW path \in Paths, TouchFromPacket(path)
    PROVE  PositionsInv'
<1> DEFINE origin == Origin(path)
           freshened == IF Via(path) = <<>> THEN Direct(records[origin])
                        ELSE Indirect(records[origin])
           first == IF Exists(records, origin) THEN [records EXCEPT ![origin] = freshened]
                    ELSE records
<1>1. origin \in Nodes /\ KnownVia(path) \subseteq Nodes
    BY PathNodes
<1>2. seenAt \in 1 .. MaxSeen /\ records \in [Nodes -> NodeRecords]
    BY DEF PositionsInv, PositionsTypeOK
<1>3. freshened \in NodeRecords
    BY <1>1, <1>2, RecordTypes
<1>4. first \in [Nodes -> NodeRecords]
    BY <1>2, <1>3
<1>5. \A n \in Nodes : n # origin \/ ~Exists(records, origin) => first[n] = records[n]
    BY <1>2
<1>6. /\ records' = [n \in Nodes |->
             IF n \notin KnownVia(path) THEN first[n]
             ELSE IF n = Last(path) THEN Direct(first[n]) ELSE Indirect(first[n])]
      /\ dirtyNodes' = dirtyNodes \cup KnownVia(path) \cup
             (IF Exists(records, origin) THEN {origin} ELSE {})
      /\ UNCHANGED <<nodes, saving, purgedNodes, seenAt>>
    BY DEF TouchFromPacket
<1> HIDE DEF first, origin
<1>7. records' \in [Nodes -> NodeRecords]
  <2>1. \A n \in Nodes : /\ first[n] \in NodeRecords /\ Direct(first[n]) \in NodeRecords
                         /\ Indirect(first[n]) \in NodeRecords
    BY <1>2, <1>4, RecordTypes
  <2> QED
    BY <1>6, <2>1
<1>8. dirtyNodes' \in SUBSET Nodes /\ dirtyNodes \subseteq dirtyNodes'
    BY <1>1, <1>6 DEF PositionsInv, PositionsTypeOK
<1>9. \A n \in Nodes : records'[n] = records[n] \/ n \in dirtyNodes'
    BY <1>5, <1>6
<1> QED
    BY <1>6, <1>7, <1>8, <1>9, MarkingKeepsPositions DEF MarksWhatChanges

\* The save copies the dirty records, writes them, or marks them again.
LEMMA SaveKeepsPositions ==
    ASSUME PositionsInv, TakeDirty \/ WriteNodes \/ WriteNodesFails
    PROVE  PositionsInv'
<1>0. Unknown \in NodeRecords
    BY DEF Unknown, NodeRecords, Instants
<1>1. CASE TakeDirty
  <2>1. PositionsTypeOK'
    BY <1>0, <1>1 DEF TakeDirty, PositionsInv, PositionsTypeOK
  <2>2. \A n \in Nodes : saving'[n] = IF n \in dirtyNodes THEN records[n] ELSE Unknown
    BY <1>1 DEF TakeDirty
  <2>3. /\ UNCHANGED <<records, nodes, purgedNodes>>
        /\ \A n \in Nodes : saving[n] = Unknown
    BY <1>1 DEF TakeDirty, NoSave
  <2>4. SavingCurrent' /\ PositionsNothingForgotten'
    BY <2>2, <2>3 DEF PositionsInv, SavingCurrent, PositionsNothingForgotten, Exists
  <2> QED
    BY <2>1, <2>4 DEF PositionsInv
<1>2. CASE WriteNodes
  <2>1. PositionsTypeOK'
    BY <1>0, <1>2 DEF WriteNodes, PositionsInv, PositionsTypeOK, NoSave
  <2>2. /\ \A n \in Nodes : /\ saving'[n] = Unknown
                            /\ nodes'[n] = IF Exists(saving, n) THEN saving[n] ELSE nodes[n]
        /\ purgedNodes' = {n \in purgedNodes : ~Exists(saving, n)}
        /\ UNCHANGED <<records, dirtyNodes>>
    BY <1>2 DEF WriteNodes, NoSave
  <2>3. SavingCurrent' /\ PositionsNothingForgotten'
    BY <2>2 DEF PositionsInv, SavingCurrent, PositionsNothingForgotten, Exists
  <2> QED
    BY <2>1, <2>3 DEF PositionsInv
<1>3. CASE WriteNodesFails
  <2>1. PositionsTypeOK'
    BY <1>0, <1>3 DEF WriteNodesFails, PositionsInv, PositionsTypeOK, NoSave
  <2>2. /\ \A n \in Nodes : saving'[n] = Unknown
        /\ dirtyNodes' = dirtyNodes \cup {n \in Nodes : Exists(saving, n)}
        /\ UNCHANGED <<records, nodes, purgedNodes>>
    BY <1>3 DEF WriteNodesFails, NoSave
  <2>3. SavingCurrent' /\ PositionsNothingForgotten'
    BY <2>2 DEF PositionsInv, SavingCurrent, PositionsNothingForgotten, Exists
  <2> QED
    BY <2>1, <2>3 DEF PositionsInv
<1> QED
    BY <1>1, <1>2, <1>3

\* The purge, a restart and the clock.
LEMMA OthersKeepPositions ==
    ASSUME PositionsInv, PurgeNodes \/ RestartPositions \/ PositionTick
    PROVE  PositionsInv'
<1>0. Unknown \in NodeRecords
    BY DEF Unknown, NodeRecords, Instants
<1>1. CASE PurgeNodes
  <2>1. PICK old \in SUBSET Nodes :
            /\ nodes' = [n \in Nodes |-> IF n \in old THEN Unknown ELSE nodes[n]]
            /\ purgedNodes' = purgedNodes \cup old
            /\ UNCHANGED <<records, dirtyNodes, saving, seenAt>>
    BY <1>1 DEF PurgeNodes
  <2>2. PositionsTypeOK'
    BY <1>0, <2>1 DEF PositionsInv, PositionsTypeOK
  <2>3. SavingCurrent' /\ PositionsNothingForgotten'
    BY <2>1 DEF PositionsInv, SavingCurrent, PositionsNothingForgotten, Exists
  <2> QED
    BY <2>2, <2>3 DEF PositionsInv
<1>2. CASE RestartPositions
  <2>1. PositionsTypeOK'
    BY <1>0, <1>2 DEF RestartPositions, PositionsInv, PositionsTypeOK, NoSave
  <2>2. SavingCurrent' /\ PositionsNothingForgotten'
    BY <1>2 DEF RestartPositions, SavingCurrent, PositionsNothingForgotten, Exists, NoSave
  <2> QED
    BY <2>1, <2>2 DEF PositionsInv
<1>3. CASE PositionTick
  <2>1. PositionsTypeOK'
    BY <1>3 DEF PositionTick, PositionsInv, PositionsTypeOK
  <2>2. SavingCurrent' /\ PositionsNothingForgotten'
    BY <1>3 DEF PositionTick, PositionsInv, SavingCurrent, PositionsNothingForgotten, Exists
  <2> QED
    BY <2>1, <2>2 DEF PositionsInv
<1> QED
    BY <1>1, <1>2, <1>3

LEMMA PositionsStep == PositionsInv /\ [PositionsNext]_positionVars => PositionsInv'
<1> SUFFICES ASSUME PositionsInv, [PositionsNext]_positionVars PROVE PositionsInv'
    OBVIOUS
<1>1. ASSUME NEW path \in Paths, Update(path) \/ TouchFromPacket(path) PROVE PositionsInv'
    BY <1>1, UpdateKeepsPositions, TouchKeepsPositions
<1>2. ASSUME TakeDirty \/ WriteNodes \/ WriteNodesFails PROVE PositionsInv'
    BY <1>2, SaveKeepsPositions
<1>3. ASSUME PurgeNodes \/ RestartPositions \/ PositionTick PROVE PositionsInv'
    BY <1>3, OthersKeepPositions
<1>4. ASSUME UNCHANGED positionVars PROVE PositionsInv'
    BY <1>4 DEF positionVars, PositionsInv, PositionsTypeOK, SavingCurrent, PositionsNothingForgotten,
                Exists
<1> QED
    BY <1>1, <1>2, <1>3, <1>4 DEF PositionsNext

----------------------------------------------------------------------------
\* Nodes, rows and what is being written are well typed, and no instant is ahead
\* of the clock's range, for any callsigns, paths and retention.
THEOREM PositionsTypeCorrect == PositionsSpec => []PositionsTypeOK
<1>1. PositionsInv => PositionsTypeOK
    BY DEF PositionsInv
<1> QED
    BY <1>1, PositionsInitially, PositionsStep, PTL DEF PositionsSpec

\* The incremental save forgets no node: a record that differs from its row is
\* dirty, being written, or its row was purged, whatever fails in between.
THEOREM NoNodeForgotten == PositionsSpec => []PositionsNothingForgotten
<1>1. PositionsInv => PositionsNothingForgotten
    BY DEF PositionsInv
<1> QED
    BY <1>1, PositionsInitially, PositionsStep, PTL DEF PositionsSpec

HIDE PositionsAssumption

----------------------------------------------------------------------------
(* Together. *)

\* A step of the daemon's archive is a step of each component, or leaves it alone.
LEMMA ArchiveStepsOfComponents ==
    [ArchiveNext]_archiveVars => /\ [ChatNext]_chatVars
                                 /\ [PositionsNext]_positionVars
                                 /\ [StatsNext]_statsVars
BY Zenon DEF ArchiveNext, archiveVars

\* Conversations, nodes and counters behave as their specifications say in a daemon
\* that runs all three.
THEOREM ArchiveRunsItsComponents == ArchiveSpec => ChatSpec /\ PositionsSpec /\ StatsSpec
<1>1. ArchiveInit => ChatInit /\ PositionsInit /\ StatsInit
    BY DEF ArchiveInit
<1> QED
    BY <1>1, ArchiveStepsOfComponents, PTL DEF ArchiveSpec, ChatSpec, PositionsSpec, StatsSpec

\* Types of the three, in a daemon that runs them.
THEOREM ArchiveTypeCorrect == ArchiveSpec => []ArchiveTypeOK
<1>1. ChatTypeOK /\ PositionsTypeOK /\ StatsTypeOK => ArchiveTypeOK
    BY DEF ArchiveTypeOK
<1> QED
    BY <1>1, ArchiveRunsItsComponents, ChatsTypeCorrect, PositionsTypeCorrect,
       StatsTypeCorrect, PTL

\* So the daemon shows what it has stored, counts the texts where it shows them,
\* deletes conversations as a whole, forgets no change of a node, and its counters are
\* those of what it has heard, as far as they are kept.
THEOREM ArchiveKeeps ==
    ArchiveSpec => /\ []ConversationsShown /\ []CountedAreListed /\ DeleteComplete
                   /\ []PositionsNothingForgotten /\ []StatsFaithful
BY ArchiveRunsItsComponents, StoredIsShown, CountsMatchTheList, DeletesAreComplete,
   NoNodeForgotten, StatisticsFaithful, PTL
=============================================================================
