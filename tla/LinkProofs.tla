----------------------------- MODULE LinkProofs -----------------------------
(***************************************************************************)
(* Theorems about the two links of Daemon that data comes in by.           *)
(*                                                                         *)
(* ConsoleDecoder, for any symbols that a console prints in any reads, and *)
(* any limit: a decoder is byte by byte in step with the lines of its      *)
(* input, so that the payloads and errors are those of the lines.          *)
(*                                                                         *)
(* UdpLink, for any number of targets and datagrams and any capacity of    *)
(* the channels: what a target gets is in order, and Forward never loses   *)
(* the datagram that it is called with.                                    *)
(***************************************************************************)
EXTENDS UdpLink, ConsoleDecoder, FiniteSetTheorems, SequenceTheorems, WellFoundedInduction,
        TLAPS

----------------------------------------------------------------------------
(* Numbers, sets of numbers, and functions defined by recursion. *)

\* A set of numbers has a least one.
LEMMA LeastNumber ==
    ASSUME NEW S \in SUBSET Nat, S # {}
    PROVE  \E n \in S : \A m \in S : n <= m
<1>1. IsWellFoundedOn(OpToRel(<, Nat), Nat)
    BY NatLessThanWellFounded
<1>2. PICK n \in S : \A m \in S : ~ (<<m, n>> \in OpToRel(<, Nat))
    BY <1>1, WFMin
<1>3. \A m \in S : ~(m < n)
    BY <1>2 DEF OpToRel
<1> QED
    BY <1>3

LEMMA MinOfNumbers ==
    ASSUME NEW S \in SUBSET Nat, S # {}
    PROVE  Min(S) \in S /\ \A n \in S : Min(S) <= n
<1>1. \E n \in S : \A m \in S : n <= m
    BY LeastNumber
<1> QED
    BY <1>1 DEF Min

LEMMA MaxOfNumbers ==
    ASSUME NEW N \in Nat, NEW S \in SUBSET (0 .. N), S # {}
    PROVE  Max(S) \in S /\ \A n \in S : Max(S) >= n
<1> DEFINE mirrored == {N - n : n \in S}
<1>0. \A n \in S : n \in Int /\ N - n \in Nat
    OBVIOUS
<1>1. mirrored \in SUBSET Nat /\ mirrored # {}
    BY <1>0
<1>2. PICK k \in mirrored : \A m \in mirrored : k <= m
    BY <1>1, LeastNumber
<1>3. PICK last \in S : k = N - last
    OBVIOUS
<1>4. ASSUME NEW n \in S PROVE last >= n
  <2>1. N - n \in mirrored
    OBVIOUS
  <2>2. N - last <= N - n
    BY <1>2, <1>3, <2>1
  <2> HIDE DEF mirrored
  <2> QED
    BY <1>0, <2>2
<1> QED
    BY <1>4 DEF Max

\* Induction over an interval, with a set for the predicate.
LEMMA IntervalInduction ==
    ASSUME NEW N \in Nat, NEW P, 0 \in P,
           \A n \in 0 .. N - 1 : n \in P => n + 1 \in P
    PROVE  \A n \in 0 .. N : n \in P
<1> DEFINE Bad == {n \in 0 .. N : n \notin P}
<1> SUFFICES ASSUME Bad # {} PROVE FALSE
    OBVIOUS
<1>1. Bad \in SUBSET Nat
    OBVIOUS
<1>2. PICK n \in Bad : \A m \in Bad : n <= m
    BY <1>1, LeastNumber
<1>3. n # 0 /\ n \in 0 .. N /\ n \notin P
    OBVIOUS
<1>4. n - 1 \in 0 .. N - 1 /\ ~(n <= n - 1) /\ n - 1 \in 0 .. N
    BY <1>3
<1>5. n - 1 \in P
    BY <1>2, <1>4
<1>6. (n - 1) + 1 \in P
    BY <1>4, <1>5
<1>7. (n - 1) + 1 = n
    BY <1>3
<1> QED
    BY <1>3, <1>6, <1>7

\* A function on 0 .. N that is defined from its value one place before exists.
Steps(N, St, start, move) == N \in Nat /\ start \in St /\ move \in [1 .. N -> [St -> St]]
Runs(N, St, start, move) ==
    {f \in [0 .. N -> St] : f[0] = start /\ \A n \in 1 .. N : f[n] = move[n][f[n - 1]]}

LEMMA RecursionExists ==
    ASSUME NEW N, NEW St, NEW start, NEW move, Steps(N, St, start, move)
    PROVE  \E f : f \in Runs(N, St, start, move)
<1>0. N \in Nat /\ start \in St /\ move \in [1 .. N -> [St -> St]]
    BY DEF Steps
<1> DEFINE Upto(m, f) == f[0] = start /\ \A n \in 1 .. m : f[n] = move[n][f[n - 1]]
           P == {m \in 0 .. N : \E f \in [0 .. m -> St] : Upto(m, f)}
<1>1. 0 \in P
  <2> DEFINE f == [n \in 0 .. 0 |-> start]
  <2>1. f \in [0 .. 0 -> St] /\ f[0] = start /\ 1 .. 0 = {}
    BY <1>0
  <2>2. Upto(0, f)
    BY <1>0, <2>1
  <2> HIDE DEF f, Upto
  <2>3. 0 \in 0 .. N
    BY <1>0
  <2> QED
    BY <1>0, <2>1, <2>2, <2>3
<1>2. ASSUME NEW m \in 0 .. N - 1, m \in P PROVE m + 1 \in P
  <2>1. PICK f \in [0 .. m -> St] : Upto(m, f)
    BY <1>0, <1>2
  <2> DEFINE g == [n \in 0 .. m + 1 |-> IF n <= m THEN f[n] ELSE move[m + 1][f[m]]]
  <2>2. m + 1 \in 1 .. N /\ f[m] \in St
    BY <1>0
  <2>3. move[m + 1][f[m]] \in St
    BY <1>0, <2>2
  <2>4. g \in [0 .. m + 1 -> St]
    BY <1>0, <2>3
  <2>5. g[0] = start
    BY <1>0, <2>1
  <2>6. ASSUME NEW n \in 1 .. m + 1 PROVE g[n] = move[n][g[n - 1]]
    <3>1. g[n - 1] = f[n - 1]
      BY <1>0
    <3>2. CASE n <= m
      <4>1. n \in 1 .. m /\ g[n] = f[n]
        BY <1>0, <3>2
      <4> QED
        BY <1>0, <2>1, <3>1, <4>1
    <3>3. CASE n = m + 1
      <4>1. n - 1 = m /\ g[n] = move[m + 1][f[m]]
        BY <1>0, <3>3
      <4> QED
        BY <1>0, <3>1, <3>3, <4>1
    <3> QED
      BY <1>0, <3>2, <3>3
  <2> HIDE DEF g
  <2>7. Upto(m + 1, g)
    BY <1>0, <2>5, <2>6
  <2> QED
    BY <1>0, <2>2, <2>4, <2>7
<1> HIDE DEF P
<1>3. \A n \in 0 .. N : n \in P
    BY <1>0, <1>1, <1>2, IntervalInduction
<1>4. \E f \in [0 .. N -> St] : Upto(N, f)
  <2>1. N \in 0 .. N
    BY <1>0
  <2> QED
    BY <1>0, <1>3, <2>1 DEF P
<1> QED
    BY <1>4 DEF Runs

----------------------------------------------------------------------------
(* ConsoleDecoder: strings and braces, place by place. *)

\* The marks are counted place by place.
LEMMA MarksSpec ==
    ASSUME NEW s \in Seq(Symbols)
    PROVE  /\ Marks(s) \in [0 .. Len(s) -> Nat] /\ Marks(s)[0] = 0
           /\ \A i \in 1 .. Len(s) :
                  Marks(s)[i] = IF s[i] = "quote" /\ ~(Marks(s)[i - 1] % 2 = 1 /\ Escapes(s, i))
                                THEN Marks(s)[i - 1] + 1 ELSE Marks(s)[i - 1]
<1> DEFINE Next1(before, i) == IF s[i] = "quote" /\ ~(before % 2 = 1 /\ Escapes(s, i))
                               THEN before + 1 ELSE before
           Eq(f) == f = [i \in 0 .. Len(s) |-> IF i = 0 THEN 0 ELSE Next1(f[i - 1], i)]
           N == Len(s)
           St == Nat
           zero == 0
           move == [i \in 1 .. N |-> [b \in St |-> Next1(b, i)]]
<1>1. N \in Nat /\ N = Len(s) /\ zero = 0 /\ zero \in St /\ move \in [1 .. N -> [St -> St]]
    OBVIOUS
<1>2. \A i \in 1 .. N, b \in St : move[i][b] = Next1(b, i)
    OBVIOUS
<1> HIDE DEF move, Next1, St, N, zero
<1>3. PICK f \in [0 .. N -> St] : f[0] = zero /\ \A n \in 1 .. N : f[n] = move[n][f[n - 1]]
  <2>1. Steps(N, St, zero, move)
    BY <1>1 DEF Steps
  <2> QED
    BY <2>1, RecursionExists DEF Runs
<1>4. Eq(f)
  <2>1. \A n \in 1 .. N : n - 1 \in 0 .. N
    BY <1>1
  <2>2. \A n \in 1 .. N : f[n] = Next1(f[n - 1], n)
    BY <1>2, <1>3, <2>1
  <2>3. \A n \in 0 .. N : n # 0 => n \in 1 .. N
    BY <1>1
  <2>4. f[0] = 0
    BY <1>1, <1>3
  <2>5. \A n \in 0 .. N : f[n] = IF n = 0 THEN 0 ELSE Next1(f[n - 1], n)
    BY <2>2, <2>3, <2>4
  <2> QED
    BY <1>1, <2>5
<1>5. Marks(s) = CHOOSE g : Eq(g)
    BY DEF Marks, Next1
<1>6. Eq(Marks(s))
    BY <1>4, <1>5
<1>7. \A n \in 0 .. Len(s) : Marks(s)[n] = IF n = 0 THEN 0 ELSE Next1(Marks(s)[n - 1], n)
    BY <1>6
<1>8. Marks(s)[0] = 0 /\ \A n \in 1 .. Len(s) : Marks(s)[n] = Next1(Marks(s)[n - 1], n)
    BY <1>1, <1>7
<1>9. Marks(s) \in [0 .. Len(s) -> Nat]
  <2> DEFINE P == {n \in 0 .. Len(s) : Marks(s)[n] \in Nat}
  <2>1. 0 \in P
    BY <1>1, <1>8
  <2>2. ASSUME NEW n \in 0 .. Len(s) - 1, n \in P PROVE n + 1 \in P
    <3>1. n + 1 \in 1 .. Len(s) /\ (n + 1) - 1 = n /\ n + 1 \in 0 .. Len(s)
      BY <1>1
    <3>2. Marks(s)[n + 1] = Next1(Marks(s)[n], n + 1)
      BY <1>8, <3>1
    <3> QED
      BY <2>2, <3>1, <3>2 DEF Next1
  <2>3. \A n \in 0 .. Len(s) : n \in P
    <3> HIDE DEF P
    <3> QED
      BY <1>1, <2>1, <2>2, IntervalInduction
  <2>4. DOMAIN Marks(s) = 0 .. Len(s) /\ Marks(s) = [n \in 0 .. Len(s) |-> Marks(s)[n]]
    BY <1>6
  <2> QED
    BY <2>3, <2>4
<1> QED
    BY <1>8, <1>9 DEF Next1

\* Backslashes escape each other in turn.
LEMMA EscapesInTurn ==
    ASSUME NEW s \in Seq(Symbols)
    PROVE  /\ ~Escapes(s, 1)
           /\ \A i \in 1 .. Len(s) :
                  Escapes(s, i + 1) <=> s[i] = "backslash" /\ ~Escapes(s, i)
<1>1. ~Escapes(s, 1)
  <2>1. Backslashes(s, 1) = {}
    BY DEF Backslashes
  <2> QED
    BY <2>1, FS_EmptySet DEF Escapes
<1>2. ASSUME NEW i \in 1 .. Len(s)
      PROVE  Escapes(s, i + 1) <=> s[i] = "backslash" /\ ~Escapes(s, i)
  <2>1. CASE s[i] # "backslash"
    <3>1. \A j \in 1 .. (i + 1) - 1 : i \in j .. (i + 1) - 1
      OBVIOUS
    <3>2. Backslashes(s, i + 1) = {}
      BY <2>1, <3>1 DEF Backslashes
    <3>3. Cardinality(Backslashes(s, i + 1)) = 0
      BY <3>2, FS_EmptySet
    <3> QED
      BY <2>1, <3>3 DEF Escapes
  <2>2. CASE s[i] = "backslash"
    <3>1. Backslashes(s, i + 1) = Backslashes(s, i) \cup {i}
      BY <2>2 DEF Backslashes
    <3>2. Backslashes(s, i) \subseteq 1 .. i - 1 /\ i \notin Backslashes(s, i)
      BY DEF Backslashes
    <3>3. IsFiniteSet(Backslashes(s, i))
      <4>1. IsFiniteSet(1 .. i - 1)
        BY FS_Interval
      <4> QED
        BY <3>2, <4>1, FS_Subset
    <3>4. /\ Cardinality(Backslashes(s, i)) \in Nat
          /\ Cardinality(Backslashes(s, i + 1)) = Cardinality(Backslashes(s, i)) + 1
      BY <3>1, <3>2, <3>3, FS_CardinalityType, FS_AddElement
    <3>5. \A c \in Nat : (c + 1) % 2 = 1 <=> c % 2 # 1
      OBVIOUS
    <3>6. Cardinality(Backslashes(s, i + 1)) % 2 = 1 <=> Cardinality(Backslashes(s, i)) % 2 # 1
      BY <3>4, <3>5
    <3> QED
      BY <2>2, <3>6 DEF Escapes
  <2> QED
    BY <2>1, <2>2
<1> QED
    BY <1>1, <1>2

\* How many braces are counted up to a place.
LEMMA BracesSpec ==
    ASSUME NEW s \in Seq(Symbols), NEW brace
    PROVE  /\ Cardinality(Braces(s, brace, 0)) = 0
           /\ \A n \in 0 .. Len(s) - 1 :
                  /\ Cardinality(Braces(s, brace, n)) \in Nat
                  /\ Cardinality(Braces(s, brace, n + 1)) =
                         IF s[n + 1] = brace /\ Marks(s)[n + 1] % 2 = 0
                         THEN Cardinality(Braces(s, brace, n)) + 1
                         ELSE Cardinality(Braces(s, brace, n))
<1>1. Braces(s, brace, 0) = {}
    BY DEF Braces
<1>2. ASSUME NEW n \in 0 .. Len(s) - 1
      PROVE  /\ Cardinality(Braces(s, brace, n)) \in Nat
             /\ Cardinality(Braces(s, brace, n + 1)) =
                    IF s[n + 1] = brace /\ Marks(s)[n + 1] % 2 = 0
                    THEN Cardinality(Braces(s, brace, n)) + 1
                    ELSE Cardinality(Braces(s, brace, n))
  <2>1. Braces(s, brace, n) \subseteq 1 .. n /\ n + 1 \notin Braces(s, brace, n)
    BY DEF Braces
  <2>2. IsFiniteSet(Braces(s, brace, n)) /\ Cardinality(Braces(s, brace, n)) \in Nat
    <3>1. IsFiniteSet(1 .. n)
      BY FS_Interval
    <3> QED
      BY <2>1, <3>1, FS_Subset, FS_CardinalityType
  <2>3. CASE s[n + 1] = brace /\ Marks(s)[n + 1] % 2 = 0
    <3>1. Braces(s, brace, n + 1) = Braces(s, brace, n) \cup {n + 1}
      BY <2>3 DEF Braces
    <3> QED
      BY <2>1, <2>2, <2>3, <3>1, FS_AddElement
  <2>4. CASE ~(s[n + 1] = brace /\ Marks(s)[n + 1] % 2 = 0)
    <3>1. Braces(s, brace, n + 1) = Braces(s, brace, n)
      BY <2>4 DEF Braces
    <3> QED
      BY <2>2, <2>4, <3>1
  <2> QED
    BY <2>3, <2>4
<1> QED
    BY <1>1, <1>2, FS_EmptySet

----------------------------------------------------------------------------
(* ConsoleDecoder: matchingObjectEnd finds the brace that closes an object. *)

ScanStates == [depth : Int, inString : BOOLEAN, escaped : BOOLEAN, end : Nat]
ScanStart == [depth |-> 0, inString |-> FALSE, escaped |-> FALSE, end |-> 0]

\* The state of the loop keeps its type.
LEMMA ScanTypes ==
    ASSUME NEW st \in ScanStates, NEW place \in Nat, NEW character
    PROVE  Scan(st, place, character) \in ScanStates
<1> DEFINE next == Scan(st, place, character)
<1>1. st = [depth |-> st.depth, inString |-> st.inString, escaped |-> st.escaped, end |-> st.end]
      /\ st.depth \in Int /\ st.inString \in BOOLEAN /\ st.escaped \in BOOLEAN /\ st.end \in Nat
    BY DEF ScanStates
<1>2. CASE st.end # 0
    BY <1>2 DEF Scan
<1>3. CASE st.end = 0 /\ st.inString
  <2>1. next = [depth |-> st.depth, inString |-> st.escaped \/ character # "quote",
                escaped |-> ~st.escaped /\ character = "backslash", end |-> st.end]
    BY <1>1, <1>3 DEF Scan
  <2> HIDE DEF next
  <2> QED
    BY <1>1, <2>1 DEF ScanStates, next
<1>4. CASE st.end = 0 /\ ~st.inString /\ character = "quote"
  <2>1. next = [depth |-> st.depth, inString |-> TRUE, escaped |-> st.escaped, end |-> st.end]
    BY <1>1, <1>4 DEF Scan
  <2> QED
    BY <1>1, <2>1 DEF ScanStates
<1>5. CASE st.end = 0 /\ ~st.inString /\ character = "open"
  <2>1. next = [depth |-> st.depth + 1, inString |-> st.inString, escaped |-> st.escaped, end |-> st.end]
    BY <1>1, <1>5 DEF Scan
  <2> QED
    BY <1>1, <2>1 DEF ScanStates
<1>6. CASE st.end = 0 /\ ~st.inString /\ character = "close"
  <2>1. next = [depth |-> st.depth - 1, inString |-> st.inString, escaped |-> st.escaped,
                end |-> IF st.depth = 1 THEN place ELSE 0]
    BY <1>1, <1>6 DEF Scan
  <2> QED
    BY <1>1, <2>1 DEF ScanStates
<1>7. CASE st.end = 0 /\ ~st.inString /\ character \notin {"quote", "open", "close"}
    BY <1>7 DEF Scan
<1> QED
    BY <1>1, <1>2, <1>3, <1>4, <1>5, <1>6, <1>7

\* The loop of matchingObjectEnd, iteration by iteration.
LEMMA ScanSpec ==
    ASSUME NEW s \in Seq(Symbols)
    PROVE  \E scanned \in [0 .. Len(s) -> ScanStates] :
               /\ scanned[0] = ScanStart
               /\ \A i \in 1 .. Len(s) : scanned[i] = Scan(scanned[i - 1], i, s[i])
               /\ matchingObjectEnd(s) = scanned[Len(s)].end
<1> DEFINE Eq(f) == f = [i \in 0 .. Len(s) |-> IF i = 0 THEN ScanStart ELSE Scan(f[i - 1], i, s[i])]
           N == Len(s)
           move == [i \in 1 .. N |-> [st \in ScanStates |-> Scan(st, i, s[i])]]
<1>1. N \in Nat /\ N = Len(s) /\ ScanStart \in ScanStates /\ move \in [1 .. N -> [ScanStates -> ScanStates]]
  <2>1. N \in Nat /\ N = Len(s) /\ 1 .. N \subseteq Nat
    OBVIOUS
  <2>2. ScanStart \in ScanStates
    BY DEF ScanStart, ScanStates
  <2>3. \A i \in 1 .. N, st \in ScanStates : Scan(st, i, s[i]) \in ScanStates
    BY <2>1, ScanTypes
  <2> QED
    BY <2>1, <2>2, <2>3
<1>2. \A i \in 1 .. N, st \in ScanStates : move[i][st] = Scan(st, i, s[i])
    OBVIOUS
<1> HIDE DEF move, N
<1>3. PICK f \in [0 .. N -> ScanStates] :
          f[0] = ScanStart /\ \A n \in 1 .. N : f[n] = move[n][f[n - 1]]
  <2>1. Steps(N, ScanStates, ScanStart, move)
    BY <1>1 DEF Steps
  <2> QED
    BY <2>1, RecursionExists DEF Runs
<1>4. \A n \in 1 .. N : f[n] = Scan(f[n - 1], n, s[n])
  <2>1. \A n \in 1 .. N : n - 1 \in 0 .. N
    BY <1>1
  <2> QED
    BY <1>2, <1>3, <2>1
<1>5. Eq(f)
  <2>1. \A n \in 0 .. N : n # 0 => n \in 1 .. N
    BY <1>1
  <2>2. \A n \in 0 .. N : f[n] = IF n = 0 THEN ScanStart ELSE Scan(f[n - 1], n, s[n])
    BY <1>3, <1>4, <2>1
  <2> QED
    BY <1>1, <2>2
<1>6. matchingObjectEnd(s) = (CHOOSE g : Eq(g))[Len(s)].end
    BY DEF matchingObjectEnd, ScanStart
<1>7. Eq(CHOOSE g : Eq(g))
    BY <1>5
<1> DEFINE scanned == CHOOSE g : Eq(g)
<1>8. \A n \in 0 .. N : scanned[n] = IF n = 0 THEN ScanStart ELSE Scan(scanned[n - 1], n, s[n])
    BY <1>1, <1>7
<1>9. scanned = [n \in 0 .. N |-> scanned[n]]
    BY <1>1, <1>7
<1> HIDE DEF scanned
<1>10. scanned[0] = ScanStart /\ \A n \in 1 .. N : scanned[n] = Scan(scanned[n - 1], n, s[n])
  <2>1. 0 \in 0 .. N /\ \A n \in 1 .. N : n \in 0 .. N /\ n # 0
    BY <1>1
  <2> QED
    BY <1>8, <2>1
<1>11. \A n \in 0 .. N : scanned[n] \in ScanStates
  <2> DEFINE P == {n \in 0 .. N : scanned[n] \in ScanStates}
  <2>1. 0 \in P
    BY <1>1, <1>10
  <2>2. ASSUME NEW n \in 0 .. N - 1, n \in P PROVE n + 1 \in P
    <3>1. n + 1 \in 1 .. N /\ (n + 1) - 1 = n /\ n + 1 \in 0 .. N /\ n + 1 \in Nat
      BY <1>1
    <3>2. scanned[n + 1] = Scan(scanned[n], n + 1, s[n + 1])
      BY <1>10, <3>1
    <3> QED
      BY <2>2, <3>1, <3>2, ScanTypes
  <2> HIDE DEF P
  <2>3. \A n \in 0 .. N : n \in P
    BY <1>1, <2>1, <2>2, IntervalInduction
  <2> QED
    BY <2>3 DEF P
<1>12. scanned \in [0 .. N -> ScanStates]
    BY <1>9, <1>11
<1> QED
    BY <1>1, <1>6, <1>10, <1>12 DEF scanned

\* Up to the first place where the braces are balanced, the state of the loop says
\* whether it is in a string, behind an escape, and how deep.
InStep(s, st, n) ==
    /\ st.end = 0
    /\ st.inString <=> Marks(s)[n] % 2 = 1
    /\ st.escaped <=> st.inString /\ Escapes(s, n + 1)
    /\ st.depth = Cardinality(Braces(s, "open", n)) - Cardinality(Braces(s, "close", n))
    /\ n # 0 => st.depth >= 1

\* What an iteration does to each field as long as the end has not been found.
LEMMA ScanEffect ==
    ASSUME NEW st \in ScanStates, st.end = 0, NEW place \in Nat, NEW c
    PROVE  LET next == Scan(st, place, c) IN
           /\ next.end = IF ~st.inString /\ c = "close" /\ st.depth = 1 THEN place ELSE 0
           /\ next.depth = IF ~st.inString /\ c = "open" THEN st.depth + 1
                           ELSE IF ~st.inString /\ c = "close" THEN st.depth - 1 ELSE st.depth
           /\ next.inString <=> IF st.inString THEN st.escaped \/ c # "quote" ELSE c = "quote"
           /\ next.escaped <=> IF st.inString THEN ~st.escaped /\ c = "backslash" ELSE st.escaped
<1>1. st = [depth |-> st.depth, inString |-> st.inString, escaped |-> st.escaped, end |-> st.end]
    BY DEF ScanStates
<1>2. CASE st.inString
    BY <1>1, <1>2 DEF Scan
<1>3. CASE ~st.inString /\ c = "quote"
    BY <1>1, <1>3 DEF Scan
<1>4. CASE ~st.inString /\ c = "open"
    BY <1>1, <1>4 DEF Scan
<1>5. CASE ~st.inString /\ c = "close"
    BY <1>1, <1>5 DEF Scan
<1>6. CASE ~st.inString /\ c \notin {"quote", "open", "close"}
    BY <1>1, <1>6 DEF Scan
<1> QED
    BY <1>2, <1>3, <1>4, <1>5, <1>6

LEMMA Parity ==
    ASSUME NEW k \in Nat
    PROVE  /\ k % 2 = 1 <=> k % 2 # 0
           /\ (k + 1) % 2 = 1 <=> k % 2 = 0
           /\ (k + 1) % 2 = 0 <=> k % 2 = 1
<1>1. k % 2 \in {0, 1}
    OBVIOUS
<1>2. (k + 1) % 2 = IF k % 2 = 0 THEN 1 ELSE 0
    OBVIOUS
<1> QED
    BY <1>1, <1>2

\* An iteration finds the end where the braces are balanced and else stays in step.
LEMMA ScanKeepsInStep ==
    ASSUME NEW s \in Seq(Symbols), s # <<>>, s[1] = "open",
           NEW n \in 0 .. Len(s) - 1, NEW st \in ScanStates, InStep(s, st, n)
    PROVE  LET next == Scan(st, n + 1, s[n + 1]) IN
           IF n + 1 \in Closings(s) THEN next.end = n + 1 /\ s[n + 1] = "close"
           ELSE InStep(s, next, n + 1)
<1> DEFINE c == s[n + 1]
           next == Scan(st, n + 1, c)
           open == Cardinality(Braces(s, "open", n))
           closed == Cardinality(Braces(s, "close", n))
           opened == Cardinality(Braces(s, "open", n + 1))
           closes == Cardinality(Braces(s, "close", n + 1))
           mark == Marks(s)[n]
           marked == Marks(s)[n + 1]
           depth == st.depth
<1>1. Len(s) \in Nat
    OBVIOUS
<1>2. n + 1 \in 1 .. Len(s) /\ (n + 1) - 1 = n /\ n \in Nat /\ n \in 0 .. Len(s) /\ n + 1 \in Nat
    BY <1>1
<1>3. mark \in Nat /\ n + 1 \in DOMAIN s
    BY <1>2, MarksSpec
<1>4. marked = IF c = "quote" /\ ~(mark % 2 = 1 /\ Escapes(s, n + 1)) THEN mark + 1 ELSE mark
    BY <1>2, MarksSpec
<1>5. Escapes(s, (n + 1) + 1) <=> c = "backslash" /\ ~Escapes(s, n + 1)
    BY <1>2, EscapesInTurn
<1>6. /\ open \in Nat /\ closed \in Nat
      /\ opened = IF c = "open" /\ marked % 2 = 0 THEN open + 1 ELSE open
      /\ closes = IF c = "close" /\ marked % 2 = 0 THEN closed + 1 ELSE closed
    BY BracesSpec
<1>7. n + 1 \in Closings(s) <=> opened = closes
    BY <1>3 DEF Closings
<1>8. /\ mark % 2 = 1 <=> mark % 2 # 0
      /\ (mark + 1) % 2 = 1 <=> mark % 2 = 0
      /\ (mark + 1) % 2 = 0 <=> mark % 2 = 1
    BY <1>3, Parity
<1>9. /\ st.end = 0 /\ depth = open - closed /\ (n # 0 => depth >= 1)
      /\ st.inString <=> mark % 2 = 1
      /\ st.escaped <=> st.inString /\ Escapes(s, n + 1)
    BY DEF InStep
<1>10. n = 0 => mark = 0 /\ open = 0 /\ closed = 0 /\ c = "open"
    BY MarksSpec, BracesSpec
<1>11. depth \in Int
    BY DEF ScanStates
<1>12. /\ next.end = IF ~st.inString /\ c = "close" /\ depth = 1 THEN n + 1 ELSE 0
       /\ next.depth = IF ~st.inString /\ c = "open" THEN depth + 1
                       ELSE IF ~st.inString /\ c = "close" THEN depth - 1 ELSE depth
       /\ next.inString <=> IF st.inString THEN st.escaped \/ c # "quote" ELSE c = "quote"
       /\ next.escaped <=> IF st.inString THEN ~st.escaped /\ c = "backslash" ELSE st.escaped
    BY <1>2, <1>9, ScanEffect
<1> HIDE DEF c, next, open, closed, opened, closes, mark, marked, depth
<1>13. n = 0 => ~st.inString /\ c = "open" /\ depth = 0
  <2>1. 0 % 2 = 0
    OBVIOUS
  <2> QED
    BY <1>6, <1>8, <1>9, <1>10, <2>1
<1>14. depth >= 1 \/ (depth = 0 /\ ~st.inString /\ c = "open")
    BY <1>9, <1>13
<1>15. marked % 2 = 1 <=> next.inString
    BY <1>4, <1>8, <1>9, <1>12
<1>16. marked % 2 = 0 /\ c # "quote" <=> ~st.inString /\ c # "quote"
    BY <1>4, <1>8, <1>9, <1>12
<1>17. opened - closes = next.depth
  <2>1. c = "open" => c # "quote" /\ c # "close"
    OBVIOUS
  <2>2. c = "close" => c # "quote"
    OBVIOUS
  <2>3. opened = (IF c = "open" /\ ~st.inString THEN open + 1 ELSE open)
    BY <1>6, <1>16, <2>1
  <2>4. closes = (IF c = "close" /\ ~st.inString THEN closed + 1 ELSE closed)
    BY <1>6, <1>16, <2>2
  <2> QED
    BY <1>6, <1>9, <1>12, <2>1, <2>3, <2>4
<1>18. opened = closes <=> ~st.inString /\ c = "close" /\ depth = 1
  <2>1. opened \in Nat /\ closes \in Nat
    BY <1>6
  <2>2. opened = closes <=> next.depth = 0
    BY <1>17, <2>1
  <2>3. c = "close" => c # "open"
    OBVIOUS
  <2> QED
    BY <1>11, <1>12, <1>14, <2>2, <2>3
<1>19. CASE n + 1 \in Closings(s)
    BY <1>7, <1>12, <1>18, <1>19 DEF next, c
<1>20. CASE n + 1 \notin Closings(s)
  <2>1. next.end = 0
    BY <1>7, <1>12, <1>18, <1>20
  <2>2. next.escaped <=> next.inString /\ Escapes(s, (n + 1) + 1)
    <3>1. c = "backslash" => c # "quote"
      OBVIOUS
    <3> QED
      BY <1>5, <1>9, <1>12, <3>1
  <2>3. next.depth >= 1
    <3>1. ~(~st.inString /\ c = "close" /\ depth = 1)
      BY <1>7, <1>18, <1>20
    <3>2. c = "open" => c # "close"
      OBVIOUS
    <3> QED
      BY <1>11, <1>12, <1>14, <3>1, <3>2
  <2>4. InStep(s, next, n + 1)
    BY <1>15, <1>17, <2>1, <2>2, <2>3 DEF InStep, marked, opened, closes
  <2> QED
    BY <1>20, <2>4 DEF next, c
<1> QED
    BY <1>19, <1>20

\* The loop ends at the first place where as many braces are closed as are opened,
\* and a brace that closes is there.
LEMMA ObjectEnd ==
    ASSUME NEW s \in Seq(Symbols), s # <<>>, s[1] = "open"
    PROVE  IF Closings(s) = {} THEN matchingObjectEnd(s) = 0
           ELSE /\ matchingObjectEnd(s) = Min(Closings(s)) /\ s[Min(Closings(s))] = "close"
                /\ Min(Closings(s)) \in 1 .. Len(s)
<1>1. PICK scanned \in [0 .. Len(s) -> ScanStates] :
          /\ scanned[0] = ScanStart
          /\ \A i \in 1 .. Len(s) : scanned[i] = Scan(scanned[i - 1], i, s[i])
          /\ matchingObjectEnd(s) = scanned[Len(s)].end
    BY ScanSpec
<1>2. Len(s) \in Nat /\ Closings(s) \in SUBSET Nat /\ Closings(s) \subseteq 1 .. Len(s)
    BY DEF Closings
<1>3. Closings(s) # {} =>
          Min(Closings(s)) \in Closings(s) /\ \A e \in Closings(s) : Min(Closings(s)) <= e
    BY <1>2, MinOfNumbers
<1> DEFINE first == Min(Closings(s))
           Closed(n) == \E e \in Closings(s) : e <= n
           P == {n \in 0 .. Len(s) : IF Closed(n) THEN scanned[n].end = first /\ s[first] = "close"
                                     ELSE InStep(s, scanned[n], n)}
<1>4. 0 \in P
  <2>1. ~Closed(0)
    BY <1>2
  <2>2. 0 % 2 = 0 /\ 0 + 1 = 1
    OBVIOUS
  <2>3. Marks(s)[0] = 0 /\ ~Escapes(s, 1)
    BY MarksSpec, EscapesInTurn
  <2>4. Cardinality(Braces(s, "open", 0)) = 0 /\ Cardinality(Braces(s, "close", 0)) = 0
    BY BracesSpec
  <2>5. InStep(s, ScanStart, 0)
    BY <2>2, <2>3, <2>4 DEF InStep, ScanStart
  <2> QED
    BY <1>1, <1>2, <2>1, <2>5
<1>5. ASSUME NEW n \in 0 .. Len(s) - 1, n \in P PROVE n + 1 \in P
  <2>1. n + 1 \in 1 .. Len(s) /\ (n + 1) - 1 = n /\ n \in 0 .. Len(s) /\ n + 1 \in 0 .. Len(s) /\ n \in Nat
    BY <1>2
  <2>2. scanned[n + 1] = Scan(scanned[n], n + 1, s[n + 1]) /\ scanned[n] \in ScanStates
    BY <1>1, <2>1
  <2>3. IF Closed(n) THEN scanned[n].end = first /\ s[first] = "close" ELSE InStep(s, scanned[n], n)
    BY <1>5
  <2>4. CASE Closed(n)
    <3>1. Closed(n + 1)
      BY <1>2, <2>1, <2>4
    <3>2. first # 0
      BY <1>2, <1>3, <2>4
    <3>3. scanned[n + 1] = scanned[n]
      BY <2>2, <2>3, <2>4, <3>2 DEF Scan
    <3> HIDE DEF Closed, first
    <3> QED
      BY <2>1, <2>3, <2>4, <3>1, <3>3
  <2>5. CASE ~Closed(n)
    <3>1. InStep(s, scanned[n], n)
      BY <2>3, <2>5
    <3>2. IF n + 1 \in Closings(s) THEN scanned[n + 1].end = n + 1 /\ s[n + 1] = "close"
          ELSE InStep(s, scanned[n + 1], n + 1)
      BY <2>2, <3>1, ScanKeepsInStep
    <3>3. Closed(n + 1) <=> n + 1 \in Closings(s)
      BY <1>2, <2>1, <2>5
    <3>4. n + 1 \in Closings(s) => first = n + 1
      BY <1>2, <1>3, <2>1, <2>5
    <3> HIDE DEF Closed, first
    <3> QED
      BY <2>1, <3>2, <3>3, <3>4
  <2> QED
    BY <2>4, <2>5
<1>6. Len(s) \in P
  <2> HIDE DEF P
  <2>1. \A n \in 0 .. Len(s) : n \in P
    BY <1>2, <1>4, <1>5, IntervalInduction
  <2> QED
    BY <1>2, <2>1
<1>7. CASE Closings(s) = {}
  <2>1. InStep(s, scanned[Len(s)], Len(s))
    BY <1>6, <1>7
  <2> QED
    BY <1>1, <1>7, <2>1 DEF InStep
<1>8. CASE Closings(s) # {}
  <2>1. Closed(Len(s)) /\ first \in 1 .. Len(s)
    BY <1>2, <1>3, <1>8
  <2> QED
    BY <1>1, <1>6, <1>8, <2>1
<1> QED
    BY <1>7, <1>8

\* Sequences of symbols that agree as far as the shorter one goes.
Begins(t, s) == Len(t) <= Len(s) /\ \A i \in 1 .. Len(t) : t[i] = s[i]

\* Where braces are balanced does not depend on what follows.
LEMMA ClosingsOfPrefix ==
    ASSUME NEW t \in Seq(Symbols), NEW s \in Seq(Symbols), Begins(t, s)
    PROVE  Closings(t) = {e \in Closings(s) : e <= Len(t)}
<1>1. Len(t) \in Nat /\ Len(s) \in Nat /\ Len(t) <= Len(s) /\ \A i \in 1 .. Len(t) : t[i] = s[i]
    BY DEF Begins
<1>2. ASSUME NEW i \in 1 .. Len(t) PROVE Escapes(t, i) <=> Escapes(s, i)
  <2>1. \A j \in 1 .. i - 1 : \A k \in j .. i - 1 : t[k] = s[k]
    BY <1>1
  <2>2. Backslashes(t, i) = Backslashes(s, i)
    BY <2>1 DEF Backslashes
  <2> QED
    BY <2>2 DEF Escapes
<1>3. \A n \in 0 .. Len(t) : Marks(t)[n] = Marks(s)[n]
  <2> DEFINE P == {n \in 0 .. Len(t) : Marks(t)[n] = Marks(s)[n]}
  <2>1. 0 \in P
    BY <1>1, MarksSpec
  <2>2. ASSUME NEW n \in 0 .. Len(t) - 1, n \in P PROVE n + 1 \in P
    <3>1. n + 1 \in 1 .. Len(t) /\ n + 1 \in 1 .. Len(s) /\ (n + 1) - 1 = n /\ n + 1 \in 0 .. Len(t)
      BY <1>1
    <3>2. t[n + 1] = s[n + 1] /\ (Escapes(t, n + 1) <=> Escapes(s, n + 1))
      BY <1>1, <1>2, <3>1
    <3>3. Marks(t)[n + 1] = IF t[n + 1] = "quote" /\ ~(Marks(t)[n] % 2 = 1 /\ Escapes(t, n + 1))
                            THEN Marks(t)[n] + 1 ELSE Marks(t)[n]
      BY <3>1, MarksSpec
    <3>4. Marks(s)[n + 1] = IF s[n + 1] = "quote" /\ ~(Marks(s)[n] % 2 = 1 /\ Escapes(s, n + 1))
                            THEN Marks(s)[n] + 1 ELSE Marks(s)[n]
      BY <3>1, MarksSpec
    <3> QED
      BY <2>2, <3>1, <3>2, <3>3, <3>4
  <2> HIDE DEF P
  <2>3. \A n \in 0 .. Len(t) : n \in P
    BY <1>1, <2>1, <2>2, IntervalInduction
  <2> QED
    BY <2>3 DEF P
<1>4. ASSUME NEW brace, NEW e \in 1 .. Len(t) PROVE Braces(t, brace, e) = Braces(s, brace, e)
  <2>1. \A j \in 1 .. e : t[j] = s[j] /\ Marks(t)[j] = Marks(s)[j]
    BY <1>1, <1>3
  <2> QED
    BY <2>1 DEF Braces
<1>5. DOMAIN t = {e \in DOMAIN s : e <= Len(t)} /\ DOMAIN t = 1 .. Len(t)
  <2>1. DOMAIN t = 1 .. Len(t) /\ DOMAIN s = 1 .. Len(s)
    OBVIOUS
  <2> QED
    BY <1>1, <2>1
<1> QED
    BY <1>4, <1>5 DEF Closings

\* What is behind the last brace does not matter to where an object ends.
LEMMA ObjectOfPrefix ==
    ASSUME NEW t \in Seq(Symbols), NEW s \in Seq(Symbols), Begins(t, s),
           t # <<>>, t[1] = "open", \A i \in Len(t) + 1 .. Len(s) : s[i] # "close"
    PROVE  IF Closings(s) = {} THEN matchingObjectEnd(t) = 0
           ELSE /\ matchingObjectEnd(t) = Min(Closings(s))
                /\ Min(Closings(s)) \in 1 .. Len(t)
<1>1. Len(t) \in Nat /\ Len(s) \in Nat /\ Len(t) >= 1 /\ Len(t) <= Len(s) /\ s[1] = t[1] /\ s # <<>>
    BY DEF Begins
<1>2. Closings(t) = {e \in Closings(s) : e <= Len(t)}
    BY ClosingsOfPrefix
<1>3. CASE Closings(s) = {}
    BY <1>2, <1>3, ObjectEnd
<1>4. CASE Closings(s) # {}
  <2> DEFINE first == Min(Closings(s))
  <2>1. s[first] = "close" /\ first \in 1 .. Len(s)
    BY <1>1, <1>4, ObjectEnd
  <2>2. first \in 1 .. Len(t)
    BY <1>1, <2>1
  <2>3. Closings(s) \in SUBSET Nat
    BY DEF Closings
  <2>4. first \in Closings(s) /\ \A e \in Closings(s) : first <= e
    BY <1>4, <2>3, MinOfNumbers
  <2>5. first \in Closings(t)
    BY <1>2, <2>2, <2>4
  <2>6. Min(Closings(t)) \in Closings(t) /\ \A e \in Closings(t) : Min(Closings(t)) <= e
    BY <1>2, <2>3, <2>5, MinOfNumbers
  <2>7. Min(Closings(t)) = first
    <3>1. Min(Closings(t)) \in Closings(s) /\ Min(Closings(t)) \in Nat /\ first \in Nat
      BY <1>2, <2>3, <2>4, <2>6
    <3>2. Min(Closings(t)) <= first /\ first <= Min(Closings(t))
      BY <2>4, <2>5, <2>6, <3>1
    <3> HIDE DEF first
    <3> QED
      BY <3>1, <3>2
  <2>8. matchingObjectEnd(t) = Min(Closings(t))
    BY <2>5, ObjectEnd
  <2> QED
    BY <1>4, <2>2, <2>7, <2>8
<1> QED
    BY <1>3, <1>4

----------------------------------------------------------------------------
(* ConsoleDecoder: a record begins with a marker exactly if its line has one. *)

LEMMA AtMostOne ==
    ASSUME NEW N \in Nat, NEW S \in SUBSET (1 .. N)
    PROVE  Cardinality(S) <= 1 <=> \A j, k \in S : j = k
<1>1. IsFiniteSet(S) /\ Cardinality(S) \in Nat
  <2>1. IsFiniteSet(1 .. N)
    BY FS_Interval
  <2> QED
    BY <2>1, FS_Subset, FS_CardinalityType
<1>2. ASSUME \A j, k \in S : j = k PROVE Cardinality(S) <= 1
  <2>1. CASE S = {}
    <3>1. Cardinality(S) = 0
      BY <2>1, FS_EmptySet
    <3> QED
      BY <3>1
  <2>2. CASE S # {}
    <3>1. PICK j \in S : S = {j}
      BY <1>2, <2>2
    <3>2. Cardinality(S) = 1
      BY <3>1, FS_Singleton
    <3> QED
      BY <3>2
  <2> QED
    BY <2>1, <2>2
<1>3. ASSUME NEW j \in S, NEW k \in S, j # k PROVE ~(Cardinality(S) <= 1)
  <2>1. IsFiniteSet({j}) /\ Cardinality({j}) = 1 /\ k \notin {j}
    BY <1>3, FS_Singleton
  <2>2. IsFiniteSet({j} \cup {k}) /\ Cardinality({j} \cup {k}) = 2
    BY <2>1, FS_AddElement
  <2>3. {j} \cup {k} \subseteq S
    OBVIOUS
  <2>4. Cardinality({j} \cup {k}) <= Cardinality(S)
    BY <1>1, <2>3, FS_Subset
  <2> QED
    BY <1>1, <2>2, <2>4
<1> QED
    BY <1>2, <1>3

LEMMA KeptPlaces ==
    ASSUME NEW s \in Seq(Symbols), Kept(s) # {}
    PROVE  /\ Min(Kept(s)) \in Kept(s) /\ Max(Kept(s)) \in Kept(s)
           /\ Kept(s) \subseteq 1 .. Len(s)
           /\ \A k \in Kept(s) : Min(Kept(s)) <= k /\ k <= Max(Kept(s))
<1>1. Len(s) \in Nat /\ Kept(s) \subseteq 1 .. Len(s) /\ Kept(s) \in SUBSET (0 .. Len(s)) /\ Kept(s) \in SUBSET Nat
    BY DEF Kept
<1>2. Min(Kept(s)) \in Kept(s) /\ \A k \in Kept(s) : Min(Kept(s)) <= k
    BY <1>1, MinOfNumbers
<1>3. Max(Kept(s)) \in Kept(s) /\ \A k \in Kept(s) : Max(Kept(s)) >= k
    BY <1>1, MaxOfNumbers
<1>4. \A k \in Kept(s) : k \in Int
    BY <1>1
<1> QED
    BY <1>1, <1>2, <1>3, <1>4

\* What trimCapturePrefix leaves of a record: a part from a place p to the last byte
\* that is not blank, with at most one time before it.
PartFrom(s, p, b) ==
    /\ p \in 1 .. Len(s) /\ b \in 1 .. Len(s) /\ p <= b
    /\ p \in Kept(s) /\ b \in Kept(s) /\ \A k \in Kept(s) : k <= b
    /\ \A k \in Kept(s) : k < p => s[k] = "time"
    /\ \A j, k \in 1 .. p - 1 : s[j] = "time" /\ s[k] = "time" => j = k
    /\ s[p] = "time" => \E k \in 1 .. p - 1 : s[k] = "time"

LEMMA Trimmed ==
    ASSUME NEW s \in Seq(Symbols)
    PROVE  LET trimmed == trimCapturePrefix(TrimSpace(s)) IN
           \/ trimmed = <<>> /\ \A k \in Kept(s) : s[k] = "time"
           \/ \E p, b \in 1 .. Len(s) : PartFrom(s, p, b) /\ trimmed = SubSeq(s, p, b)
<1> DEFINE trimmed == trimCapturePrefix(TrimSpace(s))
           a == Min(Kept(s))
           b == Max(Kept(s))
<1>0. Len(s) \in Nat
    OBVIOUS
<1>1. CASE Kept(s) = {}
    BY <1>1 DEF trimCapturePrefix, TrimSpace
<1>2. CASE Kept(s) # {}
  <2>1. /\ a \in Kept(s) /\ b \in Kept(s) /\ Kept(s) \subseteq 1 .. Len(s)
        /\ \A k \in Kept(s) : a <= k /\ k <= b
    BY <1>2, KeptPlaces
  <2>2. \A k \in 1 .. Len(s) : k \in Kept(s) <=> s[k] \notin {"blank", "CR"}
    BY DEF Kept
  <2>3. TrimSpace(s) = SubSeq(s, a, b)
    BY <1>2 DEF TrimSpace
  <2> HIDE DEF a, b
  <2>4. a \in 1 .. Len(s) /\ b \in 1 .. Len(s) /\ a <= b
    BY <2>1
  <2>5. \A k \in 1 .. a - 1 : s[k] # "time"
    <3>1. SUFFICES ASSUME NEW k \in 1 .. a - 1, s[k] = "time" PROVE FALSE
      OBVIOUS
    <3>2. k \in 1 .. Len(s) /\ k \in Nat /\ ~(a <= k)
      BY <1>0, <2>4
    <3>3. k \in Kept(s)
      BY <2>2, <3>1, <3>2
    <3> QED
      BY <2>1, <3>2, <3>3
  <2> DEFINE line == SubSeq(s, a, b)
  <2>6. /\ line \in Seq(Symbols) /\ Len(line) = b - a + 1
        /\ \A i \in 1 .. b - a + 1 : line[i] = s[a + i - 1]
    BY <1>0, <2>4, SubSeqProperties
  <2>7. line # <<>> /\ line[1] = s[a]
    <3>1. 1 \in 1 .. b - a + 1 /\ a + 1 - 1 = a /\ b - a + 1 # 0
      BY <1>0, <2>4
    <3> HIDE DEF line
    <3> QED
      BY <2>6, <3>1
  <2> HIDE DEF line
  <2>8. trimmed = IF s[a] = "time" THEN TrimSpace(Tail(line)) ELSE line
    BY <2>3, <2>7 DEF trimCapturePrefix, line
  <2>9. CASE s[a] # "time"
    <3>1. \A k \in Kept(s) : ~(k < a)
      BY <2>1, <2>4
    <3>2. PartFrom(s, a, b)
      BY <2>1, <2>4, <2>5, <2>9, <3>1 DEF PartFrom
    <3> QED
      BY <2>4, <2>8, <2>9, <3>2 DEF line
  <2>10. CASE s[a] = "time"
    <3> DEFINE rest == Tail(line)
    <3>1. /\ rest \in Seq(Symbols) /\ Len(rest) = b - a
          /\ \A i \in 1 .. b - a : rest[i] = s[a + i]
      <4>1. rest \in Seq(Symbols) /\ Len(rest) = Len(line) - 1
        BY <2>6, <2>7, HeadTailProperties
      <4>2. \A i \in 1 .. Len(line) - 1 : rest[i] = line[i + 1]
        BY <2>6, <2>7, <4>1, HeadTailProperties
      <4>3. \A i \in 1 .. b - a : i + 1 \in 1 .. b - a + 1 /\ a + (i + 1) - 1 = a + i
        BY <1>0, <2>4
      <4>4. Len(line) - 1 = b - a
        BY <1>0, <2>4, <2>6
      <4> HIDE DEF rest
      <4> QED
        BY <2>6, <4>1, <4>2, <4>3, <4>4
    <3>2. trimmed = TrimSpace(rest)
      BY <2>8, <2>10
    <3> HIDE DEF rest, trimmed
    <3>3. \A i \in 1 .. b - a : i \in Kept(rest) <=> a + i \in Kept(s)
      <4>1. \A i \in 1 .. b - a : a + i \in 1 .. Len(s) /\ i \in 1 .. Len(rest)
        BY <1>0, <2>4, <3>1
      <4>2. \A i \in 1 .. Len(rest) : i \in Kept(rest) <=> rest[i] \notin {"blank", "CR"}
        BY <3>1 DEF Kept
      <4> QED
        BY <2>2, <3>1, <4>1, <4>2
    <3>4. \A k \in Kept(s) : k # a => k - a \in 1 .. b - a /\ a + (k - a) = k /\ k - a \in Kept(rest)
      <4>1. \A k \in Kept(s) : k # a => k - a \in 1 .. b - a /\ a + (k - a) = k
        BY <1>0, <2>1, <2>4
      <4> QED
        BY <3>3, <4>1
    <3>5. CASE Kept(rest) = {}
      <4>1. trimmed = <<>>
        BY <3>2, <3>5 DEF TrimSpace
      <4>2. \A k \in Kept(s) : k = a
        BY <3>4, <3>5
      <4> QED
        BY <2>10, <4>1, <4>2 DEF trimmed
    <3>6. CASE Kept(rest) # {}
      <4> DEFINE first == Min(Kept(rest))
                 last == Max(Kept(rest))
                 p == a + first
      <4>1. /\ first \in Kept(rest) /\ last \in Kept(rest) /\ Kept(rest) \subseteq 1 .. Len(rest)
            /\ \A k \in Kept(rest) : first <= k /\ k <= last
        BY <3>1, <3>6, KeptPlaces
      <4>2. trimmed = SubSeq(rest, first, last)
        BY <3>2, <3>6 DEF TrimSpace
      <4> HIDE DEF first, last
      <4>3. first \in 1 .. b - a /\ last \in 1 .. b - a /\ first <= last /\ b # a
        BY <1>0, <2>4, <3>1, <4>1
      <4>4. last = b - a
        <5>1. b - a \in Kept(rest)
          BY <2>1, <3>4, <4>3
        <5>2. b - a <= last
          BY <4>1, <5>1
        <5> QED
          BY <1>0, <2>4, <4>3, <5>2
      <4>5. p \in 1 .. Len(s) /\ p <= b /\ p > a
        BY <1>0, <2>4, <4>3
      <4>6. trimmed = SubSeq(s, p, b)
        <5>1. /\ SubSeq(rest, first, last) \in Seq(Symbols)
              /\ Len(SubSeq(rest, first, last)) = last - first + 1
              /\ \A i \in 1 .. last - first + 1 : SubSeq(rest, first, last)[i] = rest[first + i - 1]
          <6>1. first \in 1 .. Len(rest) /\ last \in 1 .. Len(rest)
            BY <3>1, <4>3
          <6> QED
            BY <3>1, <4>3, <6>1, SubSeqProperties
        <5>2. /\ SubSeq(s, p, b) \in Seq(Symbols) /\ Len(SubSeq(s, p, b)) = b - p + 1
              /\ \A i \in 1 .. b - p + 1 : SubSeq(s, p, b)[i] = s[p + i - 1]
          BY <1>0, <2>4, <4>5, SubSeqProperties
        <5>3. last - first + 1 = b - p + 1
          BY <1>0, <2>4, <4>3, <4>4
        <5>4. \A i \in 1 .. b - p + 1 : first + i - 1 \in 1 .. b - a /\ a + (first + i - 1) = p + i - 1
          BY <1>0, <2>4, <4>3
        <5>5. \A i \in 1 .. b - p + 1 : SubSeq(rest, first, last)[i] = SubSeq(s, p, b)[i]
          BY <3>1, <5>1, <5>2, <5>3, <5>4
        <5> HIDE DEF p
        <5> QED
          BY <4>2, <5>1, <5>2, <5>3, <5>5, SeqEqual
      <4>7. p \in Kept(s)
        BY <3>3, <4>1, <4>3
      <4>8. \A k \in Kept(s) : k < p => k = a
        <5>1. \A k \in Kept(s) : k # a => first <= k - a
          BY <3>4, <4>1
        <5> QED
          BY <1>0, <2>1, <2>4, <4>3, <5>1
      <4>9. a \in 1 .. p - 1
        BY <1>0, <2>4, <4>3
      <4>10. \A k \in 1 .. p - 1 : s[k] = "time" => k = a
        <5>1. \A k \in 1 .. p - 1 : k \in 1 .. Len(s) /\ k < p
          BY <1>0, <4>5
        <5> HIDE DEF p
        <5> QED
          BY <2>2, <4>8, <5>1
      <4> HIDE DEF p
      <4>11. PartFrom(s, p, b)
        BY <2>1, <2>4, <2>10, <4>5, <4>7, <4>8, <4>9, <4>10 DEF PartFrom
      <4> QED
        BY <2>4, <4>5, <4>6, <4>11 DEF trimmed
    <3> QED
      BY <3>5, <3>6
  <2> QED
    BY <2>9, <2>10
<1> QED
    BY <1>1, <1>2

LEMMA PrefixOfTwo ==
    ASSUME NEW t \in Seq(Symbols), NEW x \in Symbols, NEW y \in Symbols
    PROVE  IsPrefix(<<x, y>>, t) <=> 2 <= Len(t) /\ t[1] = x /\ t[2] = y
<1> DEFINE two == <<x, y>>
           start == SubSeq(t, 1, 2)
<1>1. two \in Seq(Symbols) /\ Len(two) = 2 /\ two[1] = x /\ two[2] = y
    OBVIOUS
<1>2. SubSeq(two, 1, 2) = two
  <2> HIDE DEF two
  <2> QED
    BY <1>1, SubSeqFull
<1>3. IsPrefix(two, t) <=> 2 <= Len(t) /\ two = start
  <2>1. Len(two) = 2 /\ SubSeq(two, 1, 2) = two
    BY <1>1, <1>2
  <2> HIDE DEF two
  <2> QED
    BY <2>1 DEF IsPrefix
<1>4. CASE 2 <= Len(t)
  <2>1. start \in Seq(Symbols) /\ Len(start) = 2 /\ start[1] = t[1] /\ start[2] = t[2]
    <3>1. \A i \in 1 .. 2 : i \in 1 .. Len(t)
      BY <1>4
    <3>2. \A i \in 1 .. 2 : t[i] \in Symbols
      BY <3>1, ElementOfSeq
    <3>3. /\ start \in Seq(Symbols) /\ Len(start) = 2
          /\ \A i \in 1 .. 2 : start[i] = t[1 + i - 1]
      BY <3>2, SubSeqProperties
    <3>4. 1 \in 1 .. 2 /\ 2 \in 1 .. 2 /\ 1 + 1 - 1 = 1 /\ 1 + 2 - 1 = 2
      OBVIOUS
    <3> HIDE DEF start
    <3> QED
      BY <3>3, <3>4
  <2> HIDE DEF start, two
  <2>2. two = start <=> t[1] = x /\ t[2] = y
    <3>1. ASSUME t[1] = x, t[2] = y PROVE two = start
      <4>1. \A i \in 1 .. 2 : i = 1 \/ i = 2
        OBVIOUS
      <4>2. \A i \in 1 .. Len(two) : two[i] = start[i]
        BY <1>1, <2>1, <3>1, <4>1
      <4> QED
        BY <1>1, <2>1, <4>2, SeqEqual
    <3> QED
      BY <1>1, <2>1, <3>1
  <2> QED
    BY <1>3, <1>4, <2>2 DEF two
<1>5. CASE ~(2 <= Len(t))
    BY <1>3, <1>5
<1> QED
    BY <1>4, <1>5

\* What is left of a record begins with a marker exactly if the line has one.
LEMMA MarkerFound ==
    ASSUME NEW s \in Seq(Symbols)
    PROVE  LET trimmed == trimCapturePrefix(TrimSpace(s)) IN
           IF IsPrefix(<<"ext", "blank">>, trimmed)
           THEN /\ Markers(s) # {}
                /\ \E p, b \in 1 .. Len(s) :
                       /\ p + 2 <= b /\ trimmed = SubSeq(s, p, b)
                       /\ \A i \in 1 .. p + 1 : s[i] # "open"
                       /\ \A i \in b + 1 .. Len(s) : s[i] \in {"blank", "CR"}
           ELSE Markers(s) = {}
<1> DEFINE trimmed == trimCapturePrefix(TrimSpace(s))
           marker == <<"ext", "blank">>
<1>0. Len(s) \in Nat /\ DOMAIN s = 1 .. Len(s)
    OBVIOUS
<1>1. \A k \in 1 .. Len(s) : k \in Kept(s) <=> s[k] \notin {"blank", "CR"}
    BY <1>0 DEF Kept
<1>2. \A i : i \in Markers(s) <=>
          /\ i \in 1 .. Len(s) - 1 /\ s[i] = "ext" /\ s[i + 1] = "blank"
          /\ \A j \in 1 .. i - 1 : j \in Kept(s) => s[j] = "time"
          /\ \A j, k \in 1 .. i - 1 : s[j] = "time" /\ s[k] = "time" => j = k
          /\ \E j \in i + 2 .. Len(s) : j \in Kept(s)
  <2>1. ASSUME NEW i \in 1 .. Len(s) - 1
        PROVE  Cardinality({j \in 1 .. i - 1 : s[j] = "time"}) <= 1 <=>
                   \A j, k \in 1 .. i - 1 : s[j] = "time" /\ s[k] = "time" => j = k
    <3> DEFINE S == {j \in 1 .. i - 1 : s[j] = "time"}
    <3>1. i - 1 \in Nat /\ S \in SUBSET (1 .. i - 1)
      BY <1>0
    <3>2. Cardinality(S) <= 1 <=> \A j, k \in S : j = k
      <4> HIDE DEF S
      <4> QED
        BY <3>1, AtMostOne
    <3> QED
      BY <3>2
  <2> QED
    BY <2>1 DEF Markers
<1>3. CASE trimmed = <<>> /\ \A k \in Kept(s) : s[k] = "time"
  <2>1. ~IsPrefix(marker, trimmed)
    BY <1>3 DEF IsPrefix
  <2>2. ASSUME NEW i \in Markers(s) PROVE FALSE
    <3>1. i \in 1 .. Len(s) /\ s[i] = "ext"
      BY <1>0, <1>2
    <3>2. i \in Kept(s)
      BY <1>1, <3>1
    <3> QED
      BY <1>3, <3>1, <3>2
  <2> QED
    BY <2>1, <2>2
<1>4. ASSUME NEW p \in 1 .. Len(s), NEW b \in 1 .. Len(s), PartFrom(s, p, b), trimmed = SubSeq(s, p, b)
      PROVE  IF IsPrefix(marker, trimmed)
             THEN /\ Markers(s) # {}
                  /\ p + 2 <= b /\ trimmed = SubSeq(s, p, b)
                  /\ \A i \in 1 .. p + 1 : s[i] # "open"
                  /\ \A i \in b + 1 .. Len(s) : s[i] \in {"blank", "CR"}
             ELSE Markers(s) = {}
  <2> HIDE DEF trimmed
  <2>1. /\ p <= b /\ p \in Kept(s) /\ b \in Kept(s) /\ \A k \in Kept(s) : k <= b
        /\ \A k \in Kept(s) : k < p => s[k] = "time"
        /\ \A j, k \in 1 .. p - 1 : s[j] = "time" /\ s[k] = "time" => j = k
        /\ s[p] = "time" => \E k \in 1 .. p - 1 : s[k] = "time"
    BY <1>4 DEF PartFrom
  <2>2. /\ trimmed \in Seq(Symbols) /\ Len(trimmed) = b - p + 1
        /\ \A i \in 1 .. b - p + 1 : trimmed[i] = s[p + i - 1]
    BY <1>0, <1>4, <2>1, SubSeqProperties
  <2>3. IsPrefix(marker, trimmed) <=> p + 1 <= b /\ s[p] = "ext" /\ s[p + 1] = "blank"
    <3>1. IsPrefix(marker, trimmed) <=> 2 <= Len(trimmed) /\ trimmed[1] = "ext" /\ trimmed[2] = "blank"
      <4>1. "ext" \in Symbols /\ "blank" \in Symbols
        BY DEF Symbols
      <4> QED
        BY <2>2, <4>1, PrefixOfTwo
    <3>2. 2 <= Len(trimmed) <=> p + 1 <= b
      BY <1>0, <2>2
    <3>3. ASSUME p + 1 <= b PROVE trimmed[1] = s[p] /\ trimmed[2] = s[p + 1]
      <4>1. 1 \in 1 .. b - p + 1 /\ 2 \in 1 .. b - p + 1 /\ p + 1 - 1 = p /\ p + 2 - 1 = p + 1
        BY <1>0, <3>3
      <4> QED
        BY <2>2, <4>1
    <3> QED
      BY <3>1, <3>2, <3>3
  <2>4. CASE IsPrefix(marker, trimmed)
    <3>1. p + 1 <= b /\ s[p] = "ext" /\ s[p + 1] = "blank" /\ p + 1 \in 1 .. Len(s)
      BY <1>0, <2>3, <2>4
    <3>2. p + 1 \notin Kept(s)
      BY <1>1, <3>1
    <3>3. p + 2 <= b
      BY <1>0, <2>1, <3>1, <3>2
    <3>4. p \in Markers(s)
      <4>1. p \in 1 .. Len(s) - 1 /\ b \in p + 2 .. Len(s)
        BY <1>0, <3>3
      <4>2. \A j \in 1 .. p - 1 : j < p
        BY <1>0
      <4> QED
        BY <1>2, <2>1, <3>1, <4>1, <4>2
    <3>5. ASSUME NEW i \in 1 .. p + 1 PROVE s[i] # "open"
      <4>1. i \in 1 .. Len(s)
        BY <1>0, <3>1
      <4>2. CASE i < p
        BY <1>1, <2>1, <4>1, <4>2
      <4>3. CASE i = p \/ i = p + 1
        BY <3>1, <4>3
      <4> QED
        BY <1>0, <4>2, <4>3
    <3>6. ASSUME NEW i \in b + 1 .. Len(s) PROVE s[i] \in {"blank", "CR"}
      <4>1. i \in 1 .. Len(s) /\ ~(i <= b)
        BY <1>0
      <4> QED
        BY <1>1, <2>1, <4>1
    <3> QED
      BY <1>4, <2>4, <3>3, <3>4, <3>5, <3>6
  <2>5. CASE ~IsPrefix(marker, trimmed)
    <3>1. ASSUME NEW i \in Markers(s) PROVE FALSE
      <4>1. /\ i \in 1 .. Len(s) - 1 /\ s[i] = "ext" /\ s[i + 1] = "blank"
            /\ \A j \in 1 .. i - 1 : j \in Kept(s) => s[j] = "time"
            /\ \A j, k \in 1 .. i - 1 : s[j] = "time" /\ s[k] = "time" => j = k
            /\ \E j \in i + 2 .. Len(s) : j \in Kept(s)
        BY <1>2
      <4>2. i \in 1 .. Len(s) /\ i \in Kept(s)
        BY <1>0, <1>1, <4>1
      <4>3. ~(i < p)
        BY <2>1, <4>1, <4>2
      <4>4. ~(p < i)
        <5>1. SUFFICES ASSUME p < i PROVE FALSE
          OBVIOUS
        <5>2. p \in 1 .. i - 1
          BY <1>0, <4>2, <5>1
        <5>3. s[p] = "time"
          BY <2>1, <4>1, <5>2
        <5>4. PICK k \in 1 .. p - 1 : s[k] = "time"
          BY <2>1, <5>3
        <5>5. k \in 1 .. i - 1 /\ k # p
          BY <1>0, <4>2, <5>1
        <5> QED
          BY <4>1, <5>2, <5>3, <5>4, <5>5
      <4>5. i = p
        BY <1>0, <4>2, <4>3, <4>4
      <4>6. p + 1 <= b
        BY <1>0, <2>1, <4>1, <4>5
      <4> QED
        BY <2>3, <2>5, <4>1, <4>5, <4>6
    <3> QED
      BY <2>5, <3>1
  <2> QED
    BY <2>4, <2>5
<1> QED
  <2>1. CASE \E p, b \in 1 .. Len(s) : PartFrom(s, p, b) /\ trimmed = SubSeq(s, p, b)
    BY <1>4, <2>1
  <2> QED
    BY <1>3, <2>1, Trimmed

\* What the code decodes from a record is what the line should come to.
LEMMA PayloadExtracted ==
    ASSUME NEW s \in Seq(Symbols), Len(s) <= MaxRecordBytes
    PROVE  extractExtPayload(s) = Expected(s)
<1> DEFINE trimmed == trimCapturePrefix(TrimSpace(s))
           body == SubSeq(trimmed, 3, Len(trimmed))
           opens == {i \in DOMAIN s : s[i] = "open"}
           start == SelectInSeq(body, LAMBDA c : c = "open")
           object == SubSeq(body, start, Len(body))
           whole == SubSeq(s, Min(opens), Len(s))
<1>0. Len(s) \in Nat /\ MaxRecordBytes \in Nat /\ ~(Len(s) > MaxRecordBytes) /\ DOMAIN s = 1 .. Len(s)
    BY DecoderAssumption
<1>1. extractExtPayload(s) =
          IF ~IsPrefix(<<"ext", "blank">>, trimmed) THEN Nothing
          ELSE IF start = 0 THEN MalformedExt
          ELSE IF matchingObjectEnd(object) = 0 THEN MalformedExt
          ELSE Payload(SubSeq(object, 1, matchingObjectEnd(object)))
    BY DEF extractExtPayload
<1>2. Expected(s) =
          IF Markers(s) = {} THEN Nothing
          ELSE IF opens = {} THEN MalformedExt
          ELSE IF Closings(whole) = {} THEN MalformedExt
          ELSE Payload(SubSeq(whole, 1, Min(Closings(whole))))
    BY <1>0 DEF Expected
<1>3. start = LET I == {i \in 1 .. Len(body) : body[i] = "open"} IN IF I # {} THEN Min(I) ELSE 0
    BY DEF SelectInSeq
<1> HIDE DEF start, object, whole
<1>4. CASE ~IsPrefix(<<"ext", "blank">>, trimmed)
  <2>1. Markers(s) = {}
    BY <1>4, MarkerFound
  <2> QED
    BY <1>1, <1>2, <1>4, <2>1
<1>5. CASE IsPrefix(<<"ext", "blank">>, trimmed)
  <2>1. Markers(s) # {}
    BY <1>5, MarkerFound
  <2>2. PICK p \in 1 .. Len(s), b \in 1 .. Len(s) :
            /\ p + 2 <= b /\ trimmed = SubSeq(s, p, b)
            /\ \A i \in 1 .. p + 1 : s[i] # "open"
            /\ \A i \in b + 1 .. Len(s) : s[i] \in {"blank", "CR"}
    BY <1>5, MarkerFound
  <2> HIDE DEF trimmed
  <2>3. /\ trimmed \in Seq(Symbols) /\ Len(trimmed) = b - p + 1
        /\ \A i \in 1 .. b - p + 1 : trimmed[i] = s[p + i - 1]
    BY <1>0, <2>2, SubSeqProperties
  <2>4. /\ body \in Seq(Symbols) /\ Len(body) = b - p - 1
        /\ \A i \in 1 .. b - p - 1 : body[i] = s[p + 1 + i]
    <3>1. 3 <= Len(trimmed) /\ Len(trimmed) \in Nat /\ Len(trimmed) - 3 + 1 = b - p - 1
      BY <1>0, <2>2, <2>3
    <3>2. /\ body \in Seq(Symbols) /\ Len(body) = b - p - 1
          /\ \A i \in 1 .. b - p - 1 : body[i] = trimmed[3 + i - 1]
      BY <2>3, <3>1, SubSeqProperties
    <3>3. \A i \in 1 .. b - p - 1 : 3 + i - 1 \in 1 .. b - p + 1 /\ p + (3 + i - 1) - 1 = p + 1 + i
      BY <1>0
    <3> HIDE DEF body
    <3> QED
      BY <2>3, <3>2, <3>3
  <2> HIDE DEF body
  <2> DEFINE I == {i \in 1 .. Len(body) : body[i] = "open"}
  <2>5. \A i \in 1 .. Len(s) : s[i] = "open" =>
            /\ i \in p + 2 .. b /\ i - (p + 1) \in 1 .. b - p - 1
            /\ i - (p + 1) \in I
    <3>1. ASSUME NEW i \in 1 .. Len(s), s[i] = "open"
          PROVE  i \in p + 2 .. b /\ i - (p + 1) \in 1 .. b - p - 1 /\ i - (p + 1) \in I
      <4>1. ~(i \in 1 .. p + 1) /\ ~(i \in b + 1 .. Len(s))
        BY <2>2, <3>1
      <4>2. i \in p + 2 .. b /\ i - (p + 1) \in 1 .. b - p - 1 /\ p + 1 + (i - (p + 1)) = i
        BY <1>0, <4>1
      <4> QED
        BY <2>4, <3>1, <4>2
    <3> QED
      BY <3>1
  <2>6. \A i \in I : i + (p + 1) \in opens /\ i \in Nat
    <3>1. \A i \in 1 .. b - p - 1 : i + (p + 1) \in 1 .. Len(s) /\ p + 1 + i = i + (p + 1) /\ i \in Nat
      BY <1>0
    <3> QED
      BY <1>0, <2>4, <3>1
  <2>7. opens \in SUBSET Nat /\ I \in SUBSET Nat
    BY <1>0, <2>6
  <2>8. CASE opens = {}
    <3>1. I = {}
      BY <2>6, <2>8
    <3>2. start = 0
      BY <1>3, <3>1
    <3> QED
      BY <1>1, <1>2, <1>5, <2>1, <2>8, <3>2
  <2>9. CASE opens # {}
    <3> DEFINE brace == Min(opens)
    <3>1. brace \in opens /\ \A i \in opens : brace <= i
      BY <2>7, <2>9, MinOfNumbers
    <3>2. brace \in 1 .. Len(s) /\ s[brace] = "open"
      BY <1>0, <3>1
    <3>3. brace \in p + 2 .. b /\ brace - (p + 1) \in I
      BY <2>5, <3>2
    <3>4. start = Min(I)
      BY <1>3, <3>3
    <3>5. Min(I) \in I /\ \A i \in I : Min(I) <= i
      BY <2>7, <3>3, MinOfNumbers
    <3>6. whole = SubSeq(s, brace, Len(s))
      BY DEF whole
    <3> HIDE DEF brace
    <3>7. start = brace - (p + 1) /\ start \in 1 .. b - p - 1
      <4>1. Min(I) <= brace - (p + 1) /\ Min(I) \in Nat
        BY <2>7, <3>3, <3>5
      <4>2. brace <= Min(I) + (p + 1)
        BY <2>6, <3>1, <3>5
      <4>3. \A i \in I : i \in 1 .. b - p - 1
        BY <2>4
      <4> HIDE DEF I
      <4> QED
        BY <1>0, <3>2, <3>4, <3>5, <4>1, <4>2, <4>3
    <3>8. /\ object \in Seq(Symbols) /\ Len(object) = b - brace + 1
          /\ \A i \in 1 .. b - brace + 1 : object[i] = s[brace + i - 1]
      <4>1. start \in Int /\ Len(body) \in Int /\ start <= Len(body) /\ start >= 1
            /\ Len(body) - start + 1 = b - brace + 1
        BY <1>0, <2>4, <3>2, <3>7
      <4>2. \A i \in start .. Len(body) : i \in 1 .. Len(body)
        BY <4>1
      <4>3. \A i \in start .. Len(body) : body[i] \in Symbols
        BY <2>4, <4>2, ElementOfSeq
      <4>4. /\ object \in Seq(Symbols) /\ Len(object) = b - brace + 1
            /\ \A i \in 1 .. b - brace + 1 : object[i] = body[start + i - 1]
        BY <4>1, <4>3, SubSeqProperties DEF object
      <4>5. \A i \in 1 .. b - brace + 1 :
                start + i - 1 \in 1 .. b - p - 1 /\ p + 1 + (start + i - 1) = brace + i - 1
        BY <1>0, <3>2, <3>3, <3>7
      <4> QED
        BY <2>4, <4>4, <4>5
    <3>9. /\ whole \in Seq(Symbols) /\ Len(whole) = Len(s) - brace + 1
          /\ \A i \in 1 .. Len(s) - brace + 1 : whole[i] = s[brace + i - 1]
      BY <1>0, <3>2, <3>6, SubSeqProperties
    <3>10. b - brace + 1 \in Nat /\ b - brace + 1 >= 1 /\ b - brace + 1 <= Len(s) - brace + 1
           /\ Len(s) - brace + 1 \in Nat
      BY <1>0, <3>2, <3>3
    <3>11. Begins(object, whole)
      <4>1. \A i \in 1 .. b - brace + 1 : i \in 1 .. Len(s) - brace + 1
        BY <3>10
      <4> QED
        BY <3>8, <3>9, <3>10, <4>1 DEF Begins
    <3>12. object # <<>> /\ object[1] = "open"
      <4>1. 1 \in 1 .. b - brace + 1 /\ brace + 1 - 1 = brace
        BY <3>2, <3>10
      <4> QED
        BY <3>2, <3>8, <3>10, <4>1
    <3>13. \A i \in Len(object) + 1 .. Len(whole) : whole[i] # "close"
      <4>1. ASSUME NEW i \in b - brace + 1 + 1 .. Len(s) - brace + 1 PROVE whole[i] # "close"
        <5>1. i \in 1 .. Len(s) - brace + 1 /\ brace + i - 1 \in b + 1 .. Len(s)
          BY <1>0, <3>2, <3>3
        <5> QED
          BY <2>2, <3>9, <5>1
      <4> QED
        BY <3>8, <3>9, <4>1
    <3>14. IF Closings(whole) = {} THEN matchingObjectEnd(object) = 0
           ELSE /\ matchingObjectEnd(object) = Min(Closings(whole))
                /\ Min(Closings(whole)) \in 1 .. Len(object)
      BY <3>8, <3>9, <3>11, <3>12, <3>13, ObjectOfPrefix
    <3>15. CASE Closings(whole) = {}
      BY <1>1, <1>2, <1>5, <2>1, <2>9, <3>7, <3>14, <3>15
    <3>16. CASE Closings(whole) # {}
      <4> DEFINE last == Min(Closings(whole))
      <4>1. last \in 1 .. Len(object) /\ matchingObjectEnd(object) = last
        BY <3>14, <3>16
      <4> HIDE DEF last
      <4>2. SubSeq(object, 1, last) = SubSeq(whole, 1, last)
        <5>1. last \in Nat /\ last \in 1 .. Len(whole) /\ \A i \in 1 .. last : object[i] = whole[i]
          BY <3>8, <3>9, <3>10, <3>11, <4>1 DEF Begins
        <5> QED
          BY <3>8, <3>9, <4>1, <5>1
      <4>3. start # 0 /\ last # 0
        BY <3>7, <4>1
      <4> QED
        BY <1>1, <1>2, <1>5, <2>1, <2>9, <3>16, <4>1, <4>2, <4>3 DEF last
    <3> QED
      BY <3>15, <3>16
  <2> QED
    BY <2>8, <2>9
<1> QED
    BY <1>4, <1>5

----------------------------------------------------------------------------
(* ConsoleDecoder: the decoder byte by byte. *)

Results == [payloads : Seq(Seq(Symbols)), errors : Seq({"too long", "malformed"})]

\* What the fields of a decoder may be.
Decoders == {d \in [record : Seq(Symbols \ {"LF"}), discarding : BOOLEAN,
                    payloads : Seq(Seq(Symbols)), errors : Seq({"too long", "malformed"})] :
                Len(d.record) <= MaxRecordBytes /\ (d.discarding => d.record = <<>>)}

\* A line comes to a result, and results can be joined.
LEMMA ExpectedTypes ==
    ASSUME NEW s \in Seq(Symbols)
    PROVE  Expected(s) \in Results
<1> DEFINE opens == {i \in DOMAIN s : s[i] = "open"}
           object == SubSeq(s, Min(opens), Len(s))
           payload == SubSeq(object, 1, Min(Closings(object)))
<1>1. Nothing \in Results /\ MalformedExt \in Results /\ TooLong \in Results
  <2>1. <<>> \in Seq(Seq(Symbols)) /\ <<>> \in Seq({"too long", "malformed"})
        /\ <<"malformed">> \in Seq({"too long", "malformed"})
        /\ <<"too long">> \in Seq({"too long", "malformed"})
    OBVIOUS
  <2> QED
    BY <2>1 DEF Results, Nothing, MalformedExt, TooLong
<1>2. ASSUME opens # {}, Closings(object) # {} PROVE Payload(payload) \in Results
  <2>1. Len(s) \in Nat /\ DOMAIN s = 1 .. Len(s) /\ opens \in SUBSET Nat
    OBVIOUS
  <2>2. Min(opens) \in opens
    BY <1>2, <2>1, MinOfNumbers
  <2>3. Min(opens) \in 1 .. Len(s)
    BY <2>1, <2>2
  <2>4. object \in Seq(Symbols) /\ Len(object) \in Nat
    <3>1. Min(opens) \in Int /\ Len(s) \in Int /\ \A i \in Min(opens) .. Len(s) : i \in 1 .. Len(s)
      <4>1. Len(s) \in Nat /\ Min(opens) \in 1 .. Len(s)
        BY <2>1, <2>3
      <4> HIDE DEF opens
      <4> QED
        BY <4>1
    <3>2. \A i \in Min(opens) .. Len(s) : s[i] \in Symbols
      BY <3>1, ElementOfSeq
    <3> HIDE DEF opens
    <3>3. object \in Seq(Symbols)
      BY <3>1, <3>2, SubSeqProperties
    <3> HIDE DEF object
    <3> QED
      BY <3>3
  <2> HIDE DEF object
  <2>5. Closings(object) \in SUBSET Nat /\ Closings(object) \subseteq 1 .. Len(object)
    BY <2>4 DEF Closings
  <2>6. Min(Closings(object)) \in Closings(object)
    BY <1>2, <2>5, MinOfNumbers
  <2>7. Min(Closings(object)) \in 1 .. Len(object)
    BY <2>5, <2>6
  <2>8. payload \in Seq(Symbols)
    BY <2>4, <2>7, SubSeqProperties
  <2> HIDE DEF payload
  <2>9. <<payload>> \in Seq(Seq(Symbols)) /\ <<>> \in Seq({"too long", "malformed"})
    BY <2>8
  <2> QED
    BY <2>9 DEF Payload, Results
<1>3. \/ Expected(s) \in {Nothing, MalformedExt, TooLong}
      \/ opens # {} /\ Closings(object) # {} /\ Expected(s) = Payload(payload)
    BY DEF Expected
<1> QED
    BY <1>1, <1>2, <1>3

LEMMA JoinedResults ==
    ASSUME NEW r \in Results, NEW s \in Results
    PROVE  /\ r.payloads \in Seq(Seq(Symbols)) /\ r.errors \in Seq({"too long", "malformed"})
           /\ r.payloads \o s.payloads \in Seq(Seq(Symbols))
           /\ r.errors \o s.errors \in Seq({"too long", "malformed"})
           /\ [payloads |-> r.payloads \o s.payloads, errors |-> r.errors \o s.errors] \in Results
<1>1. /\ r.payloads \in Seq(Seq(Symbols)) /\ r.errors \in Seq({"too long", "malformed"})
      /\ s.payloads \in Seq(Seq(Symbols)) /\ s.errors \in Seq({"too long", "malformed"})
    BY DEF Results
<1>2. /\ r.payloads \o s.payloads \in Seq(Seq(Symbols))
      /\ r.errors \o s.errors \in Seq({"too long", "malformed"})
    BY <1>1, ConcatProperties
<1> QED
    BY <1>1, <1>2 DEF Results

\* A record that the decoder has kept comes to what its line should come to.
LEMMA RecordExtracted ==
    ASSUME NEW rec \in Seq(Symbols \ {"LF"}), Len(rec) <= MaxRecordBytes
    PROVE  rec \in Seq(Symbols) /\ extractExtPayload(rec) = Expected(rec) /\ Expected(rec) \in Results
<1>1. rec \in Seq(Symbols)
    BY SeqMonotonic
<1> QED
    BY <1>1, ExpectedTypes, PayloadExtracted

\* What consumeByte does to each field.
ByteEffect(d, value, next) ==
    LET result == extractExtPayload(d.record)
        ends == ~d.discarding /\ value = "LF"
        grows == ~d.discarding /\ value # "LF"
        overflows == grows /\ Len(d.record) >= MaxRecordBytes
    IN  /\ next.discarding <=> IF d.discarding THEN value # "LF" ELSE overflows
        /\ next.record = IF grows /\ ~overflows THEN Append(d.record, value) ELSE <<>>
        /\ next.payloads = IF ends THEN d.payloads \o result.payloads ELSE d.payloads
        /\ next.errors = IF ends THEN d.errors \o result.errors
                         ELSE IF overflows THEN Append(d.errors, "too long") ELSE d.errors

LEMMA ConsumeByteEffect ==
    ASSUME NEW d \in Decoders, NEW value \in Symbols
    PROVE  consumeByte(d, value) \in Decoders /\ ByteEffect(d, value, consumeByte(d, value))
<1> DEFINE next == consumeByte(d, value)
           result == extractExtPayload(d.record)
<1>1. /\ d = [record |-> d.record, discarding |-> d.discarding, payloads |-> d.payloads, errors |-> d.errors]
      /\ d.record \in Seq(Symbols \ {"LF"}) /\ d.discarding \in BOOLEAN
      /\ d.payloads \in Seq(Seq(Symbols)) /\ d.errors \in Seq({"too long", "malformed"})
      /\ Len(d.record) <= MaxRecordBytes /\ (d.discarding => d.record = <<>>)
  <2>1. /\ d.record \in Seq(Symbols \ {"LF"}) /\ d.discarding \in BOOLEAN
        /\ d.payloads \in Seq(Seq(Symbols)) /\ d.errors \in Seq({"too long", "malformed"})
        /\ Len(d.record) <= MaxRecordBytes /\ (d.discarding => d.record = <<>>)
    BY DEF Decoders
  <2>2. d = [record |-> d.record, discarding |-> d.discarding, payloads |-> d.payloads, errors |-> d.errors]
    BY DEF Decoders
  <2> QED
    BY <2>1, <2>2
<1>0. Len(d.record) \in Nat /\ MaxRecordBytes \in Nat /\ Len(d.record) <= MaxRecordBytes
  <2>1. d.record \in Seq(Symbols \ {"LF"}) /\ Len(d.record) <= MaxRecordBytes
    BY DEF Decoders
  <2> QED
    BY <2>1, LenProperties, DecoderAssumption
<1>2. <<>> \in Seq(Symbols \ {"LF"}) /\ Len(<<>>) <= MaxRecordBytes
  <2>1. <<>> \in Seq(Symbols \ {"LF"}) /\ Len(<<>>) = 0
    BY EmptySeq
  <2>2. 0 <= MaxRecordBytes
    BY <1>0
  <2> QED
    BY <2>1, <2>2
<1>3. CASE d.discarding
  <2>1. next = [record |-> <<>>, discarding |-> value # "LF", payloads |-> d.payloads, errors |-> d.errors]
    BY <1>1, <1>3 DEF consumeByte
  <2> HIDE DEF next
  <2>2. next \in Decoders
    BY <1>1, <1>2, <2>1 DEF Decoders
  <2>3. /\ next.record = <<>> /\ (next.discarding <=> value # "LF")
        /\ next.payloads = d.payloads /\ next.errors = d.errors
    BY <2>1
  <2> QED
    BY <1>3, <2>2, <2>3 DEF next, ByteEffect
<1>4. CASE ~d.discarding /\ value = "LF"
  <2>1. next = [record |-> <<>>, discarding |-> FALSE,
                payloads |-> d.payloads \o result.payloads, errors |-> d.errors \o result.errors]
    BY <1>1, <1>4 DEF consumeByte, finishRecord
  <2>2. result \in Results
    BY <1>1, RecordExtracted
  <2>3. result.payloads \in Seq(Seq(Symbols)) /\ result.errors \in Seq({"too long", "malformed"})
    BY <2>2 DEF Results
  <2> HIDE DEF next, result
  <2>4. /\ d.payloads \o result.payloads \in Seq(Seq(Symbols))
        /\ d.errors \o result.errors \in Seq({"too long", "malformed"})
    BY <1>1, <2>3, ConcatProperties
  <2>5. next \in Decoders
    BY <1>2, <2>1, <2>4 DEF Decoders
  <2>6. /\ next.record = <<>> /\ ~next.discarding
        /\ next.payloads = d.payloads \o result.payloads /\ next.errors = d.errors \o result.errors
    BY <2>1
  <2> QED
    BY <1>4, <2>5, <2>6 DEF next, result, ByteEffect
<1>5. CASE ~d.discarding /\ value # "LF" /\ Len(d.record) >= MaxRecordBytes
  <2>1. next = [record |-> <<>>, discarding |-> TRUE, payloads |-> d.payloads,
                errors |-> Append(d.errors, "too long")]
    BY <1>1, <1>5 DEF consumeByte
  <2>2. Append(d.errors, "too long") \in Seq({"too long", "malformed"})
    <3>1. "too long" \in {"too long", "malformed"}
      OBVIOUS
    <3> QED
      BY <1>1, <3>1, AppendProperties
  <2> HIDE DEF next
  <2>3. next \in Decoders
    BY <1>1, <1>2, <2>1, <2>2 DEF Decoders
  <2>4. /\ next.record = <<>> /\ next.discarding
        /\ next.payloads = d.payloads /\ next.errors = Append(d.errors, "too long")
    BY <2>1
  <2> QED
    BY <1>5, <2>3, <2>4 DEF next, ByteEffect
<1>6. CASE ~d.discarding /\ value # "LF" /\ ~(Len(d.record) >= MaxRecordBytes)
  <2>1. next = [record |-> Append(d.record, value), discarding |-> FALSE, payloads |-> d.payloads,
                errors |-> d.errors]
    BY <1>1, <1>6 DEF consumeByte
  <2>2. /\ Append(d.record, value) \in Seq(Symbols \ {"LF"})
        /\ Len(Append(d.record, value)) = Len(d.record) + 1
    <3>1. value \in Symbols \ {"LF"}
      BY <1>6
    <3>2. d.record \in Seq(Symbols \ {"LF"})
      BY <1>1
    <3> QED
      BY <3>1, <3>2, AppendProperties
  <2>3. Len(Append(d.record, value)) <= MaxRecordBytes
    BY <1>0, <1>6, <2>2
  <2> HIDE DEF next
  <2>4. next \in Decoders
    BY <1>1, <2>1, <2>2, <2>3 DEF Decoders
  <2>5. /\ next.record = Append(d.record, value) /\ ~next.discarding
        /\ next.payloads = d.payloads /\ next.errors = d.errors
    BY <2>1
  <2> QED
    BY <1>6, <2>4, <2>5 DEF next, ByteEffect
<1> QED
    BY <1>3, <1>4, <1>5, <1>6

\* The loop of Feed, iteration by iteration.
LEMMA FedSpec ==
    ASSUME NEW d \in Decoders, NEW data \in Seq(Symbols)
    PROVE  \E fed \in [0 .. Len(data) -> Decoders] :
               /\ fed[0] = d /\ Fed(d, data) = fed[Len(data)]
               /\ \A i \in 1 .. Len(data) : fed[i] = consumeByte(fed[i - 1], data[i])
<1> DEFINE Eq(f) == f = [i \in 0 .. Len(data) |-> IF i = 0 THEN d ELSE consumeByte(f[i - 1], data[i])]
           N == Len(data)
           move == [i \in 1 .. N |-> [e \in Decoders |-> consumeByte(e, data[i])]]
<1>1. N \in Nat /\ N = Len(data) /\ move \in [1 .. N -> [Decoders -> Decoders]]
  <2>1. N \in Nat /\ N = Len(data)
    OBVIOUS
  <2>2. \A i \in 1 .. N : data[i] \in Symbols
    BY <2>1, ElementOfSeq
  <2>3. \A i \in 1 .. N, e \in Decoders : consumeByte(e, data[i]) \in Decoders
    BY <2>2, ConsumeByteEffect
  <2> QED
    BY <2>1, <2>3
<1>2. \A i \in 1 .. N, e \in Decoders : move[i][e] = consumeByte(e, data[i])
    OBVIOUS
<1> HIDE DEF move, N
<1>3. PICK f \in [0 .. N -> Decoders] : f[0] = d /\ \A n \in 1 .. N : f[n] = move[n][f[n - 1]]
  <2>1. Steps(N, Decoders, d, move)
    BY <1>1 DEF Steps
  <2> QED
    BY <2>1, RecursionExists DEF Runs
<1>4. \A n \in 1 .. N : f[n] = consumeByte(f[n - 1], data[n])
  <2>1. \A n \in 1 .. N : n - 1 \in 0 .. N
    BY <1>1
  <2> QED
    BY <1>2, <1>3, <2>1
<1>5. Eq(f)
  <2>1. \A n \in 0 .. N : n # 0 => n \in 1 .. N
    BY <1>1
  <2>2. \A n \in 0 .. N : f[n] = IF n = 0 THEN d ELSE consumeByte(f[n - 1], data[n])
    BY <1>3, <1>4, <2>1
  <2> QED
    BY <1>1, <2>2
<1>6. Fed(d, data) = (CHOOSE g : Eq(g))[Len(data)]
    BY DEF Fed
<1>7. Eq(CHOOSE g : Eq(g))
    BY <1>5
<1> DEFINE fed == CHOOSE g : Eq(g)
<1>8. \A n \in 0 .. N : fed[n] = IF n = 0 THEN d ELSE consumeByte(fed[n - 1], data[n])
    BY <1>1, <1>7
<1>9. fed = [n \in 0 .. N |-> fed[n]]
    BY <1>1, <1>7
<1> HIDE DEF fed
<1>10. fed[0] = d /\ \A n \in 1 .. N : fed[n] = consumeByte(fed[n - 1], data[n])
  <2>1. 0 \in 0 .. N /\ \A n \in 1 .. N : n \in 0 .. N /\ n # 0
    BY <1>1
  <2> QED
    BY <1>8, <2>1
<1>11. \A n \in 0 .. N : fed[n] \in Decoders
  <2> DEFINE P == {n \in 0 .. N : fed[n] \in Decoders}
  <2>1. 0 \in P
    BY <1>1, <1>10
  <2>2. ASSUME NEW n \in 0 .. N - 1, n \in P PROVE n + 1 \in P
    <3>1. n + 1 \in 1 .. N /\ (n + 1) - 1 = n /\ n + 1 \in 0 .. N
      BY <1>1
    <3>2. fed[n + 1] = consumeByte(fed[n], data[n + 1]) /\ data[n + 1] \in Symbols
      BY <1>1, <1>10, <3>1, ElementOfSeq
    <3>3. fed[n] \in Decoders
      BY <2>2
    <3>4. consumeByte(fed[n], data[n + 1]) \in Decoders
      BY <3>2, <3>3, ConsumeByteEffect
    <3> QED
      BY <3>1, <3>2, <3>4
  <2> HIDE DEF P
  <2>3. \A n \in 0 .. N : n \in P
    BY <1>1, <2>1, <2>2, IntervalInduction
  <2> QED
    BY <2>3 DEF P
<1>12. fed \in [0 .. N -> Decoders]
    BY <1>9, <1>11
<1> QED
    BY <1>1, <1>6, <1>10, <1>12 DEF fed

\* A line grows by a symbol, or begins anew behind a LF.
LEMMA LineToSpec ==
    ASSUME NEW s \in Seq(Symbols)
    PROVE  /\ LineTo(s, 0) = <<>>
           /\ \A n \in 0 .. Len(s) : LineTo(s, n) \in Seq(Symbols)
           /\ \A n \in 0 .. Len(s) - 1 :
                  LineTo(s, n + 1) = IF s[n + 1] = "LF" THEN <<>> ELSE Append(LineTo(s, n), s[n + 1])
<1> DEFINE ends(n) == {0} \cup {i \in 1 .. n : s[i] = "LF"}
<1>0. Len(s) \in Nat /\ \A i \in 1 .. Len(s) : s[i] \in Symbols
    BY ElementOfSeq
<1>1. \A n \in 0 .. Len(s) : /\ Max(ends(n)) \in ends(n) /\ Max(ends(n)) \in 0 .. n
                             /\ \A i \in ends(n) : Max(ends(n)) >= i
  <2>1. SUFFICES ASSUME NEW n \in 0 .. Len(s)
                 PROVE  /\ Max(ends(n)) \in ends(n) /\ Max(ends(n)) \in 0 .. n
                        /\ \A i \in ends(n) : Max(ends(n)) >= i
    OBVIOUS
  <2>2. n \in Nat /\ ends(n) \in SUBSET (0 .. n) /\ ends(n) # {}
    BY <1>0
  <2> HIDE DEF ends
  <2> QED
    BY <2>2, MaxOfNumbers
<1>2. \A n \in 0 .. Len(s) : LineTo(s, n) = SubSeq(s, Max(ends(n)) + 1, n)
    BY DEF LineTo
<1>3. \A n \in 0 .. Len(s) : LineTo(s, n) \in Seq(Symbols)
  <2>1. SUFFICES ASSUME NEW n \in 0 .. Len(s) PROVE LineTo(s, n) \in Seq(Symbols)
    OBVIOUS
  <2>2. Max(ends(n)) + 1 \in Int /\ n \in Int /\ \A i \in Max(ends(n)) + 1 .. n : i \in 1 .. Len(s)
    BY <1>0, <1>1
  <2> HIDE DEF ends
  <2> QED
    BY <1>0, <1>2, <2>2, SubSeqProperties
<1>4. LineTo(s, 0) = <<>>
  <2>1. 0 \in 0 .. Len(s)
    BY <1>0
  <2>2. Max(ends(0)) \in 0 .. 0
    BY <1>1, <2>1
  <2> HIDE DEF ends
  <2>3. Max(ends(0)) + 1 \in Int /\ 0 < Max(ends(0)) + 1
    BY <2>2
  <2> QED
    BY <1>2, <2>1, <2>3, SubSeqEmpty
<1>5. ASSUME NEW n \in 0 .. Len(s) - 1
      PROVE  LineTo(s, n + 1) = IF s[n + 1] = "LF" THEN <<>> ELSE Append(LineTo(s, n), s[n + 1])
  <2>1. n \in 0 .. Len(s) /\ n + 1 \in 0 .. Len(s) /\ n + 1 \in 1 .. Len(s) /\ n \in Nat
    BY <1>0
  <2>2. CASE s[n + 1] = "LF"
    <3>1. n + 1 \in ends(n + 1)
      BY <2>1, <2>2
    <3> HIDE DEF ends
    <3>2. Max(ends(n + 1)) = n + 1
      <4>1. Max(ends(n + 1)) >= n + 1 /\ Max(ends(n + 1)) \in 0 .. n + 1
        BY <1>1, <2>1, <3>1
      <4> QED
        BY <2>1, <4>1
    <3>3. LineTo(s, n + 1) = SubSeq(s, (n + 1) + 1, n + 1)
      BY <1>2, <2>1, <3>2
    <3> QED
      BY <2>1, <2>2, <3>3, SubSeqEmpty
  <2>3. CASE s[n + 1] # "LF"
    <3>1. ends(n + 1) = ends(n)
      BY <2>1, <2>3
    <3> DEFINE first == Max(ends(n)) + 1
    <3>2. first \in 1 .. n + 1
      BY <1>1, <2>1
    <3>3. LineTo(s, n + 1) = SubSeq(s, first, n + 1) /\ LineTo(s, n) = SubSeq(s, first, n)
      BY <1>2, <2>1, <3>1
    <3> HIDE DEF first
    <3>4. first \in 1 .. Len(s) /\ n + 1 \in first .. Len(s) /\ (n + 1) - 1 = n
      BY <1>0, <2>1, <3>2
    <3>5. SubSeq(s, first, n + 1) = SubSeq(s, first, (n + 1) - 1) \o <<s[n + 1]>>
      BY <3>4, SubSeqRecursiveSecond
    <3>6. Append(LineTo(s, n), s[n + 1]) = LineTo(s, n) \o <<s[n + 1]>>
      BY <1>0, <1>3, <2>1, AppendIsConcat
    <3> QED
      BY <2>3, <3>3, <3>4, <3>5, <3>6
  <2> QED
    BY <2>2, <2>3
<1> QED
    BY <1>3, <1>4, <1>5

----------------------------------------------------------------------------
(* ConsoleDecoder: the reference place by place, and the decoder in step with it. *)

LEMMA ResultFields ==
    /\ Nothing.payloads = <<>> /\ Nothing.errors = <<>>
    /\ TooLong.payloads = <<>> /\ TooLong.errors = <<"too long">>
    /\ "too long" \in {"too long", "malformed"}
BY DEF Nothing, TooLong

\* What the lines up to a place have come to grows only where a line ends.
LEMMA OutcomeSpec ==
    ASSUME NEW s \in Seq(Symbols)
    PROVE  /\ \A n \in 0 .. Len(s) : Outcome(s)[n] \in Results
           /\ Outcome(s)[0] = Nothing
           /\ \A n \in 0 .. Len(s) - 1 :
                  /\ s[n + 1] # "LF" => Outcome(s)[n + 1] = Outcome(s)[n]
                  /\ s[n + 1] = "LF" =>
                         Outcome(s)[n + 1] =
                             [payloads |-> Outcome(s)[n].payloads \o Expected(LineTo(s, n)).payloads,
                              errors |-> Outcome(s)[n].errors \o Expected(LineTo(s, n)).errors]
<1> DEFINE Joined(before, n) ==
               IF s[n] # "LF" THEN before
               ELSE [payloads |-> before.payloads \o Expected(LineTo(s, n - 1)).payloads,
                     errors |-> before.errors \o Expected(LineTo(s, n - 1)).errors]
           Eq(f) == f = [n \in 0 .. Len(s) |-> IF n = 0 THEN Nothing ELSE Joined(f[n - 1], n)]
           N == Len(s)
           start == Nothing
           move == [n \in 1 .. N |-> [r \in Results |-> Joined(r, n)]]
<1>1. /\ N \in Nat /\ N = Len(s) /\ start = Nothing /\ start \in Results
      /\ move \in [1 .. N -> [Results -> Results]]
  <2>1. N \in Nat /\ N = Len(s) /\ \A n \in 1 .. N : n - 1 \in 0 .. N
    OBVIOUS
  <2>2. start \in Results
    <3>1. <<>> \in Seq(Seq(Symbols)) /\ <<>> \in Seq({"too long", "malformed"})
      BY EmptySeq
    <3> QED
      BY <3>1 DEF Results, Nothing
  <2>3. \A n \in 1 .. N : Expected(LineTo(s, n - 1)) \in Results
    BY <2>1, LineToSpec, ExpectedTypes
  <2>4. \A n \in 1 .. N, r \in Results : Joined(r, n) \in Results
    BY <2>3, JoinedResults
  <2> HIDE DEF start, N, Joined
  <2> QED
    BY <2>1, <2>2, <2>4 DEF start
<1>2. \A n \in 1 .. N, r \in Results : move[n][r] = Joined(r, n)
    OBVIOUS
<1> HIDE DEF move, N, start, Joined
<1>3. PICK f \in [0 .. N -> Results] : f[0] = start /\ \A n \in 1 .. N : f[n] = move[n][f[n - 1]]
  <2>1. Steps(N, Results, start, move)
    BY <1>1 DEF Steps
  <2> QED
    BY <2>1, RecursionExists DEF Runs
<1>4. \A n \in 1 .. N : f[n] = Joined(f[n - 1], n)
  <2>1. \A n \in 1 .. N : n - 1 \in 0 .. N
    BY <1>1
  <2> QED
    BY <1>2, <1>3, <2>1
<1>5. Eq(f)
  <2>1. \A n \in 0 .. N : n # 0 => n \in 1 .. N
    BY <1>1
  <2>2. \A n \in 0 .. N : f[n] = IF n = 0 THEN Nothing ELSE Joined(f[n - 1], n)
    BY <1>1, <1>3, <1>4, <2>1
  <2> QED
    BY <1>1, <2>2
<1>6. Outcome(s) = CHOOSE g : Eq(g)
    BY DEF Outcome, Joined
<1>7. Eq(Outcome(s))
    BY <1>5, <1>6
<1> DEFINE outcome == Outcome(s)
<1>8. \A n \in 0 .. N : outcome[n] = IF n = 0 THEN Nothing ELSE Joined(outcome[n - 1], n)
    BY <1>1, <1>7
<1> HIDE DEF outcome
<1>9. outcome[0] = Nothing /\ \A n \in 1 .. N : outcome[n] = Joined(outcome[n - 1], n)
  <2>1. 0 \in 0 .. N /\ \A n \in 1 .. N : n \in 0 .. N /\ n # 0
    BY <1>1
  <2> QED
    BY <1>8, <2>1
<1>10. \A n \in 0 .. N : outcome[n] \in Results
  <2> DEFINE P == {n \in 0 .. N : outcome[n] \in Results}
  <2>1. 0 \in P
    BY <1>1, <1>9
  <2>2. ASSUME NEW n \in 0 .. N - 1, n \in P PROVE n + 1 \in P
    <3>1. n + 1 \in 1 .. N /\ (n + 1) - 1 = n /\ n + 1 \in 0 .. N /\ n \in 0 .. Len(s)
      BY <1>1
    <3>2. outcome[n + 1] = Joined(outcome[n], n + 1) /\ outcome[n] \in Results
      BY <1>9, <2>2, <3>1
    <3>3. Expected(LineTo(s, n)) \in Results
      BY <3>1, LineToSpec, ExpectedTypes
    <3>4. Joined(outcome[n], n + 1) \in Results
      BY <3>1, <3>2, <3>3, JoinedResults DEF Joined
    <3> QED
      BY <3>1, <3>2, <3>4
  <2> HIDE DEF P
  <2>3. \A n \in 0 .. N : n \in P
    BY <1>1, <2>1, <2>2, IntervalInduction
  <2> QED
    BY <2>3 DEF P
<1>11. ASSUME NEW n \in 0 .. Len(s) - 1 PROVE outcome[n + 1] = Joined(outcome[n], n + 1) /\ (n + 1) - 1 = n
  <2>1. n + 1 \in 1 .. N /\ (n + 1) - 1 = n
    BY <1>1
  <2> QED
    BY <1>9, <2>1
<1> QED
    BY <1>1, <1>9, <1>10, <1>11 DEF outcome, Joined

\* What has come out so far depends on what has come in so far alone.
LEMMA OutcomeSoFar ==
    ASSUME NEW t \in Seq(Symbols), NEW s \in Seq(Symbols), Begins(t, s)
    PROVE  \A n \in 0 .. Len(t) : LineTo(t, n) = LineTo(s, n) /\ Outcome(t)[n] = Outcome(s)[n]
<1>1. Len(t) \in Nat /\ Len(s) \in Nat /\ Len(t) <= Len(s) /\ \A i \in 1 .. Len(t) : t[i] = s[i]
    BY DEF Begins
<1> DEFINE P == {n \in 0 .. Len(t) : LineTo(t, n) = LineTo(s, n) /\ Outcome(t)[n] = Outcome(s)[n]}
<1>2. 0 \in P
  <2>1. LineTo(t, 0) = LineTo(s, 0) /\ Outcome(t)[0] = Outcome(s)[0]
    BY LineToSpec, OutcomeSpec
  <2> QED
    BY <1>1, <2>1
<1>3. ASSUME NEW n \in 0 .. Len(t) - 1, n \in P PROVE n + 1 \in P
  <2>1. n + 1 \in 0 .. Len(t) /\ n + 1 \in 1 .. Len(t) /\ n \in 0 .. Len(s) - 1
    BY <1>1
  <2>2. t[n + 1] = s[n + 1] /\ LineTo(t, n) = LineTo(s, n) /\ Outcome(t)[n] = Outcome(s)[n]
    BY <1>1, <1>3, <2>1
  <2>3. LineTo(t, n + 1) = LineTo(s, n + 1)
    BY <2>1, <2>2, LineToSpec
  <2>4. Outcome(t)[n + 1] = Outcome(s)[n + 1]
    <3>1. CASE s[n + 1] # "LF"
      BY <2>1, <2>2, <3>1, OutcomeSpec
    <3>2. CASE s[n + 1] = "LF"
      BY <2>1, <2>2, <3>2, OutcomeSpec
    <3> QED
      BY <3>1, <3>2
  <2> QED
    BY <2>1, <2>3, <2>4
<1> HIDE DEF P
<1>4. \A n \in 0 .. Len(t) : n \in P
    BY <1>1, <1>2, <1>3, IntervalInduction
<1> QED
    BY <1>4 DEF P

\* What the decoder holds once it has read s as far as n.
Decoded(s, n, d) ==
    /\ d.discarding <=> Len(LineTo(s, n)) > MaxRecordBytes
    /\ ~d.discarding => d.record = LineTo(s, n)
    /\ d.payloads = Outcome(s)[n].payloads
    /\ d.errors = IF d.discarding THEN Append(Outcome(s)[n].errors, "too long") ELSE Outcome(s)[n].errors

\* A byte more is decoded.
LEMMA ConsumeByteDecodes ==
    ASSUME NEW s \in Seq(Symbols), NEW n \in 0 .. Len(s) - 1, NEW d \in Decoders, Decoded(s, n, d)
    PROVE  Decoded(s, n + 1, consumeByte(d, s[n + 1]))
<1> DEFINE value == s[n + 1]
           next == consumeByte(d, value)
           result == extractExtPayload(d.record)
           line == LineTo(s, n)
           grown == LineTo(s, n + 1)
           out == Outcome(s)[n]
           outs == Outcome(s)[n + 1]
<1>1. n \in 0 .. Len(s) /\ n + 1 \in 0 .. Len(s) /\ n + 1 \in 1 .. Len(s)
    OBVIOUS
<1>2. value \in Symbols /\ line \in Seq(Symbols) /\ Len(line) \in Nat /\ out \in Results
    BY <1>1, ElementOfSeq, LineToSpec, OutcomeSpec, LenProperties
<1>3. grown = IF value = "LF" THEN <<>> ELSE Append(line, value)
    BY LineToSpec
<1>4. /\ value # "LF" => outs = out
      /\ value = "LF" => /\ outs.payloads = out.payloads \o Expected(line).payloads
                         /\ outs.errors = out.errors \o Expected(line).errors
  <2>1. /\ value # "LF" => outs = out
        /\ value = "LF" => outs = [payloads |-> out.payloads \o Expected(line).payloads,
                                  errors |-> out.errors \o Expected(line).errors]
    BY OutcomeSpec
  <2> DEFINE joined == out.payloads \o Expected(line).payloads
             failed == out.errors \o Expected(line).errors
  <2>2. value = "LF" => outs = [payloads |-> joined, errors |-> failed]
    BY <2>1
  <2> HIDE DEF value, outs, out, line, joined, failed
  <2>3. value = "LF" => outs.payloads = joined /\ outs.errors = failed
    BY <2>2
  <2> QED
    BY <2>1, <2>3 DEF joined, failed
<1>5. MaxRecordBytes \in Nat
    BY DecoderAssumption
<1>6. /\ d.discarding <=> Len(line) > MaxRecordBytes
      /\ ~d.discarding => d.record = line
      /\ d.payloads = out.payloads
      /\ d.errors = IF d.discarding THEN Append(out.errors, "too long") ELSE out.errors
    BY DEF Decoded
<1>7. /\ next.discarding <=> IF d.discarding THEN value # "LF"
                             ELSE value # "LF" /\ Len(d.record) >= MaxRecordBytes
      /\ next.record = IF ~d.discarding /\ value # "LF" /\ ~(Len(d.record) >= MaxRecordBytes)
                       THEN Append(d.record, value) ELSE <<>>
      /\ next.payloads = IF ~d.discarding /\ value = "LF" THEN d.payloads \o result.payloads ELSE d.payloads
      /\ next.errors = IF ~d.discarding /\ value = "LF" THEN d.errors \o result.errors
                       ELSE IF ~d.discarding /\ value # "LF" /\ Len(d.record) >= MaxRecordBytes
                            THEN Append(d.errors, "too long") ELSE d.errors
  <2>1. value \in Symbols
    BY <1>2
  <2>2. ByteEffect(d, value, next)
    BY <2>1, ConsumeByteEffect
  <2> HIDE DEF value, next
  <2> QED
    BY <2>2 DEF ByteEffect
<1>8. out.payloads \in Seq(Seq(Symbols)) /\ out.errors \in Seq({"too long", "malformed"})
    BY <1>2, JoinedResults
<1>9. /\ value # "LF" => Len(grown) = Len(line) + 1
      /\ value = "LF" => grown = <<>> /\ Len(grown) = 0
  <2>1. Len(Append(line, value)) = Len(line) + 1
    BY <1>2, AppendProperties
  <2>2. Len(<<>>) = 0
    BY EmptySeq
  <2> HIDE DEF line, value, grown
  <2> QED
    BY <1>3, <2>1, <2>2
<1>10. SUFFICES /\ next.discarding <=> Len(grown) > MaxRecordBytes
                /\ ~next.discarding => next.record = grown
                /\ next.payloads = outs.payloads
                /\ next.errors = IF next.discarding THEN Append(outs.errors, "too long") ELSE outs.errors
    BY DEF Decoded
<1> HIDE DEF value, next, result, line, grown, out, outs
<1>11. CASE d.discarding /\ value = "LF"
  <2>1. Expected(line) = TooLong
    BY <1>6, <1>11 DEF Expected
  <2>2. Expected(line).payloads = <<>> /\ Expected(line).errors = <<"too long">>
    BY <2>1, ResultFields
  <2>3. outs.payloads = out.payloads
    BY <1>4, <1>8, <1>11, <2>2, ConcatEmptySeq
  <2>4. outs.errors = Append(out.errors, "too long")
    <3>1. "too long" \in {"too long", "malformed"}
      OBVIOUS
    <3> QED
      BY <1>4, <1>8, <1>11, <2>2, <3>1, AppendIsConcat
  <2>5. ~(Len(grown) > MaxRecordBytes)
    BY <1>5, <1>9, <1>11
  <2> QED
    BY <1>6, <1>7, <1>9, <1>11, <2>3, <2>4, <2>5
<1>12. CASE d.discarding /\ value # "LF"
  <2>1. Len(grown) > MaxRecordBytes
    <3>1. Len(grown) = Len(line) + 1 /\ Len(line) \in Nat /\ Len(line) > MaxRecordBytes
      BY <1>2, <1>6, <1>9, <1>12
    <3> QED
      BY <1>5, <3>1
  <2> QED
    BY <1>4, <1>6, <1>7, <1>12, <2>1
<1>13. CASE ~d.discarding /\ value = "LF"
  <2>1. Len(line) <= MaxRecordBytes
    BY <1>2, <1>5, <1>6, <1>13
  <2>2. result = Expected(line)
    BY <1>2, <1>6, <1>13, <2>1, PayloadExtracted DEF result
  <2>3. ~(Len(grown) > MaxRecordBytes)
    BY <1>5, <1>9, <1>13
  <2> QED
    BY <1>4, <1>6, <1>7, <1>9, <1>13, <2>2, <2>3
<1>14. CASE ~d.discarding /\ value # "LF" /\ Len(line) >= MaxRecordBytes
  <2>1. Len(grown) = Len(line) + 1
    BY <1>9, <1>14
  <2>2. Len(line) \in Nat /\ Len(line) >= MaxRecordBytes
    BY <1>2, <1>14
  <2>3. Len(grown) > MaxRecordBytes
    BY <1>5, <2>1, <2>2
  <2> QED
    BY <1>4, <1>6, <1>7, <1>14, <2>3
<1>15. CASE ~d.discarding /\ value # "LF" /\ ~(Len(line) >= MaxRecordBytes)
  <2>1. ~(Len(grown) > MaxRecordBytes)
    <3>1. Len(grown) = Len(line) + 1 /\ Len(line) \in Nat /\ ~(Len(line) >= MaxRecordBytes)
      BY <1>2, <1>9, <1>15
    <3> QED
      BY <1>5, <3>1
  <2> QED
    BY <1>3, <1>4, <1>6, <1>7, <1>15, <2>1
<1> QED
    BY <1>11, <1>12, <1>13, <1>14, <1>15

----------------------------------------------------------------------------
(* ConsoleDecoder: the invariant of a session. *)

\* In a session the decoder holds what belongs to its input so far; Flush then ends
\* the last line.
DecoderInv ==
    /\ DecoderTypeOK
    /\ ~flushed => Decoded(input, Len(input), Decoder)
    /\ flushed => DecoderMatches

\* The decoder as a record of its fields.
LEMMA DecoderFields ==
    ASSUME DecoderTypeOK
    PROVE  /\ Decoder \in Decoders
           /\ Decoder.record = record /\ Decoder.discarding = discarding
           /\ Decoder.payloads = payloads /\ Decoder.errors = errors
BY DEF DecoderTypeOK, Decoder, Decoders

\* A session that is not flushed has come to its lines, if only one that is too long
\* besides those that have ended.
LEMMA DecodedMatches ==
    ASSUME DecoderInv
    PROVE  DecoderMatches
<1>1. CASE flushed
    BY <1>1 DEF DecoderInv
<1>2. CASE ~flushed
  <2> DEFINE line == LineTo(input, Len(input))
             out == Outcome(input)[Len(input)]
  <2>1. input \in Seq(Symbols) /\ Len(input) \in 0 .. Len(input)
    <3>1. input \in Seq(Symbols)
      BY DEF DecoderInv, DecoderTypeOK
    <3>2. Len(input) \in Nat
      BY <3>1, LenProperties
    <3> QED
      BY <3>1, <3>2
  <2>2. out \in Results /\ out.payloads \in Seq(Seq(Symbols)) /\ out.errors \in Seq({"too long", "malformed"})
    BY <2>1, OutcomeSpec, JoinedResults
  <2>3. /\ discarding <=> Len(line) > MaxRecordBytes
        /\ payloads = out.payloads
        /\ errors = IF discarding THEN Append(out.errors, "too long") ELSE out.errors
    BY <1>2, DecoderFields DEF DecoderInv, Decoded
  <2>4. Unfinished = IF discarding THEN Expected(line) ELSE Nothing
    BY <1>2, <2>3 DEF Unfinished
  <2> HIDE DEF line, out
  <2>5. CASE discarding
    <3>1. Unfinished.payloads = <<>> /\ Unfinished.errors = <<"too long">>
      BY <2>3, <2>4, <2>5, ResultFields DEF Expected
    <3>2. payloads = out.payloads \o Unfinished.payloads
      BY <2>2, <2>3, <3>1, ConcatEmptySeq
    <3>3. errors = out.errors \o Unfinished.errors
      <4>1. "too long" \in {"too long", "malformed"}
        OBVIOUS
      <4> QED
        BY <2>2, <2>3, <2>5, <3>1, <4>1, AppendIsConcat
    <3> QED
      BY <3>2, <3>3 DEF DecoderMatches, out
  <2>6. CASE ~discarding
    <3>1. Unfinished.payloads = <<>> /\ Unfinished.errors = <<>>
      BY <2>4, <2>6, ResultFields
    <3> QED
      BY <2>2, <2>3, <2>6, <3>1, ConcatEmptySeq DEF DecoderMatches, out
  <2> QED
    BY <2>5, <2>6
<1> QED
    BY <1>1, <1>2

\* A session begins with nothing decoded.
LEMMA DecoderBegins ==
    ASSUME DecoderInit
    PROVE  DecoderInv
<1>1. <<>> \in Seq(Symbols) /\ Len(<<>>) = 0 /\ <<>> \in Seq(Symbols \ {"LF"})
      /\ <<>> \in Seq(Seq(Symbols)) /\ <<>> \in Seq({"too long", "malformed"})
    BY EmptySeq
<1>2. MaxRecordBytes \in Nat /\ MaxReads \in Nat /\ 0 <= MaxRecordBytes /\ 0 \in 0 .. MaxReads
      /\ ~(0 > MaxRecordBytes)
    BY DecoderAssumption
<1>3. DecoderTypeOK
    BY <1>1, <1>2 DEF DecoderInit, DecoderTypeOK
<1>4. LineTo(<<>>, 0) = <<>> /\ Outcome(<<>>)[0] = Nothing
    BY <1>1, LineToSpec, OutcomeSpec
<1>5. Decoded(input, Len(input), Decoder)
    BY <1>1, <1>2, <1>4 DEF DecoderInit, Decoded, Decoder, Nothing
<1> QED
    BY <1>3, <1>5 DEF DecoderInv, DecoderInit

\* One lemma for each action.
LEMMA NewSessionDecodes ==
    ASSUME DecoderInv, NewDecoder
    PROVE  DecoderInv'
<1>1. DecoderInit'
    BY DEF NewDecoder, DecoderInit
<1> QED
    BY <1>1, DecoderBegins, PTL

LEMMA FeedDecodes ==
    ASSUME DecoderInv, Feed
    PROVE  DecoderInv'
<1>1. PICK data \in Reads : Becomes(Fed(Decoder, data)) /\ input' = input \o data
    BY DEF Feed
<1>2. /\ ~flushed /\ flushed' = flushed /\ reads < MaxReads /\ reads' = reads + 1
      /\ reads \in 0 .. MaxReads /\ MaxReads \in Nat /\ input \in Seq(Symbols)
    BY DecoderAssumption DEF Feed, DecoderInv, DecoderTypeOK
<1>3. data \in Seq(Symbols) /\ Len(data) \in Nat /\ Len(input) \in Nat
  <2>1. data \in Seq(Symbols)
    BY <1>1, DecoderAssumption
  <2> QED
    BY <1>2, <2>1, LenProperties
<1>4. Decoder \in Decoders /\ Decoded(input, Len(input), Decoder)
    BY <1>2, DecoderFields DEF DecoderInv
<1> DEFINE s == input \o data
           start == Len(input)
<1>5. /\ s \in Seq(Symbols) /\ Len(s) = start + Len(data) /\ start \in Nat
      /\ \A i \in 1 .. start + Len(data) : s[i] = IF i <= start THEN input[i] ELSE data[i - start]
    BY <1>2, <1>3, ConcatProperties
<1>6. input' = s
    BY <1>1
<1> HIDE DEF s
<1>7. Begins(input, s) /\ start \in 0 .. start
    BY <1>3, <1>5 DEF Begins
<1>8. Decoded(s, start, Decoder)
  <2>1. LineTo(input, start) = LineTo(s, start) /\ Outcome(input)[start] = Outcome(s)[start]
    BY <1>2, <1>5, <1>7, OutcomeSoFar
  <2> QED
    BY <1>4, <2>1 DEF Decoded
<1>9. PICK fed \in [0 .. Len(data) -> Decoders] :
          /\ fed[0] = Decoder /\ Fed(Decoder, data) = fed[Len(data)]
          /\ \A i \in 1 .. Len(data) : fed[i] = consumeByte(fed[i - 1], data[i])
    BY <1>3, <1>4, FedSpec
<1>10. \A i \in 0 .. Len(data) : Decoded(s, start + i, fed[i])
  <2> DEFINE P == {i \in 0 .. Len(data) : Decoded(s, start + i, fed[i])}
  <2>1. 0 \in P
    <3>1. start + 0 = start /\ 0 \in 0 .. Len(data)
      BY <1>3, <1>5
    <3> HIDE DEF start
    <3> QED
      BY <1>8, <1>9, <3>1
  <2>2. ASSUME NEW i \in 0 .. Len(data) - 1, i \in P PROVE i + 1 \in P
    <3>1. /\ i + 1 \in 1 .. Len(data) /\ (i + 1) - 1 = i /\ i \in 0 .. Len(data) /\ i + 1 \in 0 .. Len(data)
          /\ start + i \in 0 .. Len(s) - 1 /\ (start + i) + 1 = start + (i + 1)
          /\ start + (i + 1) \in 1 .. start + Len(data) /\ ~(start + (i + 1) <= start)
          /\ (start + (i + 1)) - start = i + 1
      BY <1>3, <1>5
    <3>2. s[(start + i) + 1] = data[i + 1]
      BY <1>5, <3>1
    <3>3. fed[i + 1] = consumeByte(fed[i], data[i + 1]) /\ fed[i] \in Decoders
      BY <1>9, <3>1
    <3>4. Decoded(s, start + i, fed[i])
      BY <2>2
    <3> HIDE DEF start
    <3>5. Decoded(s, (start + i) + 1, consumeByte(fed[i], s[(start + i) + 1]))
      BY <1>5, <3>1, <3>3, <3>4, ConsumeByteDecodes
    <3> QED
      BY <3>1, <3>2, <3>3, <3>5
  <2> HIDE DEF P
  <2>3. \A i \in 0 .. Len(data) : i \in P
    BY <1>3, <2>1, <2>2, IntervalInduction
  <2> QED
    BY <2>3 DEF P
<1> DEFINE last == Fed(Decoder, data)
<1>11. last \in Decoders /\ Decoded(s, Len(s), last)
  <2>1. Len(data) \in 0 .. Len(data)
    BY <1>3
  <2> QED
    BY <1>5, <1>9, <1>10, <2>1
<1>12. /\ record' = last.record /\ discarding' = last.discarding
       /\ payloads' = last.payloads /\ errors' = last.errors
    BY <1>1 DEF Becomes
<1> HIDE DEF last
<1>13. DecoderTypeOK'
  <2>1. reads' \in 0 .. MaxReads
    BY <1>2
  <2>2. flushed' \in BOOLEAN
    BY <1>2 DEF DecoderInv, DecoderTypeOK
  <2> QED
    BY <1>5, <1>6, <1>11, <1>12, <2>1, <2>2 DEF DecoderTypeOK, Decoders
<1>14. Decoded(input, Len(input), Decoder)'
  <2>1. Decoder' = [record |-> last.record, discarding |-> last.discarding,
                    payloads |-> last.payloads, errors |-> last.errors]
    BY <1>12 DEF Decoder
  <2>2. Decoded(s, Len(s), Decoder')
    BY <1>11, <2>1 DEF Decoded
  <2> QED
    BY <1>6, <2>2 DEF Decoded
<1> QED
    BY <1>2, <1>13, <1>14 DEF DecoderInv

LEMMA FlushDecodes ==
    ASSUME DecoderInv, Flush
    PROVE  DecoderInv'
<1> DEFINE line == LineTo(input, Len(input))
           out == Outcome(input)[Len(input)]
<1>1. ~flushed /\ flushed' = TRUE /\ input' = input /\ reads' = reads
    BY DEF Flush
<1>2. /\ record \in Seq(Symbols \ {"LF"}) /\ Len(record) <= MaxRecordBytes
      /\ discarding \in BOOLEAN /\ (discarding => record = <<>>)
      /\ input \in Seq(Symbols) /\ reads \in 0 .. MaxReads
      /\ payloads \in Seq(Seq(Symbols)) /\ errors \in Seq({"too long", "malformed"})
    BY DEF DecoderInv, DecoderTypeOK
<1>3. MaxRecordBytes \in Nat /\ Len(input) \in Nat /\ Len(input) \in 0 .. Len(input)
  <2>1. MaxRecordBytes \in Nat /\ Len(input) \in Nat
    BY <1>2, LenProperties, DecoderAssumption
  <2> QED
    BY <2>1
<1>4. /\ out \in Results /\ out.payloads \in Seq(Seq(Symbols))
      /\ out.errors \in Seq({"too long", "malformed"}) /\ line \in Seq(Symbols)
    BY <1>2, <1>3, LineToSpec, OutcomeSpec, JoinedResults
<1>5. /\ discarding <=> Len(line) > MaxRecordBytes
      /\ ~discarding => record = line
      /\ payloads = out.payloads
      /\ errors = IF discarding THEN Append(out.errors, "too long") ELSE out.errors
    BY <1>1, DecoderFields DEF DecoderInv, Decoded
<1>6. Unfinished' = Expected(line)
    BY <1>1 DEF Unfinished
<1>7. DecoderMatches' <=> /\ payloads' = out.payloads \o Expected(line).payloads
                          /\ errors' = out.errors \o Expected(line).errors
    BY <1>1, <1>6 DEF DecoderMatches
<1>8. <<>> \in Seq(Symbols \ {"LF"}) /\ Len(<<>>) <= MaxRecordBytes
  <2>1. <<>> \in Seq(Symbols \ {"LF"}) /\ Len(<<>>) = 0
    BY EmptySeq
  <2> QED
    BY <1>3, <2>1
<1> HIDE DEF line, out
<1>9. CASE discarding
  <2>1. record' = <<>> /\ discarding' = FALSE /\ payloads' = payloads /\ errors' = errors
    BY <1>9 DEF Flush, Becomes, Decoder
  <2>2. Expected(line).payloads = <<>> /\ Expected(line).errors = <<"too long">>
    BY <1>5, <1>9, ResultFields DEF Expected
  <2>3. payloads' = out.payloads \o Expected(line).payloads
    BY <1>4, <1>5, <2>1, <2>2, ConcatEmptySeq
  <2>4. errors' = out.errors \o Expected(line).errors
    BY <1>4, <1>5, <1>9, <2>1, <2>2, ResultFields, AppendIsConcat
  <2>5. DecoderTypeOK'
    BY <1>1, <1>2, <1>8, <2>1 DEF DecoderTypeOK
  <2> QED
    BY <1>1, <1>7, <2>3, <2>4, <2>5 DEF DecoderInv
<1>10. CASE ~discarding /\ record = <<>>
  <2>1. record' = record /\ discarding' = discarding /\ payloads' = payloads /\ errors' = errors
    BY <1>10 DEF Flush, Becomes, Decoder
  <2>2. Expected(line) = Nothing
    <3>1. line = <<>> /\ Len(line) = 0
      BY <1>5, <1>10, EmptySeq
    <3>2. ~(Len(line) > MaxRecordBytes) /\ 1 .. Len(line) - 1 = {}
      BY <1>3, <3>1
    <3>3. Markers(line) = {}
      BY <3>2 DEF Markers
    <3> QED
      BY <3>2, <3>3 DEF Expected
  <2>3. payloads' = out.payloads \o Expected(line).payloads
    BY <1>4, <1>5, <2>1, <2>2, ResultFields, ConcatEmptySeq
  <2>4. errors' = out.errors \o Expected(line).errors
    BY <1>4, <1>5, <1>10, <2>1, <2>2, ResultFields, ConcatEmptySeq
  <2>5. DecoderTypeOK'
    BY <1>1, <1>2, <2>1 DEF DecoderTypeOK
  <2> QED
    BY <1>1, <1>7, <2>3, <2>4, <2>5 DEF DecoderInv
<1>11. CASE ~discarding /\ record # <<>>
  <2> DEFINE result == extractExtPayload(record)
  <2>1. /\ record' = <<>> /\ discarding' = discarding
        /\ payloads' = payloads \o result.payloads /\ errors' = errors \o result.errors
    BY <1>11 DEF Flush, Becomes, Decoder, finishRecord
  <2>2. result = Expected(line) /\ result \in Results
    BY <1>2, <1>5, <1>11, RecordExtracted
  <2> HIDE DEF result
  <2>3. payloads' = out.payloads \o Expected(line).payloads /\ errors' = out.errors \o Expected(line).errors
    BY <1>5, <1>11, <2>1, <2>2
  <2>4. /\ payloads \o result.payloads \in Seq(Seq(Symbols))
        /\ errors \o result.errors \in Seq({"too long", "malformed"})
    <3>1. result.payloads \in Seq(Seq(Symbols)) /\ result.errors \in Seq({"too long", "malformed"})
      BY <2>2, JoinedResults
    <3> QED
      BY <1>2, <3>1, ConcatProperties
  <2>5. DecoderTypeOK'
    BY <1>1, <1>2, <1>8, <1>11, <2>1, <2>4 DEF DecoderTypeOK
  <2> QED
    BY <1>1, <1>7, <2>3, <2>5 DEF DecoderInv
<1> QED
    BY <1>2, <1>9, <1>10, <1>11

LEMMA DecoderRests ==
    ASSUME DecoderInv, UNCHANGED decoderVars
    PROVE  DecoderInv'
BY DEF DecoderInv, DecoderTypeOK, DecoderMatches, Unfinished, Decoder, decoderVars

\* The inductive invariant holds.
LEMMA DecoderKeeps == DecoderSpec => []DecoderInv
<1>1. DecoderInit => DecoderInv
    BY DecoderBegins
<1>2. DecoderInv /\ [DecoderNext]_decoderVars => DecoderInv'
    BY FeedDecodes, FlushDecodes, NewSessionDecodes, DecoderRests DEF DecoderNext
<1> QED
    BY <1>1, <1>2, PTL DEF DecoderSpec

\* A decoder never holds more bytes than its limit, and nothing of a record that it
\* discards.
THEOREM DecoderTypeCorrect == DecoderSpec => []DecoderTypeOK
<1>1. DecoderInv => DecoderTypeOK
    BY DEF DecoderInv
<1> QED
    BY <1>1, DecoderKeeps, PTL

\* Whatever the node prints, wherever the reads end and however large the limit is,
\* the payloads and errors are those of the lines of the input.
THEOREM RecordsDecoded == DecoderSpec => []DecoderMatches
BY DecodedMatches, DecoderKeeps, PTL

----------------------------------------------------------------------------
(* UdpLink: what Forward and the workers keep. *)

\* What a target has been given, part by part: written, being written, queued.
InOrder(t) ==
    /\ \A i, j \in 1 .. Len(attempted[t]) : i < j => attempted[t][i] < attempted[t][j]
    /\ \A i, j \in 1 .. Len(ch[t]) : i < j => ch[t][i] < ch[t][j]
    /\ \A i \in 1 .. Len(attempted[t]), j \in 1 .. Len(ch[t]) : attempted[t][i] < ch[t][j]
    /\ taken[t] # 0 =>
           /\ \A i \in 1 .. Len(attempted[t]) : attempted[t][i] < taken[t]
           /\ \A j \in 1 .. Len(ch[t]) : taken[t] < ch[t][j]

\* None of it is newer than d.
UpTo(t, d) ==
    /\ \A i \in 1 .. Len(attempted[t]) : attempted[t][i] <= d
    /\ \A j \in 1 .. Len(ch[t]) : ch[t][j] <= d
    /\ taken[t] <= d

\* d is among it.
Has(t, d) ==
    \/ \E i \in 1 .. Len(attempted[t]) : attempted[t][i] = d
    \/ \E j \in 1 .. Len(ch[t]) : ch[t][j] = d
    \/ taken[t] = d

\* Where Forward stands: a select after the first has a target, and the third
\* finds room, for only Forward fills the channel.
Control ==
    /\ listening = "forwarding" => datagram > 0
    /\ step # "enqueue" => listening = "forwarding" /\ target \in Targets
    /\ step = "retry" => Len(ch[target]) < ChannelCap

\* Who writes has not returned, and connections are closed when all have.
Workers ==
    /\ \A t \in Targets : taken[t] # 0 => t \in working
    /\ forwarder = "closed" => working = {}

\* The targets that Forward has not come to yet have older datagrams only.
Ahead(t) == listening = "forwarding" /\ target <= t

Queues ==
    \A t \in Targets :
        /\ InOrder(t)
        /\ UpTo(t, IF Ahead(t) THEN datagram - 1 ELSE datagram)
        /\ Past(t) => Has(t, datagram)

IInv == UdpLinkTypeOK /\ Control /\ Workers /\ Queues

USE UdpLinkAssumption

----------------------------------------------------------------------------
LEMMA InitInvariant == UdpLinkInit => IInv
<1> SUFFICES ASSUME UdpLinkInit PROVE IInv
    OBVIOUS
<1>1. UdpLinkTypeOK
    BY DEF UdpLinkInit, UdpLinkTypeOK, Targets
<1>2. Control /\ Workers
    BY DEF UdpLinkInit, Control, Workers
<1>3. Queues
    BY DEF UdpLinkInit, Queues, InOrder, UpTo, Has, Ahead, Past, Targets
<1> QED
    BY <1>1, <1>2, <1>3 DEF IInv

\* What the steps that follow know of the state.
LEMMA Typed ==
    ASSUME IInv
    PROVE  /\ datagram \in Nat /\ target \in Nat
           /\ \A t \in Targets :
                  /\ t \in Nat /\ taken[t] \in Nat
                  /\ ch[t] \in Seq(Nat) /\ attempted[t] \in Seq(Nat)
                  /\ Len(ch[t]) <= ChannelCap
<1>1. \A s \in Seq(Datagrams) : s \in Seq(Nat)
    BY DEF Datagrams
<1> QED
    BY <1>1 DEF IInv, UdpLinkTypeOK, Targets

\* A queue that does not change stays what it is, measured by a datagram that is
\* not older.
LEMMA QueueKept ==
    ASSUME IInv, NEW t \in Targets, UNCHANGED <<ch[t], taken[t], attempted[t]>>,
           NEW d \in Int, NEW e \in Int, d <= e, UpTo(t, d)
    PROVE  InOrder(t)' /\ UpTo(t, e)' /\ \A x : Has(t, x) => Has(t, x)'
<1>1. InOrder(t)'
    BY DEF IInv, Queues, InOrder
<1>2. UpTo(t, e)'
  <2>1. /\ \A i \in 1 .. Len(attempted[t]) : attempted[t][i] \in Nat
        /\ \A j \in 1 .. Len(ch[t]) : ch[t][j] \in Nat
        /\ taken[t] \in Nat
    <3>1. attempted[t] \in Seq(Nat) /\ ch[t] \in Seq(Nat) /\ taken[t] \in Nat
      BY Typed
    <3> QED
      BY <3>1
  <2>2. \A i \in 1 .. Len(attempted[t]) : attempted[t][i] <= e
    BY <2>1 DEF UpTo
  <2>3. \A j \in 1 .. Len(ch[t]) : ch[t][j] <= e
    BY <2>1 DEF UpTo
  <2>4. taken[t] <= e
    BY <2>1 DEF UpTo
  <2> QED
    BY <2>2, <2>3, <2>4 DEF UpTo
<1>3. \A x : Has(t, x) => Has(t, x)'
    BY DEF Has
<1> QED
    BY <1>1, <1>2, <1>3

\* A step that leaves all queues and the datagram, and brings no target before one
\* that Forward has come to.
LEMMA QueuesKept ==
    ASSUME IInv, UNCHANGED <<ch, taken, attempted, datagram>>,
           \A t \in Targets : (Ahead(t)' => Ahead(t)) /\ (Past(t)' => Past(t))
    PROVE  Queues'
<1> SUFFICES ASSUME NEW t \in Targets
             PROVE  /\ InOrder(t)'
                    /\ UpTo(t, IF Ahead(t) THEN datagram - 1 ELSE datagram)'
                    /\ Past(t)' => Has(t, datagram)'
    BY DEF Queues
<1>1. InOrder(t)'
    BY DEF IInv, Queues, InOrder
<1>2. Past(t)' => Has(t, datagram)'
    BY DEF IInv, Queues, Has
<1>3. CASE Ahead(t)'
    BY <1>1, <1>2, <1>3 DEF IInv, Queues, UpTo
<1>4. CASE ~Ahead(t)'
  <2>1. UpTo(t, datagram)'
    <3>1. UpTo(t, datagram - 1) \/ UpTo(t, datagram)
      BY DEF IInv, Queues
    <3>2. datagram - 1 \in Int /\ datagram \in Int /\ datagram - 1 <= datagram
      BY Typed
    <3> QED
      BY <3>1, <3>2, QueueKept
  <2> QED
    BY <1>1, <1>2, <1>4, <2>1
<1> QED
    BY <1>3, <1>4

\* Another datagram is read: it is newer than all that a target has.
LEMMA ReadInvariant ==
    ASSUME IInv, ReadDatagram
    PROVE  IInv'
<1>1. /\ listening = "reading" /\ listening' = "forwarding"
      /\ datagram' = datagram + 1 /\ datagram < MaxDatagrams /\ target' = 1
      /\ UNCHANGED <<step, ch, taken, working, forwarder, attempted>>
    BY DEF ReadDatagram
<1>2. UdpLinkTypeOK'
    BY <1>1 DEF IInv, UdpLinkTypeOK
<1>3. Control' /\ Workers'
    BY <1>1, Typed DEF IInv, Control, Workers
<1>4. ASSUME NEW t \in Targets
      PROVE  InOrder(t)' /\ UpTo(t, datagram - 1)' /\ Ahead(t)' /\ ~Past(t)'
  <2>1. UpTo(t, datagram) /\ datagram \in Int /\ datagram' - 1 = datagram
    BY <1>1, Typed DEF IInv, Queues, Ahead
  <2>2. InOrder(t)' /\ UpTo(t, datagram - 1)'
    BY <1>1, <2>1 DEF IInv, Queues, InOrder, UpTo
  <2>3. t >= 1
    BY DEF Targets
  <2> QED
    BY <1>1, <2>2, <2>3, Typed DEF Ahead, Past
<1>5. Queues'
    BY <1>4 DEF Queues
<1> QED
    BY <1>2, <1>3, <1>5 DEF IInv

\* Steps of Listen and of Close that do not touch the queues.
LEMMA PassiveInvariant ==
    ASSUME IInv, ListenReturns \/ HandleDatagram \/ CloseDone \/ CloseConnections
    PROVE  IInv'
<1>1. UNCHANGED <<datagram, target, step, ch, taken, working, attempted>>
    BY DEF ListenReturns, HandleDatagram, CloseDone, CloseConnections
<1>2. UdpLinkTypeOK'
    BY <1>1 DEF IInv, UdpLinkTypeOK, ListenReturns, HandleDatagram, CloseDone, CloseConnections
<1>3. Control'
    BY <1>1, Typed DEF IInv, Control, Targets, ListenReturns, HandleDatagram, CloseDone,
                       CloseConnections
<1>4. Workers'
    BY <1>1 DEF IInv, Workers, ListenReturns, HandleDatagram, CloseDone, CloseConnections
<1>5. \A t \in Targets : (Ahead(t)' => Ahead(t)) /\ (Past(t)' => Past(t))
    BY <1>1, Typed DEF Ahead, Past, Targets, IInv, UdpLinkTypeOK, ListenReturns, HandleDatagram,
                       CloseDone, CloseConnections
<1>6. Queues'
    BY <1>1, <1>5, QueuesKept
<1> QED
    BY <1>2, <1>3, <1>4, <1>6 DEF IInv

----------------------------------------------------------------------------
LEMMA AppendFacts ==
    ASSUME NEW s \in Seq(Nat), NEW e \in Nat
    PROVE  /\ Append(s, e) \in Seq(Nat) /\ Len(Append(s, e)) = Len(s) + 1 /\ Len(s) \in Nat
           /\ \A i \in 1 .. Len(s) : Append(s, e)[i] = s[i] /\ s[i] \in Nat
           /\ Append(s, e)[Len(s) + 1] = e
<1> QED
    OBVIOUS

LEMMA TailFacts ==
    ASSUME NEW s \in Seq(Nat), s # <<>>
    PROVE  /\ Tail(s) \in Seq(Nat) /\ Len(s) \in Nat \ {0} /\ Len(Tail(s)) = Len(s) - 1
           /\ \A i \in 1 .. Len(s) - 1 : Tail(s)[i] = s[i + 1] /\ i + 1 \in 1 .. Len(s)
           /\ Head(s) = s[1] /\ 1 \in 1 .. Len(s)
<1> QED
    OBVIOUS

\* The queues of the targets that a step of Forward is not about: Forward may go
\* on from target q to the next.
LEMMA OtherQueues ==
    ASSUME IInv, listening = "forwarding", listening' = "forwarding",
           NEW q \in Targets, target = q, target' \in {q, q + 1}, datagram' = datagram,
           NEW t \in Targets, t # q, UNCHANGED <<ch[t], taken[t], attempted[t]>>
    PROVE  /\ InOrder(t)'
           /\ UpTo(t, IF Ahead(t) THEN datagram - 1 ELSE datagram)'
           /\ Past(t)' => Has(t, datagram)'
<1>1. (Ahead(t)' <=> Ahead(t)) /\ (Past(t)' <=> Past(t))
    BY Typed DEF Ahead, Past
<1> DEFINE d == IF Ahead(t) THEN datagram - 1 ELSE datagram
<1>2. d \in Int /\ UpTo(t, d) /\ d' = d
    BY <1>1, Typed DEF IInv, Queues
<1> HIDE DEF d
<1>3. InOrder(t)' /\ UpTo(t, d)' /\ \A x : Has(t, x) => Has(t, x)'
    BY <1>2, QueueKept DEF UpTo
<1>4. Past(t)' => Has(t, datagram)'
    BY <1>1, <1>3 DEF IInv, Queues, Has
<1> QED
    BY <1>3, <1>4 DEF d

\* Forward puts the datagram behind what the target has, which is older.
LEMMA SendInvariant ==
    ASSUME IInv, listening = "forwarding", NEW q \in Targets, target = q,
           HasRoom, Send, Advance,
           UNCHANGED <<listening, datagram, taken, working, forwarder, attempted>>
    PROVE  IInv'
<1>1. /\ q \in Nat /\ datagram \in Nat \ {0} /\ datagram \in Datagrams
      /\ ch[q] \in Seq(Nat) /\ ch[q] \in Seq(Datagrams) /\ Len(ch[q]) < ChannelCap
      /\ attempted[q] \in Seq(Nat) /\ taken[q] \in Nat
    BY Typed DEF IInv, UdpLinkTypeOK, Control, HasRoom, Datagrams
<1>2. /\ ch' = [ch EXCEPT ![q] = Append(ch[q], datagram)]
      /\ target' = q + 1 /\ step' = "enqueue"
    BY DEF Send, Advance
<1>3. UdpLinkTypeOK'
  <2>1. Append(ch[q], datagram) \in Seq(Datagrams) /\ Len(Append(ch[q], datagram)) <= ChannelCap
    BY <1>1, AppendFacts
  <2>2. /\ ch' \in [Targets -> Seq(Datagrams)]
        /\ \A t \in Targets : Len(ch'[t]) <= ChannelCap
    BY <1>1, <1>2, <2>1 DEF IInv, UdpLinkTypeOK
  <2>3. target' \in 1 .. NTargets + 1
    BY <1>1, <1>2 DEF Targets
  <2> QED
    BY <1>2, <2>2, <2>3 DEF IInv, UdpLinkTypeOK
<1>4. Control' /\ Workers'
    BY <1>2 DEF IInv, Control, Workers
<1>5. /\ InOrder(q)' /\ Has(q, datagram)'
      /\ UpTo(q, IF Ahead(q) THEN datagram - 1 ELSE datagram)'
  <2>1. /\ ch'[q] = Append(ch[q], datagram)
        /\ taken'[q] = taken[q] /\ attempted'[q] = attempted[q] /\ datagram' = datagram
    BY <1>1, <1>2 DEF IInv, UdpLinkTypeOK
  <2>2. InOrder(q) /\ UpTo(q, datagram - 1)
    BY <1>1 DEF IInv, Queues, Ahead
  <2>3. /\ Len(ch'[q]) = Len(ch[q]) + 1 /\ Len(ch[q]) \in Nat
        /\ \A i \in 1 .. Len(ch[q]) : ch'[q][i] = ch[q][i] /\ ch[q][i] \in Nat
        /\ ch'[q][Len(ch[q]) + 1] = datagram
    BY <1>1, <2>1, AppendFacts
  <2>4. \A i \in 1 .. Len(attempted[q]) : attempted[q][i] \in Nat
    BY <1>1
  <2> DEFINE n == Len(ch[q])
  <2>5. \A j \in 1 .. Len(ch'[q]) : j \in 1 .. n \/ j = n + 1
    BY <2>3
  <2>6. InOrder(q)'
    <3>1. \A j \in 1 .. n : ch[q][j] < datagram
      BY <1>1, <2>2, <2>3 DEF UpTo
    <3>2. \A i \in 1 .. Len(attempted[q]) : attempted[q][i] < datagram
      BY <1>1, <2>2, <2>4 DEF UpTo
    <3>3. \A i, j \in 1 .. Len(ch'[q]) : i < j => ch'[q][i] < ch'[q][j]
      <4> SUFFICES ASSUME NEW i \in 1 .. Len(ch'[q]), NEW j \in 1 .. Len(ch'[q]), i < j
                   PROVE  ch'[q][i] < ch'[q][j]
        OBVIOUS
      <4>1. i \in 1 .. n /\ (j \in 1 .. n \/ j = n + 1)
        BY <2>3
      <4> QED
        BY <2>2, <2>3, <3>1, <4>1 DEF InOrder
    <3>4. \A i \in 1 .. Len(attempted[q]), j \in 1 .. Len(ch'[q]) : attempted[q][i] < ch'[q][j]
      BY <2>2, <2>3, <2>5, <3>2 DEF InOrder
    <3>5. taken[q] # 0 => \A j \in 1 .. Len(ch'[q]) : taken[q] < ch'[q][j]
      <4>1. taken[q] < datagram
        BY <1>1, <2>2 DEF UpTo
      <4>2. taken[q] # 0 => \A j \in 1 .. n : taken[q] < ch[q][j]
        BY <2>2 DEF InOrder
      <4> QED
        BY <2>3, <2>5, <4>1, <4>2
    <3> QED
      BY <2>1, <2>2, <3>3, <3>4, <3>5 DEF InOrder
  <2>7. Has(q, datagram)'
    BY <2>1, <2>3 DEF Has
  <2>8. UpTo(q, datagram)'
    <3>1. \A j \in 1 .. Len(ch'[q]) : ch'[q][j] <= datagram
      <4>1. \A j \in 1 .. n : ch[q][j] <= datagram
        BY <1>1, <2>2, <2>3 DEF UpTo
      <4>2. ASSUME NEW j \in 1 .. Len(ch'[q]) PROVE ch'[q][j] <= datagram
        <5>1. CASE j \in 1 .. n
          BY <2>3, <4>1, <5>1
        <5>2. CASE j = n + 1
          BY <1>1, <2>3, <5>2
        <5> QED
          BY <2>5, <5>1, <5>2
      <4> QED
        BY <4>2
    <3>2. \A i \in 1 .. Len(attempted[q]) : attempted[q][i] <= datagram
      BY <1>1, <2>2, <2>4 DEF UpTo
    <3>3. taken[q] <= datagram
      BY <1>1, <2>2 DEF UpTo
    <3> QED
      BY <2>1, <3>1, <3>2, <3>3 DEF UpTo
  <2>9. ~Ahead(q)'
    BY <1>1, <1>2 DEF Ahead
  <2> QED
    BY <2>6, <2>7, <2>8, <2>9
<1>6. Queues'
  <2> SUFFICES ASSUME NEW t \in Targets
               PROVE  /\ InOrder(t)'
                      /\ UpTo(t, IF Ahead(t) THEN datagram - 1 ELSE datagram)'
                      /\ Past(t)' => Has(t, datagram)'
    BY DEF Queues
  <2>1. CASE t = q
    BY <1>5, <2>1
  <2>2. CASE t # q
    <3>1. UNCHANGED <<ch[t], taken[t], attempted[t]>>
      BY <1>2, <2>2 DEF IInv, UdpLinkTypeOK
    <3> QED
      BY <1>1, <1>2, <2>2, <3>1, OtherQueues
  <2> QED
    BY <2>1, <2>2
<1> QED
    BY <1>3, <1>4, <1>6 DEF IInv

\* The first select: the datagram finds room, or Forward goes on to drop one.
LEMMA EnqueueInvariant ==
    ASSUME IInv, Enqueue
    PROVE  IInv'
<1>1. listening = "forwarding" /\ target \in Targets /\ step = "enqueue"
  <2>1. target \in 1 .. NTargets + 1 /\ target <= NTargets
    BY DEF IInv, UdpLinkTypeOK, Enqueue
  <2> QED
    BY <2>1 DEF Enqueue, Targets
<1>2. CASE HasRoom /\ Send /\ Advance
    BY <1>1, <1>2, SendInvariant DEF Enqueue
<1>3. CASE ~HasRoom /\ step' = "drop" /\ UNCHANGED <<ch, target>>
  <2>1. UNCHANGED <<listening, datagram, target, ch, taken, working, forwarder, attempted>>
    BY <1>3 DEF Enqueue
  <2>2. UdpLinkTypeOK' /\ Control' /\ Workers'
    BY <1>1, <1>3, <2>1 DEF IInv, UdpLinkTypeOK, Control, Workers
  <2>3. Queues'
    BY <2>1, QueuesKept DEF Ahead, Past
  <2> QED
    BY <2>2, <2>3 DEF IInv
<1> QED
    BY <1>2, <1>3 DEF Enqueue

\* The third: as only Forward sends, it finds room and its default is never taken.
LEMMA RetryInvariant ==
    ASSUME IInv, Retry
    PROVE  IInv'
<1>1. listening = "forwarding" /\ target \in Targets /\ HasRoom
    BY DEF IInv, Control, Retry, HasRoom
<1> QED
    BY <1>1, SendInvariant DEF Retry

\* A part of what a target has is in order as the whole is.
LEMMA TailInOrder ==
    ASSUME IInv, NEW q \in Targets, ch[q] # <<>>, ch'[q] = Tail(ch[q]),
           attempted'[q] = attempted[q],
           \/ taken'[q] = taken[q]
           \/ taken[q] = 0 /\ taken'[q] = Head(ch[q])
    PROVE  InOrder(q)' /\ \A d \in Nat : UpTo(q, d) => UpTo(q, d)'
<1>1. /\ ch[q] \in Seq(Nat) /\ attempted[q] \in Seq(Nat) /\ taken[q] \in Nat
      /\ InOrder(q)
    BY Typed DEF IInv, Queues
<1>2. /\ Len(ch[q]) \in Nat \ {0} /\ Len(ch'[q]) = Len(ch[q]) - 1
      /\ \A i \in 1 .. Len(ch'[q]) : ch'[q][i] = ch[q][i + 1] /\ i + 1 \in 1 .. Len(ch[q])
      /\ Head(ch[q]) = ch[q][1] /\ 1 \in 1 .. Len(ch[q])
  <2>1. Tail(ch[q]) \in Seq(Nat)
    BY <1>1, TailFacts
  <2> QED
    BY <1>1, <2>1, TailFacts
<1>3. \A i, j \in 1 .. Len(ch'[q]) : i < j => ch'[q][i] < ch'[q][j]
  <2> SUFFICES ASSUME NEW i \in 1 .. Len(ch'[q]), NEW j \in 1 .. Len(ch'[q]), i < j
               PROVE  ch'[q][i] < ch'[q][j]
    OBVIOUS
  <2>1. i + 1 \in 1 .. Len(ch[q]) /\ j + 1 \in 1 .. Len(ch[q]) /\ i + 1 < j + 1
    BY <1>2
  <2> QED
    BY <1>1, <1>2, <2>1 DEF InOrder
<1>4. \A i \in 1 .. Len(attempted[q]), j \in 1 .. Len(ch'[q]) : attempted[q][i] < ch'[q][j]
    BY <1>1, <1>2 DEF InOrder
<1>5. taken'[q] # 0 =>
          /\ \A i \in 1 .. Len(attempted[q]) : attempted[q][i] < taken'[q]
          /\ \A j \in 1 .. Len(ch'[q]) : taken'[q] < ch'[q][j]
  <2>1. CASE taken'[q] = taken[q]
    BY <1>1, <1>2, <2>1 DEF InOrder
  <2>2. CASE taken'[q] = Head(ch[q])
    <3>1. \A j \in 1 .. Len(ch'[q]) : 1 < j + 1
      BY <1>2
    <3> QED
      BY <1>1, <1>2, <2>2, <3>1 DEF InOrder
  <2> QED
    BY <2>1, <2>2
<1>6. InOrder(q)'
    BY <1>1, <1>3, <1>4, <1>5 DEF InOrder
<1>7. \A d \in Nat : UpTo(q, d) => UpTo(q, d)'
    BY <1>1, <1>2 DEF UpTo
<1> QED
    BY <1>6, <1>7

\* The second select: what is dropped is older than the datagram.
LEMMA DropInvariant ==
    ASSUME IInv, DropOldest
    PROVE  IInv'
<1>1. PICK q \in Targets : q = target
    BY DEF IInv, Control, DropOldest
<1>2. /\ listening = "forwarding" /\ step = "drop" /\ step' = "retry"
      /\ ch' = IF ch[q] = <<>> THEN ch ELSE [ch EXCEPT ![q] = Tail(ch[q])]
      /\ UNCHANGED <<listening, datagram, target, taken, working, forwarder, attempted>>
    BY <1>1 DEF DropOldest
<1>3. /\ ch[q] \in Seq(Datagrams) /\ ch[q] \in Seq(Nat) /\ Len(ch[q]) <= ChannelCap
      /\ datagram \in Nat \ {0} /\ q \in Nat
    BY <1>1, <1>2, Typed DEF IInv, UdpLinkTypeOK, Control
<1>4. /\ ch'[q] \in Seq(Datagrams) /\ Len(ch'[q]) < ChannelCap
      /\ \A t \in Targets : t # q => ch'[t] = ch[t]
      /\ ch' \in [Targets -> Seq(Datagrams)]
  <2>1. CASE ch[q] = <<>>
    BY <1>2, <1>3, <2>1 DEF IInv, UdpLinkTypeOK
  <2>2. CASE ch[q] # <<>>
    <3>1. Tail(ch[q]) \in Seq(Datagrams) /\ Len(Tail(ch[q])) < ChannelCap
      BY <1>3, <2>2, TailFacts
    <3> QED
      BY <1>2, <2>2, <3>1 DEF IInv, UdpLinkTypeOK
  <2> QED
    BY <2>1, <2>2
<1>5. UdpLinkTypeOK'
    BY <1>2, <1>4 DEF IInv, UdpLinkTypeOK
<1>6. Control' /\ Workers'
    BY <1>1, <1>2, <1>4 DEF IInv, Control, Workers
<1>7. InOrder(q)' /\ UpTo(q, datagram - 1)' /\ Ahead(q)' /\ ~Past(q)'
  <2>1. UpTo(q, datagram - 1) /\ datagram - 1 \in Nat /\ InOrder(q)
    BY <1>1, <1>2, <1>3 DEF IInv, Queues, Ahead
  <2>2. InOrder(q)' /\ UpTo(q, datagram - 1)'
    <3>1. CASE ch[q] = <<>>
      BY <1>2, <2>1, <3>1 DEF InOrder, UpTo
    <3>2. CASE ch[q] # <<>>
      <4>1. ch'[q] = Tail(ch[q]) /\ attempted'[q] = attempted[q] /\ taken'[q] = taken[q]
        BY <1>2, <3>2 DEF IInv, UdpLinkTypeOK
      <4>2. InOrder(q)' /\ \A d \in Nat : UpTo(q, d) => UpTo(q, d)'
        BY <3>2, <4>1, TailInOrder
      <4> QED
        BY <1>2, <2>1, <4>2 DEF UpTo
    <3> QED
      BY <3>1, <3>2
  <2> QED
    BY <1>1, <1>2, <1>3, <2>2 DEF Ahead, Past
<1>8. Queues'
  <2> SUFFICES ASSUME NEW t \in Targets
               PROVE  /\ InOrder(t)'
                      /\ UpTo(t, IF Ahead(t) THEN datagram - 1 ELSE datagram)'
                      /\ Past(t)' => Has(t, datagram)'
    BY DEF Queues
  <2>1. CASE t = q
    BY <1>7, <2>1
  <2>2. CASE t # q
    BY <1>1, <1>2, <1>4, <2>2, OtherQueues
  <2> QED
    BY <2>1, <2>2
<1> QED
    BY <1>5, <1>6, <1>8 DEF IInv

----------------------------------------------------------------------------
\* A step of the worker of q, which keeps its datagrams and their order.
LEMMA WorkerQueues ==
    ASSUME IInv, NEW q \in Targets, UNCHANGED <<listening, datagram, target>>,
           \A t \in Targets : t # q => UNCHANGED <<ch[t], taken[t], attempted[t]>>,
           InOrder(q)', \A d \in Nat : UpTo(q, d) => UpTo(q, d)',
           \A d \in Nat \ {0} : Has(q, d) => Has(q, d)'
    PROVE  Queues'
<1> SUFFICES ASSUME NEW t \in Targets
             PROVE  /\ InOrder(t)'
                    /\ UpTo(t, IF Ahead(t) THEN datagram - 1 ELSE datagram)'
                    /\ Past(t)' => Has(t, datagram)'
    BY DEF Queues
<1>1. (Ahead(t)' <=> Ahead(t)) /\ (Past(t)' <=> Past(t))
    BY DEF Ahead, Past
<1>2. datagram \in Nat /\ (Ahead(t) => datagram - 1 \in Nat) /\ (Past(t) => datagram # 0)
    BY Typed DEF IInv, Control, Ahead, Past
<1> DEFINE b == IF Ahead(t) THEN datagram - 1 ELSE datagram
<1>3. b \in Nat /\ UpTo(t, b) /\ b' = b
    BY <1>1, <1>2 DEF IInv, Queues
<1>4. Past(t) => Has(t, datagram)
    BY DEF IInv, Queues
<1> HIDE DEF b
<1>5. CASE t = q
  <2>1. UpTo(t, b)'
    BY <1>3, <1>5 DEF UpTo
  <2>2. Past(t)' => Has(t, datagram)'
    BY <1>1, <1>2, <1>4, <1>5 DEF Has
  <2> QED
    BY <1>5, <2>1, <2>2 DEF b
<1>6. CASE t # q
  <2>1. UNCHANGED <<ch[t], taken[t], attempted[t]>>
    BY <1>6
  <2>2. InOrder(t)' /\ UpTo(t, b)' /\ \A x : Has(t, x) => Has(t, x)'
    BY <1>3, <2>1, QueueKept DEF UpTo
  <2>3. Past(t)' => Has(t, datagram)'
    BY <1>1, <1>4, <2>2 DEF Has
  <2> QED
    BY <2>2, <2>3 DEF b
<1> QED
    BY <1>5, <1>6

\* A worker takes the oldest datagram, which is then newer than all it has written.
LEMMA TakeInvariant ==
    ASSUME IInv, NEW q \in Targets, TakeDatagram(q)
    PROVE  IInv'
<1>1. /\ q \in working /\ taken[q] = 0 /\ ch[q] # <<>>
      /\ taken' = [taken EXCEPT ![q] = Head(ch[q])] /\ ch' = [ch EXCEPT ![q] = Tail(ch[q])]
      /\ UNCHANGED <<listening, datagram, target, step, working, forwarder, attempted>>
    BY DEF TakeDatagram
<1>2. /\ ch[q] \in Seq(Datagrams) /\ ch[q] \in Seq(Nat) /\ Len(ch[q]) <= ChannelCap
      /\ datagram \in Nat
    BY Typed DEF IInv, UdpLinkTypeOK
<1>3. /\ ch'[q] = Tail(ch[q]) /\ taken'[q] = Head(ch[q])
      /\ \A t \in Targets : t # q => ch'[t] = ch[t] /\ taken'[t] = taken[t]
    BY <1>1 DEF IInv, UdpLinkTypeOK
<1>4. /\ Tail(ch[q]) \in Seq(Datagrams) /\ Len(Tail(ch[q])) < Len(ch[q]) /\ Len(ch[q]) \in Nat
      /\ Len(Tail(ch[q])) \in Nat /\ Head(ch[q]) \in Datagrams
    BY <1>1, <1>2, TailFacts
<1>5. UdpLinkTypeOK'
  <2>1. ch' \in [Targets -> Seq(Datagrams)] /\ taken' \in [Targets -> 0 .. MaxDatagrams]
    BY <1>1, <1>4 DEF IInv, UdpLinkTypeOK, Datagrams
  <2>2. ASSUME NEW t \in Targets PROVE Len(ch'[t]) <= ChannelCap
    <3>1. CASE t = q
      <4>1. Len(Tail(ch[q])) <= ChannelCap
        BY <1>2, <1>4
      <4> QED
        BY <1>3, <3>1, <4>1
    <3>2. CASE t # q
      BY <1>3, <3>2, Typed
    <3> QED
      BY <3>1, <3>2
  <2> QED
    BY <1>1, <2>1, <2>2 DEF IInv, UdpLinkTypeOK
<1>6. Control'
  <2>1. step' = "retry" => Len(ch'[target']) < ChannelCap
    BY <1>1, <1>2, <1>3, <1>4, Typed DEF IInv, Control
  <2> QED
    BY <1>1, <2>1 DEF IInv, Control
<1>7. Workers'
    BY <1>1, <1>3 DEF IInv, Workers
<1>8. \A t \in Targets : (Ahead(t)' <=> Ahead(t)) /\ (Past(t)' <=> Past(t))
    BY <1>1 DEF Ahead, Past
<1>9. InOrder(q)' /\ \A d \in Nat : UpTo(q, d) => UpTo(q, d)'
    BY <1>1, <1>3, TailInOrder
<1>10. \A d \in Nat \ {0} : Has(q, d) => Has(q, d)'
  <2> SUFFICES ASSUME NEW d \in Nat \ {0}, NEW j \in 1 .. Len(ch[q]), ch[q][j] = d
               PROVE  Has(q, d)'
    BY <1>1, Typed DEF Has
  <2>1. CASE j = 1
    BY <1>1, <1>2, <1>3, <2>1, TailFacts DEF Has
  <2>2. CASE j # 1
    <3>1. j - 1 \in 1 .. Len(Tail(ch[q])) /\ Tail(ch[q])[j - 1] = ch[q][(j - 1) + 1]
      BY <1>1, <1>2, <2>2, TailFacts
    <3>2. (j - 1) + 1 = j
      BY <1>2
    <3> QED
      BY <1>3, <3>1, <3>2 DEF Has
  <2> QED
    BY <2>1, <2>2
<1>11. Queues'
    BY <1>1, <1>3, <1>9, <1>10, WorkerQueues
<1> QED
    BY <1>5, <1>6, <1>7, <1>11 DEF IInv

\* It has written one, which is newer than those before it.
LEMMA WriteInvariant ==
    ASSUME IInv, NEW q \in Targets, WriteDatagram(q)
    PROVE  IInv'
<1>1. /\ taken[q] # 0
      /\ attempted' = [attempted EXCEPT ![q] = Append(attempted[q], taken[q])]
      /\ taken' = [taken EXCEPT ![q] = 0]
      /\ UNCHANGED <<listening, datagram, target, step, ch, working, forwarder>>
    BY DEF WriteDatagram
<1>2. /\ taken[q] \in Datagrams /\ taken[q] \in Nat /\ attempted[q] \in Seq(Datagrams)
      /\ attempted[q] \in Seq(Nat) /\ ch[q] \in Seq(Nat) /\ InOrder(q)
    BY <1>1, Typed DEF IInv, UdpLinkTypeOK, Datagrams, Queues
<1>3. /\ attempted'[q] = Append(attempted[q], taken[q]) /\ taken'[q] = 0
      /\ \A t \in Targets : t # q => attempted'[t] = attempted[t] /\ taken'[t] = taken[t]
    BY <1>1 DEF IInv, UdpLinkTypeOK
<1>4. UdpLinkTypeOK'
  <2>1. Append(attempted[q], taken[q]) \in Seq(Datagrams)
    BY <1>2
  <2>2. attempted' \in [Targets -> Seq(Datagrams)]
    BY <1>1, <2>1 DEF IInv, UdpLinkTypeOK
  <2>3. taken' \in [Targets -> 0 .. MaxDatagrams]
    BY <1>1 DEF IInv, UdpLinkTypeOK
  <2> QED
    BY <1>1, <2>2, <2>3 DEF IInv, UdpLinkTypeOK
<1>5. Control' /\ Workers'
    BY <1>1, <1>3 DEF IInv, Control, Workers
<1> DEFINE n == Len(attempted[q])
<1>6. /\ Len(attempted'[q]) = n + 1 /\ n \in Nat
      /\ \A i \in 1 .. n : attempted'[q][i] = attempted[q][i] /\ attempted[q][i] \in Nat
      /\ attempted'[q][n + 1] = taken[q]
      /\ \A i \in 1 .. n + 1 : i \in 1 .. n \/ i = n + 1
    BY <1>2, <1>3, AppendFacts
<1>7. InOrder(q)'
  <2>1. \A i, j \in 1 .. n + 1 : i < j => attempted'[q][i] < attempted'[q][j]
    <3> SUFFICES ASSUME NEW i \in 1 .. n + 1, NEW j \in 1 .. n + 1, i < j
                 PROVE  attempted'[q][i] < attempted'[q][j]
      OBVIOUS
    <3>1. i \in 1 .. n /\ (j \in 1 .. n \/ j = n + 1)
      BY <1>6
    <3> QED
      BY <1>1, <1>2, <1>6, <3>1 DEF InOrder
  <2>2. \A i \in 1 .. n + 1, j \in 1 .. Len(ch[q]) : attempted'[q][i] < ch[q][j]
    BY <1>1, <1>2, <1>6 DEF InOrder
  <2>3. \A i, j \in 1 .. Len(ch[q]) : i < j => ch[q][i] < ch[q][j]
    BY <1>2 DEF InOrder
  <2> HIDE DEF n
  <2> QED
    BY <1>1, <1>3, <1>6, <2>1, <2>2, <2>3 DEF InOrder
<1>8. ASSUME NEW d \in Nat, UpTo(q, d) PROVE UpTo(q, d)'
  <2>1. \A i \in 1 .. n + 1 : attempted'[q][i] <= d
    BY <1>6, <1>8 DEF UpTo
  <2> HIDE DEF n
  <2> QED
    BY <1>1, <1>3, <1>6, <1>8, <2>1 DEF UpTo
<1>9. \A d \in Nat \ {0} : Has(q, d) => Has(q, d)'
  <2>1. \A i \in 1 .. n : i \in 1 .. n + 1
    BY <1>6
  <2>2. n + 1 \in 1 .. n + 1
    BY <1>6
  <2> HIDE DEF n
  <2>3. ASSUME NEW d \in Nat \ {0}, Has(q, d) PROVE Has(q, d)'
    <3>1. CASE \E i \in 1 .. Len(attempted[q]) : attempted[q][i] = d
      BY <1>6, <2>1, <3>1 DEF Has, n
    <3>2. CASE \E j \in 1 .. Len(ch[q]) : ch[q][j] = d
      BY <1>1, <3>2 DEF Has
    <3>3. CASE taken[q] = d
      BY <1>6, <2>2, <3>3 DEF Has
    <3> QED
      BY <2>3, <3>1, <3>2, <3>3 DEF Has
  <2> QED
    BY <2>3
<1>10. Queues'
    BY <1>1, <1>3, <1>7, <1>8, <1>9, WorkerQueues
<1> QED
    BY <1>4, <1>5, <1>10 DEF IInv

\* A worker leaves, or the process starts again.
LEMMA OtherInvariant ==
    ASSUME IInv, New \/ \E q \in Targets : WorkerReturns(q)
    PROVE  IInv'
<1>1. CASE New
  <2>1. UdpLinkTypeOK'
    BY <1>1 DEF New, UdpLinkTypeOK, Targets
  <2>2. Control' /\ Workers' /\ Queues'
    BY <1>1 DEF New, Control, Workers, Queues, InOrder, UpTo, Has, Ahead, Past, Targets
  <2> QED
    BY <2>1, <2>2 DEF IInv
<1>2. CASE \E q \in Targets : WorkerReturns(q)
  <2>1. PICK q \in Targets : WorkerReturns(q)
    BY <1>2
  <2>2. /\ q \in working /\ taken[q] = 0 /\ forwarder # "open" /\ working' = working \ {q}
        /\ UNCHANGED <<listening, datagram, target, step, ch, taken, forwarder, attempted>>
    BY <2>1 DEF WorkerReturns
  <2>3. UdpLinkTypeOK' /\ Control' /\ Workers'
    BY <2>2 DEF IInv, UdpLinkTypeOK, Control, Workers
  <2>4. Queues'
    BY <2>2, QueuesKept DEF Ahead, Past
  <2> QED
    BY <2>3, <2>4 DEF IInv
<1> QED
    BY <1>1, <1>2

LEMMA StepInvariant == IInv /\ [UdpLinkNext]_udpVars => IInv'
<1> SUFFICES ASSUME IInv, [UdpLinkNext]_udpVars PROVE IInv'
    OBVIOUS
<1>1. ASSUME ReadDatagram PROVE IInv'
    BY <1>1, ReadInvariant
<1>2. ASSUME ListenReturns \/ HandleDatagram \/ CloseDone \/ CloseConnections PROVE IInv'
    BY <1>2, PassiveInvariant
<1>3. ASSUME Enqueue \/ DropOldest \/ Retry PROVE IInv'
    BY <1>3, EnqueueInvariant, DropInvariant, RetryInvariant
<1>4. ASSUME NEW q \in Targets, TakeDatagram(q) \/ WriteDatagram(q) PROVE IInv'
    BY <1>4, TakeInvariant, WriteInvariant
<1>5. ASSUME New \/ \E q \in Targets : WorkerReturns(q) PROVE IInv'
    BY <1>5, OtherInvariant
<1>6. ASSUME UNCHANGED udpVars PROVE IInv'
    BY <1>6 DEF udpVars, IInv, UdpLinkTypeOK, Control, Workers, Queues, InOrder, UpTo, Has,
                Ahead, Past
<1> QED
    BY <1>1, <1>2, <1>3, <1>4, <1>5, <1>6 DEF UdpLinkNext

----------------------------------------------------------------------------
\* The parts of Given are in order, so that it is as a whole.
LEMMA GivenInOrder ==
    ASSUME IInv, NEW t \in Targets
    PROVE  /\ \A i, j \in DOMAIN Given(t) : i < j => Given(t)[i] < Given(t)[j]
           /\ Past(t) => \E i \in DOMAIN Given(t) : Given(t)[i] = datagram
<1> DEFINE a == attempted[t]
           w == IF taken[t] = 0 THEN <<>> ELSE <<taken[t]>>
           c == ch[t]
<1>1. /\ a \in Seq(Nat) /\ c \in Seq(Nat) /\ w \in Seq(Nat) /\ taken[t] \in Nat
      /\ InOrder(t) /\ Given(t) = a \o w \o c
    BY Typed DEF IInv, Queues, Given
<1>2. /\ Len(a) \in Nat /\ Len(c) \in Nat /\ Len(w) \in {0, 1}
      /\ Len(w) = 1 => w[1] = taken[t] /\ taken[t] # 0
      /\ taken[t] # 0 => Len(w) = 1
      /\ DOMAIN a = 1 .. Len(a) /\ DOMAIN c = 1 .. Len(c)
    BY <1>1
<1> HIDE DEF a, w, c
<1> DEFINE n == Len(a)
           m == n + Len(w)
<1>3. /\ DOMAIN Given(t) = 1 .. m + Len(c)
      /\ \A i \in 1 .. m + Len(c) :
             /\ i <= n => Given(t)[i] = a[i]
             /\ n < i /\ i <= m => Given(t)[i] = w[i - n]
             /\ m < i => Given(t)[i] = c[i - m]
  <2> DEFINE aw == a \o w
  <2>1. /\ aw \in Seq(Nat) /\ Len(aw) = m
        /\ \A i \in 1 .. n : aw[i] = a[i]
        /\ \A i \in 1 .. m : n < i => aw[i] = w[i - n]
    BY <1>1
  <2>2. Given(t) = aw \o c
    BY <1>1
  <2> HIDE DEF aw
  <2>3. /\ DOMAIN Given(t) = 1 .. m + Len(c)
        /\ \A i \in 1 .. m : Given(t)[i] = aw[i]
        /\ \A i \in 1 .. m + Len(c) : m < i => Given(t)[i] = c[i - m]
    <3>1. aw \in Seq(Nat) /\ c \in Seq(Nat) /\ Len(aw) = m
      BY <1>1, <2>1
    <3> HIDE DEF m
    <3> QED
      BY <2>2, <3>1
  <2> QED
    BY <1>2, <2>1, <2>3
<1>4. /\ \A i \in 1 .. n : /\ i \in 1 .. m + Len(c) /\ Given(t)[i] = a[i] /\ a[i] \in Nat
      /\ Len(w) = 1 => /\ m = n + 1 /\ m \in 1 .. m + Len(c) /\ Given(t)[m] = taken[t]
      /\ Len(w) = 0 => m = n
      /\ \A j \in 1 .. Len(c) : m + j \in 1 .. m + Len(c) /\ Given(t)[m + j] = c[j] /\ c[j] \in Nat
  <2>1. \A i \in 1 .. n : /\ i \in 1 .. m + Len(c) /\ Given(t)[i] = a[i] /\ a[i] \in Nat
    BY <1>1, <1>2, <1>3
  <2>2. Len(w) = 1 => /\ m = n + 1 /\ m \in 1 .. m + Len(c) /\ Given(t)[m] = taken[t]
    <3> SUFFICES ASSUME Len(w) = 1
                 PROVE  m = n + 1 /\ m \in 1 .. m + Len(c) /\ Given(t)[m] = taken[t]
      OBVIOUS
    <3>1. m = n + 1 /\ m \in 1 .. m + Len(c) /\ m - n = 1
      BY <1>2
    <3> QED
      BY <1>2, <1>3, <3>1
  <2>3. Len(w) = 0 => m = n
    BY <1>2
  <2>4. ASSUME NEW j \in 1 .. Len(c)
        PROVE  m + j \in 1 .. m + Len(c) /\ Given(t)[m + j] = c[j] /\ c[j] \in Nat
    <3>1. m + j \in 1 .. m + Len(c) /\ m < m + j /\ (m + j) - m = j
      BY <1>2
    <3>2. Given(t)[m + j] = c[(m + j) - m]
      BY <1>3, <3>1
    <3> QED
      BY <1>1, <3>1, <3>2
  <2> QED
    BY <2>1, <2>2, <2>3, <2>4
<1>5. /\ m \in Nat /\ n \in Nat
      /\ \A i \in 1 .. m + Len(c) :
             \/ i \in 1 .. n
             \/ i = m /\ m = n + 1 /\ Len(w) = 1
             \/ i - m \in 1 .. Len(c) /\ i = m + (i - m)
  <2>1. m = n \/ (m = n + 1 /\ Len(w) = 1)
    BY <1>2, <1>4
  <2>2. m \in Nat /\ n \in Nat /\ Len(c) \in Nat
    BY <1>2
  <2> HIDE DEF n, m
  <2> QED
    BY <2>1, <2>2
<1>6. /\ \A i, j \in 1 .. n : i < j => a[i] < a[j]
      /\ \A i, j \in 1 .. Len(c) : i < j => c[i] < c[j]
      /\ \A i \in 1 .. n, j \in 1 .. Len(c) : a[i] < c[j]
      /\ Len(w) = 1 =>
             /\ \A i \in 1 .. n : a[i] < taken[t]
             /\ \A j \in 1 .. Len(c) : taken[t] < c[j]
    BY <1>1, <1>2 DEF InOrder, a, c
<1> HIDE DEF n, m
<1>7. ASSUME NEW i \in 1 .. m + Len(c), NEW j \in 1 .. m + Len(c), i < j
      PROVE  Given(t)[i] < Given(t)[j]
  <2>1. CASE i \in 1 .. n
    <3>1. Given(t)[i] = a[i]
      BY <1>4, <2>1
    <3>2. CASE j \in 1 .. n
      BY <1>4, <1>6, <1>7, <2>1, <3>1, <3>2
    <3>3. CASE j = m /\ Len(w) = 1
      BY <1>4, <1>6, <2>1, <3>1, <3>3
    <3>4. CASE j - m \in 1 .. Len(c) /\ j = m + (j - m)
      BY <1>4, <1>6, <2>1, <3>1, <3>4
    <3> QED
      BY <1>5, <3>2, <3>3, <3>4
  <2>2. CASE i = m /\ m = n + 1 /\ Len(w) = 1
    <3>1. j - m \in 1 .. Len(c) /\ j = m + (j - m)
      BY <1>5, <1>7, <2>2
    <3> QED
      BY <1>4, <1>6, <2>2, <3>1
  <2>3. CASE i - m \in 1 .. Len(c) /\ i = m + (i - m)
    <3>1. m <= i /\ n <= m
      BY <1>2, <1>5, <2>3 DEF m
    <3>2. j - m \in 1 .. Len(c) /\ j = m + (j - m) /\ i - m < j - m
      BY <1>2, <1>5, <1>7, <2>3, <3>1
    <3> QED
      BY <1>4, <1>6, <2>3, <3>2
  <2> QED
    BY <1>5, <2>1, <2>2, <2>3
<1>8. ASSUME Past(t) PROVE \E i \in DOMAIN Given(t) : Given(t)[i] = datagram
  <2>1. Has(t, datagram) /\ datagram # 0
    BY <1>8, Typed DEF IInv, Queues, Past
  <2>2. \/ \E i \in 1 .. n : a[i] = datagram
        \/ Len(w) = 1 /\ taken[t] = datagram
        \/ \E j \in 1 .. Len(c) : c[j] = datagram
    BY <1>2, <2>1 DEF Has, a, c, n
  <2> QED
    BY <1>3, <1>4, <2>2
<1> QED
    BY <1>3, <1>7, <1>8

LEMMA NewestForwarded == IInv => ForwardedNewest
<1> SUFFICES ASSUME IInv PROVE ForwardedNewest
    OBVIOUS
<1>1. forwarder = "closed" => \A t \in Targets : taken[t] = 0
    BY DEF IInv, Workers
<1> QED
    BY <1>1, GivenInOrder DEF ForwardedNewest

\* Listen, the workers and their channels are well typed, and no channel holds more
\* than its capacity, for any number of targets and any capacity.
THEOREM UdpLinkTypeCorrect == UdpLinkSpec => []UdpLinkTypeOK
<1>1. IInv => UdpLinkTypeOK
    BY DEF IInv
<1> QED
    BY <1>1, InitInvariant, StepInvariant, PTL DEF UdpLinkSpec

\* A target gets datagrams in the order they were read and none twice, the newest is
\* in its channel when Forward returns, and Close closes no connection in use.
THEOREM NewestIsForwarded == UdpLinkSpec => []ForwardedNewest
<1> QED
    BY NewestForwarded, InitInvariant, StepInvariant, PTL DEF UdpLinkSpec
=============================================================================
