--------------------------- MODULE ConsoleDecoder ---------------------------
(***************************************************************************)
(* internal/consolecodec/decoder.go: what the console of a node prints, in *)
(* reads that end anywhere, is cut into records, and a record that carries *)
(* a marker into the JSON object behind it.                                *)
(*                                                                         *)
(* A byte is a symbol: "ext" stands for "[EXT] Out:" or "[EXT] Tele-Out:", *)
(* which a blank follows in a marker, "time" for "[00:00:00]", "open" and  *)
(* "close" for the braces, and "text" for any byte without a meaning here. *)
(***************************************************************************)
EXTENDS Integers, Sequences, FiniteSets, SequencesExt

CONSTANTS
    Reads,              \* what one read of the port or socket may return
    MaxRecordBytes,     \* b.config.MaxRecordBytes
    MaxReads            \* bound on the reads of a session

VARIABLES
    record, discarding, \* the fields of Decoder
    payloads, errors,   \* history: what Feed and Flush have returned, joined
    input,              \* history: the bytes of the session
    reads,              \* history: how many reads they came in
    flushed             \* history: Flush has been called

decoderVars == <<record, discarding, payloads, errors, input, reads, flushed>>

Symbols == {"ext", "time", "blank", "CR", "LF", "open", "close", "quote", "backslash", "text"}

ASSUME DecoderAssumption ==
    MaxRecordBytes \in Nat \ {0} /\ MaxReads \in Nat /\ Reads \subseteq Seq(Symbols)

DecoderTypeOK ==
    /\ record \in Seq(Symbols \ {"LF"}) /\ Len(record) <= MaxRecordBytes
    /\ discarding \in BOOLEAN /\ flushed \in BOOLEAN
    /\ discarding => record = <<>>
    /\ input \in Seq(Symbols)
    /\ reads \in 0 .. MaxReads
    /\ payloads \in Seq(Seq(Symbols)) /\ errors \in Seq({"too long", "malformed"})

DecoderInit ==
    /\ record = <<>> /\ discarding = FALSE
    /\ payloads = <<>> /\ errors = <<>>
    /\ input = <<>> /\ reads = 0 /\ flushed = FALSE

----------------------------------------------------------------------------
\* The places that bytes.TrimSpace does not cut off.
Kept(s) == {i \in DOMAIN s : s[i] \notin {"blank", "CR"}}

TrimSpace(s) == IF Kept(s) = {} THEN <<>> ELSE SubSeq(s, Min(Kept(s)), Max(Kept(s)))

trimCapturePrefix(s) == IF s # <<>> /\ s[1] = "time" THEN TrimSpace(Tail(s)) ELSE s

\* The body of the loop of matchingObjectEnd, for the character at a place; end is
\* what the loop returns.
Scan(st, place, character) ==
    IF st.end # 0 THEN st
    ELSE IF st.inString
         THEN [st EXCEPT !.escaped = ~st.escaped /\ character = "backslash",
                         !.inString = st.escaped \/ character # "quote"]
    ELSE CASE character = "quote" -> [st EXCEPT !.inString = TRUE]
           [] character = "open" -> [st EXCEPT !.depth = @ + 1]
           [] character = "close" -> [st EXCEPT !.depth = @ - 1,
                                            !.end = IF st.depth = 1 THEN place ELSE 0]
           [] OTHER -> st

\* 0 if the object is not complete.  The data begins with "open", so that depth does
\* not become negative.
matchingObjectEnd(data) ==
    LET scanned[i \in 0 .. Len(data)] ==
            IF i = 0 THEN [depth |-> 0, inString |-> FALSE, escaped |-> FALSE, end |-> 0]
            ELSE Scan(scanned[i - 1], i, data[i])
    IN  scanned[Len(data)].end

\* What a record adds to a DecodeResult.
Nothing == [payloads |-> <<>>, errors |-> <<>>]
MalformedExt == [payloads |-> <<>>, errors |-> <<"malformed">>]
TooLong == [payloads |-> <<>>, errors |-> <<"too long">>]
Payload(object) == [payloads |-> <<object>>, errors |-> <<>>]

\* extractExtPayload and what finishRecord adds to the result: nothing for a record
\* without a marker.
extractExtPayload(rec) ==
    LET trimmed == trimCapturePrefix(TrimSpace(rec)) IN
    IF ~IsPrefix(<<"ext", "blank">>, trimmed) THEN Nothing
    ELSE LET body == SubSeq(trimmed, 3, Len(trimmed))
             start == SelectInSeq(body, LAMBDA c : c = "open")
             object == SubSeq(body, start, Len(body))
         IN  IF start = 0 THEN MalformedExt
             ELSE IF matchingObjectEnd(object) = 0 THEN MalformedExt
             ELSE Payload(SubSeq(object, 1, matchingObjectEnd(object)))

\* finishRecord; bytes.TrimSuffix of a CR is part of what TrimSpace does.
finishRecord(d) ==
    LET result == extractExtPayload(d.record)
    IN  [d EXCEPT !.record = <<>>,
                  !.payloads = @ \o result.payloads, !.errors = @ \o result.errors]

\* A plausible bug: what follows the limit is taken for a record.
consumeByteCuts(d, value) ==
    IF value = "LF" THEN finishRecord(d)
    ELSE IF Len(d.record) >= MaxRecordBytes
         THEN [d EXCEPT !.record = <<>>, !.errors = Append(@, "too long")]
    ELSE [d EXCEPT !.record = Append(@, value)]

\* A plausible bug: the limit is compared one byte too late.
consumeByteLate(d, value) ==
    IF d.discarding THEN [d EXCEPT !.discarding = value # "LF"]
    ELSE IF value = "LF" THEN finishRecord(d)
    ELSE IF Len(d.record) > MaxRecordBytes
         THEN [d EXCEPT !.record = <<>>, !.discarding = TRUE,
                        !.errors = Append(@, "too long")]
    ELSE [d EXCEPT !.record = Append(@, value)]

consumeByte(d, value) ==
    IF d.discarding THEN [d EXCEPT !.discarding = value # "LF"]
    ELSE IF value = "LF" THEN finishRecord(d)
    ELSE IF Len(d.record) >= MaxRecordBytes
         THEN [d EXCEPT !.record = <<>>, !.discarding = TRUE,
                        !.errors = Append(@, "too long")]
    ELSE [d EXCEPT !.record = Append(@, value)]

\* The loop of Feed.
Fed(d, data) ==
    LET fed[i \in 0 .. Len(data)] == IF i = 0 THEN d ELSE consumeByte(fed[i - 1], data[i])
    IN  fed[Len(data)]

Decoder == [record |-> record, discarding |-> discarding,
            payloads |-> payloads, errors |-> errors]

Becomes(d) ==
    /\ record' = d.record /\ discarding' = d.discarding
    /\ payloads' = d.payloads /\ errors' = d.errors

Feed ==
    /\ ~flushed /\ reads < MaxReads
    /\ \E data \in Reads :
           /\ Becomes(Fed(Decoder, data))
           /\ input' = input \o data
    /\ reads' = reads + 1
    /\ UNCHANGED flushed

\* Flush, which ends what is decoded here.
Flush ==
    /\ ~flushed
    /\ IF discarding THEN Becomes([Decoder EXCEPT !.discarding = FALSE, !.record = <<>>])
       ELSE IF record = <<>> THEN Becomes(Decoder)
       ELSE Becomes(finishRecord(Decoder))
    /\ flushed' = TRUE
    /\ UNCHANGED <<input, reads>>

\* The bridges give every session a decoder of its own; what the last one still
\* holds is dropped.
NewDecoder ==
    /\ reads > 0 \/ flushed
    /\ record' = <<>> /\ discarding' = FALSE
    /\ payloads' = <<>> /\ errors' = <<>>
    /\ input' = <<>> /\ reads' = 0 /\ flushed' = FALSE

DecoderNext == Feed \/ Flush \/ NewDecoder

DecoderSpec == DecoderInit /\ [][DecoderNext]_decoderVars

----------------------------------------------------------------------------
(* The reference: the input of the session as a whole. *)

\* The line that the place n of the input is in, as far as n: it begins behind the
\* last LF.
LineTo(s, n) == SubSeq(s, Max({0} \cup {i \in 1 .. n : s[i] = "LF"}) + 1, n)

\* The backslashes right before a place, and whether they escape what is there.
Backslashes(s, i) == {j \in 1 .. i - 1 : \A k \in j .. i - 1 : s[k] = "backslash"}
Escapes(s, i) == Cardinality(Backslashes(s, i)) % 2 = 1

\* How many quotation marks of s up to each place open or close a string: all but
\* those in a string behind an odd number of backslashes.
Marks(s) ==
    LET marks[i \in 0 .. Len(s)] ==
            IF i = 0 THEN 0
            ELSE LET before == marks[i - 1]
                 IN  IF s[i] = "quote" /\ ~(before % 2 = 1 /\ Escapes(s, i)) THEN before + 1
                     ELSE before
    IN  marks

\* Where s, which begins with a brace, has closed as many as it has opened.
Braces(s, brace, e) == {j \in 1 .. e : s[j] = brace /\ Marks(s)[j] % 2 = 0}
Closings(s) ==
    {e \in DOMAIN s : Cardinality(Braces(s, "open", e)) = Cardinality(Braces(s, "close", e))}

\* Where a line has its marker: behind blanks and at most one time, before a text.
Markers(line) ==
    {i \in 1 .. Len(line) - 1 :
        /\ line[i] = "ext" /\ line[i + 1] = "blank"
        /\ \A j \in 1 .. i - 1 : j \in Kept(line) => line[j] = "time"
        /\ Cardinality({j \in 1 .. i - 1 : line[j] = "time"}) <= 1
        /\ \E j \in i + 2 .. Len(line) : j \in Kept(line)}

\* What a line should come to: the first object in it, up to the brace that closes it.
Expected(line) ==
    LET opens == {i \in DOMAIN line : line[i] = "open"}
        object == SubSeq(line, Min(opens), Len(line))
    IN  IF Len(line) > MaxRecordBytes THEN TooLong
        ELSE IF Markers(line) = {} THEN Nothing
        ELSE IF opens = {} THEN MalformedExt
        ELSE IF Closings(object) = {} THEN MalformedExt
        ELSE Payload(SubSeq(object, 1, Min(Closings(object))))

\* What the lines that have ended come to, up to each place of the input.
Outcome(s) ==
    LET outcome[n \in 0 .. Len(s)] ==
            IF n = 0 THEN Nothing
            ELSE IF s[n] # "LF" THEN outcome[n - 1]
            ELSE LET before == outcome[n - 1]
                     line == Expected(LineTo(s, n - 1))
                 IN  [payloads |-> before.payloads \o line.payloads,
                      errors |-> before.errors \o line.errors]
    IN  outcome

\* What the last line, which Flush ends, has come to so far.
Unfinished ==
    LET line == LineTo(input, Len(input))
    IN  IF flushed \/ Len(line) > MaxRecordBytes THEN Expected(line) ELSE Nothing

----------------------------------------------------------------------------
(* Properties *)

\* Wherever the reads end, whatever came before a line and however a record was
\* broken off, the payloads and the errors are those of the lines of the input:
\* an object ends at the brace that closes it outside strings, a line that is too
\* long gives one error and nothing else, and the line after it is decoded as if
\* it were the first.
DecoderMatches ==
    /\ payloads = Outcome(input)[Len(input)].payloads \o Unfinished.payloads
    /\ errors = Outcome(input)[Len(input)].errors \o Unfinished.errors

----------------------------------------------------------------------------
(* The instance that is checked. *)

\* Parts of a record, cut in the middle and across the ends of lines.
DecoderReads ==
    {<<"time", "blank">>, <<"ext", "blank">>, <<"ext", "blank", "open", "quote">>, <<"text", "open">>,
     <<"close">>, <<"quote", "close">>, <<"backslash", "quote">>, <<"backslash">>,
     <<"CR", "LF">>, <<"close", "LF", "ext">>}
=============================================================================
