------------------------------ MODULE Messages ------------------------------
(***************************************************************************)
(* The data of an outgoing text, as internal/outbox and the send path of   *)
(* internal/httpapi tell it apart: who sends, to whom, and which text.     *)
(*                                                                         *)
(* A text is a body with an optional sequence marker "{nnn}": the node     *)
(* that transmits a direct message appends the marker, so the echo of      *)
(* "hi" may be observed as "hi{123}".  Letter case and surrounding blanks, *)
(* which the code normalises on both sides before it compares, are         *)
(* abstracted: equal model values stand for texts equal after that.        *)
(***************************************************************************)
EXTENDS Naturals

CONSTANTS
    Sources,        \* callsigns of this station and of its peers
    Destinations,   \* callsigns, channels and the broadcast address
    Bodies,         \* message bodies
    Markers,        \* sequence numbers a node may append
    NoMarker,       \* the text carries no sequence marker
    Times           \* values of CreatedAt

ASSUME MarkerAssumption == NoMarker \notin Markers
ASSUME TimesAssumption == Times \subseteq Nat

Texts == [body : Bodies, marker : Markers \cup {NoMarker}]

\* What outbox.matchKey concatenates.
Keys == [source : Sources, destination : Destinations, text : Texts]

\* A PendingMessage: its key and its CreatedAt.
Requests == [key : Keys, at : Times]

\* The observed text is the sent one, or the sent one with a marker appended.
messageMatches(text, observed) ==
    \/ observed = text
    \/ /\ text.marker = NoMarker
       /\ observed.marker # NoMarker
       /\ observed.body = text.body

\* The test Confirm's scan applies to one pending message.
Matches(request, key) ==
    /\ request.key.source = key.source
    /\ request.key.destination = key.destination
    /\ messageMatches(request.key.text, key.text)
=============================================================================
