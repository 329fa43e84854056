------------------------------ MODULE Archive ------------------------------
(***************************************************************************)
(* What the daemon keeps of the traffic it hears, model-checked together:  *)
(* conversations (ChatLog), nodes (Positions) and counters (Stats).        *)
(*                                                                         *)
(* The three have tables and locks of their own and no variable in common, *)
(* so what one does is a behaviour of it whatever the others do: a         *)
(* behaviour of this module exercises one of them, chosen at its start,    *)
(* and the states of the components add up instead of multiplying.         *)
(***************************************************************************)
EXTENDS ChatLog, Positions, Stats

VARIABLE part       \* the component that moves

archiveVars == <<chatVars, positionVars, statsVars, part>>

ArchiveInit ==
    /\ part \in {"chatlog", "positions", "stats"}
    /\ ChatInit /\ PositionsInit /\ StatsInit

ArchiveNext ==
    /\ \/ part = "chatlog" /\ ChatNext /\ UNCHANGED <<positionVars, statsVars>>
       \/ part = "positions" /\ PositionsNext /\ UNCHANGED <<chatVars, statsVars>>
       \/ part = "stats" /\ StatsNext /\ UNCHANGED <<chatVars, positionVars>>
    /\ UNCHANGED part

ArchiveSpec == ArchiveInit /\ [][ArchiveNext]_archiveVars

\* Types of the three components.
ArchiveTypeOK == ChatTypeOK /\ PositionsTypeOK /\ StatsTypeOK

----------------------------------------------------------------------------
(* The instance that is checked. *)

Home1 == <<"HOME", 1>>
Home2 == <<"HOME", 2>>
Other1 == <<"OTHER", 1>>
Peer1 == <<"PEER", 1>>
Broadcast == <<"*", 0>>

\* Two devices of one operator and one of another.
ArchiveDevices == {Home1, Home2, Other1}

ATextOf(id, src, dst, seq, acks) ==
    [id |-> id, src |-> src, dst |-> dst, dm |-> dst # Broadcast, seq |-> seq, acks |-> acks,
     notice |-> FALSE, outbound |-> FALSE]

\* A text and an acknowledgement from the peer, to one device each, a failed text
\* to it, a text between the devices, a broadcast and a notice.
ArchiveTexts ==
    {ATextOf(1, Peer1, Home1, 0, 0), ATextOf(2, Peer1, Home2, 0, 7),
     [ATextOf(0, Home1, Peer1, 7, 0) EXCEPT !.outbound = TRUE],
     ATextOf(5, Home2, Home1, 0, 0), ATextOf(3, Peer1, Broadcast, 0, 0),
     [ATextOf(0, Peer1, Home1, 0, 0) EXCEPT !.notice = TRUE]}

\* Direct, through one relay, and through a relay that is not known and one that is.
ArchivePaths == {<<"A">>, <<"B">>, <<"A", "B">>, <<"A", "C", "B">>}
=============================================================================
