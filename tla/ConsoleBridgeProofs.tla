------------------------- MODULE ConsoleBridgeProofs -------------------------
(***************************************************************************)
(* Proofs about ConsoleBridge for any number of senders and sessions and   *)
(* any reconnect delays: what one round of Run leaves behind, over which   *)
(* sessions a text can travel, and when the back-off is reset.             *)
(***************************************************************************)
EXTENDS ConsoleBridge, FiniteSetTheorems, TLAPS

(***************************************************************************)
(* The inductive invariant.                                                *)
(***************************************************************************)
\* The steps of runSession between the opening of the endpoint and its end.
Holding == {"auth", "install", "enable", "announce", "read", "close", "remove"}

\* A port is open only in the hands of the round that opened it, and serial,
\* whose deferred close runs first, has closed it before it removes b.session.
PortsHeld ==
    /\ run \in Holding => current # 0
    /\ \A s \in Sessions : port[s] = "open" => s = current /\ run \in Holding
    /\ mode = "serial" /\ run = "remove" => port[current] # "open"

\* b.session is nil or the session of this round, from Install on and until
\* the deferred removal, which netconsole runs before the close.
SessionHeld ==
    /\ run \notin {"enable", "announce", "read", "close", "remove"} => installed = 0
    /\ run \in {"enable", "announce", "read"} => installed = current
    /\ run \in {"close", "remove"} => installed \in {0, current}
    /\ mode = "netconsole" /\ run = "close" => installed = 0

\* Whatever session a sender can hold has been authenticated before.
SendersAuthenticated ==
    /\ run = "auth" => mode = "netconsole"
    /\ mode = "netconsole" =>
        /\ run \in {"install", "enable", "announce", "read"} => current \in authenticated
        /\ installed \in {0} \cup authenticated
        /\ carried \subseteq authenticated
    /\ \A t \in Senders :
        sender[t].step \in {"write", "record", "close"} =>
            /\ sender[t].session # 0
            /\ mode = "netconsole" => sender[t].session \in authenticated

\* Time that resets the netconsole delay only passes with packet output on.
StabilityEarned ==
    mode = "netconsole" =>
        /\ run \in {"announce", "read"} => current \in enabled
        /\ lasted => current \in enabled /\ run \notin {"open", "auth", "install", "enable"}

\* The states of a SendText goroutine.
SenderRecords == [step : SenderSteps, session : {0} \cup Sessions, answer : Answers]

IInv == TypeOK /\ PortsHeld /\ SessionHeld /\ SendersAuthenticated /\ StabilityEarned

----------------------------------------------------------------------------
\* A round opens the first session that is still new; the bound keeps it one of
\* Sessions.
LEMMA NextSessionSpec ==
    ASSUME TypeOK, NextSession <= MaxSessions
    PROVE  NextSession \in Sessions
<1> DEFINE used == {s \in Sessions : port[s] # "new"}
<1>1. IsFiniteSet(Sessions)
  BY ConfigAssumption, FS_Interval DEF Sessions
<1>2. IsFiniteSet(used) /\ used \subseteq Sessions
  BY <1>1, FS_Subset
<1>3. Cardinality(used) \in Nat
  BY <1>2, FS_CardinalityType
<1> QED
  BY <1>3, ConfigAssumption DEF NextSession, Sessions

\* The delay stays between the two configured bounds and never shrinks when it
\* is doubled: neither comparison lets 2 * d pass ReconnectMax.
LEMMA NextDelaySpec ==
    ASSUME TypeOK, NEW d \in ReconnectInitial .. ReconnectMax
    PROVE  nextDelay(d) \in ReconnectInitial .. ReconnectMax /\ nextDelay(d) >= d
<1> DEFINE half == ReconnectMax \div 2
<1>1. ReconnectMax \in Nat /\ ReconnectInitial \in Nat /\ d \in Nat /\ d >= ReconnectInitial /\ d <= ReconnectMax
  BY ConfigAssumption
<1>2. half \in Nat /\ 2 * half <= ReconnectMax
  BY <1>1
<1>3. CASE mode = "serial"
  BY <1>1, <1>2, <1>3 DEF nextDelay
<1>4. CASE mode = "netconsole"
  BY <1>1, <1>2, <1>4 DEF nextDelay
<1> QED
  BY <1>3, <1>4 DEF TypeOK

LEMMA InitIInv == Init => IInv
<1> SUFFICES ASSUME Init PROVE IInv
  OBVIOUS
<1>1. TypeOK
  <2>1. delay \in ReconnectInitial .. ReconnectMax
    BY ConfigAssumption DEF Init
  <2>2. [step |-> "status", session |-> 0, answer |-> 0] \in SenderRecords
    BY DEF SenderRecords, SenderSteps, Answers
  <2>3. sender \in [Senders -> SenderRecords]
    BY <2>2 DEF Init
  <2> QED
    BY <2>1, <2>3 DEF Init, TypeOK, RunSteps, States, SenderRecords
<1>2. PortsHeld /\ SessionHeld /\ StabilityEarned
  BY DEF Init, PortsHeld, SessionHeld, StabilityEarned, Holding
<1>3. SendersAuthenticated
  BY DEF Init, SendersAuthenticated
<1> QED
  BY <1>1, <1>2, <1>3 DEF IInv

----------------------------------------------------------------------------
(***************************************************************************)
(* The steps of Run, of its watcher and of the clock.  None of them touches*)
(* a sender.                                                               *)
(***************************************************************************)
LEMMA RunStepKeepsTypes ==
    ASSUME IInv, RunStep \/ PeerStep \/ WatcherCloses \/ TimePasses \/ CancelContext
    PROVE  TypeOK'
<1> USE DEF IInv
<1>1. UNCHANGED <<mode, failed, carried, sender>>
  BY DEF RunStep, PeerStep, Connect, OpenFails, Opened, Authenticated, AuthFails, Install,
         EnableOutput, EnableFails, Announce, ReadEnds, CloseSession, RemoveSession,
         SessionLost, Waited, Leave, Return, WatcherCloses, TimePasses, CancelContext, sessionVars
<1>2. ctxDone' \in BOOLEAN /\ lasted' \in BOOLEAN
  BY DEF TypeOK, RunStep, PeerStep, Connect, OpenFails, Opened, Authenticated, AuthFails, Install,
         EnableOutput, EnableFails, Announce, ReadEnds, CloseSession, RemoveSession, runVars,
         SessionLost, Waited, Leave, Return, WatcherCloses, TimePasses, CancelContext
<1>3. run' \in RunSteps /\ status' \in States
  BY DEF TypeOK, RunSteps, States, Unwind, runVars, RunStep, PeerStep, Connect, OpenFails, Opened,
         Authenticated, AuthFails, Install, EnableOutput, EnableFails, Announce, ReadEnds,
         CloseSession, RemoveSession, SessionLost, Waited, Leave, Return, WatcherCloses,
         TimePasses, CancelContext
<1>4. /\ current' \in {0} \cup Sessions /\ installed' \in {0} \cup Sessions
      /\ port' \in [Sessions -> {"new", "open", "closed"}]
  BY NextSessionSpec
     DEF TypeOK, runVars, sessionVars, RunStep, PeerStep, Connect, OpenFails, Opened,
         Authenticated, AuthFails, Install, EnableOutput, EnableFails, Announce, ReadEnds,
         CloseSession, RemoveSession, SessionLost, Waited, Leave, Return, WatcherCloses,
         TimePasses, CancelContext
<1>5. authenticated' \in SUBSET Sessions /\ enabled' \in SUBSET Sessions
  BY DEF TypeOK, PortsHeld, Holding, runVars, sessionVars, RunStep, PeerStep, Connect, OpenFails,
         Opened, Authenticated, AuthFails, Install, EnableOutput, EnableFails, Announce, ReadEnds,
         CloseSession, RemoveSession, SessionLost, Waited, Leave, Return, WatcherCloses,
         TimePasses, CancelContext
<1>6. delay' \in ReconnectInitial .. ReconnectMax
  <2>1. CASE SessionLost
    BY <2>1, ConfigAssumption DEF TypeOK, SessionLost
  <2>2. CASE Waited
    BY <2>2, NextDelaySpec DEF TypeOK, Waited
  <2>3. CASE ~ SessionLost /\ ~ Waited
    BY <2>3
       DEF TypeOK, runVars, RunStep, PeerStep, Connect, OpenFails, Opened, Authenticated,
           AuthFails, Install, EnableOutput, EnableFails, Announce, ReadEnds, CloseSession,
           RemoveSession, Leave, Return, WatcherCloses, TimePasses, CancelContext
  <2> QED
    BY <2>1, <2>2, <2>3
<1> QED
  BY <1>1, <1>2, <1>3, <1>4, <1>5, <1>6 DEF TypeOK

LEMMA RunStepKeepsIInv ==
    ASSUME IInv, RunStep \/ PeerStep \/ WatcherCloses \/ TimePasses \/ CancelContext
    PROVE  IInv'
<1>1. TypeOK'
  BY RunStepKeepsTypes
<1> USE DEF IInv, TypeOK, PortsHeld, SessionHeld, SendersAuthenticated, StabilityEarned, Holding,
            runVars, sessionVars
<1>2. CASE Connect
  BY <1>1, <1>2 DEF Connect
<1>3. CASE OpenFails
  BY <1>1, <1>3 DEF OpenFails
<1>4. CASE Opened
  BY <1>1, <1>4, NextSessionSpec DEF Opened, Sessions
<1>5. CASE Authenticated
  BY <1>1, <1>5 DEF Authenticated
<1>6. CASE AuthFails
  BY <1>1, <1>6 DEF AuthFails, Unwind
<1>7. CASE Install
  BY <1>1, <1>7 DEF Install
<1>8. CASE EnableOutput
  BY <1>1, <1>8 DEF EnableOutput
<1>9. CASE EnableFails
  BY <1>1, <1>9 DEF EnableFails, Unwind
<1>10. CASE Announce
  BY <1>1, <1>10 DEF Announce
<1>11. CASE ReadEnds
  BY <1>1, <1>11 DEF ReadEnds, Unwind
<1>12. CASE CloseSession
  BY <1>1, <1>12 DEF CloseSession
<1>13. CASE RemoveSession
  BY <1>1, <1>13 DEF RemoveSession
<1>14. CASE SessionLost
  BY <1>1, <1>14 DEF SessionLost
<1>15. CASE Waited
  BY <1>1, <1>15 DEF Waited
<1>16. CASE Leave
  BY <1>1, <1>16 DEF Leave
<1>17. CASE Return
  BY <1>1, <1>17 DEF Return
<1>18. CASE WatcherCloses
  BY <1>1, <1>18 DEF WatcherCloses, Watched
<1>19. CASE TimePasses
  BY <1>1, <1>19 DEF TimePasses, Clock
<1>20. CASE CancelContext
  BY <1>1, <1>20 DEF CancelContext
<1> QED
  BY <1>2, <1>3, <1>4, <1>5, <1>6, <1>7, <1>8, <1>9, <1>10, <1>11, <1>12, <1>13, <1>14,
     <1>15, <1>16, <1>17, <1>18, <1>19, <1>20 DEF RunStep, PeerStep

----------------------------------------------------------------------------
(***************************************************************************)
(* The steps of SendText.  None of them touches Run or b.session.          *)
(***************************************************************************)
\* What SendText does to its own record, and to nobody else's.
LEMMA SenderMoves ==
    ASSUME TypeOK, NEW t \in Senders, SendText(t)
    PROVE  /\ UNCHANGED <<mode, ctxDone, runVars, installed, authenticated, enabled>>
           /\ sender' \in [Senders -> SenderRecords]
           /\ \A u \in Senders \ {t} : sender'[u] = sender[u]
           /\ \/ sender'[t].step \in {"session", "degrade", "done"}
              \/ sender'[t].step = "write" /\ sender'[t].session = installed /\ installed # 0
              \/ /\ sender[t].step \in {"write", "record"}
                 /\ sender'[t].step \in {"record", "close"}
                 /\ sender'[t].session = sender[t].session
<1> DEFINE r == sender[t]
<1>1. /\ sender \in [Senders -> SenderRecords]
      /\ r \in SenderRecords
      /\ installed \in {0} \cup Sessions
  BY DEF TypeOK, SenderRecords
<1>2. ASSUME NEW step \in SenderSteps, Goto(t, step)
      PROVE  /\ sender' \in [Senders -> SenderRecords]
             /\ \A u \in Senders \ {t} : sender'[u] = sender[u]
             /\ sender'[t].step = step /\ sender'[t].session = r.session
  BY <1>1, <1>2 DEF Goto, SenderRecords
<1>3. ASSUME NEW code \in Answers, Answer(t, code)
      PROVE  /\ sender' \in [Senders -> SenderRecords]
             /\ \A u \in Senders \ {t} : sender'[u] = sender[u]
             /\ sender'[t].step = "done"
  BY <1>1, <1>3 DEF Answer, SenderRecords, SenderSteps
<1>4. {"session", "record", "close", "degrade"} \subseteq SenderSteps /\ {202, 502, 503} \subseteq Answers
  BY DEF SenderSteps, Answers
<1>5. CASE ReadStatus(t)
  BY <1>2, <1>3, <1>4, <1>5 DEF ReadStatus, sessionVars
<1>6. CASE PickSession(t)
  <2>1. CASE installed = 0
    BY <1>3, <1>4, <1>6, <2>1 DEF PickSession, sessionVars
  <2>2. CASE installed # 0
    <3>1. sender' = [sender EXCEPT ![t].step = "write", ![t].session = installed]
      BY <1>6, <2>2 DEF PickSession
    <3>2. /\ sender' \in [Senders -> SenderRecords]
          /\ \A u \in Senders \ {t} : sender'[u] = sender[u]
          /\ sender'[t].step = "write" /\ sender'[t].session = installed
      BY <1>1, <3>1 DEF SenderRecords, SenderSteps
    <3> QED
      BY <1>6, <2>2, <3>2 DEF PickSession, sessionVars
  <2> QED
    BY <2>1, <2>2
<1>7. CASE WriteText(t)
  BY <1>3, <1>4, <1>7 DEF WriteText
<1>8. CASE WriteFails(t)
  BY <1>2, <1>4, <1>8 DEF WriteFails, At, sessionVars
<1>9. CASE RecordFailure(t)
  BY <1>2, <1>4, <1>9 DEF RecordFailure, At
<1>10. CASE SenderCloses(t)
  BY <1>2, <1>4, <1>10 DEF SenderCloses
<1>11. CASE SenderDegrades(t)
  BY <1>3, <1>4, <1>11 DEF SenderDegrades, sessionVars
<1> QED
  BY <1>5, <1>6, <1>7, <1>8, <1>9, <1>10, <1>11 DEF SendText

\* What SendText does to the session it holds: it closes the port, records a
\* failure or a text carried, and opens nothing.
LEMMA SenderTouches ==
    ASSUME IInv, NEW t \in Senders, SendText(t)
    PROVE  /\ status' \in States
           /\ port' \in [Sessions -> {"new", "open", "closed"}]
           /\ \A s \in Sessions : port'[s] = "open" => port[s] = "open"
           /\ failed' \in SUBSET Sessions
           /\ carried' \in SUBSET Sessions
           /\ mode = "netconsole" /\ carried \subseteq authenticated => carried' \subseteq authenticated
<1> DEFINE s == sender[t].session
<1>1. /\ s \in {0} \cup Sessions
      /\ status \in States /\ carried \in SUBSET Sessions /\ failed \in SUBSET Sessions
      /\ port \in [Sessions -> {"new", "open", "closed"}]
  BY DEF IInv, TypeOK
<1>2. sender[t].step \in {"write", "record", "close"} =>
          s \in Sessions /\ (mode = "netconsole" => s \in authenticated)
  BY <1>1 DEF IInv, SendersAuthenticated
<1>3. CASE ReadStatus(t) \/ PickSession(t) \/ WriteFails(t)
  BY <1>1, <1>3 DEF ReadStatus, PickSession, WriteFails, sessionVars
<1>4. CASE WriteText(t)
  BY <1>1, <1>2, <1>4 DEF WriteText, At
<1>5. CASE RecordFailure(t)
  BY <1>1, <1>2, <1>5 DEF RecordFailure, At
<1>6. CASE SenderCloses(t)
  BY <1>1, <1>2, <1>6 DEF SenderCloses, At
<1>7. CASE SenderDegrades(t)
  BY <1>1, <1>7 DEF SenderDegrades, States, sessionVars
<1> QED
  BY <1>3, <1>4, <1>5, <1>6, <1>7 DEF SendText

LEMMA SendTextKeepsIInv ==
    ASSUME IInv, NEW t \in Senders, SendText(t)
    PROVE  IInv'
<1>0. TypeOK
  BY DEF IInv
<1>1. TypeOK'
  BY <1>0, SenderMoves, SenderTouches DEF TypeOK, SenderRecords, runVars
<1>2. UNCHANGED <<mode, run, current, lasted, installed, authenticated, enabled>>
  BY <1>0, SenderMoves DEF runVars
<1>3. PortsHeld'
  <2>1. /\ \A s \in Sessions : port'[s] = "open" => port[s] = "open"
        /\ run = "remove" => current \in Sessions
    BY SenderTouches DEF IInv, TypeOK, PortsHeld, Holding
  <2> QED
    BY <1>2, <2>1 DEF IInv, PortsHeld
<1>4. SessionHeld' /\ StabilityEarned'
  BY <1>2 DEF IInv, SessionHeld, StabilityEarned
<1>5. SendersAuthenticated'
  <2>1. ASSUME NEW u \in Senders, sender'[u].step \in {"write", "record", "close"}
        PROVE  /\ sender'[u].session # 0
               /\ mode = "netconsole" => sender'[u].session \in authenticated
    <3>1. CASE u = t
      BY <1>0, <2>1, <3>1, SenderMoves DEF IInv, SendersAuthenticated
    <3>2. CASE u # t
      <4>1. sender'[u] = sender[u]
        BY <1>0, <3>2, SenderMoves
      <4> QED
        BY <2>1, <4>1 DEF IInv, SendersAuthenticated
    <3> QED
      BY <3>1, <3>2
  <2>2. mode = "netconsole" => carried' \subseteq authenticated
    BY SenderTouches DEF IInv, SendersAuthenticated
  <2> QED
    BY <1>2, <2>1, <2>2 DEF IInv, SendersAuthenticated
<1> QED
  BY <1>1, <1>3, <1>4, <1>5 DEF IInv

----------------------------------------------------------------------------
LEMMA NextKeepsIInv == IInv /\ [Next]_vars => IInv'
<1> SUFFICES ASSUME IInv, [Next]_vars PROVE IInv'
  OBVIOUS
<1>1. CASE RunStep \/ PeerStep \/ WatcherCloses \/ TimePasses \/ CancelContext
  BY <1>1, RunStepKeepsIInv
<1>2. CASE \E t \in Senders : SendText(t)
  BY <1>2, SendTextKeepsIInv
<1>3. CASE UNCHANGED vars
  BY <1>3 DEF vars, runVars, sessionVars, IInv, TypeOK, PortsHeld, SessionHeld,
              SendersAuthenticated, StabilityEarned, Holding
<1> QED
  BY <1>1, <1>2, <1>3 DEF Next

\* IInv holds in every reachable state.
THEOREM Invariance == Spec => []IInv
<1> QED
  BY InitIInv, NextKeepsIInv, PTL DEF Spec

\* Every variable keeps the values the code gives it; in particular the delay
\* stays between ReconnectInitial and ReconnectMax.
THEOREM Typing == Spec => []TypeOK
<1>1. IInv => TypeOK
  BY DEF IInv
<1> QED
  BY <1>1, Invariance, PTL

\* A text only ever travels over an authenticated NETConsole session.
THEOREM TextsTravelAuthenticated == Spec => []TextsAuthenticated
<1>1. IInv => TextsAuthenticated
  BY DEF IInv, SendersAuthenticated, TextsAuthenticated
<1> QED
  BY <1>1, Invariance, PTL

\* Between two rounds and after Run has returned no port is open and b.session
\* is nil.
THEOREM RoundLeavesNothing == Spec => []NothingLeftBehind
<1>1. IInv => NothingLeftBehind
  BY DEF IInv, PortsHeld, SessionHeld, Holding, NothingLeftBehind
<1> QED
  BY <1>1, Invariance, PTL

\* The back-off of netconsole is only reset by a session whose packet output
\* had been switched on.
THEOREM BackoffReset == Spec => BackoffResetsWhenConnected
<1>1. ASSUME IInv, [Next]_vars, delay' < delay, mode = "netconsole"
      PROVE  current \in enabled
  <2>1. delay \in ReconnectInitial .. ReconnectMax /\ ReconnectInitial \in Nat /\ ReconnectMax \in Nat
    BY <1>1, ConfigAssumption DEF IInv, TypeOK
  <2>2. CASE SessionLost
    BY <1>1, <2>1, <2>2 DEF SessionLost, IInv, StabilityEarned
  <2>3. CASE Waited
    <3>1. nextDelay(delay) >= delay /\ delay' = nextDelay(delay)
      BY <1>1, <2>1, <2>3, NextDelaySpec DEF IInv, Waited
    <3>2. nextDelay(delay) \in Nat
      BY <1>1, <2>1, NextDelaySpec DEF IInv
    <3> QED
      BY <1>1, <2>1, <3>1, <3>2
  <2>4. CASE ~ SessionLost /\ ~ Waited
    <3>1. ASSUME NEW t \in Senders, SendText(t)
          PROVE  delay' = delay
      BY <1>1, <3>1, SenderMoves DEF IInv, runVars
    <3>2. delay' = delay
      BY <1>1, <2>4, <3>1
         DEF Next, vars, runVars, RunStep, PeerStep, Connect, OpenFails, Opened, Authenticated,
             AuthFails, Install, EnableOutput, EnableFails, Announce, ReadEnds, CloseSession,
             RemoveSession, Leave, Return, WatcherCloses, TimePasses, CancelContext
    <3> QED
      BY <1>1, <2>1, <3>2
  <2> QED
    BY <2>2, <2>3, <2>4
<1>2. IInv /\ [Next]_vars => [delay' < delay /\ mode = "netconsole" => current \in enabled]_vars
  BY <1>1
<1> QED
  BY <1>2, Invariance, PTL DEF Spec, BackoffResetsWhenConnected
=============================================================================
