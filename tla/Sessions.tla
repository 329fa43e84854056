------------------------------ MODULE Sessions ------------------------------
(***************************************************************************)
(* internal/httpapi/auth.go: the sessions of the web interface, in memory  *)
(* and in the table http_sessions.  Every operation holds sessionStore.mu  *)
(* to its end, its statements included, and is one action.                 *)
(*                                                                         *)
(* A map from token hashes to expiry times is a function on Tokens whose   *)
(* value is 0 where the map has no entry.  Operations that fail and roll   *)
(* the map back (create, delete) leave no trace and are not written down.  *)
(***************************************************************************)
EXTENDS Naturals

CONSTANTS
    Tokens,         \* the random tokens that create may draw
    SessionTTL,     \* cfg.Auth.SessionTTL
    MaxClock        \* bound on the clock

ASSUME SessionsAssumption == SessionTTL \in Nat \ {0} /\ MaxClock \in Nat

VARIABLES
    sessions,       \* s.sessions
    http_sessions,  \* the rows of the table
    serving,        \* the process runs
    clock,          \* time.Now()
    granted,        \* history: the expiry sent with a token; 0 if never issued
    revoked,        \* history: the tokens that delete has found and removed
    loadedAll       \* history: every load so far has read every live row

sessionVars == <<sessions, http_sessions, serving, clock, granted, revoked, loadedAll>>

Expiries == 0 .. (MaxClock + SessionTTL)

SessionsTypeOK ==
    /\ sessions \in [Tokens -> Expiries]
    /\ http_sessions \in [Tokens -> Expiries]
    /\ serving \in BOOLEAN
    /\ clock \in 0 .. MaxClock
    /\ granted \in [Tokens -> Expiries]
    /\ revoked \in SUBSET Tokens
    /\ loadedAll \in BOOLEAN

NoSessions == [t \in Tokens |-> 0]

SessionsInit ==
    /\ sessions = NoSessions
    /\ http_sessions = NoSessions
    /\ serving = TRUE
    /\ clock = 0
    /\ granted = NoSessions
    /\ revoked = {}
    /\ loadedAll = TRUE

\* !expiresAt.After(now): an entry that has run out.
Expired(table, t) == table[t] # 0 /\ table[t] <= clock

\* The rows that loadSQLite keeps.
LiveRows == {t \in Tokens : http_sessions[t] > clock}

----------------------------------------------------------------------------
(* Plausible bugs; none is part of SessionsNext. *)

\* The cookie is set before the session is stored.
CreateInMemoryOnly(t) ==
    /\ serving /\ granted[t] = 0
    /\ sessions' = [sessions EXCEPT ![t] = clock + SessionTTL]
    /\ granted' = [granted EXCEPT ![t] = clock + SessionTTL]
    /\ UNCHANGED <<http_sessions, serving, clock, revoked, loadedAll>>

\* Logging out forgets the row.
DeleteInMemoryOnly(t) ==
    /\ serving /\ sessions[t] # 0
    /\ sessions' = [sessions EXCEPT ![t] = 0]
    /\ revoked' = revoked \cup {t}
    /\ UNCHANGED <<http_sessions, serving, clock, granted, loadedAll>>

----------------------------------------------------------------------------
\* sessionStore.create, its persistLocked having committed: the table is
\* rewritten from memory.  A drawn token is new.
Create(t) ==
    /\ serving /\ granted[t] = 0
    /\ sessions' = [sessions EXCEPT ![t] = clock + SessionTTL]
    /\ http_sessions' = sessions'
    /\ granted' = [granted EXCEPT ![t] = clock + SessionTTL]
    /\ UNCHANGED <<serving, clock, revoked, loadedAll>>

\* sessionStore.delete of a token in memory, committed.  A token that is not in
\* memory is answered alike and changes nothing, not even its row.
Delete(t) ==
    /\ serving /\ sessions[t] # 0
    /\ sessions' = [sessions EXCEPT ![t] = 0]
    /\ http_sessions' = sessions'
    /\ revoked' = revoked \cup {t}
    /\ UNCHANGED <<serving, clock, granted, loadedAll>>

\* What valid and evictExpired do with expired entries: they leave memory, and
\* the error of rewriting the table is ignored.
Drop(gone) ==
    /\ serving
    /\ sessions' = [t \in Tokens |-> IF t \in gone THEN 0 ELSE sessions[t]]
    /\ http_sessions' \in {sessions', http_sessions}
    /\ UNCHANGED <<serving, clock, granted, revoked, loadedAll>>

\* sessionStore.valid presented with an expired token; with others it only looks.
Valid(t) == Expired(sessions, t) /\ Drop({t})

EvictExpired ==
    LET gone == {t \in Tokens : Expired(sessions, t)}
    IN  gone # {} /\ Drop(gone)

\* The process ends, at any moment between two operations.
Halt ==
    /\ serving
    /\ serving' = FALSE
    /\ sessions' = NoSessions
    /\ UNCHANGED <<http_sessions, clock, granted, revoked, loadedAll>>

\* sessionStore.load at the start of the process.  A query that fails reads
\* nothing, a scan that fails keeps the rows before it, and neither is reported.
LoadSessions ==
    /\ ~serving
    /\ serving' = TRUE
    /\ \E read \in SUBSET LiveRows :
           /\ sessions' = [t \in Tokens |-> IF t \in read THEN http_sessions[t] ELSE 0]
           /\ loadedAll' = (loadedAll /\ read = LiveRows)
    /\ UNCHANGED <<http_sessions, clock, granted, revoked>>

SessionTick ==
    /\ clock < MaxClock
    /\ clock' = clock + 1
    /\ UNCHANGED <<sessions, http_sessions, serving, granted, revoked, loadedAll>>

SessionsNext ==
    \/ \E t \in Tokens : Create(t) \/ Delete(t) \/ Valid(t)
    \/ EvictExpired \/ Halt \/ LoadSessions \/ SessionTick

SessionsSpec == SessionsInit /\ [][SessionsNext]_sessionVars

----------------------------------------------------------------------------
(* Properties *)

\* Active sessions survive restarts until they expire (README.md:210): as long
\* as no load has failed, a session that was granted, has not been given up and
\* has time left is in the table, whatever was written since, and in memory
\* while the process runs.
SessionsSurvive ==
    loadedAll =>
        \A t \in Tokens :
            granted[t] > clock /\ t \notin revoked =>
                /\ http_sessions[t] = granted[t]
                /\ serving => sessions[t] = granted[t]

\* The life of a token, as SessionLife sees it.
Life ==
    [t \in Tokens |->
        IF granted[t] = 0 THEN "unused"
        ELSE IF sessions[t] > clock \/ http_sessions[t] > clock THEN "live" ELSE "over"]

L == INSTANCE SessionLife WITH Tokens <- Tokens, life <- Life, revoked <- revoked

\* A token that has stopped being accepted, because its owner logged out, it
\* expired or a load missed its row and the table was rewritten, is not accepted
\* again after any sequence of requests, failed statements and restarts.
SessionsEndForGood == L!LifeSpec

\* Where the revoked tokens are: nowhere.
RevokedAreGone == \A t \in revoked : sessions[t] = 0 /\ http_sessions[t] = 0
=============================================================================
