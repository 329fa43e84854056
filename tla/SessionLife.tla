---------------------------- MODULE SessionLife ----------------------------
(***************************************************************************)
(* What the session store of the HTTP API promises: a token is issued at   *)
(* most once, it is live from then on, and a token that is no longer live  *)
(* (revoked by its owner, expired or lost) never becomes live again.       *)
(***************************************************************************)
CONSTANT Tokens

VARIABLES
    life,       \* what a token is good for
    revoked     \* the tokens whose owners were told that they are logged out

lifeVars == <<life, revoked>>

LifeInit ==
    /\ life = [t \in Tokens |-> "unused"]
    /\ revoked = {}

\* The tokens of `lost` stop being live; storing a session may cost others.
Ended(lost, before) ==
    [t \in Tokens |-> IF t \in lost /\ before[t] = "live" THEN "over" ELSE before[t]]

Issue(t) ==
    /\ life[t] = "unused"
    /\ \E lost \in SUBSET (Tokens \ {t}) :
           life' = [Ended(lost, life) EXCEPT ![t] = "live"]
    /\ UNCHANGED revoked

\* Logging out ends the session of the token for good.
Revoke(t) ==
    /\ life[t] # "unused"
    /\ \E lost \in SUBSET Tokens :
           /\ t \in lost
           /\ life' = Ended(lost, life)
    /\ revoked' = revoked \cup {t}

\* Sessions expire, and a restart may lose them.
Lapse ==
    /\ \E lost \in SUBSET Tokens : life' = Ended(lost, life)
    /\ UNCHANGED revoked

LifeNext ==
    \/ \E t \in Tokens : Issue(t) \/ Revoke(t)
    \/ Lapse

LifeSpec == LifeInit /\ [][LifeNext]_lifeVars
=============================================================================
