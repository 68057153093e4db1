------------------------------ MODULE Sessions ------------------------------
(***************************************************************************)
(* What refresh-token rotation promises, with no rows, locks, statements or*)
(* clock: a session is opened with a token, moves from each token to a     *)
(* fresh successor in one step, and is closed for good.  RefreshTokens     *)
(* implements it (Abstract!Spec).  A session is named by its first token.  *)
(***************************************************************************)
CONSTANTS Users, Calls, None

VARIABLES
    owner,     \* the user of each session that has been opened
    current,   \* its unrevoked token, None when it is closed
    issued,    \* the tokens there have ever been
    delivered  \* those a client has received

sessionVars == <<owner, current, issued, delivered>>

Live == {s \in Calls : current[s] # None}

SessionsInit ==
    /\ owner = [s \in Calls |-> None]
    /\ current = [s \in Calls |-> None]
    /\ issued = {}
    /\ delivered = {}

\* register() and login() create a token ...
Open(s) ==
    /\ s \notin issued
    /\ \E u \in Users : owner' = [owner EXCEPT ![s] = u]
    /\ current' = [current EXCEPT ![s] = s]
    /\ issued' = issued \cup {s}
    /\ UNCHANGED delivered

\* ... and hand it over, if the access token could be signed.
Deliver(t) ==
    /\ t \in issued
    /\ delivered' = delivered \cup {t}
    /\ UNCHANGED <<owner, current, issued>>

\* refresh(): the current token gives way to a fresh one, at most once, and
\* nothing in between can be seen.  The answer may be lost.
Advance(s, t) ==
    /\ s \in Live
    /\ t \notin issued
    /\ current' = [current EXCEPT ![s] = t]
    /\ issued' = issued \cup {t}
    /\ delivered' \in {delivered, delivered \cup {t}}
    /\ UNCHANGED owner

\* logout() and reuse detection end sessions of one user; none is reopened.
Close(S) ==
    /\ \A s, r \in S : owner[s] = owner[r]
    /\ current' = [s \in Calls |-> IF s \in S THEN None ELSE current[s]]
    /\ UNCHANGED <<owner, issued, delivered>>

SessionsNext ==
    \/ \E s \in Calls : Open(s) \/ Deliver(s)
    \/ \E s, t \in Calls : Advance(s, t)
    \/ \E S \in SUBSET Live : Close(S)

Spec == SessionsInit /\ [][SessionsNext]_sessionVars

-----------------------------------------------------------------------------
(***************************************************************************)
(* What follows from it.                                                   *)
(***************************************************************************)
\* A token is the current one of one session at most, and its user's.
TokenOfOneSession ==
    /\ \A s \in Live : owner[s] \in Users
    /\ \A s, r \in Live : current[s] = current[r] => s = r

Spent == {t \in issued : \A s \in Calls : current[s] # t}

\* A token that was exchanged, or whose session was closed, is never current
\* again: presented once more, it is recognized as a reuse.
SpentForGood == [][Spent \subseteq Spent']_sessionVars
=============================================================================
