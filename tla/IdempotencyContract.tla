------------------------ MODULE IdempotencyContract ------------------------
(***************************************************************************)
(* What IdempotencyStore promises the interceptor, and the interceptor its *)
(* clients, with no table, no statements and no clock: a claim on an       *)
(* identity is taken atomically before a handler runs, is finalized or     *)
(* given up by the request that took it, and may lapse only once that      *)
(* request no longer runs.  Idempotency implements it (Contract!Spec).     *)
(***************************************************************************)
CONSTANTS Requests, Identities, Hashes, None

VARIABLES
    req,      \* what each request presents
    claims,   \* unexpired reservations: who took them, whether finalized
    running,  \* requests between `started` and their answer
    answer    \* what the client was told

contractVars == <<req, claims, running, answer>>

Claimed(r) == {c \in claims : req[c.by].identity = req[r].identity}

Tell(r, kind, from) ==
    answer' = [answer EXCEPT ![r] = [kind |-> kind, from |-> from]]

Waiting(r) == r \notin running /\ answer[r].kind = "none"

\* Nobody claims the identity of r, and nobody runs for it.
Available(r) ==
    /\ Claimed(r) = {}
    /\ \A other \in running : req[other].identity # req[r].identity

ContractInit ==
    /\ req \in [Requests -> [identity : Identities, hash : Hashes]]
    /\ claims = {}
    /\ running = {}
    /\ answer = [r \in Requests |-> [kind |-> "none", from |-> None]]

-----------------------------------------------------------------------------
\* The route is not idempotent, or the header is missing.
Bypass(r) ==
    /\ Waiting(r)
    /\ Tell(r, "passed", r) \/ Tell(r, "bad_request", None)
    /\ UNCHANGED <<req, claims, running>>

\* `started`: the claim and the right to run are taken in one step.
Claim(r) ==
    /\ Waiting(r)
    /\ Available(r)
    /\ claims' = claims \cup {[by |-> r, done |-> FALSE]}
    /\ running' = running \cup {r}
    /\ UNCHANGED <<req, answer>>

\* The claim is taken but the caller hears of an error and does not run.
ClaimUnheard(r) ==
    /\ Waiting(r)
    /\ Available(r)
    /\ claims' = claims \cup {[by |-> r, done |-> FALSE]}
    /\ Tell(r, "error", None)
    /\ UNCHANGED <<req, running>>

\* A claim stands: its response is replayed to an equal request, if it has one.
Refuse(r) ==
    /\ Waiting(r)
    /\ \E c \in Claimed(r) :
          \/ req[c.by].hash # req[r].hash /\ Tell(r, "conflict", None)
          \/ req[c.by] = req[r] /\ c.done /\ Tell(r, "replay", c.by)
          \/ req[c.by] = req[r] /\ ~ c.done /\ Tell(r, "in_progress", None)
    /\ UNCHANGED <<req, claims, running>>

\* Nothing was claimed and nothing is learnt.
Fail(r) ==
    /\ Waiting(r)
    /\ \E kind \in {"unique_violation", "error", "lost"} : Tell(r, kind, None)
    /\ UNCHANGED <<req, claims, running>>

Again(r) ==
    /\ answer[r].kind \in {"in_progress", "unique_violation", "error", "lost"}
    /\ Tell(r, "none", None)
    /\ UNCHANGED <<req, claims, running>>

-----------------------------------------------------------------------------
Finalize(r) ==
    claims' = (claims \ {[by |-> r, done |-> FALSE]})
                  \cup {[by |-> r, done |-> TRUE]}

\* The response is stored and returned.
Finish(r) ==
    /\ r \in running
    /\ Finalize(r)
    /\ running' = running \ {r}
    /\ Tell(r, "ok", r)
    /\ UNCHANGED req

\* The response is stored, but the caller hears of an error.
FinishUnheard(r) ==
    /\ r \in running
    /\ Finalize(r)
    /\ UNCHANGED <<req, running, answer>>

\* A claim not finalized is given up; a finalized one is kept.
Abandon(r) ==
    /\ r \in running
    /\ claims' = claims \ {[by |-> r, done |-> FALSE]}
    /\ running' = running \ {r}
    /\ Tell(r, "failed", None)
    /\ UNCHANGED req

\* The request ends without touching its claim.
Orphan(r) ==
    /\ r \in running
    /\ running' = running \ {r}
    /\ Tell(r, "failed", None) \/ Tell(r, "lost", None)
    /\ UNCHANGED <<req, claims>>

\* Claims of requests that no longer run lapse.
Lapse ==
    /\ claims' \in SUBSET claims
    /\ \A c \in claims \ claims' : c.by \notin running
    /\ UNCHANGED <<req, running, answer>>

ContractNext ==
    \/ \E r \in Requests :
          \/ Bypass(r) \/ Claim(r) \/ ClaimUnheard(r) \/ Refuse(r) \/ Fail(r)
          \/ Again(r) \/ Finish(r) \/ FinishUnheard(r) \/ Abandon(r)
          \/ Orphan(r)
    \/ Lapse

Spec == ContractInit /\ [][ContractNext]_contractVars

-----------------------------------------------------------------------------
(***************************************************************************)
(* What follows from the contract alone.                                   *)
(***************************************************************************)
\* There is one claim per identity, and a runner has it: nobody runs beside a
\* claim of somebody else, finalized or not.
RunnersHoldTheClaim ==
    /\ \A c, d \in claims : req[c.by].identity = req[d.by].identity => c = d
    /\ \A r \in running : \E c \in claims : c.by = r

\* "Concurrent duplicates cannot both execute side effects": of the requests
\* for one identity at most one runs.
OneRunner ==
    \A r, q \in running : req[r].identity = req[q].identity => r = q

\* Who is told somebody's response has asked for the same.
RepliesAreOfEquals ==
    \A r \in Requests : answer[r].kind = "replay" =>
        answer[r].from \in Requests /\ req[answer[r].from] = req[r]

\* A finalized claim is neither reopened nor given up: it can only lapse, and
\* not before the request that took it has been answered.
FinalizedIsKept ==
    [][\A c \in claims : c.done => c \in claims' \/ c.by \notin running]_contractVars
=============================================================================
