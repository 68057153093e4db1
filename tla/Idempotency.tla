---------------------------- MODULE Idempotency ----------------------------
(***************************************************************************)
(* The idempotency interceptor over its Prisma/Postgres store: what happens*)
(* to requests that carry an Idempotency-Key, one SQL statement at a time. *)
(*                                                                         *)
(* A request is one HTTP attempt.  `req` fixes what it presents: the       *)
(* identity (key, method, path, scope) and the hash of its fingerprint.    *)
(* Every statement the store sends to Postgres runs outside a transaction, *)
(* so each is one atomic step and steps of different requests interleave.  *)
(* Clocks are kept relative: `left` is what remains until `expiresAt`.     *)
(***************************************************************************)
EXTENDS Integers

CONSTANTS
    Requests,            \* HTTP attempts
    Identities,          \* (key, method, path, scope) tuples
    Hashes,              \* SHA-256 fingerprints of method, path and body
    TTL,                 \* app.idempotencyTtlSeconds, in ticks
    HandlersMayOverrun,  \* may a handler outlive its own reservation?
    MaxFaults,           \* bound: failed statements and crashes in a behaviour
    None                 \* no request

ASSUME TTLAssumption == TTL \in Nat \ {0}
ASSUME FaultsAssumption == MaxFaults \in Nat
ASSUME OverrunAssumption == HandlersMayOverrun \in BOOLEAN
ASSUME NoneAssumption == None \notin Requests

VARIABLES
    table,   \* the rows of IdempotencyKey
    req,     \* what each request presents
    pc,      \* where each request stands in intercept() and the store
    window,  \* time left of the reservation a request created
    answer,  \* what the client was told
    faults   \* faults so far

vars == <<table, req, pc, window, answer, faults>>

Stages == {"arrived", "reclaim", "find", "create", "reread",
           "handler", "complete", "release", "answered"}

AnswerKinds == {"none", "passed", "bad_request", "ok", "replay", "conflict",
                "in_progress", "unique_violation", "failed", "error", "lost"}

\* Answers after which the client sends the same request again.
Retryable == {"in_progress", "unique_violation", "error", "lost"}

\* Rows are identified by the request that inserted them (the cuid); `body`
\* is the request whose handler produced the stored response.
Rows == [id : Requests, identity : Identities, hash : Hashes,
         status : {"PENDING", "COMPLETED"}, body : Requests \cup {None},
         left : 0..TTL]

TypeOK ==
    /\ table \subseteq Rows
    /\ req \in [Requests -> [identity : Identities, hash : Hashes]]
    /\ pc \in [Requests -> Stages]
    /\ window \in [Requests -> 0..TTL]
    /\ answer \in [Requests -> [kind : AnswerKinds, from : Requests \cup {None}]]
    /\ faults \in 0..MaxFaults

NoAnswer == [kind |-> "none", from |-> None]

Init ==
    /\ table = {}
    /\ req \in [Requests -> [identity : Identities, hash : Hashes]]
    /\ pc = [r \in Requests |-> "arrived"]
    /\ window = [r \in Requests |-> 0]
    /\ answer = [r \in Requests |-> NoAnswer]
    /\ faults = 0

-----------------------------------------------------------------------------
(***************************************************************************)
(* Operators named X_Variant are nearby mistakes in X; nothing uses them,  *)
(* each is there to be put in X's place and be noticed by a property.      *)
(***************************************************************************)

(***************************************************************************)
(* The store's statements, as sets of rows.                                *)
(***************************************************************************)
Expired_OneTickEarly(row) == row.left <= 1
Expired(row) == row.left = 0

Releasable_AnyStatus(row) == TRUE
Releasable(row) == row.status = "PENDING"

Reclaimed_Unexpired(i) == {row \in table : row.identity # i}
Reclaimed_Nothing(i) == table
\* deleteMany of the expired rows of an identity.
Reclaimed(i) == {row \in table : ~ (row.identity = i /\ Expired(row))}

\* findFirst of the unexpired rows of an identity.
FindValid(i) == {row \in table : row.identity = i /\ ~ Expired(row)}

\* The unique index on (key, method, path, scope) covers expired rows too.
SlotTaken(i) == \E row \in table : row.identity = i

NewRow_InMilliseconds(r) ==
    [id |-> r, identity |-> req[r].identity, hash |-> req[r].hash,
     status |-> "PENDING", body |-> None, left |-> TTL * 1000]
NewRow(r) == [id |-> r, identity |-> req[r].identity, hash |-> req[r].hash,
              status |-> "PENDING", body |-> None, left |-> TTL]

Finalized_Renewed(row, r) ==
    [row EXCEPT !.status = "COMPLETED", !.body = r, !.left = TTL]
Finalized(row, r) == [row EXCEPT !.status = "COMPLETED", !.body = r]

Completed_EveryIdentity(r) == {Finalized(row, r) : row \in table}
\* updateMany by identity: neither the owner nor the status is in the where.
Completed(r) ==
    {IF row.identity = req[r].identity THEN Finalized(row, r) ELSE row :
        row \in table}

\* deleteMany of the pending rows of an identity.
Released(r) ==
    {row \in table : ~ (row.identity = req[r].identity /\ Releasable(row))}

Classify_IgnoringHash(row, hash) ==
    IF row.status = "COMPLETED" THEN "replay" ELSE "in_progress"
Classify(row, hash) ==
    IF row.hash # hash THEN "conflict"
    ELSE IF row.status = "COMPLETED" THEN "replay" ELSE "in_progress"

\* Time passing by one tick, never below zero.
Countdown(n) == IF n = 0 THEN 0 ELSE n - 1

-----------------------------------------------------------------------------
Goto(r, stage) == pc' = [pc EXCEPT ![r] = stage]

Answer(r, kind, from) ==
    /\ Goto(r, "answered")
    /\ answer' = [answer EXCEPT ![r] = [kind |-> kind, from |-> from]]

\* The answer intercept() gives for a valid row found by reserve().
AnswerFrom(r, row) ==
    LET kind == Classify(row, req[r].hash)
    IN  Answer(r, kind, IF kind = "replay" THEN row.body ELSE None)

\* The handler of r may run, is running, or is being finalized.
Holding(r) == pc[r] \in {"handler", "complete", "release"}

(***************************************************************************)
(* intercept(): a route without @RequireIdempotency goes straight to its   *)
(* handler, a request without the header is refused, any other reserves.   *)
(***************************************************************************)
PassThrough(r) ==
    /\ pc[r] = "arrived"
    /\ Answer(r, "passed", r)
    /\ UNCHANGED <<table, req, window, faults>>

RejectMissingKey(r) ==
    /\ pc[r] = "arrived"
    /\ Answer(r, "bad_request", None)
    /\ UNCHANGED <<table, req, window, faults>>

BeginReserve(r) ==
    /\ pc[r] = "arrived"
    /\ Goto(r, "reclaim")
    /\ UNCHANGED <<table, req, window, answer, faults>>

(***************************************************************************)
(* reserve(): reclaim, look, insert, and look again if the insert lost.    *)
(***************************************************************************)
ReclaimExpired(r) ==
    /\ pc[r] = "reclaim"
    /\ table' = Reclaimed(req[r].identity)
    /\ Goto(r, "find")
    /\ UNCHANGED <<req, window, answer, faults>>

FindExisting(r) ==
    /\ pc[r] = "find"
    /\ \/ /\ FindValid(req[r].identity) = {}
          /\ Goto(r, "create")
          /\ UNCHANGED answer
       \/ \E row \in FindValid(req[r].identity) : AnswerFrom(r, row)
    /\ UNCHANGED <<table, req, window, faults>>

CreatePending_Upsert(r) ==
    /\ pc[r] = "create"
    /\ table' = {row \in table : row.identity # req[r].identity} \cup {NewRow(r)}
    /\ window' = [window EXCEPT ![r] = TTL]
    /\ Goto(r, "handler")
    /\ UNCHANGED <<req, answer, faults>>

CreatePending(r) ==
    /\ pc[r] = "create"
    /\ \/ /\ ~ SlotTaken(req[r].identity)
          /\ table' = table \cup {NewRow(r)}
          /\ window' = [window EXCEPT ![r] = TTL]
          /\ Goto(r, "handler")
       \/ /\ SlotTaken(req[r].identity)
          /\ Goto(r, "reread")
          /\ UNCHANGED <<table, window>>
    /\ UNCHANGED <<req, answer, faults>>

\* The winner may be gone or expired by now: then P2002 is rethrown.
FindRacer(r) ==
    /\ pc[r] = "reread"
    /\ \/ /\ FindValid(req[r].identity) = {}
          /\ Answer(r, "unique_violation", None)
       \/ \E row \in FindValid(req[r].identity) : AnswerFrom(r, row)
    /\ UNCHANGED <<table, req, window, faults>>

(***************************************************************************)
(* The handler, complete() and release().                                  *)
(***************************************************************************)
HandlerSucceeds(r) ==
    /\ pc[r] = "handler"
    /\ Goto(r, "complete")
    /\ UNCHANGED <<table, req, window, answer, faults>>

HandlerFails_NoRelease(r) ==
    /\ pc[r] = "handler"
    /\ Answer(r, "failed", None)
    /\ UNCHANGED <<table, req, window, faults>>

HandlerFails(r) ==
    /\ pc[r] = "handler"
    /\ Goto(r, "release")
    /\ UNCHANGED <<table, req, window, answer, faults>>

Complete(r) ==
    /\ pc[r] = "complete"
    /\ table' = Completed(r)
    /\ Answer(r, "ok", r)
    /\ UNCHANGED <<req, window, faults>>

Release(r) ==
    /\ pc[r] = "release"
    /\ table' = Released(r)
    /\ window' = [window EXCEPT ![r] = 0]
    /\ Answer(r, "failed", None)
    /\ UNCHANGED <<req, faults>>

(***************************************************************************)
(* Faults.  A statement whose call fails may or may not have been applied. *)
(***************************************************************************)
Fault == faults < MaxFaults /\ faults' = faults + 1

\* A failed statement of reserve() rejects intercept(): a 500, no release.
ReserveFails(r) ==
    /\ Fault
    /\ \/ /\ pc[r] = "reclaim"
          /\ table' \in {table, Reclaimed(req[r].identity)}
       \/ /\ pc[r] = "create" /\ ~ SlotTaken(req[r].identity)
          /\ table' \in {table, table \cup {NewRow(r)}}
       \/ /\ pc[r] \in {"find", "reread"}
          /\ UNCHANGED table
    /\ Answer(r, "error", None)
    /\ UNCHANGED <<req, window>>

\* A failed complete() reaches catchError, which releases.
CompleteFails(r) ==
    /\ Fault
    /\ pc[r] = "complete"
    /\ table' \in {table, Completed(r)}
    /\ Goto(r, "release")
    /\ UNCHANGED <<req, window, answer>>

\* A failed release() is swallowed and the original error rethrown.
ReleaseFails(r) ==
    /\ Fault
    /\ pc[r] = "release"
    /\ table' \in {table, Released(r)}
    /\ window' = [window EXCEPT ![r] = 0]
    /\ Answer(r, "failed", None)
    /\ UNCHANGED req

\* The process serving r dies; nothing it held in memory survives.
Crash(r) ==
    /\ Fault
    /\ pc[r] \notin {"arrived", "answered"}
    /\ window' = [window EXCEPT ![r] = 0]
    /\ Answer(r, "lost", None)
    /\ UNCHANGED <<table, req>>

(***************************************************************************)
(* The environment: clients retry, time passes.  Unless handlers may       *)
(* overrun, a holder is finished before its reservation expires.           *)
(***************************************************************************)
Retry(r) ==
    /\ pc[r] = "answered"
    /\ answer[r].kind \in Retryable
    /\ Goto(r, "reclaim")
    /\ answer' = [answer EXCEPT ![r] = NoAnswer]
    /\ UNCHANGED <<table, req, window, faults>>

Tick ==
    /\ HandlersMayOverrun \/ \A r \in Requests : Holding(r) => window[r] > 1
    /\ table' = {[row EXCEPT !.left = Countdown(row.left)] : row \in table}
    /\ window' = [r \in Requests |-> Countdown(window[r])]
    /\ UNCHANGED <<req, pc, answer, faults>>

-----------------------------------------------------------------------------
Arrive(r) == PassThrough(r) \/ RejectMissingKey(r) \/ BeginReserve(r)

Serve(r) ==
    \/ ReclaimExpired(r) \/ FindExisting(r) \/ CreatePending(r) \/ FindRacer(r)
    \/ HandlerSucceeds(r) \/ HandlerFails(r) \/ Complete(r) \/ Release(r)

Break(r) == ReserveFails(r) \/ CompleteFails(r) \/ ReleaseFails(r) \/ Crash(r)

Next ==
    \/ \E r \in Requests : Arrive(r) \/ Serve(r) \/ Break(r) \/ Retry(r)
    \/ Tick

\* Every awaited promise settles, a blocked client retries, clocks run.
Fairness ==
    /\ \A r \in Requests : WF_vars(Serve(r)) /\ WF_vars(Retry(r))
    /\ WF_vars(Tick)

Spec == Init /\ [][Next]_vars

FairSpec == Spec /\ Fairness

-----------------------------------------------------------------------------
(***************************************************************************)
(* What makes the interceptor correct.                                     *)
(***************************************************************************)
SameIdentity(a, b) == req[a].identity = req[b].identity

\* "Reserve atomically BEFORE running the handler so concurrent duplicates
\* cannot both execute side effects": of the requests with one identity, at
\* most one is between a `started` reservation and its finalization.
AtMostOneHandler ==
    \A a, b \in Requests :
        Holding(a) /\ Holding(b) /\ SameIdentity(a, b) => a = b

\* A replayed response was produced by a request with the same identity and
\* the same fingerprint: a key reused with other parameters is a conflict.
ReplayFidelity ==
    \A r \in Requests :
        answer[r].kind = "replay" =>
            \E p \in Requests : answer[r].from = p /\ req[p] = req[r]

\* Once a request has been answered from its own handler, no other request of
\* its identity gets to run a handler until the reservation has expired.
NoReexecutionInWindow ==
    \A a, b \in Requests :
        /\ answer[a].kind = "ok"
        /\ window[a] > 0
        /\ Holding(b)
        => ~ SameIdentity(a, b)

\* "A completed, replayable record is never deleted by a late-arriving error
\* path": no step of any request, however late it comes, removes an unexpired
\* COMPLETED row or makes it anything but a record to replay.
CompletedIsReplayable ==
    [][\A row \in table :
          row.status = "COMPLETED" /\ ~ Expired(row) =>
              \E new \in table' :
                  /\ new.id = row.id /\ new.hash = row.hash
                  /\ new.status = "COMPLETED"]_vars

\* Nothing that happens to a reservation prolongs it: neither a finalization,
\* however late, nor a retry, nor a reservation made anew by the same request.
\* So a key nobody works under is free again after one lifetime at most.
ReservationsOnlyRunOut ==
    [][\A row \in table, new \in table' :
          new.id = row.id => new.left <= row.left]_vars

\* "in_progress: a concurrent duplicate is still running": whoever is told so
\* is told so while another request of that identity and hash is at work.
InProgressMeansRunning ==
    [][\A r \in Requests :
          answer'[r].kind = "in_progress" /\ answer[r].kind # "in_progress" =>
              \E other \in Requests :
                  Holding(other) /\ req[other] = req[r]]_vars

\* The same as far as it is kept: only a crash or a failed statement earlier on
\* can have left a reservation that nobody is working under.
InProgressMeansRunningOrFault ==
    [][\A r \in Requests :
          answer'[r].kind = "in_progress" /\ answer[r].kind # "in_progress" =>
              \/ faults > 0
              \/ \E other \in Requests :
                    Holding(other) /\ req[other] = req[r]]_vars

\* A client that keeps retrying is eventually answered for good, whatever
\* reservations crashes and failed releases have left behind.
Settled(r) == answer[r].kind \in AnswerKinds \ (Retryable \cup {"none"})

EventuallySettled ==
    \A r \in Requests : pc[r] = "reclaim" ~> Settled(r)

\* Even a response finalized into a foreign row is never replayed outside the
\* key, route and scope it was produced under.
ReplayStaysInIdentity ==
    \A r \in Requests :
        answer[r].kind = "replay" =>
            \E p \in Requests : answer[r].from = p /\ SameIdentity(p, r)

\* Every request between `started` and its finalization is still within the
\* reservation it made: the condition the design rests on, as a state.
WithinReservation == \A r \in Requests : Holding(r) => window[r] > 0

\* Where handlers may overrun, nothing else breaks the promises: as long as none
\* has outlived its reservation, equal requests do not run at once, replays are of
\* equal requests, and none runs that was answered within the window, whatever
\* else is reclaimed, retried, crashes or fails.
SafeWithinReservation ==
    []WithinReservation =>
        [](AtMostOneHandler /\ ReplayFidelity /\ NoReexecutionInWindow)
-----------------------------------------------------------------------------
(***************************************************************************)
(* The inductive invariant behind the safety properties, for handlers that *)
(* do not overrun.                                                         *)
(***************************************************************************)

\* The unique index holds.
OneRowPerIdentity ==
    \A a, b \in table : a.identity = b.identity => a = b

\* A row carries what its creator presented.
RowOrigin ==
    \A row \in table :
        row.identity = req[row.id].identity /\ row.hash = req[row.id].hash

\* The stored response is the creator's own.
CompletedByOwner ==
    \A row \in table : row.status = "COMPLETED" => row.body = row.id

\* A holder's own row is there, unexpired, and pending until it is finalized.
HolderOwnsRow(r) ==
    Holding(r) =>
        \E row \in table :
            /\ row.id = r /\ row.left = window[r] /\ window[r] > 0
            /\ pc[r] # "release" => row.status = "PENDING"

\* An answered request's row is there and completed for as long as it lasts.
OkKeepsRow(r) ==
    answer[r].kind = "ok" /\ window[r] > 0 =>
        \E row \in table :
            row.id = r /\ row.left = window[r] /\ row.status = "COMPLETED"

\* An answer is given only to a request that has stopped.
AnswerMeansAnswered ==
    \A r \in Requests : answer[r].kind # "none" => pc[r] = "answered"

\* The inductive invariant: the table, the holders and the answers agree.
IInv ==
    /\ TypeOK
    /\ OneRowPerIdentity /\ RowOrigin /\ CompletedByOwner
    /\ \A r \in Requests : HolderOwnsRow(r) /\ OkKeepsRow(r)
    /\ AnswerMeansAnswered
    /\ ReplayFidelity
-----------------------------------------------------------------------------
(***************************************************************************)
(* The contract the interceptor and its store implement together: the      *)
(* unexpired rows are the claims, the holders are the running requests.    *)
(***************************************************************************)
LiveRows == {row \in table : ~ Expired(row)}

ClaimOf(row) == [by |-> row.id, done |-> row.status = "COMPLETED"]

Claims == {ClaimOf(row) : row \in LiveRows}

Running == {r \in Requests : Holding(r)}

Contract == INSTANCE IdempotencyContract WITH
    claims <- Claims, running <- Running

\* Every step of every interleaving, faults included, is a step of the
\* reserve/finalize contract or none: reserve claims the key atomically.
ImplementsContract == Contract!Spec
=============================================================================
