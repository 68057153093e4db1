----------------------------- MODULE Exchanges -----------------------------
(***************************************************************************)
(* HTTP exchanges through the whole application, one after another: rate   *)
(* limit, authentication, idempotency interceptor, handler and problem     *)
(* filter.  What clients see of it.                                        *)
(*                                                                         *)
(* An exchange is one step: how concurrent ones share the idempotency      *)
(* store is the subject of Idempotency, whose contract makes reserve()     *)
(* atomic.  "open" and "closed" stand for a public and an authenticated    *)
(* route with @RequireIdempotency().                                       *)
(***************************************************************************)
EXTENDS Integers

CONSTANTS
    Users,        \* accounts
    Addresses,    \* what request.ip can be
    Keys,         \* values of the Idempotency-Key header
    Bodies,       \* request bodies, as they are sent
    Fingerprints, \* stableStringify of each body
    Data,         \* what each body says, whatever the order it says it in
    Queries,      \* query strings
    Limit,        \* THROTTLE_LIMIT
    MaxEffects,   \* bound: times a handler takes effect
    None          \* no user, no key

\* env.validation: a positive integer.
ASSUME LimitAssumption == Limit \in Nat \ {0}
ASSUME EffectsAssumption == MaxEffects \in Nat
ASSUME NoneAssumption == None \notin Users \cup Keys

VARIABLES
    db,       \* can the database be reached?
    active,   \* accounts that are active
    hits,     \* requests counted in the current window, per route and address
    slots,    \* the rows of IdempotencyKey
    effects,  \* how many times a handler has taken effect
    last,     \* history: how far the last exchange came, and what it answered
    severed,  \* history: whose reservation could not be released
    kept      \* history: successful exchanges whose record has not expired

vars == <<db, active, hits, slots, effects, last, severed, kept>>

Keyed == {"open", "closed"}

Public == {"open"}

\* What clients send to a keyed route; a public one reads no bearer.
Requests ==
    {q \in [route : Keyed, user : Users \cup {None}, address : Addresses,
            key : Keys \cup {None}, query : Queries, body : Bodies] :
        q.route = "open" => q.user = None}

\* The part of an answer that may differ between two answers: the handler run
\* it tells of, and X-RateLimit-Remaining.
Response(status, effect, remaining) ==
    [status |-> status, effect |-> effect, remaining |-> remaining]

Responses == {Response(201, e, n) : e \in 1..MaxEffects, n \in 0..Limit}

\* Variant: authenticated callers are scoped by their address, too.
Scope_ByAddress(q) == <<"anonymous", q.address>>

\* The guard sets request.user on routes that are not public.
Scope(q) ==
    IF q.route \in Public THEN <<"anonymous", q.address>> ELSE <<"user", q.user>>

Identity(q) == [key |-> q.key, path |-> q.route, scope |-> Scope(q)]

\* request.path and the body; the method goes with the route.
RequestHash(q) == <<q.route, Fingerprints[q.body]>>

Caller(q) == <<q.route, IF q.route = "open" THEN q.address ELSE q.user>>

\* What is remembered of a success: whose it was, what was asked, what was told.
Kept(q, response) ==
    [caller |-> Caller(q), key |-> q.key, query |-> q.query,
     data |-> Data[q.body],
     identity |-> Identity(q), response |-> response]

Successes == {Kept(q, r) : q \in Requests, r \in Responses}

\* What is remembered of a reservation that stayed behind.
Severed(q) == [caller |-> Caller(q), key |-> q.key, identity |-> Identity(q)]

\* An exchange that ended before its handler.  Which refusal it was told makes no
\* difference here.
NotStarted == [handler |-> "not started", status |-> 0]

\* Or its handler failed, or returned.
Ends == [handler : {"failed", "returned"}, status : {201, 400, 404, 409, 500}]
    \cup {NotStarted}

Slots == [identity : {Identity(q) : q \in Requests},
          hash : {RequestHash(q) : q \in Requests}, done : BOOLEAN,
          response : Responses \cup {Response(0, 0, 0)}]

TypeOK ==
    /\ db \in BOOLEAN /\ active \subseteq Users
    /\ hits \in [Keyed \X Addresses -> 0..Limit]
    /\ slots \subseteq Slots
    /\ \A s, t \in slots : s.identity = t.identity => s = t
    /\ effects \in 0..MaxEffects
    /\ last \in Ends
    /\ severed \subseteq {Severed(q) : q \in Requests}
    /\ kept \subseteq Successes

Init ==
    /\ db = TRUE /\ active = Users
    /\ hits = [at \in Keyed \X Addresses |-> 0]
    /\ slots = {} /\ effects = 0 /\ kept = {}
    /\ last = NotStarted /\ severed = {}

-----------------------------------------------------------------------------
(***************************************************************************)
(* The outermost and innermost layers.                                     *)
(***************************************************************************)
Http(status) == [kind |-> "HttpException", status |-> status]
Prisma(code) == [kind |-> code, status |-> 0]
Unexpected == [kind |-> "Error", status |-> 0]

\* The status the filter answers an exception with.
toProblemDetails(e) ==
    CASE e.kind = "HttpException" -> e.status
      [] e.kind = "P2002" -> 409
      [] e.kind = "P2025" -> 404
      [] OTHER -> 500

\* What handlers throw: a failed validation, a clash, a missing row, a bug.
Thrown == {Http(400), Prisma("P2002"), Prisma("P2025"), Unexpected}

\* Throttler, guard or interceptor have answered.
Refused == last' = NotStarted /\ UNCHANGED <<kept, severed>>

Answer(q, response) ==
    /\ kept' = kept \cup {Kept(q, response)}
    /\ UNCHANGED severed

\* The filter answers what the handler, or the recording of its answer, threw.
Throw(handler, e) ==
    /\ last' = [handler |-> handler, status |-> toProblemDetails(e)]
    /\ UNCHANGED kept

At(q) == <<q.route, q.address>>

Remaining(q) == Limit - hits[At(q)] - 1

\* All headers set so far are recorded; one of them tells two answers apart.
captureHeaders(q) == Remaining(q)

ThrottlerGuard(at) == hits[at] < Limit /\ hits' = [hits EXCEPT ![at] = @ + 1]

RateLimited(at) ==
    /\ hits[at] = Limit
    /\ UNCHANGED <<db, active, hits, slots, effects>>
    /\ Refused

\* No bearer is refused before the account is looked up.
JwtAuthGuard(q) == q.route \in Public \/ (db /\ q.user \in active)

Unauthenticated(q) ==
    /\ ThrottlerGuard(At(q))
    /\ ~ JwtAuthGuard(q)
    /\ UNCHANGED <<db, active, slots, effects>>
    /\ Refused

-----------------------------------------------------------------------------
(***************************************************************************)
(* The interceptor.                                                        *)
(***************************************************************************)
Pass(q) == ThrottlerGuard(At(q)) /\ JwtAuthGuard(q)

MissingKey(q) ==
    /\ Pass(q)
    /\ q.key = None
    /\ UNCHANGED <<db, active, slots, effects>>
    /\ Refused

ReserveFails(q) ==
    /\ Pass(q)
    /\ q.key # None /\ ~ db
    /\ UNCHANGED <<db, active, slots, effects>>
    /\ Refused

\* Variant: the fingerprint is among what is looked for.
Existing_SameHash(q) ==
    {s \in slots : s.identity = Identity(q) /\ s.hash = RequestHash(q)}

Existing(q) == {s \in slots : s.identity = Identity(q)}

Reserve(q) == Pass(q) /\ q.key # None /\ db

\* In progress, or used with a different request.
Refuse(q) ==
    /\ Reserve(q)
    /\ \E s \in Existing(q) : s.hash # RequestHash(q) \/ ~ s.done
    /\ UNCHANGED <<db, active, slots, effects>>
    /\ Refused

\* Variant: the headers of the first answer are not restored.
Replay_OwnHeaders(q) ==
    /\ Reserve(q)
    /\ UNCHANGED <<db, active, slots, effects>>
    /\ last' = NotStarted
    /\ \E s \in Existing(q) :
          /\ s.hash = RequestHash(q) /\ s.done
          /\ Answer(q, [s.response EXCEPT !.remaining = Remaining(q)])

\* Status, body and headers of the first answer, over those set by the guards.
Replay(q) ==
    /\ Reserve(q)
    /\ UNCHANGED <<db, active, slots, effects>>
    /\ last' = NotStarted
    /\ \E s \in Existing(q) :
          /\ s.hash = RequestHash(q) /\ s.done
          /\ Answer(q, s.response)

Slot(q, done, response) ==
    [identity |-> Identity(q), hash |-> RequestHash(q), done |-> done,
     response |-> response]

Started(q) == Reserve(q) /\ Existing(q) = {}

Pending(q) == Slot(q, FALSE, Response(0, 0, 0))

TakesEffect == effects < MaxEffects /\ effects' = effects + 1

Recorded(q) == Slot(q, TRUE, Response(201, effects', captureHeaders(q)))

\* The answer is recorded and given.
HandlerSucceeds(q) ==
    /\ Started(q)
    /\ TakesEffect
    /\ UNCHANGED <<db, active>>
    /\ slots' = slots \cup {Recorded(q)}
    /\ Answer(q, Recorded(q).response)
    /\ last' = [handler |-> "returned", status |-> 201]

\* Variant: the reservation is kept.
Release_Never(q) ==
    /\ db' \in BOOLEAN
    /\ slots' = slots \cup {Pending(q)}
    /\ UNCHANGED severed

\* The reservation is released.  The database may be away by now, and release()
\* be applied or not: that it fails is swallowed.
Release(q) ==
    /\ db' \in BOOLEAN
    /\ \/ UNCHANGED <<slots, severed>>
       \/ /\ ~ db'
          /\ slots' = slots \cup {Pending(q)}
          /\ severed' = severed \cup {Severed(q)}

\* The error is passed on, whatever became of the release.  The handler may have
\* taken effect: register() creates the account before it stores a token.
HandlerFails(q) ==
    /\ Started(q)
    /\ UNCHANGED effects \/ TakesEffect
    /\ Release(q)
    /\ UNCHANGED active
    /\ \E e \in Thrown : Throw("failed", e)

\* The handler has returned and complete() rejects.  It was not applied, and the
\* reservation is released; or it was, and release() spares the record.
CompleteFails(q) ==
    /\ Started(q)
    /\ TakesEffect
    /\ \/ Release(q)
       \/ /\ db' \in BOOLEAN
          /\ slots' = slots \cup {Recorded(q)}
          /\ UNCHANGED severed
    /\ UNCHANGED active
    /\ Throw("returned", Unexpected)

-----------------------------------------------------------------------------
(***************************************************************************)
(* What happens between exchanges.                                         *)
(***************************************************************************)
Environment ==
    \/ /\ db' = ~ db
       /\ UNCHANGED <<active, hits, slots, effects, severed, kept>>
    \/ /\ active' \in SUBSET Users
       /\ UNCHANGED <<db, hits, slots, effects, severed, kept>>

WindowEnds ==
    /\ \E at \in DOMAIN hits : hits[at] > 0 /\ hits' = [hits EXCEPT ![at] = 0]
    /\ UNCHANGED <<db, active, slots, effects, severed, kept>>

\* reserve() deletes an expired row before it looks for one.
RecordExpires ==
    /\ \E s \in slots :
          /\ slots' = slots \ {s}
          /\ kept' = {x \in kept : x.identity # s.identity}
          /\ severed' = {x \in severed : x.identity # s.identity}
    /\ UNCHANGED <<db, active, hits, effects>>

Exchange(q) ==
    \/ Unauthenticated(q) \/ MissingKey(q) \/ ReserveFails(q)
    \/ Refuse(q) \/ Replay(q)
    \/ HandlerSucceeds(q) \/ HandlerFails(q) \/ CompleteFails(q)

Next ==
    \/ \E q \in Requests : Exchange(q)
    \/ \E at \in DOMAIN hits : RateLimited(at)
    \/ (Environment \/ WindowEnds \/ RecordExpires) /\ last' = NotStarted

Spec == Init /\ [][Next]_vars

-----------------------------------------------------------------------------
(***************************************************************************)
(* What clients may rely on.                                               *)
(***************************************************************************)
\* "Completed requests with the same key and request fingerprint replay the
\* stored response", "reusing a key with a different request body returns 409":
\* while a record lasts, all successes of a caller under one key are one handler
\* run, told with one status and the same headers, and of the same data.
OneAnswerPerKey ==
    \A x, y \in kept : x.caller = y.caller /\ x.key = y.key =>
        x.response = y.response /\ x.data = y.data

\* "One client's key cannot collide with or block another's": nobody is told of
\* a handler run that another caller has asked for, not even behind the same
\* address: callers are the accounts and, on public routes, the addresses.
OwnAnswersOnly ==
    \A x, y \in kept :
        x.response.effect = y.response.effect => x.caller = y.caller /\ x.key = y.key

\* "Failed requests release the pending reservation so a retry can run again":
\* an exchange that ends before its handler reserves nothing and takes no effect,
\* at whatever layer it is refused; a failed handler's key is free again, unless
\* the database is away.  What a handler did that returned is never told as a 4xx,
\* though its answer could not be recorded.
FailuresLeaveNoTrace ==
    [][/\ last' = NotStarted => slots' \subseteq slots /\ effects' = effects
       /\ last'.handler = "failed" /\ db' => slots' = slots
       /\ last'.handler = "returned" => last'.status \in {201, 500}]_vars

\* "One client's key cannot collide with or block another's": a key is only ever
\* in progress, with no request at work, for a caller whose own handler ended
\* under it and whose release the database did not take.
OnlyOwnRunsBlock ==
    \A q \in Requests : (\E s \in Existing(q) : ~ s.done) =>
        \E x \in severed : x.caller = Caller(q) /\ x.key = q.key

\* "A key reused with different parameters is detected as a conflict": one
\* handler run answers requests with one query string only.
OtherQueryConflicts ==
    \A x, y \in kept :
        x.response.effect = y.response.effect => x.query = y.query

-----------------------------------------------------------------------------
(***************************************************************************)
(* The inductive invariant behind the safety properties.                   *)
(***************************************************************************)

\* A record tells of a run that has taken effect, and of each run there is one.
OneRecordPerRun ==
    /\ \A s \in slots : s.done => s.response.effect \in 1..effects
    /\ \A s, t \in slots :
          s.done /\ t.done /\ s.response.effect = t.response.effect => s = t

\* What is remembered of a success is what the record under its key says.
KeptIsRecorded ==
    \A x \in kept : \E q \in Requests : \E s \in slots :
        /\ s.identity = Identity(q) /\ s.hash = RequestHash(q) /\ s.done
        /\ x = Kept(q, s.response)

\* A reservation outlives its exchange only if it could not be released.
PendingIsSevered ==
    \A s \in slots : ~ s.done =>
        \E q \in Requests : Severed(q) \in severed /\ s.identity = Identity(q)

\* The inductive invariant: successes, records and runs agree.
IInv == TypeOK /\ OneRecordPerRun /\ KeptIsRecorded /\ PendingIsSevered

\* What OneAnswerPerKey needs of the fingerprint.
FingerprintsTell ==
    \A b, c \in Bodies : Fingerprints[b] = Fingerprints[c] => Data[b] = Data[c]
=============================================================================
