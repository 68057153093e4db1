# Verification of nestjs-api-starter

TLA+ models of the parts of this service in which concurrency, failure and time
make correctness hard: the **idempotency interceptor** over its Postgres store,
**refresh-token handling** (registration, login, rotation, reuse detection,
logout), **access control** (the guards, the administration of users, roles and
permissions, the seed script) and the **paged user list**; and, one HTTP exchange
after another, the **whole pipeline** a client sees (rate limit, authentication,
recorded answers, problem responses). TLC checks them on small
instances, TLAPS proves safety properties and refinements for every value of the
constants.

Paths below are relative to the repository root.

## 1. Inventory

| component | code | state | operations | hard behaviour |
|---|---|---|---|---|
| Idempotency interceptor and store | `src/idempotency/**` | table `IdempotencyKey`, one row per (key, method, path, scope) | `intercept`; `reserve`, `complete`, `release` | duplicates racing between statements, handlers that outlive the TTL, crashes between insert and finalize, failed finalize and release, retries |
| Auth service and token storage | `src/auth/auth.service.ts`, `src/auth/storage/**` | table `RefreshToken` | `register`, `login`, `refresh`, `logout`; `create`, `findValid`, `findRevoked`, `rotate`, `revoke`, `revokeAllForUser` | racing rotations of one token, row locks, reuse detection against an open rotation, failures between two writes, lost answers |
| JWT guard | `src/auth/guards/jwt-auth.guard.ts` | none | `canActivate` | the user read here may be deactivated before the handler runs |
| Users | `src/users/**` | table `User` | `createUser`, `updateUser`, `updateCurrentUser`, `deactivateUser`, `findMany`, lookups | check-then-update, profiles built from two reads, offset paging over concurrent inserts |
| Roles and permissions | `src/roles/**` | tables `Role`, `Permission` and the two relations | `create`, `update`, `findAll`, name lookups | an administrator's change between two lookups |
| Role and permission guards | `src/common/guards/**` | none | `canActivate` | each guard reads the database anew |
| Pagination | `src/common/pagination/**` | none | `getPaginationParams`, `buildPaginationMeta` | boundaries of page, limit, total |
| Seed | `prisma/seed.ts` | all tables | a sequence of upserts | may stop anywhere, is run again |
| Configuration | `src/config/**` | read at start-up | validation | refresh TTL is validated only as a string |
| Problem details filter | `src/common/filters/**` | none | `catch` | which layer's exception becomes which status |
| Health | `src/health/**` | none | `live`, `ready` | none: one read, which the throttler skips (not modelled) |
| Application shell | `src/app.module.ts`, `src/main.ts` | the throttler's counters | the order of guards, interceptor, handler, filter | a refusal by one layer after another has already acted |
| Tests | `test/**`, `*.spec.ts` | none | none | none |

**Interaction.** A request passes the JWT guard (user row), the role and
permission guards (role rows), the idempotency interceptor (if the route carries
`@RequireIdempotency()`), and its handler. All components share one Postgres
database; apart from `rotate()` (an interactive transaction) and
`UsersService.findMany` (a batch) every statement is a transaction of its own, so
a step of the models is one SQL statement, and statements of different requests
interleave freely. No route of the repository carries `@RequireIdempotency()` yet:
the interceptor is modelled for any route that will.

**What makes each component correct.** Idempotency: at most one handler of a key
runs, replays are of equal requests, nothing runs twice within a reservation,
completed records survive, retries end; equal data has one fingerprint and other data
another. Tokens: one unrevoked token per session,
logout and reuse detection really revoke, nothing else does, failures leave no
half rotation, only active users get tokens, nobody waits for ever. Access: a
request is granted, or refused, for what was the case at some moment while it was
being served; a finished seed run restores the administrator; nobody else has
power before an administrator gives it. Listing: a page is within its bounds, the
`meta` agrees with the rows, a client that follows `hasNextPage` misses nobody.
Pipeline: a recorded answer reaches its caller only and as it was first given, an
exchange refused before its handler leaves nothing behind, and what a failed one
leaves blocks nobody else.

`PROJECT.json` lists the hazards with the line at which each bites and the
properties that would notice it.

## 2. Modules

```
IdempotencyContract            reserve/finalize contract of IdempotencyStore
Idempotency                    the interceptor and its store   (implements it)
  MCIdempotency + 5 cfg        small instances
  IdempotencyProofs            invariants and action properties
  IdempotencyRefinement        Idempotency implements IdempotencyContract
Sessions                       what refresh-token rotation promises
RefreshTokens                  AuthService over the token storage (implements it)
  MCRefreshTokens + 3 cfg      small instances
  RefreshTokensProofs          invariants, progress of calls
  RefreshTokensRefinement      RefreshTokens implements Sessions
ContractProofs                 what IdempotencyContract and Sessions promise
Access                         guards, user/role/permission handlers, seed script
  MCAccess + 1 cfg             small instance
  AccessProofs                 invariants
Pagination                     the query DTO and the pagination helper
UserListing                    GET /users page by page (extends Pagination)
  MCUserListing + 1 cfg        small instance
  UserListingProofs            arithmetic of pages, invariants of the walk
Fingerprint                    stableStringify() over JSON values
Exchanges                      exchanges through the whole application
  MCExchanges + 2 cfg          small instances (with Fingerprint)
  ExchangesProofs              invariants
```

### Idempotency

| state | code |
|---|---|
| `table` | the rows of `IdempotencyKey`; a row's `id` is the request that inserted it, `body` the request whose handler produced the stored response, `left` the time until `expiresAt` |
| `req` | the identity and fingerprint a request presents (`intercept` lines 57-63) |
| `pc` | the statement of `reserve`, `complete`, `release` or the handler a request is at |
| `answer` | what `intercept` returned or threw |
| `window` | ghost: the time left of the reservation a request created; it guards `Tick` only when handlers may not overrun |
| `faults` | number of faults so far, bounded by `MaxFaults` |

Actions follow the code statement by statement: `ReclaimExpired`, `FindExisting`,
`CreatePending`, `FindRacer` are the four statements of `reserve()`, the last
after P2002; `Complete` and `Release` are `mergeMap` and `catchError` of
`intercept()`. `ReserveFails`, `CompleteFails`, `ReleaseFails` are rejected
statements, each of which may or may not have been applied; `Crash` is the death
of the process in the middle of a request. `Retry` is a client that repeats a
request answered with an error or `in_progress`. A client that gives up waiting
and sends the request again is a second member of `Requests` with equal `req`.

A key, method, path and scope are one `Identities` value, a SHA-256 fingerprint
one `Hashes` value, a response the request that made it: how they are made up is
the subject of `Fingerprint` and `Exchanges`.

`HandlersMayOverrun` states the assumption the design rests on. When it is
FALSE, time does not expire the reservation of a request that is still between
`started` and its finalization; when it is TRUE anything may. Nothing in the code
enforces the assumption (the default TTL of a day makes it plausible), so the
properties that need it are shown to fail without it (runs `idem_overlap`,
`idem_foreign`), and those that do not are proved without it.

`IdempotencyContract` is the promise of `IdempotencyStore` with no table,
statements or clock: claims, running requests and answers. `Contract` in
`Idempotency` maps unexpired rows to claims and requests between `started` and
their answer to the running ones.

### RefreshTokens

A *call* is one request to the auth controller. It mints at most one refresh
token, which has the name of the call.

| state | code |
|---|---|
| `users` | whether an account exists and its `isActive` |
| `row` | the rows of `RefreshToken`; `family` is ghost: the token its session began with |
| `lock` | the row an open `rotate()` transaction has updated |
| `call` | parameters and local variables of a call: the user, the presented token, the rows `revokeAllForUser` has selected; `earlier` is ghost |
| `stage`, `answer` | the awaited statement a call is at, and how it ended |
| `delivered` | the tokens a client has received: the only ones it can present |
| `seenActive` | ghost: the calls during which their user was active |

`rotate()` is two steps, because its row stays locked in between: `RotateRevokes`
(the conditional `updateMany`, which waits for a locked row and then tests again)
and `RotateCommits` (read, insert, commit). `revokeAllForUser` is two steps as well:
an UPDATE at READ COMMITTED selects by its snapshot, then waits for the rows that
are locked and updates those it selected. `logout` waits in the same way. A failed
statement, transaction or process is `CallFails`: single writes may or may not
have been applied, a transaction was committed or rolled back, its lock is gone.
`Deactivate` and `Reactivate` are an administrator's `deactivateUser` and
`updateUser`.

Registering an e-mail that exists is the `refused` branch of `CreateUser`; that
`roles.connect` needs the seeded role is left out, as are password hashing (a wrong
password is the other way to `refused` in `Lookup`), e-mail and profile data. Time
is evaluated when the statement runs, although `new Date()` is evaluated a moment
before in the process.

`RevokeAllApplies` is the end of a revocation's UPDATE: all selected rows at once, when
none is locked by a rotation. In Postgres the UPDATE takes its rows one by one and holds
some while it waits for others. What it has taken is seen by nobody before it commits
and kept from writers until then, so the model leaves out only waiting: a logout or a
rotation that waits for a revocation which itself waits, and two revocations that lock
each other out, of which Postgres fails one (`CallFails`). No property speaks of who
waits for whom.

`Sessions` is the promise without rows, locks, statements or clock: a session is
opened with a token, advances from its one token to a fresh one in a single step,
and is closed for good. `Abstract` in `RefreshTokens` maps rows to it: `Owner` is
the user of a session's first row, `Current` its unrevoked token, `IssuedTokens` the
tokens that have a row. A rotation's UPDATE and INSERT are one `Advance`, at its
commit; a `revokeAllForUser` that revokes some rows closes some sessions, all of one
user. Expiry is not in it: an expired token is still its session's, and nobody can
present it with success.

### Access

| state | code |
|---|---|
| `accounts` | the rows of `User`: whether there is one, `isActive`, the ids of its roles |
| `roles`, `permissions` | the rows of `Role` (name, flag, permission ids) and `Permission` (name, flag); an unused id has name `None` |
| `request`, `stage`, `answer` | who asks for which endpoint about whom, the guard or statement it is at, how it ended |
| `seed` | the statement the seed script is at and the ids it holds in variables |
| `seen` | ghost: the facts (active or not, role or not, permissions or not) that were the case at some moment of the request; `Observe` adds the facts of every new state |
| `edited` | ghost: whether a handler has written since the current seed run began |

A request goes through `JwtAuthGuard`, `RolesGuard`, `PermissionsGuard`, then
`LookUpUser` (`ensureUserExists`) where there is one, then its write: five reads
and writes between which anything may happen. `Endpoint` is what the decorators of
the three controllers require. The body of a request is read only by its write and
is chosen there; ids in it are of existing rows, or, for the id in the path of a
role or permission, possibly of none (404). A field left out keeps its value, which
is one of the values the model chooses. Unique names give 409. No endpoint attaches
permissions to roles; only the seed does.

`findUserRoleNames` and `findUserPermissionNames` follow the two nested Prisma
queries, each one SQL statement. `HoldsRole` and `HoldsPermission` say the same
without them, and the properties use only these. A write with its nested `set` or
`connect` is one step: Prisma executes it in a transaction whose first statement
locks the row (`updatedAt` always changes). The seed script may crash between any two upserts and be
run again; two runs at once are left out, as are the throttler in front of the
guards, the two reads of a profile, names and password hashes. `Register` is the
insert of `AuthService.register`: it connects the role named `user` or fails.

`GrantedForCause` is deliberately about three moments and not one. Each guard reads
for itself, so a request may pass the roles guard on a role that is taken away
before the permissions guard finds the permission through another; and a handler
may still write after the requester has lost everything. "Guards load active
roles/permissions from the database on each request" promises no more.

### Pagination and UserListing

`getPaginationParams` and `buildPaginationMeta` are operators; `Accepted` is the
DTO, applied by the validation pipe. `UserListing` has the rows by their `createdAt`
(`createdAt`, `listed`), one client's walk (`walk`) and the two statements of the
page transaction (`transaction`), executed in the order of the array in the code
(`Statements`). At READ COMMITTED each has a snapshot of its own. An account gets its
timestamp when its insert starts and is visible when it commits, so a late commit
may appear in the middle of the order; equal timestamps are ordered anew by every
query. The client asks for page 1 and follows `hasNextPage`.

`NobodySkipped` holds because rows only move to later pages and because the total is
counted after the rows are read. It excepts accounts whose `createdAt` is not their
own: `orderBy: { createdAt: 'desc' }` has no tie-breaker, and TLC finds the skip at
once when the exception is dropped. A user may be shown twice.

### Fingerprint and Exchanges

`stableStringify` is a recursive operator over JSON values; a text is the sequence of
its tokens. `SameData` is what it is for, defined without it: equal up to the order of
members. `FingerprintIsCanonical` compares the two for every pair of the values that
`Nested` builds. SHA-256 is taken to have no collisions.

To `Exchanges` a body is a value with two attributes, both constants: its text
(`Fingerprints`) and what it says (`Data`). `MCExchanges` brings the modules together:
there a body is a JSON value, its text is `stableStringify` of it, its data the first
body that is `SameData`. So the exchanges are proved about for any fingerprint, and
checked with the one of the code.

| state | code |
|---|---|
| `db`, `active` | whether the database can be reached, the active accounts |
| `hits` | the throttler's counter of the current window, per route and address |
| `slots` | the rows of `IdempotencyKey`, each with the recorded status, body and headers |
| `effects` | how many handler runs have taken effect |
| `last` | history: whether the last exchange reached its handler, how that ended and which status was answered |
| `severed` | history: whose reservation could not be released, until its row expires |
| `kept` | history: the successes whose record has not expired |

An exchange is one step here, from the throttler to the filter: that concurrent ones
share the store as if `reserve` were atomic is what `ImplementsContract` shows. A step
is the path through the layers in the order of `AppModule`: `RateLimited`,
`Unauthenticated`, `MissingKey`, `ReserveFails`, `Refuse`, `Replay`, `HandlerSucceeds`,
`HandlerFails`, `CompleteFails`. Each ends in a response of the handler or the
interceptor, or in an exception the filter maps to a status (`toProblemDetails`). The
identity of a record is key, path and scope, the scope the account on a guarded route
and the address on a public one. Of the headers that `captureHeaders` records one is
kept, `X-RateLimit-Remaining`, which differs between two answers to the same request.

`HandlerFails` is a handler that throws whatever it throws, with or without having taken
effect: `register()` may have created the account. `CompleteFails` is a handler that
returned and whose answer could not be recorded, or was recorded unheard. Both then
`Release`: the row goes, or `release()` fails because the database is away by then, which
the interceptor swallows, and the row stays while the client is told the original error,
a 4xx of the handler included. `db` says whether the database answers what it is sent.
Of the exchanges that end before their handler the status makes no difference to the
properties and is left out; of the others `last` has it.

`open` and `closed` stand for a public and a guarded route with
`@RequireIdempotency()`: no route of the repository has it yet. `request.ip` is an
address; behind a proxy that Express is not told to trust, or when it is missing
(`'unknown'`), several anonymous clients share one, which is the case of the instance.

Operators named `X_Variant` (`Classify_IgnoringHash`, ...) are nearby mistakes in
`X`. Nothing uses them: `PROJECT.json` pairs each with the property that notices
it when it is put in the place of `X`.

## 3. Runs

| run | instance | properties | shows |
|---|---|---|---|
| `idem_safe` | 3 requests, 2 identities, 2 hashes, TTL 2, 2 faults | `TypeOK`, `IInv`, `AtMostOneHandler`, `ReplayFidelity`, `NoReexecutionInWindow`, `InProgressMeansRunningOrFault`, `ImplementsContract` | safety when handlers finish in time; `in_progress` is true when nothing has failed; the store is an atomic reserve/finalize |
| `idem_overrun` | 3 requests, 1 identity, 2 hashes, overrun, 1 fault, fairness | `CompletedIsReplayable`, `ReservationsOnlyRunOut`, `EventuallySettled`, `SafeWithinReservation` | what does not rest on the assumption, and that the rest of safety holds in every behaviour that keeps to it; no finalization or retry prolongs a reservation; retries end, whatever overruns, crashes and failed releases leave behind |
| `idem_overlap` | 2 requests, overrun, no faults | `AtMostOneHandler` (violated) | finding 1 |
| `idem_foreign` | 3 requests, overrun, no faults | `ReplayFidelity` (violated) | finding 2 |
| `idem_orphan` | 2 requests, 1 fault | `InProgressMeansRunning` (violated) | finding 3 |
| `token_safe` | 2 users, 4 calls, no faults | `TypeOK`, `OneTokenPerSession`, `ReuseRevokesEarlierTokens`, `IssuedWhileActive`, `RevokedForCause`, `OneSuccessor`, `EndedForGood` | races of rotation, reuse, logout and administration; nobody loses a session without cause, no token is exchanged twice, no session comes back |
| `token_faults` | 1 user, 3 calls, 1 fault, fairness | `IInv` (with `OneTokenPerSession`), `LogoutRevokes`, `SigningFailureMintsNothing`, `EveryCallAnswered`, `ImplementsSessions` | rollbacks, lost answers, writes applied unheard; waiting ends; the rows move as sessions do |
| `token_reuse` | 1 user, 4 calls, no faults | `ReuseEndsSession` (violated) | finding 4 |
| `access_safe` | 2 accounts, 2 requests, 3 roles, 4 permissions, 2 seed runs | `TypeOK`, `IInv`, `GrantedForCause`, `RefusedForCause`, `SeedRestoresAdmin`, `OnlySeededAdmin` | guards against administration; the seed against crashes and edits |
| `listing_walk` | 4 accounts, 3 timestamps, limits 0, 1, 2 and none, last page 3 | `TypeOK`, `NobodySkipped`, `TotalCoversPage`, `RefusedOnlyBeyondReach` | paging over a growing table, at and beyond the bounds |
| `http_exchanges` | 2 users and anonymous clients, 1 address, 1 key, 3 bodies, limit 2, 2 effects | `TypeOK`, `OneAnswerPerKey`, `OwnAnswersOnly`, `OnlyOwnRunsBlock`, `FailuresLeaveNoTrace`, `FingerprintIsCanonical` | what clients may rely on across all layers |
| `http_query` | 1 user, 2 query strings | `OtherQueryConflicts` (violated) | finding 5 |

**Bounds.** Every race of the interceptor is between a holder, a duplicate and a
third request that finds what the two left: three requests. Two identities let a
statement touch a row it should not, two hashes let a key be reused; TTL 2 lets
time pass with and without expiry. A token race is between two calls on a token,
with one that minted it before and one that looks at it after: four calls; with
faults three calls are enough for a rotation that fails while a logout waits. Faults
are bounded by `MaxFaults`, clocks count down to zero, so there is no bound on the
length of a behaviour. A liveness property is checked without symmetry. In
`access_safe` one request edits what the other relies on, and a second seed run meets
what the first and the edits have left. There is one
role name and one permission name that is not seeded, and one spare row for each, so
that a seeded row can be renamed and a new one take its place; the read permissions
and the `profile:` ones, which no modelled step distinguishes, are left out of the
seeded names. In `listing_walk` four accounts with a limit of 1 exceed `MAX_PAGE`,
with a limit of 2 they do not. In `http_exchanges` everybody presents the same key
from the same address, so that only the scope tells callers apart; two of the bodies
are the same data in another order and one is not; the second effect under a key can
only come after the first record has expired or for another caller; a limit of 2 is
the least that makes the headers of an answer and of its replay differ. The samples
of the fingerprint are all lists and objects of up to two items over six values, some
of them nested. The proofs drop the bounds of the models they are about.

The runs of `Idempotency`, `RefreshTokens` and `Exchanges` check deadlock: time can
always pass, the database can always come and go. Those of `Access` and `UserListing` do not,
because there everything may be done: each request is answered, the seed has run, the
walk is over. Where handlers may not overrun a tick may have to wait for the holder
of a reservation, which can then always step.

**Fairness.** `FairSpec` of `Idempotency`: a request that can take its next
statement takes it (`WF(Serve)`: awaited promises settle, a handler returns or
throws), a client with a retryable answer retries (`WF(Retry)`), time passes
(`WF(Tick)`). Nothing obliges a fault, nor the arrival of a request. `FairSpec` of
`RefreshTokens`: only `WF(Serve)` for each call; a waiter is enabled once the row is
unlocked, which Postgres grants, and an open rotation is a call that will step.

### Findings

1. `idem_overlap`: "Reserve atomically BEFORE running the handler so concurrent
   duplicates cannot both execute side effects" holds only while the handler
   finishes within its reservation: `reserve()` deletes an expired row whether or
   not its handler is still running.
2. `idem_foreign`: `complete()` names the identity, not the reservation. A late
   `complete()` finalizes the row of whoever has the slot by then: its response is
   replayed to a request with another fingerprint.
3. `idem_orphan`: `in_progress` is documented as "a concurrent duplicate is still
   running". After a crash or a swallowed failure of `release()` it is also the
   answer when nothing runs, until the row expires.
4. `token_reuse`: "revokes all user tokens when a revoked refresh token is reused"
   misses the successor of a rotation that is open when the UPDATE begins. It needs
   a chain: t was rotated to s, s is being rotated to v, t is reused; v survives.
   `ReuseRevokesEarlierTokens` is what does hold.
5. `http_query`: "a key reused with different parameters is detected as a conflict",
   but the fingerprint and the identity are made of `request.path`, which has no query
   string: a request that differs only there is answered with the recorded response.

## 4. Proofs

`IdempotencyProofs` rests on `IInv`: one row per identity, each with its creator's
identity and fingerprint; completed rows hold their creator's response; a request
between `started` and its finalization has its own unexpired row, pending until it
is finalized, and the row has exactly the time left that the request's window has
(`HolderOwnsRow`); a request that answered `ok` has its completed row as long
(`OkKeepsRow`). `AtMostOneHandler` alone is not inductive: that two holders are one
follows from each owning the single row of their identity.

`IInv` needs that no handler outlives its reservation, in one of two forms. Either the
constant forbids it (`ASSUME ~ HandlersMayOverrun`), or handlers may do what they like
and the behaviour is one in which none does: `WithinReservation` says it of a state,
and `SafeUntilOverrun` proves `SafeWithinReservation`: that `[]WithinReservation` implies
`AtMostOneHandler`, `ReplayFidelity` and `NoReexecutionInWindow` always
(`InvarianceWithinReservation` the same for `IInv`, `RefinementUntilOverrun` for
`ImplementsContract`). Since a finite behaviour may stutter for ever after, these hold
up to the first overrun of every behaviour of the code as it is: findings 1 and 2
cannot come about in another way, whatever crashes, statements fail or clients repeat.
`ReservationsSuffice` makes the first form a case of the second.

Proved with neither: `TypeOK`, `CompletedIsReplayable`,
`InProgressMeansRunningOrFault`, `ReservationsOnlyRunOut` and `ReplayStaysInIdentity`,
the last of which says how far the damage of finding 2 can go: a response is replayed
under another fingerprint, never under another key, route or scope (`BodyOfIdentity`:
a stored response is of the row's identity, if not of its creator).
`InProgressMeansRunningOrFault` rests on an invariant of its own, `WaitInv`: until the
first fault the unexpired pending rows are those of requests at work, because a request
leaves its work only by finalizing or deleting the pending row of its identity. That
no step puts off an expiry (`ReservationsOnlyRunOut`) needs that a request has one row
at most (`OneRowPerRequest`) and inserts only where it has none; as time
passes, no row blocks its key for ever, on which `EventuallySettled` rests.

`IdempotencyRefinement` proves `ImplementsContract`: the initial states correspond,
and under `IInv` each action is a step of the contract or leaves its variables
alone (again for either form of the assumption). Reclaiming, looking and losing the
insert are stutters; the insert is `Claim`; a tick that expires rows is `Lapse`.

`RefreshTokensProofs` rests on `IInv` of `RefreshTokens`: a row is locked exactly by
the rotation about to replace it, and a locked row is unrevoked (`LocksHeld`); rows
belong to the session and user of an issued token (`RowsAreWhole`); a call has a row
only once it is past minting (`MintedLate`); what a call has read still describes
the token it presented (`CallShape`); the snapshot of a revocation contains every
unrevoked earlier token (`TargetsComplete`). `OneTokenPerSession` needs `LocksHeld`:
`RotateCommits` revokes its token without testing again, which is right only because
nobody can have revoked a locked row. The proof first shows what a step of one call
can do to the rows (`RowCases`, `Growth`) and the locks (`LockCases`), then that
other calls keep what the invariant says of them (`OtherStep`), then goes through
the call's own actions (`Own...`). `NoRevocationWithoutCause` adds the reasons: a
reason once settled stays (`CauseLasts`), and who revokes a row is its reason
(`RevokerIsCause`). `ExchangedOnce` adds that what has been exchanged is revoked
(`ExchangedIsRevoked`): the step in which a call mints a successor finds the token
unrevoked, because it holds the lock, so no other call has minted from it before, and
leaves it revoked (`ExchangeStep`). `CallsAdvance` is a part
of `EveryCallAnswered` that is safety: each step of a call leads to a later statement,
none back, so a call takes six steps at most. Fairness does the rest.

`RefreshTokensRefinement` proves `ImplementsSessions`. Under `IInv` the unrevoked
token of a session is unique, so `Current` is determined by any unrevoked row; a step
that inserts a successor and revokes its predecessor is `Advance`, one that only
revokes is `Close` of the sessions it revokes in, and a step of a rotation before its
commit changes nothing that `Abstract` sees (`StepMaps`). What sessions never do the
code never does: `EndedStaysEnded` (`EndedForGood`) is read off the steps of
`Sessions`, in which a session is opened only with an unused token and advanced only
while it is live.

`ContractProofs` shows that the two abstract specifications say what they are meant to
say, without a look at the code. `IdempotencyContract`: there is one claim per identity
and a runner has it (`RunnersHoldTheClaim`), hence one runner (`ContractExcludes`);
replies come from equal requests (`ContractReplays`); a finalized claim lapses at the
earliest when its request no longer runs (`ContractKeeps`). `Sessions`: a token is
current in one session only (`SessionsAreDisjoint`), and a spent token never becomes
current again (`SpentStaysSpent`), because sessions only move to tokens not issued
before. `None` is assumed to be no call, as in `RefreshTokens`. With the refinements
these promises hold of the rows as well.

`AccessProofs` rests on `IInv` of `Access`. `Witnessed` says that a request in flight
has taken note of the present facts; with `RolesQuery` and `PermissionsQuery` (what
the queries return is what is held) a guard's decision is one of those facts, which
gives `GrantedForCause` and `RefusedForCause`. For the seed, `SeedUpserts` and
`SeedAdminRoleReady` say that what the current run has written is still as it wrote
it unless a handler has edited: each upsert writes the row of its own name or a new
one (`UpsertRow`), never that of another name. `PlainUsers` gives `OnlySeededAdmin`:
registered accounts have only the role `user`, whose permissions are `profile:` ones.

`UserListingProofs` begins with the arithmetic of pages: `ParamsInBounds` (any query, `skip` at most
(MAX_PAGE - 1) * MAX_LIMIT), `AcceptedUnchanged` (what the DTO lets through the
helper does not change) and `HasNextMeansMore` (`hasNextPage` iff rows remain).

The walk is about ranks. The rank of an account is the number of listed
accounts that are as new as it or newer. It is the place of the account in every order
the database may choose, if the account shares its timestamp with nobody
(`PlaceIsRank`), and it never decreases, since the table only grows. The invariant
(`NobodyBehind`) says that every account the walk began with is seen or has a rank
beyond the rows read so far, and that the total of a page covers such a rank: so when
`hasNextPage` is false none is left.

`ExchangesProofs` rests on `IInv` of `Exchanges`: a recorded answer tells of a run that
took effect, and of each run there is one record (`OneRecordPerRun`); every success a
client remembers is in the record that is now under its key (`KeptIsRecorded`).
`OneAnswerPerKey` alone is not inductive: a replay adds one more success, and that it
agrees with the earlier ones follows from all of them agreeing with one record.
`OwnAnswersOnly` needs both parts, and that an identity determines the caller and the
key (`IdentityIsCallersKey`): an account on a guarded route, an address on a public
one, never one taken for the other. `RefusalsLeaveNoTrace` goes through the
ends of an exchange. `OnlyOwnRunsBlock` is not inductive either: a row left behind must
be known to be of somebody whose release failed, and that somebody to be remembered as
long as the row (`PendingIsSevered`); that nobody else is blocked by it is again
`IdentityIsCallersKey`. `AnswersAgree` assumes `FingerprintsTell`:
bodies with one fingerprint say the same. That `stableStringify` is such a fingerprint
is what `FingerprintIsCanonical` checks on the samples and on the bodies of the run.

Assumptions: the idempotency lifetime is a positive natural number, the lifetime of
tokens a natural number (0 included), the rate limit a positive one, the bounds on
faults and effects are natural numbers, `None` is no user, call, request or key. Sets of requests, identities, users and calls are arbitrary,
infinite ones included, except that the accounts of the listing are finitely many. For
`Access`: the administrator is an account, the names
`admin` and `user` are role names, the endpoints that are called require only seeded
permissions, profile permissions are seeded. For the listing: the bounds of the
pagination helper are as in the code, with any values.

Only model-checked: the liveness properties (`EventuallySettled`, `EveryCallAnswered`),
which are out of the prover's reach (the safety properties behind them, `ReservationsOnlyRunOut`
and `CallsAdvance`, are proved), and `FingerprintIsCanonical`: `stableStringify` is
recursive over data, and so would be the induction. Every other property of a passing
run is proved.

## 5. Plan

Done: all components of the inventory whose operations change state, the contract of
the idempotency store and the sessions of the token storage with the proofs that they
are implemented, the pipeline around them, and a proof of every safety property that a
run finds to hold, the fingerprint's aside; the idempotency theorems hold up to the
first overrun without any assumption on handlers. What could follow:

1. Row locks one by one in `revokeAllForUser`, to see who waits for whom and which
   deadlocks Postgres would have to break.
2. Two seed scripts at once.

## 6. Not modelled

Logging, Helmet, CORS, Swagger, validation messages and shutdown hooks keep no state
of the application's own. Nor do the health probes: liveness always answers, readiness
is one read whose answer is whether the database could be reached, and a property of
them would repeat the code. The two reads of a profile are shown and not acted upon. The throttler's storage, JWT signatures, bcrypt,
class-validator, Prisma and SHA-256 are libraries, modelled only by how the code uses
them. Configuration is read once and is constant afterwards: the TTLs and the limit
are constants of the models, with the ranges that `env.validation.ts` accepts as their
assumptions; the parsing of the strings is not modelled, nor is the overflow of a
lifetime beyond the range of dates. Test support has no behaviour of the service's
own. The Redis store the comments recommend does not exist.
