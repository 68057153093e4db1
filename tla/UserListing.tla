---------------------------- MODULE UserListing ----------------------------
(***************************************************************************)
(* GET /users walked page by page while accounts are registered.           *)
(*                                                                         *)
(* A page is a transaction of two statements at READ COMMITTED: each sees  *)
(* what has been committed when it starts.  `createdAt` is the start of the*)
(* inserting transaction, so accounts need not be committed in the order of*)
(* their timestamps, and timestamps may be equal.  Accounts are never      *)
(* deleted.  The client is one that follows hasNextPage from page 1.       *)
(***************************************************************************)
EXTENDS Pagination, FiniteSets

CONSTANTS
    Users,     \* accounts that are or may be registered
    Limits,    \* the limits the client may ask for
    MaxTime    \* bound: the last timestamp

ASSUME UsersAssumption == IsFiniteSet(Users)
ASSUME AskedAssumption == Limits \subseteq Int \cup {Undefined} /\ MaxTime \in Nat

VARIABLES
    clock,       \* the database's clock
    createdAt,   \* the timestamp of each account that has been inserted
    listed,      \* the accounts whose insert has been committed
    walk,        \* the client: the page it is at and what it has seen
    transaction  \* the statements of the page that have been executed

vars == <<clock, createdAt, listed, walk, transaction>>

table == <<clock, createdAt, listed>>

Walks == {"idle", "asking", "served", "finished", "refused"}

\* The array given to $transaction, which executes it in this order.
Statements_CountFirst == <<"count", "findMany">>

Statements == <<"findMany", "count">>

NotExecuted == [executed |-> 0, data |-> {}, total |-> 0]

TypeOK ==
    /\ clock \in 0..MaxTime
    /\ createdAt \in [Users -> (0..MaxTime) \cup {Undefined}]
    /\ listed \subseteq {u \in Users : createdAt[u] # Undefined}
    /\ walk \in [stage : Walks, page : 1..(MAX_PAGE + 1),
                 limit : Limits \cup {Undefined},
                 before : SUBSET Users, seen : SUBSET Users]
    /\ walk.stage \in {"asking", "served", "finished"} => walk.page <= MAX_PAGE
    /\ transaction \in [executed : 0..2, data : SUBSET Users, total : Nat]
    /\ transaction.total <= Cardinality(Users)

Init ==
    /\ clock = 0
    /\ createdAt = [u \in Users |-> Undefined]
    /\ listed = {}
    /\ walk = [stage |-> "idle", page |-> 1, limit |-> Undefined,
               before |-> {}, seen |-> {}]
    /\ transaction = NotExecuted

-----------------------------------------------------------------------------
\* Variant: no orderBy.
Orders_Any(S) ==
    {f \in [1..Cardinality(S) -> S] : \A i, j \in DOMAIN f : i # j => f[i] # f[j]}

\* Newest first; the order of equal timestamps is the database's choice.
Orders(S) ==
    {f \in [1..Cardinality(S) -> S] :
        /\ \A i, j \in DOMAIN f : i # j => f[i] # f[j]
        /\ \A i, j \in DOMAIN f : i < j => createdAt[f[i]] >= createdAt[f[j]]}

\* The rows from offset skip on, at most take of them.
Slice(order, skip, take) ==
    {order[i] : i \in {i \in DOMAIN order : skip < i /\ i <= skip + take}}

Asked == [page |-> walk.page, limit |-> walk.limit]

Params == getPaginationParams(Asked)

Meta == buildPaginationMeta(Params.page, Params.limit, transaction.total)

Executing(statement) ==
    /\ walk.stage = "asking" /\ transaction.executed < 2
    /\ Statements[transaction.executed + 1] = statement

-----------------------------------------------------------------------------
\* UsersService.createUser: the timestamp first, visible when committed.
InsertUser(u) ==
    /\ createdAt[u] = Undefined
    /\ createdAt' = [createdAt EXCEPT ![u] = clock]
    /\ UNCHANGED <<clock, listed, walk, transaction>>

CommitUser(u) ==
    /\ createdAt[u] # Undefined /\ u \notin listed
    /\ listed' = listed \cup {u}
    /\ UNCHANGED <<clock, createdAt, walk, transaction>>

Tick ==
    /\ clock < MaxTime /\ clock' = clock + 1
    /\ UNCHANGED <<createdAt, listed, walk, transaction>>

\* The validation pipe answers a query the DTO does not accept.
Ask(page, limit, before, seen) ==
    walk' = [stage |-> IF Accepted(page, limit) THEN "asking" ELSE "refused",
             page |-> page, limit |-> limit, before |-> before, seen |-> seen]

BeginWalk ==
    /\ walk.stage = "idle"
    /\ \E limit \in Limits : Ask(1, limit, listed, {})
    /\ UNCHANGED <<table, transaction>>

FindMany ==
    /\ Executing("findMany")
    /\ \E order \in Orders(listed) :
          transaction' = [transaction EXCEPT
              !.executed = @ + 1, !.data = Slice(order, Params.skip, Params.take)]
    /\ UNCHANGED <<table, walk>>

Count ==
    /\ Executing("count")
    /\ transaction' = [transaction EXCEPT
           !.executed = @ + 1, !.total = Cardinality(listed)]
    /\ UNCHANGED <<table, walk>>

\* The answer reaches the client.
Respond ==
    /\ walk.stage = "asking" /\ transaction.executed = 2
    /\ walk' = [walk EXCEPT !.seen = @ \cup transaction.data,
                            !.stage = IF Meta.hasNextPage THEN "served"
                                      ELSE "finished"]
    /\ UNCHANGED <<table, transaction>>

NextPage ==
    /\ walk.stage = "served"
    /\ Ask(Params.page + 1, walk.limit, walk.before, walk.seen)
    /\ transaction' = NotExecuted
    /\ UNCHANGED table

Next ==
    \/ \E u \in Users : InsertUser(u) \/ CommitUser(u)
    \/ Tick
    \/ BeginWalk \/ FindMany \/ Count \/ Respond \/ NextPage

Spec == Init /\ [][Next]_vars

-----------------------------------------------------------------------------
(***************************************************************************)
(* Correctness.                                                            *)
(***************************************************************************)
OwnTimestamp(u) == \A v \in listed \ {u} : createdAt[v] # createdAt[u]

\* Offset paging over a table that only grows, newest first, with the total
\* counted after the rows were read: a client that follows hasNextPage to the
\* end has been shown everybody who was there when it began and who shares a
\* creation time with nobody.  (Equal timestamps may hide a user: the order is
\* by createdAt alone.)
NobodySkipped ==
    walk.stage = "finished" =>
        \A u \in walk.before : OwnTimestamp(u) => u \in walk.seen

\* A page agrees with its own meta: it is no longer than its limit, and the
\* total counts at least the rows skipped and the rows shown.
TotalCoversPage ==
    transaction.executed = 2 =>
        /\ Cardinality(transaction.data) <= Params.limit
        /\ transaction.data # {} =>
               transaction.total >= Params.skip + Cardinality(transaction.data)

\* Following hasNextPage runs into the DTO's bounds only when there really are
\* users beyond the last page that may be asked for.
RefusedOnlyBeyondReach ==
    walk.stage = "refused" /\ walk.page > 1 =>
        Cardinality(listed) > MAX_PAGE * Params.limit
=============================================================================
