------------------------- MODULE UserListingProofs -------------------------
(***************************************************************************)
(* The arithmetic of offset pagination, and walks over the list of users,  *)
(* for every query, table, limit and page bound.                           *)
(***************************************************************************)
EXTENDS UserListing, TLAPS, FiniteSetTheorems

\* A raw query parameter: an integer, or left out.
Parameter == Int \cup {Undefined}

\* clamp ends between its bounds, and leaves alone what is between them.
LEMMA ClampBounds ==
    ASSUME NEW value \in Int, NEW low \in Int, NEW high \in Int, low <= high
    PROVE  /\ clamp(value, low, high) \in low..high
           /\ value \in low..high => clamp(value, low, high) = value
BY DEF clamp

\* Multiplying by a natural number keeps the order.
LEMMA ProductOrder ==
    ASSUME NEW a \in Int, NEW b \in Int, NEW c \in Nat, a <= b
    PROVE  a * c <= b * c
<1>1. PICK d \in Nat : b = a + d
  <2> WITNESS b - a \in Nat
  <2> QED  OBVIOUS
<1>2. d * c \in Nat
  OBVIOUS
<1>3. b * c = a * c + d * c
  BY <1>1
<1> QED  BY <1>2, <1>3

\* Whatever is asked, take is in 1..MAX_LIMIT and skip stays within
\* (MAX_PAGE - 1) * MAX_LIMIT, the bound the helper's comment gives.
THEOREM ParamsInBounds ==
    ASSUME NEW page \in Parameter, NEW limit \in Parameter
    PROVE  LET params == getPaginationParams([page |-> page, limit |-> limit])
           IN  /\ params.page \in 1..MAX_PAGE
               /\ params.take \in 1..MAX_LIMIT
               /\ params.skip \in 0..((MAX_PAGE - 1) * MAX_LIMIT)
<1> DEFINE asked == [page |-> page, limit |-> limit]
           p == clamp(OrElse(page, DEFAULT_PAGE), DEFAULT_PAGE, MAX_PAGE)
           l == clamp(OrElse(limit, DEFAULT_LIMIT), MIN_LIMIT, MAX_LIMIT)
<1>1. p \in 1..MAX_PAGE
  <2> DEFINE value == OrElse(page, DEFAULT_PAGE)
  <2>1. value \in Int
    BY DEF OrElse, Parameter, DEFAULT_PAGE
  <2> HIDE DEF value
  <2>2. clamp(value, 1, MAX_PAGE) \in 1..MAX_PAGE
    BY <2>1, ClampBounds, LimitsAssumption
  <2> QED  BY <2>2 DEF DEFAULT_PAGE, value
<1>2. l \in 1..MAX_LIMIT
  <2> DEFINE value == OrElse(limit, DEFAULT_LIMIT)
  <2>1. value \in Int
    BY LimitsAssumption DEF OrElse, Parameter, MIN_LIMIT
  <2> HIDE DEF value
  <2>2. clamp(value, 1, MAX_LIMIT) \in 1..MAX_LIMIT
    BY <2>1, ClampBounds, LimitsAssumption DEF MIN_LIMIT
  <2> QED  BY <2>2 DEF MIN_LIMIT, value
<1>3. getPaginationParams(asked) =
         [skip |-> (p - 1) * l, take |-> l, page |-> p, limit |-> l]
  BY DEF getPaginationParams
<1> HIDE DEF p, l
<1>4. (p - 1) * l \in 0..((MAX_PAGE - 1) * MAX_LIMIT)
  <2>1. (p - 1) * l <= (MAX_PAGE - 1) * l
    BY <1>1, <1>2, ProductOrder, LimitsAssumption
  <2>2. (MAX_PAGE - 1) * l <= (MAX_PAGE - 1) * MAX_LIMIT
    <3>1. l * (MAX_PAGE - 1) <= MAX_LIMIT * (MAX_PAGE - 1)
      BY <1>1, <1>2, ProductOrder, LimitsAssumption
    <3> QED  BY <3>1, <1>2, LimitsAssumption
  <2>3. 0 <= (p - 1) * l
    <3>1. 0 * l <= (p - 1) * l
      BY <1>1, <1>2, ProductOrder
    <3> QED  BY <3>1, <1>2
  <2> QED  BY <1>1, <1>2, <2>1, <2>2, <2>3, LimitsAssumption
<1> QED  BY <1>1, <1>2, <1>3, <1>4

\* What the DTO lets through, the helper does not change: a client is never
\* given another page or another limit than it asked for.
THEOREM AcceptedUnchanged ==
    ASSUME NEW page \in Int, NEW limit \in Int, Accepted(page, limit)
    PROVE  LET params == getPaginationParams([page |-> page, limit |-> limit])
           IN  params.page = page /\ params.limit = limit
<1>1. page # Undefined /\ limit # Undefined
  BY LimitsAssumption
<1>2. page \in DEFAULT_PAGE..MAX_PAGE /\ limit \in MIN_LIMIT..MAX_LIMIT
  BY <1>1 DEF Accepted
<1>3. clamp(page, DEFAULT_PAGE, MAX_PAGE) = page
  BY <1>2, ClampBounds, LimitsAssumption DEF DEFAULT_PAGE
<1>4. clamp(limit, MIN_LIMIT, MAX_LIMIT) = limit
  BY <1>2, ClampBounds, LimitsAssumption DEF MIN_LIMIT
<1> QED  BY <1>1, <1>3, <1>4 DEF getPaginationParams, OrElse

\* totalPages pages hold every row, and one page less does not.
LEMMA CeilDivBounds ==
    ASSUME NEW total \in Nat, NEW limit \in Nat \ {0}
    PROVE  /\ CeilDiv(total, limit) \in Int
           /\ total <= CeilDiv(total, limit) * limit
           /\ CeilDiv(total, limit) * limit < total + limit
<1> DEFINE n == total + limit - 1
           q == n \div limit
           m == n % limit
<1>1. n \in Nat
  OBVIOUS
<1>2. q \in Int /\ m \in 0..(limit - 1) /\ n = limit * q + m
  BY <1>1
<1>3. CeilDiv(total, limit) = q
  BY DEF CeilDiv
<1> HIDE DEF q, m
<1>4. q * limit = limit * q
  BY <1>2
<1> QED  BY <1>2, <1>3, <1>4

\* hasNextPage says exactly whether there are rows beyond the page, so that a
\* client that follows it neither stops early nor is sent to an empty page.
THEOREM HasNextMeansMore ==
    ASSUME NEW page \in Nat \ {0}, NEW limit \in Nat \ {0}, NEW total \in Nat
    PROVE  buildPaginationMeta(page, limit, total).hasNextPage <=> page * limit < total
<1> DEFINE q == CeilDiv(total, limit)
<1>1. buildPaginationMeta(page, limit, total).hasNextPage = (page < q)
  <2>1. TotalPages(total, limit) = q
    BY DEF TotalPages
  <2> QED  BY <2>1, Zenon DEF buildPaginationMeta
<1>2. q \in Int /\ total <= q * limit /\ q * limit < total + limit
  BY CeilDivBounds
<1> HIDE DEF q
<1>3. ASSUME page < q PROVE page * limit < total
  <2>1. (page + 1) * limit <= q * limit
    BY <1>2, <1>3, ProductOrder
  <2>2. (page + 1) * limit = page * limit + limit
    OBVIOUS
  <2> QED  BY <1>2, <2>1, <2>2
<1>4. ASSUME page * limit < total PROVE page < q
  <2>1. SUFFICES ASSUME q <= page PROVE FALSE
    BY <1>2
  <2>2. q * limit <= page * limit
    BY <1>2, <2>1, ProductOrder
  <2> QED  BY <1>2, <1>4, <2>2
<1> QED  BY <1>1, <1>3, <1>4

-----------------------------------------------------------------------------
(***************************************************************************)
(* A walk, page by page.                                                   *)
(***************************************************************************)

\* The limit of the walk, after the helper has seen to it.
Width == clamp(OrElse(walk.limit, DEFAULT_LIMIT), MIN_LIMIT, MAX_LIMIT)

\* The last row of the page.
Reach == Params.skip + Params.take

\* What the helper makes of a walk's query.
ParamsRight ==
    /\ Params.limit = Width /\ Params.take = Width /\ Width \in Nat \ {0}
    /\ Params.page \in 1..MAX_PAGE
    /\ Params.skip = (Params.page - 1) * Width /\ Params.skip \in Nat
    /\ Reach = Params.page * Width /\ Reach \in Nat
    /\ walk.page <= MAX_PAGE => Params.page = walk.page

LEMMA ParamFacts ==
    ASSUME TypeOK
    PROVE  ParamsRight
<1>1. walk.page \in 1..(MAX_PAGE + 1) /\ walk.limit \in Int \cup {Undefined}
  BY AskedAssumption DEF TypeOK
<1>2. walk.page \in Int /\ walk.page # Undefined
  BY <1>1, LimitsAssumption
<1>3. Width \in 1..MAX_LIMIT
  <2>. DEFINE value == OrElse(walk.limit, DEFAULT_LIMIT)
  <2>1. value \in Int
    BY <1>1, LimitsAssumption DEF OrElse, MIN_LIMIT
  <2>. HIDE DEF value
  <2>2. clamp(value, 1, MAX_LIMIT) \in 1..MAX_LIMIT
    BY <2>1, ClampBounds, LimitsAssumption DEF MIN_LIMIT
  <2>. QED  BY <2>2 DEF MIN_LIMIT, value, Width
<1>. DEFINE p == clamp(walk.page, 1, MAX_PAGE)
<1>4. p \in 1..MAX_PAGE /\ (walk.page <= MAX_PAGE => p = walk.page)
  <2>1. MAX_PAGE \in Int /\ 1 <= MAX_PAGE
    BY LimitsAssumption
  <2>2. \A value \in Int : /\ clamp(value, 1, MAX_PAGE) \in 1..MAX_PAGE
                           /\ value \in 1..MAX_PAGE => clamp(value, 1, MAX_PAGE) = value
    BY <2>1, ClampBounds
  <2>. QED  BY <1>1, <1>2, <2>1, <2>2
<1>5. Params = [skip |-> (p - 1) * Width, take |-> Width, page |-> p, limit |-> Width]
  BY <1>2 DEF Params, Asked, getPaginationParams, OrElse, Width, DEFAULT_PAGE
<1>. HIDE DEF p
<1>6. /\ (p - 1) * Width \in Nat /\ p * Width \in Nat
      /\ (p - 1) * Width + Width = p * Width
  <2>1. \A a \in Nat, b \in Nat : a * b \in Nat
    OBVIOUS
  <2>2. p \in Nat /\ p - 1 \in Nat /\ Width \in Nat
    BY <1>3, <1>4, LimitsAssumption
  <2>3. \A a \in Int, b \in Int : (a - 1) * b + b = a * b
    OBVIOUS
  <2>. QED  BY <2>1, <2>2, <2>3
<1>. QED  BY <1>3, <1>4, <1>5, <1>6, LimitsAssumption DEF Reach, ParamsRight

\* The same after a step.
LEMMA ParamFactsNext == TypeOK' => ParamsRight'
<1>1. TypeOK => ParamsRight
  BY ParamFacts
<1>. QED  BY <1>1, PTL

-----------------------------------------------------------------------------
(***************************************************************************)
(* Orders and slices.                                                      *)
(***************************************************************************)

LEMMA ListedFinite ==
    ASSUME TypeOK
    PROVE  /\ IsFiniteSet(listed) /\ Cardinality(listed) \in Nat
           /\ Cardinality(listed) <= Cardinality(Users)
           /\ listed \subseteq Users
           /\ \A u \in listed : createdAt[u] \in 0..MaxTime
<1>1. listed \in SUBSET Users /\ \A u \in listed : createdAt[u] \in 0..MaxTime
  BY DEF TypeOK
<1>. QED  BY <1>1, UsersAssumption, FS_Subset, FS_CardinalityType

\* The users that are listed before u in any order, and u.
AtLeast(u) == {v \in listed : createdAt[v] >= createdAt[u]}

Rank(u) == Cardinality(AtLeast(u))

LEMMA OrderFacts ==
    ASSUME TypeOK, NEW order \in Orders(listed)
    PROVE  /\ order \in [1..Cardinality(listed) -> listed]
           /\ \A i, j \in 1..Cardinality(listed) :
                 /\ i # j => order[i] # order[j]
                 /\ i < j => createdAt[order[i]] >= createdAt[order[j]]
           /\ \A u \in listed : \E i \in 1..Cardinality(listed) : order[i] = u
<1>. DEFINE n == Cardinality(listed)
<1>1. /\ order \in [1..n -> listed]
      /\ \A i, j \in 1..n : /\ i # j => order[i] # order[j]
                            /\ i < j => createdAt[order[i]] >= createdAt[order[j]]
  BY DEF Orders
<1>2. order \in Injection(1..n, listed)
  BY <1>1 DEF Injection, IsInjective
<1>3. Cardinality(1..n) = n
  BY ListedFinite, FS_Interval
<1>4. order \in Surjection(1..n, listed)
  BY <1>2, <1>3, ListedFinite, FS_Injection
<1>. QED  BY <1>1, <1>4 DEF Surjection

\* A user who shares a timestamp with nobody has one place in every order.
LEMMA PlaceIsRank ==
    ASSUME TypeOK, NEW order \in Orders(listed), NEW u \in listed, OwnTimestamp(u)
    PROVE  \E i \in 1..Cardinality(listed) : order[i] = u /\ Rank(u) = i
<1>. DEFINE n == Cardinality(listed)
<1>1. PICK i \in 1..n : order[i] = u
  BY OrderFacts
<1>. DEFINE g == [j \in 1..i |-> order[j]]
<1>2. \A j \in 1..n : order[j] \in listed /\ (j <= i <=> order[j] \in AtLeast(u))
  <2>. SUFFICES ASSUME NEW j \in 1..n
                PROVE  order[j] \in listed /\ (j <= i <=> order[j] \in AtLeast(u))
    OBVIOUS
  <2>1. order[j] \in listed /\ createdAt[order[j]] \in Nat /\ createdAt[u] \in Nat
    BY OrderFacts, ListedFinite
  <2>2. CASE j = i
    BY <1>1, <2>1, <2>2 DEF AtLeast
  <2>3. CASE j < i
    <3>1. createdAt[order[j]] >= createdAt[u]
      BY <1>1, <2>3, OrderFacts
    <3>. QED  BY <2>1, <2>3, <3>1 DEF AtLeast
  <2>4. CASE i < j
    <3>1. createdAt[u] >= createdAt[order[j]] /\ order[j] # u
      BY <1>1, <2>4, OrderFacts
    <3>2. createdAt[u] # createdAt[order[j]]
      BY <2>1, <3>1 DEF OwnTimestamp
    <3>. QED  BY <2>1, <2>4, <3>1, <3>2 DEF AtLeast
  <2>5. i \in Nat /\ j \in Nat
    BY ListedFinite
  <2>. QED  BY <2>2, <2>3, <2>4, <2>5
<1>3. 1..i \subseteq 1..n /\ i \in Nat
  BY ListedFinite
<1>4. g \in Bijection(1..i, AtLeast(u))
  <2>1. \A j \in 1..i : g[j] \in AtLeast(u)
    BY <1>2, <1>3
  <2>2. \A j, k \in 1..i : g[j] = g[k] => j = k
    BY <1>3, OrderFacts
  <2>3. \A v \in AtLeast(u) : \E j \in 1..i : g[j] = v
    <3>1. \A v \in AtLeast(u) : \E j \in 1..n : order[j] = v
      BY OrderFacts DEF AtLeast
    <3>2. \A j \in 1..n : j <= i => j \in 1..i
      BY <1>3, ListedFinite
    <3>. QED  BY <1>2, <3>1, <3>2
  <2>. QED
    BY <2>1, <2>2, <2>3 DEF Bijection, Injection, IsInjective, Surjection
<1>5. Rank(u) = i
  BY <1>3, <1>4, FS_CountingElements DEF Rank, ExistsBijection
<1>. QED  BY <1>1, <1>5

\* A page has at most `take` rows, and they lie within the table.
LEMMA SliceFacts ==
    ASSUME TypeOK, NEW order \in Orders(listed), NEW skip \in Nat, NEW take \in Nat
    PROVE  LET data == Slice(order, skip, take)
           IN  /\ data \subseteq listed
               /\ Cardinality(data) \in Nat /\ Cardinality(data) <= take
               /\ data # {} => skip + Cardinality(data) <= Cardinality(listed)
<1>. DEFINE n == Cardinality(listed)
            data == Slice(order, skip, take)
            m == IF n < skip + take THEN n ELSE skip + take
            places == (skip + 1)..m
            g == [i \in places |-> order[i]]
<1>1. n \in Nat /\ m \in Nat /\ m <= n /\ m <= skip + take /\ places \subseteq 1..n
  BY ListedFinite
<1>2. data = {order[i] : i \in places}
  <2>1. DOMAIN order = 1..n
    BY OrderFacts
  <2>2. {i \in 1..n : skip < i /\ i <= skip + take} = places
    BY <1>1
  <2>. QED  BY <2>1, <2>2 DEF Slice
<1>3. data \subseteq listed
  BY <1>1, <1>2, OrderFacts
<1>4. IsFiniteSet(places)
      /\ Cardinality(places) = IF skip + 1 > m THEN 0 ELSE m - (skip + 1) + 1
  <2>1. skip + 1 \in Int /\ m \in Int
    BY <1>1
  <2>. HIDE DEF m
  <2>. QED  BY <2>1, FS_Interval
<1>. HIDE DEF places, data, m
<1>5. g \in Bijection(places, data)
  <2>1. \A i \in places : g[i] \in data
    BY <1>2
  <2>2. \A i, j \in places : g[i] = g[j] => i = j
    BY <1>1, OrderFacts
  <2>3. \A v \in data : \E i \in places : g[i] = v
    BY <1>2
  <2>. QED
    BY <2>1, <2>2, <2>3 DEF Bijection, Injection, IsInjective, Surjection
<1>6. Cardinality(data) = Cardinality(places)
  BY <1>4, <1>5, FS_Bijection DEF ExistsBijection
<1>7. data # {} => skip + 1 <= m
  BY <1>1, <1>2 DEF places
<1>8. /\ Cardinality(data) \in Nat /\ Cardinality(data) <= take
      /\ data # {} => skip + Cardinality(data) <= n
  BY <1>1, <1>4, <1>6, <1>7
<1>. QED  BY <1>3, <1>8 DEF data

-----------------------------------------------------------------------------
(***************************************************************************)
(* What a walk keeps true of the table it walks over.                      *)
(***************************************************************************)

\* A walk goes on only within the DTO's bounds, and a page is complete before
\* it is shown.
WalkInBounds ==
    /\ walk.stage \in {"asking", "served", "finished"} =>
          Accepted(walk.page, walk.limit)
    /\ walk.stage = "idle" => transaction.executed = 0
    /\ walk.stage \in {"served", "finished"} =>
          transaction.executed = 2 /\ transaction.data \subseteq walk.seen
    /\ walk.stage = "served" => Reach < transaction.total
    /\ walk.stage = "finished" => transaction.total <= Reach
    /\ walk.before \subseteq listed

\* The rows of a page fit the table, and so does the total.
PageFits ==
    /\ transaction.executed = 0 => transaction.data = {}
    /\ /\ Cardinality(transaction.data) \in Nat
       /\ Cardinality(transaction.data) <= Params.take
    /\ transaction.data # {} =>
          Params.skip + Cardinality(transaction.data) <=
              (IF transaction.executed = 2 THEN transaction.total
               ELSE Cardinality(listed))
    /\ transaction.executed = 2 => transaction.total <= Cardinality(listed)

\* Where the walk has not been yet.
Frontier(u) ==
    IF transaction.executed = 0 THEN Rank(u) > Params.skip
    ELSE Rank(u) > Reach /\ (transaction.executed = 2 => transaction.total > Reach)

\* Users of the beginning have been shown or lie ahead: the table only grows,
\* so that ranks only grow.
NobodyBehind ==
    walk.stage \in {"asking", "served", "finished"} =>
        \A u \in walk.before :
            OwnTimestamp(u) => u \in walk.seen \cup transaction.data \/ Frontier(u)

IInv == TypeOK /\ WalkInBounds /\ PageFits /\ NobodyBehind /\ RefusedOnlyBeyondReach

\* The record types of TypeOK.
WalkType == [stage : Walks, page : 1..(MAX_PAGE + 1), limit : Limits \cup {Undefined},
             before : SUBSET Users, seen : SUBSET Users]

PageType == [executed : 0..2, data : SUBSET Users, total : Nat]

LEMMA PageStep ==
    ASSUME NEW page \in PageType, page.executed \in 0..1
    PROVE  /\ \A data \in SUBSET Users :
                 [page EXCEPT !.executed = @ + 1, !.data = data] \in PageType
           /\ \A total \in Nat :
                 [page EXCEPT !.executed = @ + 1, !.total = total] \in PageType
<1>. DEFINE e == page.executed + 1
<1>1. e \in 0..2
  BY DEF PageType
<1>. HIDE DEF e
<1>2. /\ \A data \in SUBSET Users :
            [page EXCEPT !.executed = e, !.data = data] \in PageType
      /\ \A total \in Nat : [page EXCEPT !.executed = e, !.total = total] \in PageType
  BY <1>1 DEF PageType
<1>. QED  BY <1>2 DEF e

LEMMA RankType ==
    ASSUME TypeOK, NEW u
    PROVE  Rank(u) \in Nat /\ Rank(u) <= Cardinality(listed)
<1>1. AtLeast(u) \in SUBSET listed
  BY DEF AtLeast
<1>. QED  BY <1>1, ListedFinite, FS_Subset, FS_CardinalityType DEF Rank

LEMMA InvInit ==
    ASSUME Init
    PROVE  IInv
<1>1. TypeOK
  <2>1. Cardinality(Users) \in Nat
    BY UsersAssumption, FS_CardinalityType
  <2>. QED
    BY <2>1, AskedAssumption, LimitsAssumption DEF Init, TypeOK, NotExecuted, Walks
<1>2. WalkInBounds /\ NobodyBehind /\ RefusedOnlyBeyondReach
  BY DEF Init, WalkInBounds, NobodyBehind, RefusedOnlyBeyondReach, NotExecuted
<1>3. PageFits
  <2>1. Cardinality({}) = 0
    BY FS_EmptySet
  <2>. QED  BY <1>1, <2>1, ParamFacts DEF ParamsRight, Init, PageFits, NotExecuted
<1>. QED  BY <1>1, <1>2, <1>3 DEF IInv

\* Registrations and time: the table grows under the walk.
LEMMA GrowthPreserves ==
    ASSUME IInv, \/ \E u \in Users : InsertUser(u) \/ CommitUser(u)
                 \/ Tick \/ UNCHANGED vars
    PROVE  IInv'
<1>0. TypeOK /\ WalkInBounds /\ PageFits /\ NobodyBehind /\ RefusedOnlyBeyondReach
  BY DEF IInv
<1>1. /\ walk' = walk /\ transaction' = transaction
      /\ listed \subseteq listed' /\ \A u \in listed : createdAt'[u] = createdAt[u]
      /\ Params' = Params /\ Reach' = Reach
  <2>1. \A u \in Users : u \in listed => createdAt[u] # Undefined
    BY <1>0 DEF TypeOK
  <2>2. /\ walk' = walk /\ transaction' = transaction /\ listed \subseteq listed'
        /\ \A u \in listed : createdAt'[u] = createdAt[u]
    BY <1>0, <2>1 DEF InsertUser, CommitUser, Tick, vars, TypeOK
  <2>. QED  BY <2>2 DEF Params, Asked, Reach
<1>2. TypeOK'
  <2>1. /\ clock' \in 0..MaxTime
        /\ createdAt' \in [Users -> (0..MaxTime) \cup {Undefined}]
        /\ listed' \subseteq {u \in Users : createdAt'[u] # Undefined}
    <3>1. CASE \E u \in Users : InsertUser(u)
      <4>1. PICK u \in Users : InsertUser(u)
        BY <3>1
      <4>2. clock # Undefined
        BY <1>0, LimitsAssumption, AskedAssumption DEF TypeOK
      <4>. QED  BY <1>0, <4>1, <4>2 DEF InsertUser, TypeOK
    <3>2. CASE \E u \in Users : CommitUser(u)
      BY <1>0, <3>2 DEF CommitUser, TypeOK
    <3>3. CASE Tick
      BY <1>0, <3>3, AskedAssumption DEF Tick, TypeOK
    <3>4. CASE UNCHANGED vars
      BY <1>0, <3>4 DEF vars, TypeOK
    <3>. QED  BY <3>1, <3>2, <3>3, <3>4
  <2>. QED  BY <1>0, <1>1, <2>1 DEF TypeOK
<1>3. /\ Cardinality(listed) \in Nat /\ Cardinality(listed') \in Nat
      /\ Cardinality(listed) <= Cardinality(listed')
      /\ IsFiniteSet(listed')
  <2>1. IsFiniteSet(listed') /\ Cardinality(listed') \in Nat
    <3>1. listed' \in SUBSET Users
      BY <1>2 DEF TypeOK
    <3>. QED  BY <3>1, UsersAssumption, FS_Subset, FS_CardinalityType
  <2>. QED  BY <1>0, <1>1, <2>1, ListedFinite, FS_Subset
<1>4. ASSUME NEW u \in listed
      PROVE  /\ OwnTimestamp(u)' => OwnTimestamp(u)
             /\ Rank(u)' \in Nat /\ Rank(u)' >= Rank(u)
  <2>1. AtLeast(u) \in SUBSET AtLeast(u)' /\ AtLeast(u)' \in SUBSET listed'
    BY <1>1 DEF AtLeast
  <2>2. IsFiniteSet(AtLeast(u)')
    BY <1>3, <2>1, FS_Subset
  <2>3. Cardinality(AtLeast(u)') \in Nat /\ Cardinality(AtLeast(u)) <= Cardinality(AtLeast(u)')
    BY <2>1, <2>2, FS_Subset, FS_CardinalityType
  <2>. QED  BY <1>0, <1>1, <2>3, RankType DEF OwnTimestamp, Rank
<1>5. WalkInBounds'
  BY <1>0, <1>1 DEF WalkInBounds
<1>6. PageFits' /\ RefusedOnlyBeyondReach'
  <2>1. Params.skip \in Nat /\ Params.limit \in Nat /\ transaction.total \in Nat
    BY <1>0, ParamFacts DEF ParamsRight, TypeOK
  <2>2. PageFits'
    BY <1>0, <1>1, <1>3, <2>1 DEF PageFits
  <2>3. MAX_PAGE * Params.limit \in Nat
    BY <2>1, LimitsAssumption
  <2>. QED  BY <1>0, <1>1, <1>3, <2>2, <2>3 DEF RefusedOnlyBeyondReach
<1>7. NobodyBehind'
  <2>1. Params.skip \in Nat /\ Reach \in Nat
    BY <1>0, ParamFacts DEF ParamsRight
  <2>2. ASSUME NEW u \in listed, Frontier(u)
        PROVE  Frontier(u)'
    BY <1>0, <1>1, <1>4, <2>1, <2>2, RankType DEF Frontier
  <2>. QED  BY <1>0, <1>1, <1>4, <2>2 DEF NobodyBehind, WalkInBounds
<1>. QED  BY <1>2, <1>5, <1>6, <1>7 DEF IInv

\* The first page is asked for.
LEMMA BeginPreserves ==
    ASSUME IInv, BeginWalk
    PROVE  IInv'
<1>0. TypeOK /\ WalkInBounds /\ PageFits
  BY DEF IInv
<1>1. PICK limit \in Limits :
          /\ walk' = [stage |-> IF Accepted(1, limit) THEN "asking" ELSE "refused",
                      page |-> 1, limit |-> limit, before |-> listed, seen |-> {}]
          /\ transaction' = transaction /\ transaction.executed = 0
          /\ clock' = clock /\ createdAt' = createdAt /\ listed' = listed
  BY <1>0 DEF BeginWalk, Ask, table, WalkInBounds
<1>2. TypeOK'
  BY <1>0, <1>1, LimitsAssumption DEF TypeOK, Walks
<1>3. WalkInBounds'
  BY <1>1 DEF WalkInBounds
<1>4. Params'.skip = 0 /\ Params'.take \in Nat
  <2>1. Params'.page = 1 /\ Params'.skip = (Params'.page - 1) * Width' /\ Width' \in Nat
    BY <1>1, <1>2, ParamFactsNext, LimitsAssumption DEF ParamsRight
  <2>2. \A b \in Nat : 0 * b = 0
    OBVIOUS
  <2>3. Params'.page - 1 = 0
    BY <2>1
  <2>4. Params'.skip = 0 * Width'
    BY <2>1, <2>3
  <2>5. Params'.skip = 0
    BY <2>1, <2>2, <2>4
  <2>6. Params'.take \in Nat
    BY <1>2, ParamFactsNext DEF ParamsRight
  <2>. QED  BY <2>5, <2>6
<1>5. transaction.data = {}
  BY <1>0, <1>1 DEF PageFits
<1>6. PageFits'
  BY <1>1, <1>4, <1>5, FS_EmptySet DEF PageFits
<1>7. NobodyBehind'
  <2>. SUFFICES ASSUME NEW u \in listed
                PROVE  Rank(u)' > 0
    BY <1>1, <1>4 DEF NobodyBehind, Frontier
  <2>1. u \in AtLeast(u)
    BY <1>0, ListedFinite, AskedAssumption DEF AtLeast
  <2>2. AtLeast(u)' = AtLeast(u) /\ AtLeast(u) \in SUBSET listed
    BY <1>1 DEF AtLeast
  <2>3. IsFiniteSet(AtLeast(u))
    BY <1>0, <2>2, ListedFinite, FS_Subset
  <2>. QED  BY <2>1, <2>2, <2>3, FS_EmptySet, FS_CardinalityType DEF Rank
<1>8. RefusedOnlyBeyondReach'
  BY <1>1 DEF RefusedOnlyBeyondReach
<1>. QED  BY <1>2, <1>3, <1>6, <1>7, <1>8 DEF IInv

\* The rows of the page are read.
LEMMA FindManyPreserves ==
    ASSUME IInv, FindMany
    PROVE  IInv'
<1>0. TypeOK /\ WalkInBounds /\ PageFits /\ NobodyBehind /\ RefusedOnlyBeyondReach
  BY DEF IInv
<1>1. PICK order \in Orders(listed) :
          transaction' = [transaction EXCEPT
              !.executed = @ + 1, !.data = Slice(order, Params.skip, Params.take)]
  BY DEF FindMany
<1>2. /\ walk.stage = "asking" /\ transaction.executed = 0
      /\ walk' = walk /\ clock' = clock /\ createdAt' = createdAt /\ listed' = listed
  BY <1>0 DEF FindMany, Executing, Statements, table, TypeOK
<1>. DEFINE data == Slice(order, Params.skip, Params.take)
<1>3. /\ transaction'.executed = 1 /\ transaction'.data = data
      /\ transaction'.total = transaction.total
      /\ Params' = Params /\ Reach' = Reach
  BY <1>0, <1>1, <1>2 DEF TypeOK, Params, Asked, Reach
<1>4. /\ data \subseteq listed
      /\ Cardinality(data) \in Nat /\ Cardinality(data) <= Params.take
      /\ data # {} => Params.skip + Cardinality(data) <= Cardinality(listed)
  BY <1>0, ParamFacts, SliceFacts DEF ParamsRight
<1>5. TypeOK'
  <2>1. transaction \in PageType /\ data \in SUBSET Users
    BY <1>0, <1>4, ListedFinite DEF TypeOK, PageType
  <2>. HIDE DEF data
  <2>2. transaction' = [transaction EXCEPT !.executed = @ + 1, !.data = data]
    BY <1>1 DEF data
  <2>3. transaction.executed \in 0..1
    BY <1>2
  <2>4. transaction' \in PageType
    BY <2>1, <2>2, <2>3, PageStep, Zenon
  <2>. QED  BY <1>0, <1>2, <1>3, <2>4 DEF TypeOK, PageType
<1>6. WalkInBounds' /\ PageFits' /\ RefusedOnlyBeyondReach'
  BY <1>0, <1>2, <1>3, <1>4
  DEF WalkInBounds, PageFits, RefusedOnlyBeyondReach
<1>7. NobodyBehind'
  <2>. SUFFICES ASSUME NEW u \in walk.before, OwnTimestamp(u), u \notin walk.seen,
                       Rank(u) <= Reach
                PROVE  u \in data
    <3>1. \A u : Rank(u)' = Rank(u) /\ OwnTimestamp(u)' = OwnTimestamp(u)
      BY <1>2 DEF Rank, AtLeast, OwnTimestamp
    <3>2. \A u : Rank(u) \in Nat /\ Reach \in Nat
      BY <1>0, RankType, ParamFacts DEF ParamsRight
    <3>. QED  BY <1>2, <1>3, <3>1, <3>2 DEF NobodyBehind, Frontier
  <2>1. u \in listed /\ Rank(u) > Params.skip
    BY <1>0, <1>2 DEF WalkInBounds, NobodyBehind, Frontier, PageFits
  <2>2. PICK i \in 1..Cardinality(listed) : order[i] = u /\ Rank(u) = i
    BY <1>0, <2>1, PlaceIsRank
  <2>3. i \in DOMAIN order
    BY <1>0, OrderFacts
  <2>. QED  BY <2>1, <2>2, <2>3 DEF Slice, Reach
<1>. QED  BY <1>5, <1>6, <1>7 DEF IInv

\* The rows of the table are counted.
LEMMA CountPreserves ==
    ASSUME IInv, Count
    PROVE  IInv'
<1>0. TypeOK /\ WalkInBounds /\ PageFits /\ NobodyBehind /\ RefusedOnlyBeyondReach
  BY DEF IInv
<1>2. /\ walk.stage = "asking" /\ transaction.executed = 1
      /\ walk' = walk /\ clock' = clock /\ createdAt' = createdAt /\ listed' = listed
  BY <1>0 DEF Count, Executing, Statements, table, TypeOK
<1>3. /\ transaction'.executed = 2 /\ transaction'.data = transaction.data
      /\ transaction'.total = Cardinality(listed)
      /\ Params' = Params /\ Reach' = Reach
  BY <1>0, <1>2 DEF Count, TypeOK, Params, Asked, Reach
<1>4. Cardinality(listed) \in Nat /\ Cardinality(listed) <= Cardinality(Users)
  BY <1>0, ListedFinite
<1>5. TypeOK'
  <2>1. transaction \in PageType
    BY <1>0 DEF TypeOK, PageType
  <2>2. transaction' =
            [transaction EXCEPT !.executed = @ + 1, !.total = Cardinality(listed)]
    BY DEF Count
  <2>3. transaction.executed \in 0..1
    BY <1>2
  <2>4. transaction' \in PageType
    BY <1>4, <2>1, <2>2, <2>3, PageStep, Zenon
  <2>. QED  BY <1>0, <1>2, <1>3, <1>4, <2>4 DEF TypeOK, PageType
<1>6. WalkInBounds' /\ PageFits' /\ RefusedOnlyBeyondReach'
  BY <1>0, <1>2, <1>3, <1>4
  DEF WalkInBounds, PageFits, RefusedOnlyBeyondReach
<1>7. NobodyBehind'
  <2>1. \A u : Rank(u)' = Rank(u) /\ OwnTimestamp(u)' = OwnTimestamp(u)
    BY <1>2 DEF Rank, AtLeast, OwnTimestamp
  <2>2. \A u : /\ Rank(u) \in Nat /\ Rank(u) <= Cardinality(listed) /\ Reach \in Nat
               /\ Rank(u) > Reach => Cardinality(listed) > Reach
    BY <1>0, <1>4, RankType, ParamFacts DEF ParamsRight
  <2>. QED  BY <1>0, <1>2, <1>3, <2>1, <2>2 DEF NobodyBehind, Frontier
<1>. QED  BY <1>5, <1>6, <1>7 DEF IInv

\* The page is shown: hasNextPage says whether there are rows beyond it.
LEMMA RespondPreserves ==
    ASSUME IInv, Respond
    PROVE  IInv'
<1>0. TypeOK /\ WalkInBounds /\ PageFits /\ NobodyBehind /\ RefusedOnlyBeyondReach
  BY DEF IInv
<1>1. /\ walk.stage = "asking" /\ transaction.executed = 2
      /\ transaction' = transaction
      /\ clock' = clock /\ createdAt' = createdAt /\ listed' = listed
  BY DEF Respond, table
<1>2. /\ walk'.page = walk.page /\ walk'.limit = walk.limit
      /\ walk'.before = walk.before /\ walk'.seen = walk.seen \cup transaction.data
      /\ walk'.stage = IF Meta.hasNextPage THEN "served" ELSE "finished"
  BY <1>0 DEF Respond, TypeOK
<1>3. Params' = Params /\ Reach' = Reach
  BY <1>2 DEF Params, Asked, Reach
<1>4. Meta.hasNextPage <=> Reach < transaction.total
  <2>1. /\ Params.page \in Nat \ {0} /\ Params.limit \in Nat \ {0}
        /\ transaction.total \in Nat /\ Reach = Params.page * Params.limit
    BY <1>0, ParamFacts, LimitsAssumption DEF ParamsRight, TypeOK
  <2>. QED  BY <2>1, HasNextMeansMore DEF Meta
<1>5. Reach \in Nat /\ transaction.total \in Nat
  BY <1>0, ParamFacts DEF ParamsRight, TypeOK
<1>6. TypeOK'
  <2>1. walk.page <= MAX_PAGE
    <3>1. walk.page \in Int /\ walk.page # Undefined
      BY <1>0, LimitsAssumption DEF TypeOK
    <3>. QED  BY <1>0, <1>1, <3>1, LimitsAssumption DEF WalkInBounds, Accepted, DEFAULT_PAGE
  <2>. QED  BY <1>0, <1>1, <1>2, <2>1 DEF Respond, TypeOK, Walks
<1>7. WalkInBounds' /\ PageFits' /\ RefusedOnlyBeyondReach'
  BY <1>0, <1>1, <1>2, <1>3, <1>4, <1>5
  DEF WalkInBounds, PageFits, RefusedOnlyBeyondReach
<1>8. NobodyBehind'
  <2>1. \A u : Rank(u)' = Rank(u) /\ OwnTimestamp(u)' = OwnTimestamp(u)
    BY <1>1 DEF Rank, AtLeast, OwnTimestamp
  <2>. QED  BY <1>0, <1>1, <1>2, <1>3, <2>1 DEF NobodyBehind, Frontier
<1>. QED  BY <1>6, <1>7, <1>8 DEF IInv

\* The next page is asked for, or refused by the DTO's bound.
LEMMA NextPagePreserves ==
    ASSUME IInv, NextPage
    PROVE  IInv'
<1>0. TypeOK /\ WalkInBounds /\ PageFits /\ NobodyBehind /\ RefusedOnlyBeyondReach
  BY DEF IInv
<1>1. /\ walk.stage = "served" /\ transaction' = NotExecuted
      /\ clock' = clock /\ createdAt' = createdAt /\ listed' = listed
      /\ transaction.executed = 2 /\ transaction.data \subseteq walk.seen
      /\ Reach < transaction.total /\ transaction.total <= Cardinality(listed)
      /\ Accepted(walk.page, walk.limit)
  BY <1>0 DEF NextPage, table, WalkInBounds, PageFits
<1>. DEFINE next == Params.page + 1
<1>2. /\ walk' = [stage |-> IF Accepted(next, walk.limit) THEN "asking" ELSE "refused",
                  page |-> next, limit |-> walk.limit,
                  before |-> walk.before, seen |-> walk.seen]
  BY DEF NextPage, Ask
<1>3. /\ Params.page \in 1..MAX_PAGE /\ Width \in Nat \ {0} /\ Params.limit = Width
      /\ Reach = Params.page * Width /\ Reach \in Nat
      /\ Cardinality(listed) \in Nat
      /\ transaction.total \in Nat
  BY <1>0, ParamFacts, ListedFinite DEF ParamsRight, TypeOK
<1>4. next \in 2..(MAX_PAGE + 1) /\ next # Undefined
      /\ (Accepted(next, walk.limit) <=> next <= MAX_PAGE)
  <2>1. next \in 2..(MAX_PAGE + 1) /\ next # Undefined
    BY <1>3, LimitsAssumption
  <2>. QED  BY <1>1, <2>1, LimitsAssumption DEF Accepted, DEFAULT_PAGE
<1>5. TypeOK'
  <2>1. walk' \in WalkType /\ (walk'.stage = "asking" => walk'.page <= MAX_PAGE)
        /\ walk'.stage \in {"asking", "refused"}
    <3>1. walk \in WalkType /\ next \in 1..(MAX_PAGE + 1)
      BY <1>0, <1>4, LimitsAssumption DEF TypeOK, WalkType
    <3>. HIDE DEF next
    <3>. QED  BY <1>2, <1>4, <3>1 DEF WalkType, Walks
  <2>2. transaction' \in PageType /\ transaction'.total = 0
    BY <1>1 DEF NotExecuted, PageType
  <2>3. 0 <= Cardinality(Users)
    BY UsersAssumption, FS_CardinalityType
  <2>. QED  BY <1>0, <1>1, <2>1, <2>2, <2>3 DEF TypeOK, WalkType, PageType
<1>6. /\ Width' = Width /\ Params'.limit = Width /\ Params'.take = Width
      /\ Params'.skip \in Nat
      /\ next <= MAX_PAGE => Params'.skip = Reach
  <2>1. Width' = Width
    BY <1>2 DEF Width
  <2>2. next <= MAX_PAGE => Params'.page = next
    BY <1>2, <1>5, ParamFactsNext DEF ParamsRight
  <2>3. Params'.skip = (Params'.page - 1) * Width'
    BY <1>5, ParamFactsNext DEF ParamsRight
  <2>4. next - 1 = Params.page
    BY <1>3
  <2>. QED  BY <1>3, <1>5, <2>1, <2>2, <2>3, <2>4, ParamFactsNext DEF ParamsRight
<1>7. WalkInBounds'
  BY <1>0, <1>1, <1>2 DEF WalkInBounds, NotExecuted
<1>8. PageFits'
  BY <1>3, <1>6, <1>1, FS_EmptySet DEF PageFits, NotExecuted
<1>9. RefusedOnlyBeyondReach'
  <2>. SUFFICES ASSUME ~ (next <= MAX_PAGE)
                PROVE  Cardinality(listed) > MAX_PAGE * Width
    BY <1>1, <1>2, <1>4, <1>6 DEF RefusedOnlyBeyondReach
  <2>1. Params.page = MAX_PAGE
    BY <1>3, LimitsAssumption
  <2>. QED  BY <1>1, <1>3, <2>1
<1>10. NobodyBehind'
  <2>1. \A u : Rank(u)' = Rank(u) /\ OwnTimestamp(u)' = OwnTimestamp(u)
    BY <1>1 DEF Rank, AtLeast, OwnTimestamp
  <2>. QED
    BY <1>0, <1>1, <1>2, <1>4, <1>6, <2>1 DEF NobodyBehind, Frontier, NotExecuted
<1>. QED  BY <1>5, <1>7, <1>8, <1>9, <1>10 DEF IInv

-----------------------------------------------------------------------------
(***************************************************************************)
(* The results.                                                            *)
(***************************************************************************)

\* The walk, the page in progress and the table always fit each other.
THEOREM Invariance == Spec => []IInv
<1>1. Init => IInv
  BY InvInit
<1>2. IInv /\ [Next]_vars => IInv'
  BY GrowthPreserves, BeginPreserves, FindManyPreserves, CountPreserves,
     RespondPreserves, NextPagePreserves
  DEF Next
<1>. QED  BY <1>1, <1>2, PTL DEF Spec

\* Every variable always has its type.
THEOREM TypeCorrect == Spec => []TypeOK
<1>1. IInv => TypeOK
  BY DEF IInv
<1>. QED  BY <1>1, Invariance, PTL

\* Whatever is registered during a walk, a client that follows hasNextPage to
\* the end has been shown everybody who was there when it began and whose
\* timestamp is its own.
THEOREM WalkIsComplete == Spec => []NobodySkipped
<1>1. IInv => NobodySkipped
  <2>. SUFFICES ASSUME IInv, walk.stage = "finished",
                       NEW u \in walk.before, OwnTimestamp(u)
                PROVE  u \in walk.seen
    BY DEF NobodySkipped
  <2>1. Reach \in Nat /\ transaction.total \in Nat
    BY ParamFacts DEF ParamsRight, IInv, TypeOK
  <2>. QED  BY <2>1 DEF IInv, WalkInBounds, NobodyBehind, Frontier
<1>. QED  BY <1>1, Invariance, PTL

\* A page agrees with the total beside it.
THEOREM TotalIsConsistent == Spec => []TotalCoversPage
<1>1. IInv => TotalCoversPage
  BY ParamFacts DEF ParamsRight, IInv, PageFits, TotalCoversPage
<1>. QED  BY <1>1, Invariance, PTL

\* hasNextPage leads beyond the DTO's bounds only when there are users there.
THEOREM RefusalMeansMore == Spec => []RefusedOnlyBeyondReach
<1>1. IInv => RefusedOnlyBeyondReach
  BY DEF IInv
<1>. QED  BY <1>1, Invariance, PTL
=============================================================================
