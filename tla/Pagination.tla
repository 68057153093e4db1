----------------------------- MODULE Pagination -----------------------------
(***************************************************************************)
(* Offset pagination: the query DTO and the arithmetic of the helper.  An  *)
(* undefined page or limit is a value outside the integers.                *)
(***************************************************************************)
EXTENDS Integers

CONSTANTS
    DEFAULT_LIMIT,
    MAX_LIMIT,
    MAX_PAGE,
    Undefined   \* a parameter the query leaves out

DEFAULT_PAGE == 1
MIN_LIMIT == 1

ASSUME LimitsAssumption ==
    /\ MAX_LIMIT \in Nat /\ DEFAULT_LIMIT \in MIN_LIMIT..MAX_LIMIT
    /\ MAX_PAGE \in Nat \ {0}
    /\ Undefined \notin Int

clamp(value, low, high) ==
    LET raised == IF value < low THEN low ELSE value
    IN  IF raised > high THEN high ELSE raised

OrElse(value, default) == IF value = Undefined THEN default ELSE value

\* Variant: the DTO has no upper bound for the page.
Accepted_AnyPage(page, limit) ==
    /\ page = Undefined \/ page >= DEFAULT_PAGE
    /\ limit = Undefined \/ limit \in MIN_LIMIT..MAX_LIMIT

\* The DTO: what the validation pipe lets through to the controller.
Accepted(page, limit) ==
    /\ page = Undefined \/ page \in DEFAULT_PAGE..MAX_PAGE
    /\ limit = Undefined \/ limit \in MIN_LIMIT..MAX_LIMIT

\* Normalized parameters, for callers with and without a DTO in front.
getPaginationParams(asked) ==
    LET page == clamp(OrElse(asked.page, DEFAULT_PAGE), DEFAULT_PAGE, MAX_PAGE)
        limit == clamp(OrElse(asked.limit, DEFAULT_LIMIT), MIN_LIMIT, MAX_LIMIT)
    IN  [skip |-> (page - 1) * limit, take |-> limit, page |-> page, limit |-> limit]

\* Math.ceil(total / limit)
CeilDiv(total, limit) == (total + limit - 1) \div limit

TotalPages(total, limit) == IF limit > 0 THEN CeilDiv(total, limit) ELSE 0

\* Variant: the last page announces one more.
buildPaginationMeta_OffByOne(page, limit, total) ==
    LET totalPages == TotalPages(total, limit)
    IN  [page |-> page, limit |-> limit, total |-> total, totalPages |-> totalPages,
         hasNextPage |-> page <= totalPages,
         hasPreviousPage |-> page > 1 /\ totalPages > 0]

buildPaginationMeta(page, limit, total) ==
    LET totalPages == TotalPages(total, limit)
    IN  [page |-> page, limit |-> limit, total |-> total, totalPages |-> totalPages,
         hasNextPage |-> page < totalPages,
         hasPreviousPage |-> page > 1 /\ totalPages > 0]
=============================================================================
