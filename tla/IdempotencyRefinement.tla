----------------------- MODULE IdempotencyRefinement -----------------------
(***************************************************************************)
(* Idempotency implements IdempotencyContract, for all values of the       *)
(* constants, if no handler overruns its reservation.                      *)
(***************************************************************************)
EXTENDS IdempotencyProofs

\* A claim stands exactly for an unexpired row.
LEMMA ClaimsAreLiveRows ==
    ASSUME IInv
    PROVE  /\ \A row \in LiveRows :
                /\ [by |-> row.id, done |-> row.status = "COMPLETED"] \in Claims
                /\ row.id \in Requests
                /\ req[row.id].identity = row.identity
                /\ req[row.id].hash = row.hash
           /\ \A c \in Claims : \E row \in LiveRows :
                c = [by |-> row.id, done |-> row.status = "COMPLETED"]
BY DEF IInv, TypeOK, Rows, RowOrigin, LiveRows, Claims, ClaimOf

\* A holder's row is unexpired, and the only row of its identity or its id.
LEMMA HolderRow ==
    ASSUME IInv, NEW r \in Requests, Holding(r)
    PROVE  \E own \in LiveRows :
              /\ own.id = r /\ own.identity = req[r].identity /\ own \in Rows
              /\ pc[r] # "release" => own.status = "PENDING"
              /\ \A row \in table :
                    row.identity = req[r].identity \/ row.id = r => row = own
<1>1. PICK own \in table :
          /\ own.id = r /\ own.left = window[r] /\ window[r] > 0
          /\ pc[r] # "release" => own.status = "PENDING"
  BY DEF IInv, HolderOwnsRow
<1>2. own \in LiveRows /\ own \in Rows
  BY <1>1 DEF IInv, TypeOK, LiveRows, Expired
<1>3. own.identity = req[r].identity
  BY <1>1 DEF IInv, RowOrigin
<1>4. \A row \in table : row.id = r => row.identity = req[r].identity
  BY DEF IInv, RowOrigin
<1>. QED  BY <1>1, <1>2, <1>3, <1>4 DEF IInv, OneRowPerIdentity

\* No statement of reserve() but a winning insert touches an unexpired row.
LEMMA ReclaimKeepsClaims ==
    ASSUME NEW i, table' = Reclaimed(i)
    PROVE  Claims' = Claims
BY DEF Reclaimed, Claims, ClaimOf, LiveRows, Expired

\* A winning insert adds the claim, on an identity nobody claims or runs for.
LEMMA InsertClaims ==
    ASSUME IInv, NEW r \in Requests, ~ SlotTaken(req[r].identity),
           table' = table \cup {NewRow(r)}
    PROVE  /\ Claims' = Claims \cup {[by |-> r, done |-> FALSE]}
           /\ Contract!Available(r)
<1>1. ClaimOf(NewRow(r)) = [by |-> r, done |-> FALSE] /\ NewRow(r).left = TTL
  BY DEF ClaimOf, NewRow
<1>2. LiveRows' = LiveRows \cup {NewRow(r)}
  BY <1>1, TTLAssumption DEF LiveRows, Expired
<1>3. Claims' = Claims \cup {[by |-> r, done |-> FALSE]}
  BY <1>1, <1>2 DEF Claims, ClaimOf
<1>4. Contract!Claimed(r) = {}
  BY ClaimsAreLiveRows DEF Contract!Claimed, SlotTaken, LiveRows
<1>5. \A other \in Running : req[other].identity # req[r].identity
  BY HolderRow DEF Running, SlotTaken, LiveRows
<1>. QED  BY <1>3, <1>4, <1>5 DEF Contract!Available

\* complete() by a holder finalizes its own claim and touches no other.
LEMMA CompleteClaims ==
    ASSUME IInv, NEW r \in Requests, Holding(r), table' = Completed(r)
    PROVE  Contract!Finalize(r)
<1>1. PICK own \in LiveRows :
          /\ own.id = r /\ own.identity = req[r].identity /\ own \in Rows
          /\ \A row \in table :
                row.identity = req[r].identity \/ row.id = r => row = own
  BY HolderRow
<1>. DEFINE fin == Finalized(own, r)
<1>2. fin.id = r /\ fin.status = "COMPLETED" /\ fin.left = own.left
  BY <1>1 DEF Finalized, Rows
<1>3. own \in table /\ own.left # 0
  BY DEF LiveRows, Expired
<1>. HIDE DEF fin
<1>4. table' = (table \ {own}) \cup {fin}
  BY <1>1, <1>3 DEF Completed, fin
<1>5. LiveRows' = (LiveRows \ {own}) \cup {fin}
  BY <1>2, <1>3, <1>4 DEF LiveRows, Expired
<1>6. \A row \in LiveRows \ {own} : ClaimOf(row).by # r
  BY <1>1 DEF ClaimOf, LiveRows
<1>7. ClaimOf(own).by = r /\ ClaimOf(fin) = [by |-> r, done |-> TRUE]
  BY <1>1, <1>2 DEF ClaimOf
<1>8. ClaimOf(own) \in {[by |-> r, done |-> FALSE], [by |-> r, done |-> TRUE]}
  BY <1>1 DEF ClaimOf
<1>. DEFINE others == {ClaimOf(row) : row \in LiveRows \ {own}}
<1>9. \A row : ClaimOf(row)' = ClaimOf(row)
  BY DEF ClaimOf
<1>10. Claims = others \cup {ClaimOf(own)}
  BY DEF Claims
<1>11. Claims' = others \cup {ClaimOf(fin)}
  BY <1>5, <1>9 DEF Claims
<1>12. [by |-> r, done |-> FALSE] \notin others /\ [by |-> r, done |-> TRUE] \notin others
  BY <1>6
<1>. HIDE DEF others
<1>. QED
  BY <1>7, <1>8, <1>10, <1>11, <1>12 DEF Contract!Finalize

\* release() by a holder gives up its own claim if it is not finalized.
LEMMA ReleaseClaims ==
    ASSUME IInv, NEW r \in Requests, Holding(r), table' = Released(r)
    PROVE  Claims' = Claims \ {[by |-> r, done |-> FALSE]}
<1>1. PICK own \in LiveRows :
          /\ own.id = r /\ own.identity = req[r].identity /\ own \in Rows
          /\ \A row \in table :
                row.identity = req[r].identity \/ row.id = r => row = own
  BY HolderRow
<1>2. \A row \in LiveRows \ {own} : ClaimOf(row).by # r
  BY <1>1 DEF ClaimOf, LiveRows
<1>3. CASE own.status = "PENDING"
  <2>1. table' = table \ {own}
    BY <1>1, <1>3 DEF Released, Releasable, LiveRows
  <2>2. LiveRows' = LiveRows \ {own}
    BY <2>1 DEF LiveRows, Expired
  <2>3. ClaimOf(own) = [by |-> r, done |-> FALSE]
    BY <1>1, <1>3 DEF ClaimOf
  <2>. QED  BY <1>2, <2>2, <2>3 DEF Claims, ClaimOf
<1>4. CASE own.status = "COMPLETED"
  <2>1. table' = table
    BY <1>1, <1>4 DEF Released, Releasable
  <2>2. Claims' = Claims
    BY <2>1 DEF Claims, ClaimOf, LiveRows, Expired
  <2>3. ClaimOf(own) = [by |-> r, done |-> TRUE]
    BY <1>1, <1>4 DEF ClaimOf
  <2>. QED  BY <1>2, <2>2, <2>3 DEF Claims, ClaimOf
<1>. QED  BY <1>1, <1>3, <1>4 DEF Rows

-----------------------------------------------------------------------------
(***************************************************************************)
(* Every step is a step of the contract or leaves its variables alone.     *)
(***************************************************************************)
ContractStep == [Contract!ContractNext]_(Contract!contractVars)

\* What the contract sees of a step that touches neither rows nor answers.
LEMMA Unseen ==
    ASSUME req' = req, answer' = answer, Claims' = Claims, Running' = Running
    PROVE  ContractStep
BY DEF ContractStep, Contract!contractVars

\* A step of r moves no other request into or out of its handler.
LEMMA RunningStep ==
    ASSUME IInv, NEW r \in Requests, NEW stage \in Stages, Goto(r, stage)
    PROVE  Running' = IF stage \in {"handler", "complete", "release"}
                      THEN Running \cup {r} ELSE Running \ {r}
BY DEF Running, Holding, Goto, IInv, TypeOK

\* A request that is still reserving waits, in the contract's terms.
LEMMA ReservingWaits ==
    ASSUME IInv, NEW r \in Requests,
           pc[r] \in {"arrived", "reclaim", "find", "create", "reread"}
    PROVE  Contract!Waiting(r)
BY DEF IInv, AnswerMeansAnswered, Contract!Waiting, Running, Holding

LEMMA SameTable == ASSUME table' = table PROVE Claims' = Claims
BY DEF Claims, ClaimOf, LiveRows, Expired

\* An answer taken from a valid row is the contract's refusal.
LEMMA Refusal ==
    ASSUME IInv, NEW r \in Requests, pc[r] \in {"find", "reread"},
           NEW row \in FindValid(req[r].identity), AnswerFrom(r, row),
           table' = table, req' = req
    PROVE  Contract!Refuse(r)
<1>. USE DEF Answer
<1>1. row \in LiveRows /\ row.identity = req[r].identity /\ row \in Rows
  BY DEF FindValid, LiveRows, IInv, TypeOK
<1>. DEFINE c == [by |-> row.id, done |-> row.status = "COMPLETED"]
<1>2. /\ c \in Contract!Claimed(r)
      /\ req[row.id].identity = req[r].identity
      /\ req[row.id].hash = row.hash
      /\ row.id \in Requests
  BY <1>1, ClaimsAreLiveRows DEF Contract!Claimed
<1>3. row.hash = req[r].hash => req[row.id] = req[r]
  BY <1>2 DEF IInv, TypeOK
<1>4. row.status = "COMPLETED" => row.body = row.id
  BY <1>1 DEF IInv, CompletedByOwner, LiveRows
<1>5. \/ req[c.by].hash # req[r].hash /\ Contract!Tell(r, "conflict", None)
      \/ req[c.by] = req[r] /\ c.done /\ Contract!Tell(r, "replay", c.by)
      \/ req[c.by] = req[r] /\ ~ c.done /\ Contract!Tell(r, "in_progress", None)
  <2>1. CASE row.hash # req[r].hash
    BY <1>2, <2>1 DEF AnswerFrom, Classify, Contract!Tell
  <2>2. CASE row.hash = req[r].hash /\ row.status = "COMPLETED"
    BY <1>3, <1>4, <2>2 DEF AnswerFrom, Classify, Contract!Tell
  <2>3. CASE row.hash = req[r].hash /\ row.status # "COMPLETED"
    BY <1>3, <2>3 DEF AnswerFrom, Classify, Contract!Tell
  <2>. QED  BY <2>1, <2>2, <2>3
<1>6. Claims' = Claims
  BY SameTable
<1>7. Running' = Running
  BY RunningStep DEF AnswerFrom, Stages, Running, Holding
<1>8. Contract!Waiting(r)
  BY ReservingWaits
<1>. QED  BY <1>2, <1>5, <1>6, <1>7, <1>8 DEF Contract!Refuse

LEMMA ArriveMaps ==
    ASSUME IInv, NEW r \in Requests, Arrive(r) \/ Retry(r)
    PROVE  ContractStep
<1>. USE DEF Answer, Stages
<1>1. Claims' = Claims /\ req' = req
  BY SameTable DEF Arrive, PassThrough, RejectMissingKey, BeginReserve, Retry
<1>2. CASE PassThrough(r) \/ RejectMissingKey(r)
  <2>1. Running' = Running /\ Contract!Waiting(r)
    BY <1>2, RunningStep, ReservingWaits
    DEF PassThrough, RejectMissingKey, Running, Holding
  <2>2. Contract!Bypass(r)
    BY <1>1, <1>2, <2>1
    DEF PassThrough, RejectMissingKey, Contract!Bypass, Contract!Tell
  <2>. QED  BY <2>2 DEF ContractStep, Contract!ContractNext
<1>3. CASE BeginReserve(r)
  <2>1. Running' = Running
    BY <1>3, RunningStep DEF BeginReserve, Running, Holding
  <2>. QED  BY <1>1, <1>3, <2>1, Unseen DEF BeginReserve
<1>4. CASE Retry(r)
  <2>1. Running' = Running
    BY <1>4, RunningStep DEF Retry, Running, Holding
  <2>2. Contract!Again(r)
    BY <1>1, <1>4, <2>1
    DEF Retry, Retryable, NoAnswer, Contract!Again, Contract!Tell
  <2>. QED  BY <2>2 DEF ContractStep, Contract!ContractNext
<1>. QED  BY <1>2, <1>3, <1>4 DEF Arrive

LEMMA ServeMaps ==
    ASSUME IInv, NEW r \in Requests, Serve(r)
    PROVE  ContractStep
<1>. USE DEF Answer, Stages
<1>1. CASE ReclaimExpired(r)
  <2>1. Running' = Running
    BY <1>1, RunningStep DEF ReclaimExpired, Running, Holding
  <2>. QED  BY <1>1, <2>1, ReclaimKeepsClaims, Unseen DEF ReclaimExpired
<1>2. CASE FindExisting(r)
  <2>1. CASE Goto(r, "create") /\ answer' = answer
    <3>1. Running' = Running
      BY <1>2, <2>1, RunningStep DEF FindExisting, Running, Holding
    <3>. QED  BY <1>2, <2>1, <3>1, SameTable, Unseen DEF FindExisting
  <2>2. CASE \E row \in FindValid(req[r].identity) : AnswerFrom(r, row)
    <3>1. Contract!Refuse(r)
      BY <1>2, <2>2, Refusal DEF FindExisting
    <3>. QED  BY <3>1 DEF ContractStep, Contract!ContractNext
  <2>. QED  BY <1>2, <2>1, <2>2 DEF FindExisting
<1>3. CASE CreatePending(r)
  <2>1. CASE SlotTaken(req[r].identity)
    <3>1. Running' = Running
      BY <1>3, <2>1, RunningStep DEF CreatePending, Running, Holding
    <3>. QED  BY <1>3, <2>1, <3>1, SameTable, Unseen DEF CreatePending
  <2>2. CASE ~ SlotTaken(req[r].identity)
    <3>1. Running' = Running \cup {r}
      BY <1>3, <2>2, RunningStep DEF CreatePending
    <3>2. Contract!Waiting(r)
      BY <1>3, ReservingWaits DEF CreatePending
    <3>3. Contract!Claim(r)
      BY <1>3, <2>2, <3>1, <3>2, InsertClaims DEF CreatePending, Contract!Claim
    <3>. QED  BY <3>3 DEF ContractStep, Contract!ContractNext
  <2>. QED  BY <2>1, <2>2
<1>4. CASE FindRacer(r)
  <2>1. CASE Answer(r, "unique_violation", None)
    <3>1. Running' = Running /\ Contract!Waiting(r)
      BY <1>4, <2>1, RunningStep, ReservingWaits DEF FindRacer, Running, Holding
    <3>2. Contract!Fail(r)
      BY <1>4, <2>1, <3>1, SameTable
      DEF FindRacer, Contract!Fail, Contract!Tell
    <3>. QED  BY <3>2 DEF ContractStep, Contract!ContractNext
  <2>2. CASE \E row \in FindValid(req[r].identity) : AnswerFrom(r, row)
    <3>1. Contract!Refuse(r)
      BY <1>4, <2>2, Refusal DEF FindRacer
    <3>. QED  BY <3>1 DEF ContractStep, Contract!ContractNext
  <2>. QED  BY <1>4, <2>1, <2>2 DEF FindRacer
<1>5. CASE HandlerSucceeds(r) \/ HandlerFails(r)
  <2>1. Running' = Running
    BY <1>5, RunningStep DEF HandlerSucceeds, HandlerFails, Running, Holding
  <2>. QED  BY <1>5, <2>1, SameTable, Unseen DEF HandlerSucceeds, HandlerFails
<1>6. CASE Complete(r)
  <2>1. Running' = Running \ {r} /\ r \in Running
    BY <1>6, RunningStep DEF Complete, Running, Holding
  <2>2. Contract!Finalize(r)
    BY <1>6, CompleteClaims DEF Complete, Holding
  <2>3. Contract!Finish(r)
    BY <1>6, <2>1, <2>2 DEF Complete, Contract!Finish, Contract!Tell
  <2>. QED  BY <2>3 DEF ContractStep, Contract!ContractNext
<1>7. CASE Release(r)
  <2>1. Running' = Running \ {r} /\ r \in Running
    BY <1>7, RunningStep DEF Release, Running, Holding
  <2>2. Contract!Abandon(r)
    BY <1>7, <2>1, ReleaseClaims
    DEF Release, Holding, Contract!Abandon, Contract!Tell
  <2>. QED  BY <2>2 DEF ContractStep, Contract!ContractNext
<1>. QED  BY <1>1, <1>2, <1>3, <1>4, <1>5, <1>6, <1>7 DEF Serve

LEMMA BreakMaps ==
    ASSUME IInv, NEW r \in Requests, Break(r)
    PROVE  ContractStep
<1>. USE DEF Answer, Stages
<1>1. CASE ReserveFails(r)
  <2>1. Running' = Running /\ Contract!Waiting(r)
    BY <1>1, RunningStep, ReservingWaits DEF ReserveFails, Running, Holding
  <2>2. CASE table' \in {table, Reclaimed(req[r].identity)}
    <3>1. Contract!Fail(r)
      BY <1>1, <2>1, <2>2, SameTable, ReclaimKeepsClaims
      DEF ReserveFails, Contract!Fail, Contract!Tell
    <3>. QED  BY <3>1 DEF ContractStep, Contract!ContractNext
  <2>3. CASE ~ SlotTaken(req[r].identity) /\ table' = table \cup {NewRow(r)}
    <3>1. Contract!ClaimUnheard(r)
      BY <1>1, <2>1, <2>3, InsertClaims
      DEF ReserveFails, Contract!ClaimUnheard, Contract!Tell
    <3>. QED  BY <3>1 DEF ContractStep, Contract!ContractNext
  <2>. QED  BY <1>1, <2>2, <2>3 DEF ReserveFails
<1>2. CASE CompleteFails(r)
  <2>1. Running' = Running /\ r \in Running
    BY <1>2, RunningStep DEF CompleteFails, Running, Holding
  <2>2. CASE table' = table
    BY <1>2, <2>1, <2>2, SameTable, Unseen DEF CompleteFails
  <2>3. CASE table' = Completed(r)
    <3>1. Contract!FinishUnheard(r)
      BY <1>2, <2>1, <2>3, CompleteClaims
      DEF CompleteFails, Holding, Contract!FinishUnheard
    <3>. QED  BY <3>1 DEF ContractStep, Contract!ContractNext
  <2>. QED  BY <1>2, <2>2, <2>3 DEF CompleteFails
<1>3. CASE ReleaseFails(r)
  <2>1. Running' = Running \ {r} /\ r \in Running
    BY <1>3, RunningStep DEF ReleaseFails, Running, Holding
  <2>2. CASE table' = table
    <3>1. Contract!Orphan(r)
      BY <1>3, <2>1, <2>2, SameTable
      DEF ReleaseFails, Contract!Orphan, Contract!Tell
    <3>. QED  BY <3>1 DEF ContractStep, Contract!ContractNext
  <2>3. CASE table' = Released(r)
    <3>1. Contract!Abandon(r)
      BY <1>3, <2>1, <2>3, ReleaseClaims
      DEF ReleaseFails, Holding, Contract!Abandon, Contract!Tell
    <3>. QED  BY <3>1 DEF ContractStep, Contract!ContractNext
  <2>. QED  BY <1>3, <2>2, <2>3 DEF ReleaseFails
<1>4. CASE Crash(r)
  <2>1. Running' = Running \ {r} /\ Claims' = Claims
    BY <1>4, RunningStep, SameTable DEF Crash
  <2>2. CASE r \in Running
    <3>1. Contract!Orphan(r)
      BY <1>4, <2>1, <2>2 DEF Crash, Contract!Orphan, Contract!Tell
    <3>. QED  BY <3>1 DEF ContractStep, Contract!ContractNext
  <2>3. CASE r \notin Running
    <3>1. pc[r] \in {"reclaim", "find", "create", "reread"}
      BY <1>4, <2>3 DEF Crash, Running, Holding, IInv, TypeOK
    <3>2. Contract!Fail(r)
      BY <1>4, <2>1, <2>3, <3>1, ReservingWaits
      DEF Crash, Contract!Fail, Contract!Tell
    <3>. QED  BY <3>2 DEF ContractStep, Contract!ContractNext
  <2>. QED  BY <2>2, <2>3
<1>. QED  BY <1>1, <1>2, <1>3, <1>4 DEF Break

\* A tick lets claims lapse, never one whose request still runs.
LEMMA TickMaps ==
    ASSUME IInv, ~ HandlersMayOverrun \/ WithinReservation', Tick
    PROVE  ContractStep
<1>. DEFINE aged(row) == [row EXCEPT !.left = Countdown(row.left)]
<1>1. \A row \in table : /\ aged(row).id = row.id /\ aged(row).status = row.status
                         /\ aged(row).left = Countdown(row.left)
                         /\ row.left \in 0..TTL
  BY DEF IInv, TypeOK, Rows
<1>2. table' = {aged(row) : row \in table} /\ req' = req /\ answer' = answer
  BY DEF Tick
<1>3. Running' = Running
  BY DEF Tick, Running, Holding
<1>4. \A n \in 0..TTL : Countdown(n) # 0 => n # 0
  BY TTLAssumption DEF Countdown
<1>. HIDE DEF aged
<1>5. Claims' \subseteq Claims
  <2>. SUFFICES ASSUME NEW c \in Claims' PROVE c \in Claims
    OBVIOUS
  <2>1. PICK new \in table' :
            new.left # 0 /\ c = [by |-> new.id, done |-> new.status = "COMPLETED"]
    BY DEF Claims, ClaimOf, LiveRows, Expired
  <2>2. PICK row \in table : new = aged(row)
    BY <1>2, <2>1
  <2>. QED
    BY <1>1, <1>4, <2>1, <2>2 DEF Claims, ClaimOf, LiveRows, Expired
<1>6. ASSUME NEW c \in Claims, c.by \in Running PROVE c \in Claims'
  <2>1. PICK row \in LiveRows :
            c = [by |-> row.id, done |-> row.status = "COMPLETED"]
    BY ClaimsAreLiveRows
  <2>2. row.id \in Requests /\ Holding(row.id)
    BY <1>6, <2>1 DEF Running
  <2>3. row.left = window[row.id]
    <3>1. PICK own \in table : own.id = row.id /\ own.left = window[row.id]
      BY <2>2 DEF IInv, HolderOwnsRow
    <3>. QED
      BY <3>1 DEF IInv, RowOrigin, OneRowPerIdentity, LiveRows
  <2>4. window[row.id] \in 0..TTL /\ window'[row.id] = Countdown(window[row.id])
    BY <2>2 DEF Tick, IInv, TypeOK
  <2>5. Countdown(row.left) # 0
    <3>1. CASE ~ HandlersMayOverrun
      BY <2>2, <2>3, <2>4, <3>1, TTLAssumption DEF Tick, Countdown
    <3>2. CASE WithinReservation'
      <4>1. window'[row.id] > 0
        BY <2>2, <3>2 DEF WithinReservation, Holding, Tick
      <4>. QED  BY <2>3, <2>4, <4>1
    <3>. QED  BY <3>1, <3>2
  <2>6. aged(row) \in table' /\ aged(row).left # 0
    BY <1>1, <1>2, <2>5 DEF LiveRows
  <2>. QED
    BY <1>1, <2>1, <2>6 DEF Claims, ClaimOf, LiveRows, Expired
<1>7. Contract!Lapse
  BY <1>2, <1>3, <1>5, <1>6 DEF Contract!Lapse
<1>. QED  BY <1>7 DEF ContractStep, Contract!ContractNext

LEMMA InitMaps == Init => Contract!ContractInit
BY DEF Init, NoAnswer, Contract!ContractInit, Claims, LiveRows, Running, Holding

LEMMA StepMaps ==
    ASSUME IInv, ~ HandlersMayOverrun \/ WithinReservation', [Next]_vars
    PROVE  [Contract!ContractNext]_(Contract!contractVars)
<1>1. CASE UNCHANGED vars
  BY <1>1, SameTable, Unseen DEF vars, Running, Holding, ContractStep
<1>. QED
  BY <1>1, ArriveMaps, ServeMaps, BreakMaps, TickMaps DEF Next, ContractStep

\* The interceptor over the Prisma store is an implementation of the
\* reserve/finalize contract: `started` is an atomic claim of the key.
THEOREM Refinement ==
    ASSUME ~ HandlersMayOverrun
    PROVE  Spec => ImplementsContract
<1>1. IInv /\ [Next]_vars => [Contract!ContractNext]_(Contract!contractVars)
  BY StepMaps
<1>. QED
  BY InitMaps, <1>1, Invariance, PTL
  DEF Spec, ImplementsContract, Contract!Spec

\* Also where handlers may overrun the contract is kept for as long as none
\* does: whatever breaks it begins with a handler that outlives its reservation.
THEOREM RefinementUntilOverrun ==
    Spec /\ []WithinReservation => ImplementsContract
<1>1. IInv /\ WithinReservation' /\ [Next]_vars =>
        [Contract!ContractNext]_(Contract!contractVars)
  BY StepMaps
<1>. QED
  BY InitMaps, <1>1, InvarianceWithinReservation, PTL
  DEF Spec, ImplementsContract, Contract!Spec
=============================================================================
