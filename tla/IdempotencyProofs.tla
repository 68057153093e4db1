------------------------- MODULE IdempotencyProofs -------------------------
(***************************************************************************)
(* Machine-checked facts about Idempotency, for every set of requests,     *)
(* every TTL and every number of faults.                                   *)
(***************************************************************************)
EXTENDS Idempotency, TLAPS

LEMMA CountdownType == \A n \in 0..TTL : Countdown(n) \in 0..TTL
BY TTLAssumption DEF Countdown

\* New rows, finalized rows and aged rows are rows.
LEMMA RowTypes ==
    ASSUME TypeOK, NEW r \in Requests
    PROVE  /\ NewRow(r) \in Rows
           /\ \A row \in table : Finalized(row, r) \in Rows
<1>1. NewRow(r) \in Rows
  BY TTLAssumption DEF TypeOK, NewRow, Rows
<1>2. ASSUME NEW row \in table PROVE Finalized(row, r) \in Rows
  BY <1>2 DEF TypeOK, Rows, Finalized
<1>. QED  BY <1>1, <1>2

LEMMA AgedRowTypes ==
    ASSUME TypeOK, NEW row \in table
    PROVE  [row EXCEPT !.left = Countdown(row.left)] \in Rows
<1>1. row \in Rows /\ row.left \in 0..TTL
  BY DEF TypeOK, Rows
<1>2. Countdown(row.left) \in 0..TTL
  BY <1>1, CountdownType
<1>. QED  BY <1>1, <1>2 DEF Rows

\* Whatever reserve() finds, the answer it leads to is well formed.
LEMMA AnswerFromType ==
    ASSUME TypeOK, NEW r \in Requests, NEW row \in table, AnswerFrom(r, row)
    PROVE  /\ pc' \in [Requests -> Stages]
           /\ answer' \in [Requests -> [kind : AnswerKinds,
                                        from : Requests \cup {None}]]
<1>1. Classify(row, req[r].hash) \in AnswerKinds
  BY DEF Classify, AnswerKinds
<1>2. row.body \in Requests \cup {None}
  BY DEF TypeOK, Rows
<1>. QED
  BY <1>1, <1>2 DEF TypeOK, AnswerFrom, Answer, Goto, Stages

LEMMA TypeInit == Init => TypeOK
BY TTLAssumption, FaultsAssumption
DEF Init, TypeOK, Stages, AnswerKinds, NoAnswer

LEMMA TypeStep ==
    ASSUME TypeOK, [Next]_vars
    PROVE  TypeOK'
<1>. USE DEF Stages, AnswerKinds
<1>1. ASSUME NEW r \in Requests, Arrive(r) PROVE TypeOK'
  <2>1. CASE PassThrough(r)
    BY <2>1 DEF TypeOK, PassThrough, Answer, Goto
  <2>2. CASE RejectMissingKey(r)
    BY <2>2 DEF TypeOK, RejectMissingKey, Answer, Goto
  <2>3. CASE BeginReserve(r)
    BY <2>3 DEF TypeOK, BeginReserve, Goto
  <2>. QED  BY <1>1, <2>1, <2>2, <2>3 DEF Arrive
<1>2. ASSUME NEW r \in Requests, Serve(r) PROVE TypeOK'
  <2>1. CASE ReclaimExpired(r)
    BY <2>1 DEF TypeOK, ReclaimExpired, Reclaimed, Goto
  <2>2. CASE FindExisting(r)
    BY <2>2, AnswerFromType DEF TypeOK, FindExisting, FindValid, Goto
  <2>3. CASE CreatePending(r)
    BY <2>3, RowTypes, TTLAssumption DEF TypeOK, CreatePending, Goto
  <2>4. CASE FindRacer(r)
    <3>1. CASE Answer(r, "unique_violation", None)
      BY <2>4, <3>1 DEF TypeOK, FindRacer, Answer, Goto
    <3>2. CASE \E row \in table : AnswerFrom(r, row)
      BY <2>4, <3>2, AnswerFromType DEF TypeOK, FindRacer
    <3>. QED  BY <2>4, <3>1, <3>2 DEF FindRacer, FindValid
  <2>5. CASE HandlerSucceeds(r) \/ HandlerFails(r)
    BY <2>5 DEF TypeOK, HandlerSucceeds, HandlerFails, Goto
  <2>6. CASE Complete(r)
    <3>1. table' \subseteq Rows
      BY <2>6, RowTypes DEF TypeOK, Complete, Completed
    <3>. QED  BY <2>6, <3>1 DEF TypeOK, Complete, Answer, Goto
  <2>7. CASE Release(r)
    BY <2>7, TTLAssumption DEF TypeOK, Release, Released, Answer, Goto
  <2>. QED  BY <1>2, <2>1, <2>2, <2>3, <2>4, <2>5, <2>6, <2>7 DEF Serve
<1>3. ASSUME NEW r \in Requests, Break(r) PROVE TypeOK'
  <2>1. CASE ReserveFails(r)
    <3>1. table' \subseteq Rows
      BY <2>1, RowTypes DEF TypeOK, ReserveFails, Reclaimed
    <3>. QED
      BY <2>1, <3>1, FaultsAssumption DEF TypeOK, ReserveFails, Fault, Answer, Goto
  <2>2. CASE CompleteFails(r)
    <3>1. table' \subseteq Rows
      BY <2>2, RowTypes DEF TypeOK, CompleteFails, Completed
    <3>. QED
      BY <2>2, <3>1, FaultsAssumption DEF TypeOK, CompleteFails, Fault, Goto
  <2>3. CASE ReleaseFails(r)
    BY <2>3, TTLAssumption, FaultsAssumption
    DEF TypeOK, ReleaseFails, Released, Fault, Answer, Goto
  <2>4. CASE Crash(r)
    <3>1. faults' \in 0..MaxFaults
      BY <2>4, FaultsAssumption DEF TypeOK, Crash, Fault
    <3>. QED  BY <2>4, <3>1, TTLAssumption DEF TypeOK, Crash, Answer, Goto
  <2>. QED  BY <1>3, <2>1, <2>2, <2>3, <2>4 DEF Break
<1>4. ASSUME NEW r \in Requests, Retry(r) PROVE TypeOK'
  BY <1>4 DEF TypeOK, Retry, Goto, NoAnswer
<1>5. CASE Tick
  <2>1. table' \subseteq Rows
    BY <1>5, AgedRowTypes DEF Tick
  <2>2. window' \in [Requests -> 0..TTL]
    BY <1>5, CountdownType DEF TypeOK, Tick
  <2>. QED  BY <1>5, <2>1, <2>2 DEF TypeOK, Tick
<1>6. CASE UNCHANGED vars
  BY <1>6 DEF TypeOK, vars
<1>. QED  BY <1>1, <1>2, <1>3, <1>4, <1>5, <1>6 DEF Next

\* Rows, stages, windows and answers keep their types in every behaviour of
\* the interceptor and its store.
THEOREM TypeCorrect == Spec => []TypeOK
<1>. QED  BY TypeInit, TypeStep, PTL DEF Spec
\* What a request presents never changes.
LEMMA RequestsStay == [Next]_vars => req' = req
BY DEF Next, vars, Tick, Arrive, PassThrough, RejectMissingKey, BeginReserve,
       Retry, Serve, ReclaimExpired, FindExisting, CreatePending, FindRacer,
       HandlerSucceeds, HandlerFails, Complete, Release, Break, ReserveFails,
       CompleteFails, ReleaseFails, Crash
-----------------------------------------------------------------------------
(***************************************************************************)
(* The inductive invariant.  A step of request r changes rows of its own   *)
(* identity only, and while r holds, its own row is the only such row: so  *)
(* no other request loses an unexpired row to it.                          *)
(***************************************************************************)

\* The unique index and the holder's own row leave no room for another row.
LEMMA HolderIsAlone ==
    ASSUME IInv, NEW r \in Requests, Holding(r), NEW row \in table,
           row.identity = req[r].identity
    PROVE  row.id = r
<1>1. PICK own \in table : own.id = r
  BY DEF IInv, HolderOwnsRow
<1>2. own.identity = req[r].identity
  BY <1>1 DEF IInv, RowOrigin
<1>. QED  BY <1>1, <1>2 DEF IInv, OneRowPerIdentity

\* Of a request other than the one that moves, nothing changes but, perhaps,
\* that its expired rows are reclaimed.
LEMMA OthersUntouched ==
    ASSUME IInv, NEW r \in Requests, Arrive(r) \/ Serve(r) \/ Break(r) \/ Retry(r),
           NEW q \in Requests, q # r
    PROVE  /\ pc'[q] = pc[q] /\ window'[q] = window[q] /\ answer'[q] = answer[q]
           /\ \A row \in table : row.id = q /\ row.left > 0 => row \in table'
<1>1. pc'[q] = pc[q] /\ window'[q] = window[q] /\ answer'[q] = answer[q]
  <2>. USE DEF IInv, TypeOK, Answer, Goto, AnswerFrom
  <2>1. CASE Arrive(r)
    BY <2>1 DEF Arrive, PassThrough, RejectMissingKey, BeginReserve
  <2>2. CASE Serve(r)
    BY <2>2 DEF Serve, ReclaimExpired, FindExisting, CreatePending, FindRacer,
                HandlerSucceeds, HandlerFails, Complete, Release
  <2>3. CASE Break(r)
    BY <2>3 DEF Break, ReserveFails, CompleteFails, ReleaseFails, Crash
  <2>4. CASE Retry(r)
    BY <2>4 DEF Retry
  <2>. QED  BY <2>1, <2>2, <2>3, <2>4
<1>2. ASSUME NEW row \in table, row.id = q, row.left > 0 PROVE row \in table'
  <2>1. CASE table' \in {table, Reclaimed(req[r].identity), table \cup {NewRow(r)}}
    BY <1>2, <2>1 DEF Reclaimed, Expired
  <2>2. CASE Holding(r) /\ table' \in {Completed(r), Released(r)}
    <3>1. row.identity # req[r].identity
      BY <1>2, <2>2, HolderIsAlone
    <3>. QED  BY <1>2, <2>2, <3>1 DEF Completed, Released
  <2>3. \/ table' \in {table, Reclaimed(req[r].identity), table \cup {NewRow(r)}}
        \/ Holding(r) /\ table' \in {Completed(r), Released(r)}
    <3>1. CASE Arrive(r)
      BY <3>1 DEF Arrive, PassThrough, RejectMissingKey, BeginReserve
    <3>2. CASE Serve(r)
      BY <3>2 DEF Serve, ReclaimExpired, FindExisting, CreatePending, FindRacer,
                  HandlerSucceeds, HandlerFails, Complete, Release, Holding
    <3>3. CASE Break(r)
      BY <3>3 DEF Break, ReserveFails, CompleteFails, ReleaseFails, Crash, Holding
    <3>4. CASE Retry(r)
      BY <3>4 DEF Retry
    <3>. QED  BY <3>1, <3>2, <3>3, <3>4
  <2>. QED  BY <2>1, <2>2, <2>3
<1>. QED  BY <1>1, <1>2

\* Deleting rows keeps the three conjuncts about the table.
LEMMA DeletionKeepsTable ==
    ASSUME IInv, req' = req, table' \subseteq table
    PROVE  OneRowPerIdentity' /\ RowOrigin' /\ CompletedByOwner'
BY DEF IInv, OneRowPerIdentity, RowOrigin, CompletedByOwner

\* So does inserting a row where the unique index has room for it.
LEMMA InsertionKeepsTable ==
    ASSUME IInv, NEW r \in Requests, req' = req,
           ~ SlotTaken(req[r].identity), table' = table \cup {NewRow(r)}
    PROVE  OneRowPerIdentity' /\ RowOrigin' /\ CompletedByOwner'
<1>. DEFINE new == NewRow(r)
<1>1. new.id = r /\ new.identity = req[r].identity /\ new.hash = req[r].hash
      /\ new.status = "PENDING"
  BY DEF NewRow
<1>2. \A row \in table : row.identity # new.identity
  BY <1>1 DEF SlotTaken
<1>3. OneRowPerIdentity'
  BY <1>2 DEF IInv, OneRowPerIdentity
<1>4. RowOrigin'
  BY <1>1 DEF IInv, RowOrigin
<1>5. CompletedByOwner'
  BY <1>1 DEF IInv, CompletedByOwner
<1>. QED  BY <1>3, <1>4, <1>5

\* And so does finalizing, when it is a holder who finalizes.
LEMMA FinalizationKeepsTable ==
    ASSUME IInv, NEW r \in Requests, req' = req, Holding(r),
           table' = Completed(r)
    PROVE  OneRowPerIdentity' /\ RowOrigin' /\ CompletedByOwner'
<1>. DEFINE after(row) == IF row.identity = req[r].identity
                          THEN Finalized(row, r) ELSE row
<1>1. ASSUME NEW row \in table
      PROVE  /\ after(row).id = row.id
             /\ after(row).identity = row.identity
             /\ after(row).hash = row.hash
             /\ after(row).status = "COMPLETED" => after(row).body = row.id
  <2>1. row \in Rows
    BY DEF IInv, TypeOK
  <2>2. CASE row.identity = req[r].identity
    <3>1. row.id = r
      BY <2>2, HolderIsAlone
    <3>. QED  BY <2>1, <2>2, <3>1 DEF Finalized, Rows
  <2>3. CASE row.identity # req[r].identity
    BY <2>3 DEF IInv, CompletedByOwner
  <2>. QED  BY <2>2, <2>3
<1>2. \A new \in table' : \E row \in table : new = after(row)
  BY DEF Completed
<1>3. OneRowPerIdentity'
  BY <1>1, <1>2 DEF IInv, OneRowPerIdentity
<1>4. RowOrigin'
  BY <1>1, <1>2 DEF IInv, RowOrigin
<1>5. CompletedByOwner'
  BY <1>1, <1>2 DEF IInv, CompletedByOwner
<1>. QED  BY <1>3, <1>4, <1>5

\* The step of a request keeps the three conjuncts about the table.
LEMMA TableStep ==
    ASSUME IInv, NEW r \in Requests, Arrive(r) \/ Serve(r) \/ Break(r) \/ Retry(r)
    PROVE  OneRowPerIdentity' /\ RowOrigin' /\ CompletedByOwner'
<1>1. CASE Arrive(r)
  <2>1. req' = req /\ table' = table
    BY <1>1 DEF Arrive, PassThrough, RejectMissingKey, BeginReserve
  <2>. QED  BY <2>1, DeletionKeepsTable
<1>2. CASE Serve(r)
  <2>1. CASE ReclaimExpired(r)
    BY <2>1, DeletionKeepsTable DEF ReclaimExpired, Reclaimed
  <2>2. CASE FindExisting(r) \/ FindRacer(r) \/ HandlerSucceeds(r) \/ HandlerFails(r)
    BY <2>2, DeletionKeepsTable
    DEF FindExisting, FindRacer, HandlerSucceeds, HandlerFails
  <2>3. CASE CreatePending(r)
    BY <2>3, InsertionKeepsTable, DeletionKeepsTable DEF CreatePending
  <2>4. CASE Complete(r)
    BY <2>4, FinalizationKeepsTable DEF Complete, Holding
  <2>5. CASE Release(r)
    BY <2>5, DeletionKeepsTable DEF Release, Released
  <2>. QED  BY <1>2, <2>1, <2>2, <2>3, <2>4, <2>5 DEF Serve
<1>3. CASE Break(r)
  <2>1. CASE ReserveFails(r)
    <3>1. CASE table' \in {table, Reclaimed(req[r].identity)}
      BY <2>1, <3>1, DeletionKeepsTable DEF ReserveFails, Reclaimed
    <3>2. CASE ~ SlotTaken(req[r].identity) /\ table' = table \cup {NewRow(r)}
      BY <2>1, <3>2, InsertionKeepsTable DEF ReserveFails
    <3>. QED  BY <2>1, <3>1, <3>2 DEF ReserveFails
  <2>2. CASE CompleteFails(r)
    BY <2>2, FinalizationKeepsTable, DeletionKeepsTable
    DEF CompleteFails, Holding
  <2>3. CASE ReleaseFails(r)
    BY <2>3, DeletionKeepsTable DEF ReleaseFails, Released
  <2>4. CASE Crash(r)
    BY <2>4, DeletionKeepsTable DEF Crash
  <2>. QED  BY <1>3, <2>1, <2>2, <2>3, <2>4 DEF Break
<1>4. CASE Retry(r)
  BY <1>4, DeletionKeepsTable DEF Retry
<1>. QED  BY <1>1, <1>2, <1>3, <1>4

\* What an answer taken from a valid row establishes for its request.
LEMMA AnswerFromValid ==
    ASSUME IInv, NEW r \in Requests, NEW row \in FindValid(req[r].identity),
           AnswerFrom(r, row), req' = req
    PROVE  /\ pc'[r] = "answered"
           /\ answer'[r].kind # "ok"
           /\ answer'[r].kind = "replay" =>
                 \E p \in Requests : answer'[r].from = p /\ req'[p] = req'[r]
<1>1. row \in table /\ row.identity = req[r].identity /\ row \in Rows
  BY DEF FindValid, IInv, TypeOK
<1>2. /\ pc'[r] = "answered"
      /\ answer'[r].kind = Classify(row, req[r].hash)
      /\ Classify(row, req[r].hash) = "replay" => answer'[r].from = row.body
  BY DEF AnswerFrom, Answer, Goto, IInv, TypeOK
<1>3. ASSUME Classify(row, req[r].hash) = "replay"
      PROVE  row.body \in Requests /\ req[row.body] = req[r]
  <2>1. row.hash = req[r].hash /\ row.status = "COMPLETED"
    BY <1>3 DEF Classify
  <2>2. row.body = row.id /\ row.id \in Requests
    BY <1>1, <2>1 DEF IInv, CompletedByOwner, Rows
  <2>3. req[row.id].identity = req[r].identity /\ req[row.id].hash = req[r].hash
    BY <1>1, <2>1 DEF IInv, RowOrigin
  <2>4. /\ req[row.id] \in [identity : Identities, hash : Hashes]
        /\ req[r] \in [identity : Identities, hash : Hashes]
    BY <2>2 DEF IInv, TypeOK
  <2>. QED  BY <2>2, <2>3, <2>4
<1>. QED  BY <1>2, <1>3 DEF Classify

\* What the invariant says of one request.
RequestOK(r) ==
    /\ HolderOwnsRow(r) /\ OkKeepsRow(r)
    /\ answer[r].kind # "none" => pc[r] = "answered"
    /\ answer[r].kind = "replay" =>
          \E p \in Requests : answer[r].from = p /\ req[p] = req[r]

\* A request that has just been answered otherwise than `ok` holds nothing.
LEMMA NothingHeld ==
    ASSUME NEW r \in Requests, pc'[r] = "answered", answer'[r].kind # "ok",
           answer'[r].kind = "replay" =>
               \E p \in Requests : answer'[r].from = p /\ req'[p] = req'[r]
    PROVE  RequestOK(r)'
BY DEF RequestOK, HolderOwnsRow, OkKeepsRow, Holding

\* The step of a request keeps what the invariant says of that request.
LEMMA OwnStep ==
    ASSUME IInv, NEW r \in Requests, Arrive(r) \/ Serve(r) \/ Break(r) \/ Retry(r)
    PROVE  RequestOK(r)'
<1>. USE DEF Answer, Goto
<1>0. /\ pc \in [Requests -> Stages] /\ window \in [Requests -> 0..TTL]
      /\ answer \in [Requests -> [kind : AnswerKinds, from : Requests \cup {None}]]
      /\ HolderOwnsRow(r)
      /\ answer[r].kind # "none" => pc[r] = "answered"
      /\ table \subseteq Rows
  BY DEF IInv, TypeOK, AnswerMeansAnswered
<1>1. CASE Arrive(r)
  <2>1. CASE PassThrough(r) \/ RejectMissingKey(r)
    BY <1>0, <2>1, NothingHeld DEF PassThrough, RejectMissingKey
  <2>2. CASE BeginReserve(r)
    BY <1>0, <2>2
    DEF BeginReserve, RequestOK, HolderOwnsRow, OkKeepsRow, Holding
  <2>. QED  BY <1>1, <2>1, <2>2 DEF Arrive
<1>2. CASE Serve(r)
  <2>1. CASE ReclaimExpired(r)
    BY <1>0, <2>1 DEF ReclaimExpired, RequestOK, HolderOwnsRow, OkKeepsRow, Holding
  <2>2. CASE FindExisting(r)
    <3>1. CASE Goto(r, "create") /\ UNCHANGED answer
      BY <1>0, <2>2, <3>1
      DEF FindExisting, RequestOK, HolderOwnsRow, OkKeepsRow, Holding
    <3>2. CASE \E row \in FindValid(req[r].identity) : AnswerFrom(r, row)
      BY <2>2, <3>2, AnswerFromValid, NothingHeld DEF FindExisting
    <3>. QED  BY <2>2, <3>1, <3>2 DEF FindExisting
  <2>3. CASE CreatePending(r)
    <3>1. CASE table' = table \cup {NewRow(r)}
      <4>1. /\ NewRow(r) \in table' /\ NewRow(r).id = r
            /\ NewRow(r).left = TTL /\ NewRow(r).status = "PENDING"
        BY <3>1 DEF NewRow
      <4>2. CASE Goto(r, "handler") /\ window' = [window EXCEPT ![r] = TTL]
        BY <1>0, <2>3, <4>1, <4>2, TTLAssumption
        DEF CreatePending, RequestOK, HolderOwnsRow, OkKeepsRow, Holding
      <4>3. CASE Goto(r, "reread")
        BY <1>0, <2>3, <4>3
        DEF CreatePending, RequestOK, HolderOwnsRow, OkKeepsRow, Holding
      <4>. QED  BY <2>3, <4>2, <4>3 DEF CreatePending
    <3>2. CASE Goto(r, "reread")
      BY <1>0, <2>3, <3>2
      DEF CreatePending, RequestOK, HolderOwnsRow, OkKeepsRow, Holding
    <3>. QED  BY <2>3, <3>1, <3>2 DEF CreatePending
  <2>4. CASE FindRacer(r)
    <3>1. CASE Answer(r, "unique_violation", None)
      BY <1>0, <2>4, <3>1, NothingHeld
    <3>2. CASE \E row \in FindValid(req[r].identity) : AnswerFrom(r, row)
      BY <2>4, <3>2, AnswerFromValid, NothingHeld DEF FindRacer
    <3>. QED  BY <2>4, <3>1, <3>2 DEF FindRacer
  <2>5. CASE HandlerSucceeds(r) \/ HandlerFails(r)
    BY <1>0, <2>5 DEF HandlerSucceeds, HandlerFails,
                       RequestOK, HolderOwnsRow, OkKeepsRow, Holding
  <2>6. CASE Complete(r)
    <3>1. PICK row \in table : row.id = r /\ row.left = window[r]
      BY <1>0, <2>6 DEF Complete, HolderOwnsRow, Holding
    <3>2. row.identity = req[r].identity /\ row \in Rows
      BY <1>0, <3>1 DEF IInv, RowOrigin
    <3>3. Finalized(row, r) \in table'
      BY <2>6, <3>2 DEF Complete, Completed
    <3>4. /\ Finalized(row, r).id = r /\ Finalized(row, r).left = window[r]
          /\ Finalized(row, r).status = "COMPLETED"
      BY <3>1, <3>2 DEF Finalized, Rows
    <3>. QED
      BY <1>0, <2>6, <3>3, <3>4
      DEF Complete, RequestOK, HolderOwnsRow, OkKeepsRow, Holding
  <2>7. CASE Release(r)
    BY <1>0, <2>7, NothingHeld DEF Release
  <2>. QED  BY <1>2, <2>1, <2>2, <2>3, <2>4, <2>5, <2>6, <2>7 DEF Serve
<1>3. CASE Break(r)
  <2>1. CASE ReserveFails(r) \/ ReleaseFails(r) \/ Crash(r)
    BY <1>0, <2>1, NothingHeld DEF ReserveFails, ReleaseFails, Crash
  <2>2. CASE CompleteFails(r)
    <3>1. PICK row \in table : row.id = r /\ row.left = window[r] /\ window[r] > 0
      BY <1>0, <2>2 DEF CompleteFails, HolderOwnsRow, Holding
    <3>2. row.identity = req[r].identity /\ row \in Rows
      BY <1>0, <3>1 DEF IInv, RowOrigin
    <3>3. \E new \in table' : new.id = r /\ new.left = window[r]
      <4>1. CASE table' = table
        BY <3>1, <4>1
      <4>2. CASE table' = Completed(r)
        <5>1. Finalized(row, r) \in table'
          BY <3>2, <4>2 DEF Completed
        <5>2. Finalized(row, r).id = r /\ Finalized(row, r).left = window[r]
          BY <3>1, <3>2 DEF Finalized, Rows
        <5>. QED  BY <5>1, <5>2
      <4>. QED  BY <2>2, <4>1, <4>2 DEF CompleteFails
    <3>4. pc'[r] = "release" /\ window' = window /\ answer' = answer
      BY <1>0, <2>2 DEF CompleteFails
    <3>. QED
      BY <1>0, <2>2, <3>1, <3>3, <3>4
      DEF CompleteFails, RequestOK, HolderOwnsRow, OkKeepsRow, Holding
  <2>. QED  BY <1>3, <2>1, <2>2 DEF Break
<1>4. CASE Retry(r)
  BY <1>0, <1>4
  DEF Retry, NoAnswer, RequestOK, HolderOwnsRow, OkKeepsRow, Holding
<1>. QED  BY <1>1, <1>2, <1>3, <1>4

LEMMA RequestStep ==
    ASSUME IInv, NEW r \in Requests, Arrive(r) \/ Serve(r) \/ Break(r) \/ Retry(r)
    PROVE  IInv'
<1>1. TypeOK'
  BY TypeStep DEF IInv, Next
<1>2. OneRowPerIdentity' /\ RowOrigin' /\ CompletedByOwner'
  BY TableStep
<1>3. req' = req
  BY RequestsStay DEF Next
<1>4. ASSUME NEW q \in Requests PROVE RequestOK(q)'
  <2>1. CASE q = r
    BY <2>1, OwnStep
  <2>2. CASE q # r
    <3>1. /\ pc'[q] = pc[q] /\ window'[q] = window[q] /\ answer'[q] = answer[q]
          /\ \A row \in table : row.id = q /\ row.left > 0 => row \in table'
      BY <2>2, OthersUntouched
    <3>2. RequestOK(q)
      BY DEF IInv, RequestOK, AnswerMeansAnswered, ReplayFidelity
    <3>. QED
      BY <1>3, <3>1, <3>2 DEF RequestOK, HolderOwnsRow, OkKeepsRow, Holding
  <2>. QED  BY <2>1, <2>2
<1>. QED
  BY <1>1, <1>2, <1>4 DEF IInv, RequestOK, AnswerMeansAnswered, ReplayFidelity

\* Where no handler overruns, time takes no unexpired row from its holder.
LEMMA TickStep ==
    ASSUME IInv, ~ HandlersMayOverrun \/ WithinReservation', Tick
    PROVE  IInv'
<1>. DEFINE after(row) == [row EXCEPT !.left = Countdown(row.left)]
<1>1. TypeOK'
  BY TypeStep DEF IInv, Next
<1>2. table' = {after(row) : row \in table} /\ req' = req /\ pc' = pc
      /\ answer' = answer /\ window' = [r \in Requests |-> Countdown(window[r])]
  BY DEF Tick
<1>3. ASSUME NEW row \in table
      PROVE  /\ after(row).id = row.id /\ after(row).identity = row.identity
             /\ after(row).hash = row.hash /\ after(row).status = row.status
             /\ after(row).body = row.body /\ after(row).left = Countdown(row.left)
  BY DEF IInv, TypeOK, Rows
<1>. HIDE DEF after
<1>4. OneRowPerIdentity' /\ RowOrigin' /\ CompletedByOwner'
  <2>1. OneRowPerIdentity'
    BY <1>2, <1>3 DEF IInv, OneRowPerIdentity
  <2>2. RowOrigin'
    BY <1>2, <1>3 DEF IInv, RowOrigin
  <2>3. CompletedByOwner'
    BY <1>2, <1>3 DEF IInv, CompletedByOwner
  <2>. QED  BY <2>1, <2>2, <2>3
<1>5. ASSUME NEW r \in Requests PROVE HolderOwnsRow(r)' /\ OkKeepsRow(r)'
  <2>1. window[r] \in 0..TTL /\ window'[r] = Countdown(window[r])
    BY <1>2 DEF IInv, TypeOK
  <2>2. Holding(r) => window'[r] > 0
    <3>1. CASE ~ HandlersMayOverrun
      BY <2>1, <3>1, TTLAssumption DEF Tick, Countdown
    <3>2. CASE WithinReservation'
      BY <1>2, <3>2 DEF WithinReservation, Holding
    <3>. QED  BY <3>1, <3>2
  <2>3. window'[r] > 0 => window[r] > 0
    BY <2>1, TTLAssumption DEF Countdown
  <2>4. HolderOwnsRow(r) /\ OkKeepsRow(r)
    BY DEF IInv
  <2>5. HolderOwnsRow(r)'
    BY <1>2, <1>3, <2>1, <2>2, <2>4 DEF HolderOwnsRow, Holding
  <2>6. OkKeepsRow(r)'
    BY <1>2, <1>3, <2>1, <2>3, <2>4 DEF OkKeepsRow
  <2>. QED  BY <2>5, <2>6
<1>6. AnswerMeansAnswered' /\ ReplayFidelity'
  BY <1>2 DEF IInv, AnswerMeansAnswered, ReplayFidelity
<1>. QED  BY <1>1, <1>4, <1>5, <1>6 DEF IInv

LEMMA InvInit == Init => IInv
<1>. SUFFICES ASSUME Init PROVE IInv
  OBVIOUS
<1>1. TypeOK
  BY TTLAssumption, FaultsAssumption
  DEF Init, TypeOK, Stages, AnswerKinds, NoAnswer
<1>. QED
  BY <1>1
  DEF Init, IInv, NoAnswer, OneRowPerIdentity, RowOrigin, CompletedByOwner,
      HolderOwnsRow, OkKeepsRow, Holding, AnswerMeansAnswered, ReplayFidelity

LEMMA InvStep ==
    ASSUME ~ HandlersMayOverrun \/ WithinReservation', IInv, [Next]_vars
    PROVE  IInv'
<1>1. CASE UNCHANGED vars
  BY <1>1
  DEF vars, IInv, TypeOK, OneRowPerIdentity, RowOrigin, CompletedByOwner,
      HolderOwnsRow, OkKeepsRow, Holding, AnswerMeansAnswered, ReplayFidelity
<1>. QED  BY <1>1, RequestStep, TickStep DEF Next

\* The table, the holders and the answers agree at all times, whatever
\* statements fail and whichever processes die, if no handler overruns.
THEOREM Invariance ==
    ASSUME ~ HandlersMayOverrun
    PROVE  Spec => []IInv
<1>1. IInv /\ [Next]_vars => IInv'
  BY InvStep
<1>. QED  BY <1>1, InvInit, PTL DEF Spec

\* The same for handlers that may overrun, in behaviours in which none does.
\* A finite behaviour without an overrun is one such when nothing follows it, so
\* this holds of every behaviour up to its first overrun.
THEOREM InvarianceWithinReservation ==
    Spec /\ []WithinReservation => []IInv
<1>1. IInv /\ [Next]_vars /\ WithinReservation' => IInv'
  BY InvStep
<1>. QED  BY <1>1, InvInit, PTL DEF Spec

\* The assumption on the constant is one way to meet that condition.
THEOREM ReservationsSuffice ==
    ASSUME ~ HandlersMayOverrun
    PROVE  Spec => []WithinReservation
<1>1. IInv => WithinReservation
  BY DEF IInv, HolderOwnsRow, WithinReservation
<1>. QED  BY <1>1, Invariance, PTL

LEMMA InvExcludes == IInv => AtMostOneHandler
<1>. SUFFICES ASSUME IInv, NEW a \in Requests, NEW b \in Requests,
                     Holding(a), Holding(b), SameIdentity(a, b)
              PROVE  a = b
  BY DEF AtMostOneHandler
<1>1. PICK row \in table : row.id = b
  BY DEF IInv, HolderOwnsRow
<1>2. row.identity = req[a].identity
  BY <1>1 DEF IInv, RowOrigin, SameIdentity
<1>. QED  BY <1>1, <1>2, HolderIsAlone

LEMMA InvRunsOnce == IInv => NoReexecutionInWindow
<1>. SUFFICES ASSUME IInv, NEW a \in Requests, NEW b \in Requests,
                     answer[a].kind = "ok", window[a] > 0,
                     Holding(b), SameIdentity(a, b)
              PROVE  FALSE
  BY DEF NoReexecutionInWindow
<1>1. PICK row \in table : row.id = a
  BY DEF IInv, OkKeepsRow
<1>2. row.identity = req[b].identity
  BY <1>1 DEF IInv, RowOrigin, SameIdentity
<1>3. a = b
  BY <1>1, <1>2, HolderIsAlone
<1>4. pc[a] = "answered"
  BY DEF IInv, AnswerMeansAnswered
<1>. QED  BY <1>3, <1>4 DEF Holding

\* Concurrent duplicates never both execute side effects.
THEOREM MutualExclusion ==
    ASSUME ~ HandlersMayOverrun
    PROVE  Spec => []AtMostOneHandler
<1>. QED  BY InvExcludes, Invariance, PTL

\* A replay answers exactly the request it was recorded for.
THEOREM FaithfulReplay ==
    ASSUME ~ HandlersMayOverrun
    PROVE  Spec => []ReplayFidelity
<1>1. IInv => ReplayFidelity
  BY DEF IInv
<1>. QED  BY <1>1, Invariance, PTL

\* An answered request is not executed again while its record lasts.
THEOREM AtMostOncePerWindow ==
    ASSUME ~ HandlersMayOverrun
    PROVE  Spec => []NoReexecutionInWindow
<1>. QED  BY InvRunsOnce, Invariance, PTL

\* With nothing assumed of the constants: duplicates execute twice, a replay is
\* of another request, or an answered request is executed again, only after some
\* handler has outlived the reservation it ran under.
THEOREM SafeUntilOverrun == Spec => SafeWithinReservation
<1>1. IInv => AtMostOneHandler /\ ReplayFidelity /\ NoReexecutionInWindow
  BY InvExcludes, InvRunsOnce DEF IInv
<1>2. Spec /\ []WithinReservation =>
        [](AtMostOneHandler /\ ReplayFidelity /\ NoReexecutionInWindow)
  BY <1>1, InvarianceWithinReservation, PTL
<1>. QED  BY <1>2 DEF SafeWithinReservation

-----------------------------------------------------------------------------
(***************************************************************************)
(* What holds even when handlers overrun their reservations.               *)
(***************************************************************************)

\* However late complete() and release() come, an unexpired completed row is
\* neither deleted nor reopened.
THEOREM CompletedStays == Spec => CompletedIsReplayable
<1>. DEFINE Kept(row) == \E new \in table' :
                            /\ new.id = row.id /\ new.hash = row.hash
                            /\ new.status = "COMPLETED"
<1>1. ASSUME TypeOK, [Next]_vars, NEW row \in table,
             row.status = "COMPLETED", ~ Expired(row)
      PROVE  Kept(row)
  <2>1. row \in Rows
    BY <1>1 DEF TypeOK
  <2>2. CASE row \in table'
    BY <1>1, <2>2
  <2>3. ASSUME NEW r \in Requests, table' = Completed(r) PROVE Kept(row)
    <3>1. CASE row.identity = req[r].identity
      <4>1. Finalized(row, r) \in table'
        BY <1>1, <2>3, <3>1 DEF Completed
      <4>2. /\ Finalized(row, r).id = row.id /\ Finalized(row, r).hash = row.hash
            /\ Finalized(row, r).status = "COMPLETED"
        BY <2>1 DEF Finalized, Rows
      <4>. QED  BY <4>1, <4>2
    <3>2. CASE row.identity # req[r].identity
      BY <1>1, <2>3, <3>2 DEF Completed
    <3>. QED  BY <3>1, <3>2
  <2>4. CASE Tick
    <3>. DEFINE aged == [row EXCEPT !.left = Countdown(row.left)]
    <3>1. aged \in table'
      BY <1>1, <2>4 DEF Tick
    <3>2. aged.id = row.id /\ aged.hash = row.hash /\ aged.status = "COMPLETED"
      BY <1>1, <2>1 DEF Rows
    <3>. QED  BY <3>1, <3>2
  <2>5. ASSUME NEW r \in Requests,
               Arrive(r) \/ Serve(r) \/ Break(r) \/ Retry(r)
        PROVE  row \in table' \/ table' = Completed(r)
    <3>1. CASE Arrive(r) \/ Retry(r)
      BY <1>1, <3>1 DEF Arrive, PassThrough, RejectMissingKey, BeginReserve, Retry
    <3>2. CASE Serve(r)
      BY <1>1, <3>2
      DEF Serve, ReclaimExpired, FindExisting, CreatePending, FindRacer,
          HandlerSucceeds, HandlerFails, Complete, Release,
          Reclaimed, Released, Releasable
    <3>3. CASE Break(r)
      BY <1>1, <3>3
      DEF Break, ReserveFails, CompleteFails, ReleaseFails, Crash,
          Reclaimed, Released, Releasable
    <3>. QED  BY <2>5, <3>1, <3>2, <3>3
  <2>. QED  BY <1>1, <2>2, <2>3, <2>4, <2>5 DEF Next, vars
<1>2. TypeOK /\ [Next]_vars =>
        [\A row \in table : row.status = "COMPLETED" /\ ~ Expired(row) => Kept(row)]_vars
  BY <1>1
<1>. QED  BY <1>2, TypeCorrect, PTL DEF Spec, CompletedIsReplayable

\* A step of a request deletes rows, inserts one into a free slot, or completes.
LEMMA TableMoves ==
    ASSUME NEW r \in Requests, Arrive(r) \/ Serve(r) \/ Break(r) \/ Retry(r)
    PROVE  \/ table' \subseteq table
           \/ ~ SlotTaken(req[r].identity) /\ table' = table \cup {NewRow(r)}
           \/ table' = Completed(r)
<1>1. CASE Arrive(r) \/ Retry(r)
  BY <1>1 DEF Arrive, PassThrough, RejectMissingKey, BeginReserve, Retry
<1>2. CASE Serve(r)
  BY <1>2
  DEF Serve, ReclaimExpired, FindExisting, CreatePending, FindRacer,
      HandlerSucceeds, HandlerFails, Complete, Release, Reclaimed, Released
<1>3. CASE Break(r)
  BY <1>3
  DEF Break, ReserveFails, CompleteFails, ReleaseFails, Crash, Reclaimed, Released
<1>. QED  BY <1>1, <1>2, <1>3

\* The unique index is a guard of every insertion.
LEMMA UniqueRow == Spec => []OneRowPerIdentity
<1>1. Init => OneRowPerIdentity
  BY DEF Init, OneRowPerIdentity
<1>2. ASSUME TypeOK, OneRowPerIdentity, [Next]_vars PROVE OneRowPerIdentity'
  <2>1. CASE table' \subseteq table
    BY <1>2, <2>1 DEF OneRowPerIdentity
  <2>2. ASSUME NEW r \in Requests, ~ SlotTaken(req[r].identity),
               table' = table \cup {NewRow(r)}
        PROVE  OneRowPerIdentity'
    <3>1. NewRow(r).identity = req[r].identity
      BY DEF NewRow
    <3>. QED  BY <1>2, <2>2, <3>1 DEF OneRowPerIdentity, SlotTaken
  <2>3. ASSUME NEW r \in Requests, table' = Completed(r)
        PROVE  OneRowPerIdentity'
    <3>. DEFINE after(row) == IF row.identity = req[r].identity
                              THEN Finalized(row, r) ELSE row
    <3>1. \A row \in table : after(row).identity = row.identity
      BY <1>2 DEF TypeOK, Rows, Finalized
    <3>2. table' = {after(row) : row \in table}
      BY <2>3 DEF Completed
    <3>. HIDE DEF after
    <3>. QED  BY <1>2, <3>1, <3>2 DEF OneRowPerIdentity
  <2>4. CASE Tick
    <3>. DEFINE after(row) == [row EXCEPT !.left = Countdown(row.left)]
    <3>1. \A row \in table : after(row).identity = row.identity
      BY <1>2 DEF TypeOK, Rows
    <3>2. table' = {after(row) : row \in table}
      BY <2>4 DEF Tick
    <3>. HIDE DEF after
    <3>. QED  BY <1>2, <3>1, <3>2 DEF OneRowPerIdentity
  <2>. QED  BY <1>2, <2>1, <2>2, <2>3, <2>4, TableMoves DEF Next, vars
<1>. QED  BY <1>1, <1>2, TypeCorrect, PTL DEF Spec
-----------------------------------------------------------------------------
(***************************************************************************)
(* Who is told to wait waits for somebody.  Until the first fault the      *)
(* unexpired pending rows are those of the requests that are at work,      *)
(* whether or not handlers overrun: a request stops being at work only by  *)
(* finalizing or deleting the pending row of its identity.                 *)
(***************************************************************************)
PendingIsHeld ==
    faults = 0 =>
        \A row \in table : row.status = "PENDING" /\ row.left > 0 => Holding(row.id)

WaitInv == TypeOK /\ RowOrigin /\ PendingIsHeld

LEMMA OriginStep ==
    ASSUME TypeOK, RowOrigin, [Next]_vars
    PROVE  RowOrigin'
<1>1. req' = req
  BY RequestsStay
<1>2. CASE table' \subseteq table
  BY <1>1, <1>2 DEF RowOrigin
<1>3. ASSUME NEW r \in Requests, table' = table \cup {NewRow(r)}
      PROVE  RowOrigin'
  <2>1. /\ NewRow(r).id = r
        /\ NewRow(r).identity = req[r].identity /\ NewRow(r).hash = req[r].hash
    BY DEF NewRow
  <2>. QED  BY <1>1, <1>3, <2>1 DEF RowOrigin
<1>4. ASSUME NEW r \in Requests, table' = Completed(r)
      PROVE  RowOrigin'
  <2>. DEFINE after(row) == IF row.identity = req[r].identity
                            THEN Finalized(row, r) ELSE row
  <2>1. \A row \in table : /\ after(row).identity = row.identity
                           /\ after(row).hash = row.hash /\ after(row).id = row.id
    BY DEF TypeOK, Rows, Finalized
  <2>2. table' = {after(row) : row \in table}
    BY <1>4 DEF Completed
  <2>. HIDE DEF after
  <2>. QED  BY <1>1, <2>1, <2>2 DEF RowOrigin
<1>5. CASE Tick
  <2>. DEFINE after(row) == [row EXCEPT !.left = Countdown(row.left)]
  <2>1. \A row \in table : /\ after(row).identity = row.identity
                           /\ after(row).hash = row.hash /\ after(row).id = row.id
    BY DEF TypeOK, Rows
  <2>2. table' = {after(row) : row \in table}
    BY <1>5 DEF Tick
  <2>. HIDE DEF after
  <2>. QED  BY <1>1, <2>1, <2>2 DEF RowOrigin
<1>. QED  BY <1>2, <1>3, <1>4, <1>5, TableMoves DEF Next, vars

LEMMA PendingStep ==
    ASSUME WaitInv, [Next]_vars
    PROVE  PendingIsHeld'
<1>. DEFINE Waits(row) == row.status = "PENDING" /\ row.left > 0
<1>. USE DEF WaitInv
<1>. SUFFICES ASSUME faults' = 0, NEW row \in table', Waits(row)
              PROVE  Holding(row.id)'
  BY DEF PendingIsHeld
<1>1. ASSUME NEW r \in Requests, Break(r) PROVE FALSE
  BY <1>1 DEF Break, ReserveFails, CompleteFails, ReleaseFails, Crash, Fault, TypeOK
<1>2. faults = 0
  BY <1>1 DEF Next, vars, Tick, Arrive, PassThrough, RejectMissingKey,
              BeginReserve, Retry, Serve, ReclaimExpired, FindExisting,
              CreatePending, FindRacer, HandlerSucceeds, HandlerFails, Complete,
              Release
<1>3. ASSUME row \in table PROVE Holding(row.id) /\ row.id \in Requests
  BY <1>2, <1>3 DEF PendingIsHeld, TypeOK, Rows
<1>4. ASSUME NEW r \in Requests, Arrive(r) \/ Retry(r) PROVE Holding(row.id)'
  BY <1>3, <1>4
  DEF Arrive, PassThrough, RejectMissingKey, BeginReserve, Retry, Answer, Goto,
      Holding, TypeOK
<1>5. ASSUME NEW r \in Requests, Serve(r) PROVE Holding(row.id)'
  <2>1. CASE ReclaimExpired(r)
    BY <2>1, <1>3 DEF ReclaimExpired, Reclaimed, Goto, Holding, TypeOK
  <2>2. CASE FindExisting(r) \/ FindRacer(r)
    BY <2>2, <1>3
    DEF FindExisting, FindRacer, AnswerFrom, Answer, Goto, Holding, TypeOK
  <2>3. CASE CreatePending(r)
    <3>1. NewRow(r).id = r
      BY DEF NewRow
    <3>2. row \in table \/ (row = NewRow(r) /\ pc'[r] = "handler")
      BY <2>3 DEF CreatePending, Goto, TypeOK
    <3>3. ASSUME row \in table PROVE Holding(row.id)'
      BY <2>3, <3>3, <1>3 DEF CreatePending, Goto, Holding, TypeOK
    <3>. QED  BY <3>1, <3>2, <3>3 DEF Holding
  <2>4. CASE HandlerSucceeds(r) \/ HandlerFails(r)
    BY <2>4, <1>3 DEF HandlerSucceeds, HandlerFails, Goto, Holding, TypeOK
  <2>5. CASE Complete(r)
    <3>1. \A old \in table : Finalized(old, r).status = "COMPLETED"
      BY DEF TypeOK, Rows, Finalized
    <3>2. row \in table /\ row.identity # req[r].identity
      BY <2>5, <3>1 DEF Complete, Completed
    <3>3. row.id # r
      BY <3>2 DEF RowOrigin
    <3>. QED  BY <2>5, <3>2, <3>3, <1>3 DEF Complete, Answer, Goto, Holding, TypeOK
  <2>6. CASE Release(r)
    <3>1. row \in table /\ row.identity # req[r].identity
      BY <2>6 DEF Release, Released, Releasable
    <3>2. row.id # r
      BY <3>1 DEF RowOrigin
    <3>. QED  BY <2>6, <3>1, <3>2, <1>3 DEF Release, Answer, Goto, Holding, TypeOK
  <2>. QED  BY <1>5, <2>1, <2>2, <2>3, <2>4, <2>5, <2>6 DEF Serve
<1>6. CASE Tick
  <2>1. PICK old \in table : row = [old EXCEPT !.left = Countdown(old.left)]
    BY <1>6 DEF Tick
  <2>2. row.id = old.id /\ row.status = old.status /\ row.left = Countdown(old.left)
    BY <2>1 DEF TypeOK, Rows
  <2>3. old.left > 0
    BY <2>2 DEF Countdown, TypeOK, Rows
  <2>4. Holding(old.id)
    BY <1>2, <2>2, <2>3 DEF PendingIsHeld
  <2>. QED  BY <1>6, <2>2, <2>4 DEF Tick, Holding
<1>7. CASE UNCHANGED vars
  BY <1>3, <1>7 DEF vars, Holding
<1>. QED  BY <1>1, <1>4, <1>5, <1>6, <1>7 DEF Next

\* "in_progress: a concurrent duplicate is still running" is the truth, overruns
\* or not, as long as no statement has failed and no process has died.
THEOREM WaitingForSomebody == Spec => InProgressMeansRunningOrFault
<1>. DEFINE Told(r) == answer'[r].kind = "in_progress" /\ answer[r].kind # "in_progress"
            Working(r) == \E other \in Requests :
                              Holding(other) /\ req[other] = req[r]
<1>1. Init => WaitInv
  BY TypeInit DEF WaitInv, Init, RowOrigin, PendingIsHeld
<1>2. WaitInv /\ [Next]_vars => WaitInv'
  BY TypeStep, OriginStep, PendingStep DEF WaitInv
<1>3. ASSUME WaitInv, Next, NEW r \in Requests, Told(r), ~ (faults > 0)
      PROVE  Working(r)
  <2>1. faults = 0
    BY <1>3 DEF WaitInv, TypeOK
  <2>2. PICK q \in Requests : FindExisting(q) \/ FindRacer(q)
    <3>1. ASSUME NEW q \in Requests, Arrive(q) \/ Retry(q) PROVE FALSE
      BY <1>3, <3>1 DEF Arrive, PassThrough, RejectMissingKey, BeginReserve,
                        Retry, Answer, NoAnswer, WaitInv, TypeOK
    <3>2. ASSUME NEW q \in Requests, Break(q) PROVE FALSE
      BY <1>3, <3>2 DEF Break, ReserveFails, CompleteFails, ReleaseFails, Crash,
                        Answer, WaitInv, TypeOK
    <3>3. ASSUME NEW q \in Requests, Serve(q) PROVE FindExisting(q) \/ FindRacer(q)
      BY <1>3, <3>3 DEF Serve, ReclaimExpired, CreatePending, HandlerSucceeds,
                        HandlerFails, Complete, Release, Answer, WaitInv, TypeOK
    <3>. QED  BY <1>3, <3>1, <3>2, <3>3 DEF Next, Tick
  <2>3. PICK row \in FindValid(req[q].identity) : AnswerFrom(q, row)
    BY <1>3, <2>2 DEF FindExisting, FindRacer, Answer, WaitInv, TypeOK
  <2>4. q = r /\ Classify(row, req[q].hash) = "in_progress"
    BY <1>3, <2>3 DEF AnswerFrom, Answer, WaitInv, TypeOK
  <2>5. /\ row \in table /\ row.identity = req[r].identity /\ row.hash = req[r].hash
        /\ row.status = "PENDING" /\ row.left > 0
    BY <1>3, <2>3, <2>4 DEF FindValid, Expired, Classify, WaitInv, TypeOK, Rows
  <2>6. row.id \in Requests /\ Holding(row.id)
    BY <1>3, <2>1, <2>5 DEF WaitInv, PendingIsHeld, TypeOK, Rows
  <2>7. req[row.id] = req[r]
    BY <1>3, <2>5, <2>6 DEF WaitInv, RowOrigin, TypeOK
  <2>. QED  BY <2>6, <2>7
<1>4. WaitInv /\ [Next]_vars =>
        [\A r \in Requests :
            answer'[r].kind = "in_progress" /\ answer[r].kind # "in_progress" =>
                \/ faults > 0
                \/ \E other \in Requests :
                      Holding(other) /\ req[other] = req[r]]_vars
  BY <1>3
<1>. QED
  BY <1>1, <1>2, <1>4, PTL DEF Spec, InProgressMeansRunningOrFault
-----------------------------------------------------------------------------
(***************************************************************************)
(* Reservations run out, and replays stay within their identity, overruns  *)
(* or not.                                                                 *)
(***************************************************************************)

\* Each request has at most one row.
LEMMA OneRowPerRequest ==
    ASSUME OneRowPerIdentity, RowOrigin, NEW a \in table, NEW b \in table,
           a.id = b.id
    PROVE  a = b
BY DEF OneRowPerIdentity, RowOrigin

LEMMA RowOriginAlways == Spec => []RowOrigin
<1>1. Init => RowOrigin
  BY DEF Init, RowOrigin
<1>2. TypeOK /\ RowOrigin /\ [Next]_vars => RowOrigin'
  BY OriginStep
<1>. QED  BY <1>1, <1>2, TypeCorrect, PTL DEF Spec

\* A key that nobody works under, after a crash or a failed release, is free
\* again after one lifetime: no step puts off the expiry of a row.
THEOREM NothingProlongsAReservation == Spec => ReservationsOnlyRunOut
<1>1. ASSUME TypeOK, OneRowPerIdentity, RowOrigin, [Next]_vars,
             NEW row \in table, NEW new \in table', new.id = row.id
      PROVE  new.left <= row.left
  <2>1. row.left \in 0..TTL
    BY <1>1 DEF TypeOK, Rows
  <2>2. CASE new \in table
    BY <1>1, <2>1, <2>2, OneRowPerRequest
  <2>3. ASSUME NEW r \in Requests, ~ SlotTaken(req[r].identity), new = NewRow(r)
        PROVE  FALSE
    <3>1. row.id = r
      BY <1>1, <2>3 DEF NewRow
    <3>2. row.identity = req[r].identity
      BY <1>1, <3>1 DEF RowOrigin
    <3>. QED  BY <2>3, <3>2 DEF SlotTaken
  <2>4. ASSUME NEW r \in Requests, table' = Completed(r)
        PROVE  new.left <= row.left
    <3>1. PICK old \in table :
             new = IF old.identity = req[r].identity THEN Finalized(old, r) ELSE old
      BY <2>4 DEF Completed
    <3>2. new.id = old.id /\ new.left = old.left
      BY <1>1, <3>1 DEF TypeOK, Rows, Finalized
    <3>3. old = row
      BY <1>1, <3>2, OneRowPerRequest
    <3>. QED  BY <2>1, <3>2, <3>3
  <2>5. CASE Tick
    <3>1. PICK old \in table : new = [old EXCEPT !.left = Countdown(old.left)]
      BY <1>1, <2>5 DEF Tick
    <3>2. new.id = old.id /\ new.left = Countdown(old.left)
      BY <1>1, <3>1 DEF TypeOK, Rows
    <3>3. new.left = Countdown(row.left)
      BY <1>1, <3>2, OneRowPerRequest
    <3>. QED  BY <2>1, <3>3, TTLAssumption DEF Countdown
  <2>6. ASSUME NEW r \in Requests, Arrive(r) \/ Serve(r) \/ Break(r) \/ Retry(r)
        PROVE  new.left <= row.left
    BY <1>1, <2>2, <2>3, <2>4, <2>6, TableMoves
  <2>. QED  BY <1>1, <2>2, <2>5, <2>6 DEF Next, vars
<1>2. TypeOK /\ OneRowPerIdentity /\ RowOrigin /\ [Next]_vars =>
        [\A row \in table, new \in table' :
            new.id = row.id => new.left <= row.left]_vars
  BY <1>1
<1>. QED
  BY <1>2, TypeCorrect, UniqueRow, RowOriginAlways, PTL
  DEF Spec, ReservationsOnlyRunOut

\* A stored response comes from a request of the row's identity, if not from
\* the one that made the row.
BodyOfIdentity ==
    \A row \in table :
        row.status = "COMPLETED" =>
            row.body \in Requests /\ req[row.body].identity = row.identity

LEMMA BodyStep ==
    ASSUME TypeOK, BodyOfIdentity, [Next]_vars
    PROVE  BodyOfIdentity'
<1>1. req' = req
  BY RequestsStay
<1>. SUFFICES ASSUME NEW new \in table', new.status = "COMPLETED"
              PROVE  new.body \in Requests /\ req[new.body].identity = new.identity
  BY <1>1 DEF BodyOfIdentity
<1>2. ASSUME new \in table
      PROVE  new.body \in Requests /\ req[new.body].identity = new.identity
  BY <1>2 DEF BodyOfIdentity
<1>3. ASSUME NEW r \in Requests, new = NewRow(r) PROVE FALSE
  BY <1>3 DEF NewRow
<1>4. ASSUME NEW r \in Requests, table' = Completed(r)
      PROVE  new.body \in Requests /\ req[new.body].identity = new.identity
  <2>1. PICK old \in table :
           new = IF old.identity = req[r].identity THEN Finalized(old, r) ELSE old
    BY <1>4 DEF Completed
  <2>2. CASE old.identity = req[r].identity
    BY <2>1, <2>2 DEF Finalized, TypeOK, Rows
  <2>3. CASE old.identity # req[r].identity
    BY <2>1, <2>3, <1>2
  <2>. QED  BY <2>2, <2>3
<1>5. CASE Tick
  <2>1. PICK old \in table : new = [old EXCEPT !.left = Countdown(old.left)]
    BY <1>5 DEF Tick
  <2>2. new.status = old.status /\ new.body = old.body /\ new.identity = old.identity
    BY <2>1 DEF TypeOK, Rows
  <2>. QED  BY <2>2 DEF BodyOfIdentity
<1>6. ASSUME NEW r \in Requests, Arrive(r) \/ Serve(r) \/ Break(r) \/ Retry(r)
      PROVE  new.body \in Requests /\ req[new.body].identity = new.identity
  BY <1>2, <1>3, <1>4, <1>6, TableMoves
<1>. QED  BY <1>2, <1>5, <1>6 DEF Next, vars

\* A request is answered with a replay only from a completed row of its
\* identity.
ReplayOrSame(q) ==
    \/ answer'[q] = answer[q]
    \/ \E row \in table : /\ row.identity = req[q].identity
                          /\ row.status = "COMPLETED"
                          /\ answer'[q].from = row.body

LEMMA ReplayArises ==
    ASSUME TypeOK, [Next]_vars, NEW q \in Requests, answer'[q].kind = "replay"
    PROVE  ReplayOrSame(q)
<1>1. ASSUME NEW r \in Requests, NEW row \in FindValid(req[r].identity),
             AnswerFrom(r, row)
      PROVE  ReplayOrSame(q)
  <2>1. CASE q = r
    <3>1. answer'[r].kind = Classify(row, req[r].hash)
      BY <1>1 DEF AnswerFrom, Answer, TypeOK
    <3>2. answer'[r].kind = "replay" => answer'[r].from = row.body
      BY <1>1 DEF AnswerFrom, Answer, TypeOK
    <3>3. row \in table /\ row.identity = req[r].identity
      BY DEF FindValid
    <3>4. row.status = "COMPLETED"
      BY <2>1, <3>1 DEF Classify
    <3>. QED  BY <2>1, <3>2, <3>3, <3>4 DEF ReplayOrSame
  <2>2. CASE q # r
    BY <1>1, <2>2 DEF AnswerFrom, Answer, TypeOK, ReplayOrSame
  <2>. QED  BY <2>1, <2>2
<1>2. ASSUME NEW r \in Requests, Arrive(r) \/ Retry(r) PROVE ReplayOrSame(q)
  BY <1>2 DEF Arrive, PassThrough, RejectMissingKey, BeginReserve, Retry,
              Answer, NoAnswer, TypeOK, ReplayOrSame
<1>3. ASSUME NEW r \in Requests, Break(r) PROVE ReplayOrSame(q)
  BY <1>3 DEF Break, ReserveFails, CompleteFails, ReleaseFails, Crash, Answer,
              TypeOK, ReplayOrSame
<1>4. ASSUME NEW r \in Requests, Serve(r) PROVE ReplayOrSame(q)
  <2>1. CASE FindExisting(r) \/ FindRacer(r)
    <3>1. CASE \E row \in FindValid(req[r].identity) : AnswerFrom(r, row)
      BY <1>1, <3>1
    <3>2. CASE answer' = answer \/ Answer(r, "unique_violation", None)
      BY <3>2 DEF Answer, TypeOK, ReplayOrSame
    <3>. QED  BY <2>1, <3>1, <3>2 DEF FindExisting, FindRacer
  <2>2. CASE ~ (FindExisting(r) \/ FindRacer(r))
    BY <1>4, <2>2 DEF Serve, ReclaimExpired, CreatePending, HandlerSucceeds,
                      HandlerFails, Complete, Release, Answer, TypeOK, ReplayOrSame
  <2>. QED  BY <2>1, <2>2
<1>5. CASE answer' = answer
  BY <1>5 DEF ReplayOrSame
<1>6. ASSUME NEW r \in Requests, Arrive(r) \/ Serve(r) \/ Break(r) \/ Retry(r)
      PROVE  ReplayOrSame(q)
  BY <1>2, <1>3, <1>4, <1>6
<1>. QED  BY <1>5, <1>6 DEF Next, vars, Tick

\* Whatever overruns and fails, no replay crosses keys, routes or scopes: what a
\* late complete() can do to a foreign row stays within the identity of both.
THEOREM ReplayWithinIdentity == Spec => []ReplayStaysInIdentity
<1>1. Init => BodyOfIdentity /\ ReplayStaysInIdentity
  BY DEF Init, NoAnswer, BodyOfIdentity, ReplayStaysInIdentity
<1>2. ASSUME TypeOK, BodyOfIdentity, ReplayStaysInIdentity, [Next]_vars
      PROVE  BodyOfIdentity' /\ ReplayStaysInIdentity'
  <2>1. BodyOfIdentity'
    BY <1>2, BodyStep
  <2>2. ASSUME NEW q \in Requests, answer'[q].kind = "replay"
        PROVE  \E p \in Requests : answer'[q].from = p /\ SameIdentity(p, q)
    <3>1. CASE answer'[q] = answer[q]
      BY <1>2, <2>2, <3>1 DEF ReplayStaysInIdentity
    <3>2. ASSUME NEW row \in table, row.identity = req[q].identity,
                 row.status = "COMPLETED", answer'[q].from = row.body
          PROVE  \E p \in Requests : answer'[q].from = p /\ SameIdentity(p, q)
      BY <1>2, <3>2 DEF BodyOfIdentity, SameIdentity
    <3>. QED  BY <1>2, <2>2, <3>1, <3>2, ReplayArises DEF ReplayOrSame
  <2>3. req' = req
    BY <1>2, RequestsStay
  <2>. QED  BY <2>1, <2>2, <2>3 DEF ReplayStaysInIdentity, SameIdentity
<1>. QED  BY <1>1, <1>2, TypeCorrect, PTL DEF Spec
=============================================================================
