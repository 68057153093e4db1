-------------------------- MODULE ExchangesProofs --------------------------
(***************************************************************************)
(* What clients may rely on, for any set of users, addresses, keys and     *)
(* bodies, any rate limit and any fingerprint.                             *)
(***************************************************************************)
EXTENDS Exchanges, TLAPS

\* The unique index holds.
UniqueSlots == \A s, t \in slots : s.identity = t.identity => s = t

-----------------------------------------------------------------------------
(***************************************************************************)
(* The operators of the model.                                             *)
(***************************************************************************)

LEMMA RequestFields ==
    ASSUME NEW q \in Requests
    PROVE  /\ q.route \in Keyed /\ q.address \in Addresses
           /\ q.user \in Users \cup {None} /\ q.key \in Keys \cup {None}
           /\ q.body \in Bodies
           /\ At(q) \in Keyed \X Addresses
BY DEF Requests, At

\* One caller's key is one identity, and no other caller's.
LEMMA IdentityIsCallersKey ==
    ASSUME NEW p \in Requests, NEW q \in Requests, NEW r, NEW s
    PROVE  /\ Identity(p) = Identity(q) <=> Caller(p) = Caller(q) /\ p.key = q.key
           /\ Kept(p, r).caller = Caller(p) /\ Kept(p, r).key = p.key
           /\ Kept(q, s).caller = Caller(q) /\ Kept(q, s).key = q.key
<1>1. Identity(p) = Identity(q) <=>
          p.key = q.key /\ p.route = q.route /\ Scope(p) = Scope(q)
  BY DEF Identity
<1>2. p.route \in {"open", "closed"} /\ q.route \in {"open", "closed"}
  BY DEF Requests, Keyed
<1>3. p.route = q.route =>
        (Scope(p) = Scope(q) <=>
            (IF p.route = "open" THEN p.address ELSE p.user) =
            (IF q.route = "open" THEN q.address ELSE q.user))
  BY <1>2 DEF Scope, Public
<1>. QED  BY <1>1, <1>3 DEF Kept, Caller

\* What the error of a handler, or of complete(), is answered with.
LEMMA ThrownStatus ==
    /\ \A e \in Thrown : toProblemDetails(e) \in {400, 404, 409, 500}
    /\ toProblemDetails(Unexpected) = 500
BY DEF Thrown, Http, Prisma, Unexpected, toProblemDetails

\* The headers that are recorded have a counter within the limit.
LEMMA ResponseType ==
    ASSUME TypeOK, NEW q \in Requests, Pass(q), NEW effect \in 1..MaxEffects
    PROVE  Response(201, effect, captureHeaders(q)) \in Responses
<1>1. hits[At(q)] \in 0..Limit /\ hits[At(q)] < Limit
  BY RequestFields DEF TypeOK, Pass, ThrottlerGuard
<1>2. captureHeaders(q) \in 0..Limit
  BY <1>1, LimitAssumption DEF captureHeaders, Remaining
<1>. QED  BY <1>2 DEF Responses

LEMMA SlotType ==
    ASSUME NEW q \in Requests, NEW done \in BOOLEAN,
           NEW response \in Responses \cup {Response(0, 0, 0)}
    PROVE  Slot(q, done, response) \in Slots
BY DEF Slot, Slots

\* Counting a request.
LEMMA ThrottlerType ==
    ASSUME TypeOK, NEW at \in Keyed \X Addresses,
           ThrottlerGuard(at)
    PROVE  hits' \in [Keyed \X Addresses -> 0..Limit]
<1>1. hits[at] \in 0..Limit
  BY DEF TypeOK
<1>2. hits[at] < Limit => hits[at] + 1 \in 0..Limit
  BY <1>1, LimitAssumption
<1>. QED  BY <1>2 DEF TypeOK, ThrottlerGuard
-----------------------------------------------------------------------------
(***************************************************************************)
(* The kinds of step: most leave the records alone, an answer from a       *)
(* record adds to what is remembered, a handler run adds a record.         *)
(***************************************************************************)

\* The part of TypeOK that says nothing of records, and what it is after a step.
EnvironmentTyped ==
    /\ db \in BOOLEAN /\ active \subseteq Users
    /\ hits \in [Keyed \X Addresses -> 0..Limit]

\* A step that neither reserves nor takes effect.
LEMMA QuietStep ==
    ASSUME IInv, EnvironmentTyped', last' = NotStarted,
           UNCHANGED <<slots, effects, severed>>,
           \/ UNCHANGED kept
           \/ \E q \in Requests : \E s \in slots :
                 /\ s.identity = Identity(q) /\ s.hash = RequestHash(q) /\ s.done
                 /\ s.response \in Responses
                 /\ kept' = kept \cup {Kept(q, s.response)}
    PROVE  IInv'
<1>1. TypeOK'
  BY DEF IInv, TypeOK, EnvironmentTyped, Successes, Ends
<1>2. OneRecordPerRun' /\ PendingIsSevered'
  BY DEF IInv, OneRecordPerRun, PendingIsSevered
<1>3. KeptIsRecorded'
  <2>1. CASE UNCHANGED kept
    BY <2>1 DEF IInv, KeptIsRecorded
  <2>2. ASSUME NEW q \in Requests, NEW s \in slots,
               s.identity = Identity(q), s.hash = RequestHash(q), s.done,
               kept' = kept \cup {Kept(q, s.response)}
        PROVE  KeptIsRecorded'
    BY <2>2 DEF IInv, KeptIsRecorded
  <2>. QED  BY <2>1, <2>2
<1>. QED  BY <1>1, <1>2, <1>3 DEF IInv

\* A record is added where there was none, perhaps of a run.
LEMMA RecordAdded ==
    ASSUME IInv, NEW q \in Requests, Existing(q) = {},
           NEW slot \in Slots, slot.identity = Identity(q),
           slot.hash = RequestHash(q),
           slots' = slots \cup {slot},
           \/ effects' = effects
           \/ effects < MaxEffects /\ effects' = effects + 1,
           slot.done => effects' = effects + 1 /\ slot.response.effect = effects',
           \/ UNCHANGED kept
           \/ slot.done /\ kept' = kept \cup {Kept(q, slot.response)},
           \/ slot.done /\ UNCHANGED severed
           \/ severed' = severed \cup {Severed(q)}
    PROVE  /\ slots' \subseteq Slots /\ UniqueSlots' /\ effects' \in 0..MaxEffects
           /\ severed' \subseteq {Severed(p) : p \in Requests}
           /\ OneRecordPerRun' /\ KeptIsRecorded' /\ PendingIsSevered'
<1>1. effects \in 0..MaxEffects /\ slots \subseteq Slots /\ UniqueSlots
  BY DEF IInv, TypeOK, UniqueSlots
<1>2. effects' \in 0..MaxEffects /\ effects' \in Nat /\ effects <= effects'
  BY <1>1, EffectsAssumption
<1>3. \A s \in slots : s.identity # slot.identity
  BY DEF Existing
<1>4. UniqueSlots'
  BY <1>1, <1>3 DEF UniqueSlots
<1>5. OneRecordPerRun'
  <2>1. \A s \in slots : s.done => s.response.effect \in 1..effects
    BY DEF IInv, OneRecordPerRun
  <2>2. slot.done => \A s \in slots : s.done => s.response.effect # slot.response.effect
    BY <1>1, <2>1
  <2>3. \A s \in slots' : s.done => s.response.effect \in 1..effects'
    BY <1>1, <1>2, <2>1
  <2>4. \A s, t \in slots' :
          s.done /\ t.done /\ s.response.effect = t.response.effect => s = t
    BY <2>2 DEF IInv, OneRecordPerRun
  <2>. QED  BY <2>3, <2>4 DEF OneRecordPerRun
<1>6. KeptIsRecorded'
  <2>1. \A x \in kept : \E p \in Requests : \E s \in slots' :
            /\ s.identity = Identity(p) /\ s.hash = RequestHash(p) /\ s.done
            /\ x = Kept(p, s.response)
    BY DEF IInv, KeptIsRecorded
  <2>. QED  BY <2>1 DEF KeptIsRecorded
<1>7. PendingIsSevered'
  BY DEF IInv, PendingIsSevered
<1>8. severed' \subseteq {Severed(p) : p \in Requests}
  BY DEF IInv, TypeOK
<1>. QED  BY <1>1, <1>2, <1>4, <1>5, <1>6, <1>7, <1>8

\* No record is added, though there may have been an effect.
LEMMA NoRecordAdded ==
    ASSUME IInv, UNCHANGED <<slots, severed, kept>>,
           \/ effects' = effects
           \/ effects < MaxEffects /\ effects' = effects + 1
    PROVE  /\ slots' \subseteq Slots /\ UniqueSlots' /\ effects' \in 0..MaxEffects
           /\ severed' \subseteq {Severed(p) : p \in Requests}
           /\ OneRecordPerRun' /\ KeptIsRecorded' /\ PendingIsSevered'
<1>1. effects \in Nat /\ effects \in 0..MaxEffects
  BY EffectsAssumption DEF IInv, TypeOK
<1>2. effects' \in 0..MaxEffects /\ effects' \in Nat /\ effects <= effects'
  BY <1>1, EffectsAssumption
<1>3. OneRecordPerRun'
  <2>1. \A s \in slots : s.done => s.response.effect \in 1..effects'
    BY <1>1, <1>2 DEF IInv, OneRecordPerRun
  <2>. QED  BY <2>1 DEF IInv, OneRecordPerRun
<1>. QED
  BY <1>2, <1>3
  DEF IInv, TypeOK, UniqueSlots, KeptIsRecorded, PendingIsSevered

-----------------------------------------------------------------------------
(***************************************************************************)
(* The steps.                                                              *)
(***************************************************************************)

LEMMA EnvironmentStays ==
    ASSUME IInv, NEW at \in Keyed \X Addresses,
           ThrottlerGuard(at), UNCHANGED active, db' \in BOOLEAN
    PROVE  EnvironmentTyped'
BY ThrottlerType DEF IInv, TypeOK, EnvironmentTyped

\* Refusals, at whatever layer.
LEMMA RefusalStep ==
    ASSUME IInv, NEW q \in Requests,
           Unauthenticated(q) \/ MissingKey(q) \/ ReserveFails(q) \/ Refuse(q)
    PROVE  IInv' /\ UNCHANGED <<slots, effects>> /\ last' = NotStarted
<1>1. /\ ThrottlerGuard(At(q)) /\ last' = NotStarted
      /\ UNCHANGED <<db, active, slots, effects, severed, kept>>
  BY DEF Unauthenticated, MissingKey, ReserveFails, Refuse,
         Reserve, Pass, Refused
<1>2. EnvironmentTyped'
  BY <1>1, EnvironmentStays, RequestFields DEF IInv, TypeOK
<1>. QED  BY <1>1, <1>2, QuietStep

LEMMA ReplayStep ==
    ASSUME IInv, NEW q \in Requests, Replay(q)
    PROVE  IInv' /\ UNCHANGED <<slots, effects>> /\ last' = NotStarted
<1>1. /\ ThrottlerGuard(At(q)) /\ UNCHANGED <<db, active, slots, effects>>
      /\ last' = NotStarted
  BY DEF Replay, Reserve, Pass
<1>2. PICK s \in Existing(q) :
          s.hash = RequestHash(q) /\ s.done /\ Answer(q, s.response)
  BY DEF Replay
<1>3. UNCHANGED severed /\ kept' = kept \cup {Kept(q, s.response)}
  BY <1>2 DEF Answer
<1>4. s \in slots /\ s.identity = Identity(q)
  BY DEF Existing
<1>5. s.response \in Responses
  <2>1. s.response \in Responses \cup {Response(0, 0, 0)}
    BY <1>4 DEF IInv, TypeOK, Slots
  <2>2. s.response.effect \in 1..effects /\ effects \in Nat
    BY <1>2, <1>4, EffectsAssumption DEF IInv, TypeOK, OneRecordPerRun
  <2>3. Response(0, 0, 0).effect = 0
    BY DEF Response
  <2>. QED  BY <2>1, <2>2, <2>3
<1>6. EnvironmentTyped'
  BY <1>1, EnvironmentStays, RequestFields DEF IInv, TypeOK
<1>. QED  BY <1>1, <1>2, <1>3, <1>4, <1>5, <1>6, QuietStep

\* What the record of a run is made of.
LEMMA RunRecord ==
    ASSUME IInv, NEW q \in Requests, Started(q), TakesEffect
    PROVE  /\ Recorded(q) \in Slots /\ Recorded(q).identity = Identity(q)
           /\ Recorded(q).hash = RequestHash(q) /\ Recorded(q).done
           /\ Recorded(q).response \in Responses
           /\ Recorded(q).response.effect = effects'
<1>. DEFINE response == Response(201, effects', captureHeaders(q))
<1>1. effects' \in 1..MaxEffects /\ Pass(q)
  BY EffectsAssumption DEF IInv, TypeOK, Started, Reserve, TakesEffect
<1>2. response \in Responses
  BY <1>1, ResponseType DEF IInv
<1>3. response.effect = effects'
  BY DEF Response
<1>4. Slot(q, TRUE, response) \in Slots
  BY <1>2, SlotType
<1>. QED  BY <1>2, <1>3, <1>4 DEF Slot, Recorded

LEMMA PendingRecord ==
    ASSUME NEW q \in Requests
    PROVE  /\ Pending(q) \in Slots /\ Pending(q).identity = Identity(q)
           /\ Pending(q).hash = RequestHash(q) /\ ~ Pending(q).done
<1>1. Pending(q) \in Slots
  BY SlotType DEF Pending
<1>. QED  BY <1>1 DEF Pending, Slot

LEMMA RunStep ==
    ASSUME IInv, NEW q \in Requests, HandlerSucceeds(q)
    PROVE  IInv' /\ last'.handler = "returned" /\ last'.status = 201
<1>1. /\ Started(q) /\ effects < MaxEffects /\ effects' = effects + 1
      /\ UNCHANGED <<db, active, severed>> /\ slots' = slots \cup {Recorded(q)}
      /\ kept' = kept \cup {Kept(q, Recorded(q).response)}
      /\ last' = [handler |-> "returned", status |-> 201]
  BY DEF HandlerSucceeds, Answer, TakesEffect
<1>2. /\ Recorded(q) \in Slots /\ Recorded(q).identity = Identity(q)
      /\ Recorded(q).hash = RequestHash(q) /\ Recorded(q).done
      /\ Recorded(q).response \in Responses
      /\ Recorded(q).response.effect = effects'
  BY <1>1, RunRecord DEF TakesEffect
<1>3. Existing(q) = {} /\ ThrottlerGuard(At(q))
  BY <1>1 DEF Started, Reserve, Pass
<1>4. /\ slots' \subseteq Slots /\ UniqueSlots' /\ effects' \in 0..MaxEffects
      /\ severed' \subseteq {Severed(p) : p \in Requests}
      /\ OneRecordPerRun' /\ KeptIsRecorded' /\ PendingIsSevered'
  BY <1>1, <1>2, <1>3, RecordAdded
<1>5. last' \in Ends
  BY <1>1 DEF Ends
<1>6. EnvironmentTyped'
  BY <1>1, <1>3, EnvironmentStays, RequestFields DEF IInv, TypeOK
<1>7. kept' \subseteq Successes
  BY <1>1, <1>2 DEF IInv, TypeOK, Successes
<1>. QED
  BY <1>1, <1>4, <1>5, <1>6, <1>7 DEF IInv, TypeOK, UniqueSlots, EnvironmentTyped

\* A handler that failed, or whose answer could not be recorded: whatever became
\* of the effect, of the record and of the release.
LEMMA FailureStep ==
    ASSUME IInv, NEW q \in Requests, HandlerFails(q) \/ CompleteFails(q)
    PROVE  /\ IInv'
           /\ \/ last'.handler = "failed" /\ (db' => slots' = slots)
              \/ last'.handler = "returned" /\ last'.status = 500
<1>1. /\ Started(q) /\ UNCHANGED <<active, kept>> /\ db' \in BOOLEAN
      /\ effects' = effects \/ TakesEffect
  BY DEF HandlerFails, CompleteFails, Release, Throw
<1>2. \/ UNCHANGED <<slots, severed>>
      \/ /\ slots' = slots \cup {Pending(q)}
         /\ severed' = severed \cup {Severed(q)}
      \/ TakesEffect /\ slots' = slots \cup {Recorded(q)} /\ UNCHANGED severed
  BY DEF HandlerFails, CompleteFails, Release
<1>3. Existing(q) = {} /\ ThrottlerGuard(At(q))
  BY <1>1 DEF Started, Reserve, Pass
<1>4. /\ slots' \subseteq Slots /\ UniqueSlots' /\ effects' \in 0..MaxEffects
      /\ severed' \subseteq {Severed(p) : p \in Requests}
      /\ OneRecordPerRun' /\ KeptIsRecorded' /\ PendingIsSevered'
  <2>1. CASE UNCHANGED <<slots, severed>>
    BY <1>1, <2>1, NoRecordAdded DEF TakesEffect
  <2>2. CASE slots' = slots \cup {Pending(q)} /\ severed' = severed \cup {Severed(q)}
    BY <1>1, <1>3, <2>2, PendingRecord, RecordAdded DEF TakesEffect
  <2>3. CASE TakesEffect /\ slots' = slots \cup {Recorded(q)} /\ UNCHANGED severed
    <3>1. /\ Recorded(q) \in Slots /\ Recorded(q).identity = Identity(q)
          /\ Recorded(q).hash = RequestHash(q) /\ Recorded(q).done
          /\ Recorded(q).response.effect = effects'
      BY <1>1, <2>3, RunRecord
    <3>. QED  BY <1>1, <1>3, <2>3, <3>1, RecordAdded DEF TakesEffect
  <2>. QED  BY <1>2, <2>1, <2>2, <2>3
<1>5. /\ last' \in Ends
      /\ \/ last'.handler = "failed" /\ (db' => slots' = slots)
         \/ last'.handler = "returned" /\ last'.status = 500
  <2>1. CASE HandlerFails(q)
    <3>1. PICK e \in Thrown :
              last' = [handler |-> "failed", status |-> toProblemDetails(e)]
      BY <2>1 DEF HandlerFails, Throw
    <3>2. db' => slots' = slots
      BY <2>1 DEF HandlerFails, Release
    <3>. QED  BY <3>1, <3>2, ThrownStatus DEF Ends
  <2>2. CASE CompleteFails(q)
    <3>1. last' = [handler |-> "returned", status |-> 500]
      BY <2>2, ThrownStatus DEF CompleteFails, Throw
    <3>. QED  BY <3>1 DEF Ends
  <2>. QED  BY <2>1, <2>2
<1>6. EnvironmentTyped'
  BY <1>1, <1>3, EnvironmentStays, RequestFields
<1>. QED
  BY <1>1, <1>4, <1>5, <1>6 DEF IInv, TypeOK, UniqueSlots, EnvironmentTyped

\* A request refused by the throttler, and what happens between exchanges.
LEMMA OutsideStep ==
    ASSUME IInv,
           \/ \E at \in DOMAIN hits : RateLimited(at)
           \/ (Environment \/ WindowEnds) /\ last' = NotStarted
    PROVE  IInv' /\ UNCHANGED <<slots, effects>> /\ last' = NotStarted
<1>1. UNCHANGED <<slots, effects, severed, kept>> /\ last' = NotStarted
  BY DEF RateLimited, Refused, Environment, WindowEnds
<1>2. EnvironmentTyped'
  <2>1. CASE \E at \in DOMAIN hits : RateLimited(at)
    BY <2>1 DEF IInv, TypeOK, EnvironmentTyped, RateLimited
  <2>2. CASE Environment
    BY <2>2, Zenon DEF IInv, TypeOK, EnvironmentTyped, Environment
  <2>3. CASE WindowEnds
    BY <2>3, LimitAssumption DEF IInv, TypeOK, EnvironmentTyped, WindowEnds
  <2>. QED  BY <2>1, <2>2, <2>3
<1>. QED  BY <1>1, <1>2, QuietStep

\* What is forgotten with a record is what the record told.
LEMMA ExpiryStep ==
    ASSUME IInv, RecordExpires, last' = NotStarted
    PROVE  IInv' /\ slots' \subseteq slots /\ UNCHANGED effects
<1>1. PICK gone \in slots : /\ slots' = slots \ {gone}
                           /\ kept' = {x \in kept : x.identity # gone.identity}
                           /\ severed' =
                                 {x \in severed : x.identity # gone.identity}
  BY DEF RecordExpires
<1>2. UNCHANGED <<db, active, hits, effects>>
  BY DEF RecordExpires
<1>3. TypeOK' /\ OneRecordPerRun'
  BY <1>1, <1>2 DEF IInv, TypeOK, OneRecordPerRun, Ends
<1>5. PendingIsSevered'
  <2>1. ASSUME NEW s \in slots', ~ s.done
        PROVE  \E q \in Requests : Severed(q) \in severed' /\ s.identity = Identity(q)
    <3>1. PICK q \in Requests : Severed(q) \in severed /\ s.identity = Identity(q)
      BY <1>1, <2>1 DEF IInv, PendingIsSevered
    <3>2. s.identity # gone.identity
      BY <1>1 DEF IInv, TypeOK
    <3>. QED  BY <1>1, <3>1, <3>2 DEF Severed
  <2>. QED  BY <2>1 DEF PendingIsSevered
<1>4. ASSUME NEW x \in kept'
      PROVE  \E q \in Requests : \E s \in slots' :
                /\ s.identity = Identity(q) /\ s.hash = RequestHash(q) /\ s.done
                /\ x = Kept(q, s.response)
  <2>1. x \in kept /\ x.identity # gone.identity
    BY <1>1
  <2>2. PICK q \in Requests, s \in slots :
            /\ s.identity = Identity(q) /\ s.hash = RequestHash(q) /\ s.done
            /\ x = Kept(q, s.response)
    BY <2>1 DEF IInv, KeptIsRecorded
  <2>3. x.identity = s.identity
    BY <2>2 DEF Kept
  <2>. QED  BY <1>1, <2>1, <2>2, <2>3
<1>. QED  BY <1>1, <1>2, <1>3, <1>4, <1>5 DEF IInv, KeptIsRecorded

-----------------------------------------------------------------------------
(***************************************************************************)
(* The results.                                                            *)
(***************************************************************************)

\* Remembered successes, records, reservations and runs always agree.
THEOREM Invariance == Spec => []IInv
<1>1. Init => IInv
  BY LimitAssumption, EffectsAssumption
  DEF Init, IInv, TypeOK, OneRecordPerRun, KeptIsRecorded, PendingIsSevered, Ends
<1>2. IInv /\ [Next]_vars => IInv'
  <2>. SUFFICES ASSUME IInv, [Next]_vars PROVE IInv'
    OBVIOUS
  <2>1. ASSUME NEW q \in Requests, Exchange(q) PROVE IInv'
    BY <2>1, RefusalStep, ReplayStep, RunStep, FailureStep DEF Exchange
  <2>2. CASE UNCHANGED vars
    BY <2>2 DEF vars, IInv, TypeOK, OneRecordPerRun, KeptIsRecorded,
                PendingIsSevered
  <2>. QED
    BY <2>1, <2>2, OutsideStep, ExpiryStep DEF Next
<1>. QED  BY <1>1, <1>2, PTL DEF Spec

\* Counters, records and histories always have their types.
THEOREM TypeCorrect == Spec => []TypeOK
BY Invariance, PTL DEF IInv

\* An exchange refused before its handler reserves nothing and takes no effect; a
\* failed handler's key is free again unless the database is away; and a handler
\* that returned is not told of by a 4xx, whatever failed after it.
THEOREM RefusalsLeaveNoTrace == Spec => FailuresLeaveNoTrace
<1>. DEFINE A == /\ last' = NotStarted => slots' \subseteq slots /\ effects' = effects
                 /\ last'.handler = "failed" /\ db' => slots' = slots
                 /\ last'.handler = "returned" => last'.status \in {201, 500}
<1>0. NotStarted.handler = "not started"
  BY DEF NotStarted
<1>1. ASSUME IInv, Next PROVE A
  <2>1. ASSUME UNCHANGED effects, slots' \subseteq slots, last' = NotStarted PROVE A
    BY <2>1 DEF NotStarted
  <2>2. ASSUME NEW q \in Requests, Exchange(q) PROVE A
    <3>1. CASE \/ Unauthenticated(q) \/ MissingKey(q) \/ ReserveFails(q)
               \/ Refuse(q) \/ Replay(q)
      <4>1. UNCHANGED <<slots, effects>> /\ last' = NotStarted
        BY <1>1, <3>1, RefusalStep, ReplayStep
      <4>. QED  BY <2>1, <4>1
    <3>2. CASE HandlerSucceeds(q)
      <4>1. last'.handler = "returned" /\ last'.status = 201
        BY <1>1, <3>2, RunStep
      <4>2. last' # NotStarted
        BY <4>1, <1>0
      <4>. QED  BY <4>1, <4>2
    <3>3. CASE HandlerFails(q) \/ CompleteFails(q)
      <4>1. \/ last'.handler = "failed" /\ (db' => slots' = slots)
            \/ last'.handler = "returned" /\ last'.status = 500
        BY <1>1, <3>3, FailureStep
      <4>2. last' # NotStarted
        BY <4>1, <1>0
      <4>. QED  BY <4>1, <4>2
    <3>. QED  BY <2>2, <3>1, <3>2, <3>3 DEF Exchange
  <2>3. ASSUME \/ \E at \in DOMAIN hits : RateLimited(at)
               \/ (Environment \/ WindowEnds) /\ last' = NotStarted
        PROVE  A
    <3>1. UNCHANGED <<slots, effects>> /\ last' = NotStarted
      BY <1>1, <2>3, OutsideStep
    <3>. QED  BY <2>1, <3>1
  <2>4. CASE RecordExpires /\ last' = NotStarted
    BY <1>1, <2>1, <2>4, ExpiryStep
  <2>. HIDE DEF A
  <2>. QED  BY <1>1, <2>2, <2>3, <2>4 DEF Next
<1>2. IInv /\ [Next]_vars => [A]_vars
  BY <1>1
<1>3. Spec => [][A]_vars
  <2>. HIDE DEF A
  <2>. QED  BY <1>2, Invariance, PTL DEF Spec
<1>. QED  BY <1>3 DEF FailuresLeaveNoTrace

\* Whoever finds his key in progress, with no request of his at work, has had a
\* handler end under it whose release the database did not take.
THEOREM BlockedByOwnRuns == Spec => []OnlyOwnRunsBlock
<1>1. ASSUME IInv, NEW q \in Requests, NEW s \in Existing(q), ~ s.done
      PROVE  \E x \in severed : x.caller = Caller(q) /\ x.key = q.key
  <2>1. s \in slots /\ s.identity = Identity(q)
    BY DEF Existing
  <2>2. PICK p \in Requests : Severed(p) \in severed /\ s.identity = Identity(p)
    BY <1>1, <2>1 DEF IInv, PendingIsSevered
  <2>3. Caller(p) = Caller(q) /\ p.key = q.key
    BY <2>1, <2>2, IdentityIsCallersKey
  <2>4. Severed(p).caller = Caller(p) /\ Severed(p).key = p.key
    BY DEF Severed
  <2>. QED  BY <2>2, <2>3, <2>4
<1>2. IInv => OnlyOwnRunsBlock
  BY <1>1 DEF OnlyOwnRunsBlock
<1>. QED  BY <1>2, Invariance, PTL

\* While a record lasts all successes of a caller under its key tell of the
\* same run and were of the same data, if the fingerprint tells data apart.
THEOREM AnswersAgree ==
    ASSUME FingerprintsTell
    PROVE  Spec => []OneAnswerPerKey
<1>1. ASSUME IInv, NEW x \in kept, NEW y \in kept,
             x.caller = y.caller, x.key = y.key
      PROVE  x.response = y.response /\ x.data = y.data
  <2>1. PICK p \in Requests, s \in slots :
            /\ s.identity = Identity(p) /\ s.hash = RequestHash(p)
            /\ x = Kept(p, s.response)
    BY <1>1 DEF IInv, KeptIsRecorded
  <2>2. PICK q \in Requests, t \in slots :
            /\ t.identity = Identity(q) /\ t.hash = RequestHash(q)
            /\ y = Kept(q, t.response)
    BY <1>1 DEF IInv, KeptIsRecorded
  <2>3. s = t
    BY <1>1, <2>1, <2>2, IdentityIsCallersKey DEF IInv, TypeOK
  <2>4. Fingerprints[p.body] = Fingerprints[q.body]
    BY <2>1, <2>2, <2>3 DEF RequestHash
  <2>5. Data[p.body] = Data[q.body]
    BY <2>4, RequestFields, FingerprintsTell DEF FingerprintsTell
  <2>. QED  BY <2>1, <2>2, <2>3, <2>5 DEF Kept
<1>2. IInv => OneAnswerPerKey
  BY <1>1 DEF OneAnswerPerKey
<1>. QED  BY <1>2, Invariance, PTL

\* Nobody is told of a run that another caller has asked for.
THEOREM AnswersAreOwn == Spec => []OwnAnswersOnly
<1>1. ASSUME IInv, NEW x \in kept, NEW y \in kept,
             x.response.effect = y.response.effect
      PROVE  x.caller = y.caller /\ x.key = y.key
  <2>1. PICK p \in Requests, s \in slots :
            /\ s.identity = Identity(p) /\ s.done /\ x = Kept(p, s.response)
    BY <1>1 DEF IInv, KeptIsRecorded
  <2>2. PICK q \in Requests, t \in slots :
            /\ t.identity = Identity(q) /\ t.done /\ y = Kept(q, t.response)
    BY <1>1 DEF IInv, KeptIsRecorded
  <2>3. s.response.effect = t.response.effect
    BY <1>1, <2>1, <2>2 DEF Kept
  <2>4. s = t
    BY <1>1, <2>1, <2>2, <2>3 DEF IInv, OneRecordPerRun
  <2>. QED  BY <2>1, <2>2, <2>4, IdentityIsCallersKey
<1>2. IInv => OwnAnswersOnly
  BY <1>1 DEF OwnAnswersOnly
<1>. QED  BY <1>2, Invariance, PTL
=============================================================================
