------------------------ MODULE RefreshTokensProofs ------------------------
(***************************************************************************)
(* Machine-checked facts about RefreshTokens, for every set of users and   *)
(* calls, every lifetime and every number of faults.                       *)
(***************************************************************************)
EXTENDS RefreshTokens, TLAPS

RowType == [user : Users \cup {None}, family : Calls \cup {None},
            revoked : BOOLEAN, left : 0..TTL]

CallType == [op : {"none", "register", "login", "refresh", "logout"},
             user : Users \cup {None}, token : Calls \cup {None},
             targets : SUBSET Calls, earlier : SUBSET Calls]

LEMMA CountdownType == \A n \in 0..TTL : Countdown(n) \in 0..TTL
BY TTLAssumption DEF Countdown

LEMMA TypeFacts ==
    ASSUME TypeOK
    PROVE  /\ row \in [Calls -> RowType] /\ call \in [Calls -> CallType]
           /\ \A t \in Calls : row[t] \in RowType
           /\ \A c \in Calls : call[c] \in CallType
BY DEF TypeOK, RowType, CallType

\* The writes of the token storage yield tables of rows.
LEMMA RevokedType ==
    ASSUME TypeOK, NEW tokens
    PROVE  /\ Revoked(tokens) \in [Calls -> RowType]
           /\ \A t \in Calls :
                 /\ Revoked(tokens)[t].user = row[t].user
                 /\ Revoked(tokens)[t].family = row[t].family
                 /\ Revoked(tokens)[t].revoked <=> (row[t].revoked \/ t \in tokens)
<1>1. ASSUME NEW t \in Calls
      PROVE  /\ Revoked(tokens)[t] \in RowType
             /\ Revoked(tokens)[t].user = row[t].user
             /\ Revoked(tokens)[t].family = row[t].family
             /\ Revoked(tokens)[t].revoked <=> (row[t].revoked \/ t \in tokens)
  <2>1. row[t] \in RowType
    BY TypeFacts
  <2>2. CASE t \in tokens
    <3>1. Revoked(tokens)[t] = [row[t] EXCEPT !.revoked = TRUE]
      BY <2>2 DEF Revoked
    <3>. QED  BY <2>1, <2>2, <3>1 DEF RowType
  <2>3. CASE t \notin tokens
    <3>1. Revoked(tokens)[t] = row[t]
      BY <2>3 DEF Revoked
    <3>. QED  BY <2>1, <2>3, <3>1 DEF RowType
  <2>. QED  BY <2>2, <2>3
<1>. QED  BY <1>1 DEF Revoked

LEMMA NewRowType ==
    ASSUME NEW u \in Users \cup {None}, NEW f \in Calls \cup {None}
    PROVE  NewRow(u, f) \in RowType
BY TTLAssumption DEF NewRow, RowType

LEMMA CreatedType ==
    ASSUME TypeOK, NEW c \in Calls
    PROVE  /\ Created(c) \in [Calls -> RowType]
           /\ Created(c)[c] = NewRow(call[c].user, c)
           /\ \A t \in Calls \ {c} : Created(c)[t] = row[t]
<1>1. NewRow(call[c].user, c) \in RowType
  BY NewRowType DEF TypeOK
<1>. QED  BY <1>1, TypeFacts DEF Created

LEMMA RotatedType ==
    ASSUME TypeOK, NEW c \in Calls, NEW old \in Calls \ {c}, old = call[c].token
    PROVE  /\ Rotated(c) \in [Calls -> RowType]
           /\ Rotated(c)[c] = NewRow(row[old].user, row[old].family)
           /\ \A t \in Calls \ {c} :
                 /\ Rotated(c)[t].user = row[t].user
                 /\ Rotated(c)[t].family = row[t].family
                 /\ Rotated(c)[t].revoked <=> (row[t].revoked \/ t = old)
<1>. DEFINE tokens == {old}
<1>1. Rotated(c) = [Revoked(tokens) EXCEPT ![c] = NewRow(row[old].user, row[old].family)]
  BY DEF Rotated
<1>2. NewRow(row[old].user, row[old].family) \in RowType
  BY NewRowType DEF TypeOK
<1>3. \A t : t \in tokens <=> t = old
  OBVIOUS
<1>. HIDE DEF tokens
<1>4. /\ Revoked(tokens) \in [Calls -> RowType]
      /\ \A t \in Calls :
            /\ Revoked(tokens)[t].user = row[t].user
            /\ Revoked(tokens)[t].family = row[t].family
            /\ Revoked(tokens)[t].revoked <=> (row[t].revoked \/ t \in tokens)
  BY RevokedType
<1>. QED  BY <1>1, <1>2, <1>3, <1>4

-----------------------------------------------------------------------------
(***************************************************************************)
(* The step of a call, seen from the rows and from the other calls.        *)
(***************************************************************************)
CallStep(c) == Arrive(c) \/ Serve(c) \/ Break(c)

\* What the invariant says of one call.
PerCall(c) ==
    /\ Issued(c) => stage[c] \in {"sign", "answered"} /\ c \in seenActive
    /\ stage[c] = "sign" => Issued(c)
    /\ stage[c] = "idle" => call[c] = NoCall
    /\ stage[c] \in {"createUser", "lookup", "issue", "sign"} =>
          call[c].op \in {"register", "login"} /\ call[c].user \in Users
    /\ stage[c] \in {"findValid", "findRevoked", "revokeAll", "revoking",
                      "findUser", "signNext", "rotate", "mint"} =>
          call[c].op = "refresh"
    /\ stage[c] \in {"authenticate", "revoke"} => call[c].op = "logout"
    /\ call[c].op \in {"refresh", "logout"} =>
          call[c].token \in Calls /\ Issued(call[c].token)
    /\ stage[c] \in {"revokeAll", "revoking"} =>
          call[c].user = row[call[c].token].user
          /\ row[call[c].token].revoked
    /\ stage[c] \in {"findUser", "signNext", "rotate", "mint"} =>
          call[c].user = row[call[c].token].user
    /\ call[c].targets \subseteq TokensOf(call[c].user)
    /\ stage[c] \notin {"revoking", "answered"} => call[c].targets = {}
    /\ call[c].earlier \subseteq Over
    /\ answer[c] # "none" => stage[c] = "answered"
    /\ answer[c] = "reuse" => call[c].op = "refresh"
    /\ stage[c] = "revoking" =>
          \A t \in call[c].earlier \cap TokensOf(call[c].user) :
              row[t].revoked \/ t \in call[c].targets
    /\ stage[c] \in {"issue", "sign", "signNext", "rotate", "mint"} =>
          c \in seenActive
    /\ call[c].op = "logout" /\ answer[c] = "ok"
       /\ row[call[c].token].user = call[c].user => row[call[c].token].revoked
    /\ answer[c] = "reuse" =>
          \A t \in call[c].earlier \cap TokensOf(call[c].user) : row[t].revoked
    /\ answer[c] = "sign_error" /\ call[c].op = "refresh" => ~ Issued(c)

LEMMA Regroup ==
    IInv <=> /\ TypeOK
             /\ delivered \subseteq {t \in Calls : Issued(t)}
             /\ RowsAreWhole /\ LocksHeld /\ OneTokenPerSession
             /\ \A c \in Calls : PerCall(c)
BY Zenon DEF IInv, PerCall, MintedLate, CallShape, TargetsComplete, ActiveSeen,
   LogoutRevokes, ReuseRevokesEarlierTokens, SigningFailureMintsNothing,
   IssuedWhileActive

LEMMA RegroupNext ==
    /\ TypeOK'
    /\ delivered' \subseteq {t \in Calls : Issued(t)'}
    /\ RowsAreWhole' /\ LocksHeld' /\ OneTokenPerSession'
    /\ \A c \in Calls : PerCall(c)'
    => IInv'
BY Zenon DEF IInv, PerCall, MintedLate, CallShape, TargetsComplete, ActiveSeen,
   LogoutRevokes, ReuseRevokesEarlierTokens, SigningFailureMintsNothing,
   IssuedWhileActive, Issued

\* Of the other calls, nothing changes.
LEMMA OthersUntouched ==
    ASSUME TypeOK, NEW c \in Calls, CallStep(c), NEW q \in Calls \ {c}
    PROVE  stage'[q] = stage[q] /\ call'[q] = call[q] /\ answer'[q] = answer[q]
<1>. USE DEF TypeOK, Goto, End
<1>1. CASE Arrive(c)
  BY <1>1 DEF Arrive, Register, Login, Refresh, Logout, Begin
<1>2. CASE Serve(c)
  BY <1>2
  DEF Serve, CreateUser, Lookup, IssueToken, SignAndDeliver, FindValid,
      FindRevoked, RevokeAllSelects, RevokeAllApplies, FindUser, SignNext,
      RotateRevokes, RotateCommits, Authenticate, Revoke
<1>3. CASE Break(c)
  BY <1>3 DEF Break, CallFails, SigningFails
<1>. QED  BY <1>1, <1>2, <1>3 DEF CallStep

\* A call inserts its own row, replaces a token it has locked, or revokes
\* rows nobody has locked.
Inserts(c) ==
    stage[c] = "issue" /\ stage'[c] \in {"sign", "answered"} /\ row' = Created(c)

Replaces(c) ==
    stage[c] = "mint" /\ stage'[c] = "answered" /\ row' = Rotated(c)

RevokesUnlocked(c) ==
    /\ stage[c] \in {"revoke", "revoking"} /\ stage'[c] = "answered"
    /\ call' = call
    /\ \E tokens \in SUBSET Calls :
          /\ row' = Revoked(tokens)
          /\ \A t \in tokens :
                /\ Issued(t) /\ Unlocked(t) /\ row[t].user = call[c].user
                /\ IF stage[c] = "revoke" THEN t = call[c].token
                                         ELSE t \in call[c].targets

LEMMA RowCases ==
    ASSUME TypeOK, NEW c \in Calls, PerCall(c), CallStep(c)
    PROVE  row' = row \/ Inserts(c) \/ Replaces(c) \/ RevokesUnlocked(c)
<1>. USE DEF Goto, End
<1>0. /\ stage \in [Calls -> Stages]
      /\ call[c].targets \subseteq TokensOf(call[c].user)
      /\ stage[c] = "revoke" => RevokeTargets(c) \subseteq TokensOf(call[c].user)
      /\ RevokeTargets(c) \subseteq {call[c].token}
  BY DEF TypeOK, PerCall, TokensOf, RevokeTargets
<1>1. CASE Arrive(c)
  BY <1>1 DEF Arrive, Register, Login, Refresh, Logout, Begin
<1>2. CASE Serve(c)
  <2>1. CASE IssueToken(c)
    BY <1>0, <2>1 DEF IssueToken, Inserts
  <2>2. CASE RotateCommits(c)
    BY <1>0, <2>2 DEF RotateCommits, Replaces
  <2>3. CASE RevokeAllApplies(c)
    BY <1>0, <2>3 DEF RevokeAllApplies, RevokesUnlocked, TokensOf
  <2>4. CASE Revoke(c)
    BY <1>0, <2>4 DEF Revoke, RevokesUnlocked, TokensOf
  <2>5. CASE CreateUser(c) \/ Lookup(c) \/ SignAndDeliver(c) \/ FindValid(c)
    BY <2>5 DEF CreateUser, Lookup, SignAndDeliver, FindValid
  <2>6. CASE FindRevoked(c) \/ RevokeAllSelects(c) \/ FindUser(c)
    BY <2>6 DEF FindRevoked, RevokeAllSelects, FindUser
  <2>7. CASE SignNext(c) \/ RotateRevokes(c) \/ Authenticate(c)
    BY <2>7 DEF SignNext, RotateRevokes, Authenticate
  <2>. QED  BY <1>2, <2>1, <2>2, <2>3, <2>4, <2>5, <2>6, <2>7 DEF Serve
<1>3. CASE Break(c)
  <2>1. CASE SigningFails(c)
    BY <2>1 DEF SigningFails
  <2>2. CASE CallFails(c)
    <3>1. stage'[c] = "answered" /\ call' = call
      BY <1>0, <2>2 DEF CallFails
    <3>2. \/ row' = row
          \/ stage[c] = "issue" /\ row' = Created(c)
          \/ stage[c] = "mint" /\ row' = Rotated(c)
          \/ /\ stage[c] = "revoking" /\ row' = Revoked(call[c].targets)
             /\ \A t \in call[c].targets : Unlocked(t)
          \/ /\ stage[c] = "revoke" /\ row' = Revoked(RevokeTargets(c))
             /\ \A t \in RevokeTargets(c) : Unlocked(t)
      BY <2>2 DEF CallFails
    <3>. QED
      BY <1>0, <3>1, <3>2 DEF Inserts, Replaces, RevokesUnlocked, TokensOf
  <2>. QED  BY <1>3, <2>1, <2>2 DEF Break
<1>. QED  BY <1>1, <1>2, <1>3 DEF CallStep

\* Rows only come into being with their call and only become revoked.
Grows(c) ==
    \A t \in Calls :
        /\ Issued(t) => /\ Issued(t)' /\ row'[t].user = row[t].user
                        /\ row'[t].family = row[t].family
                        /\ row[t].revoked => row'[t].revoked
        /\ ~ Issued(t) /\ Issued(t)' =>
              /\ t = c /\ stage[c] \in {"issue", "mint"}
              /\ stage'[c] \in {"sign", "answered"}

LEMMA Growth ==
    ASSUME IInv, NEW c \in Calls, CallStep(c)
    PROVE  Grows(c)
<1>0. TypeOK /\ PerCall(c) /\ \A t \in Calls : row[t] \in RowType
  BY Regroup, TypeFacts
<1>1. CASE row' = row
  BY <1>1 DEF Grows, Issued
<1>2. CASE Inserts(c)
  BY <1>0, <1>2, CreatedType DEF Inserts, Grows, Issued, PerCall
<1>3. CASE Replaces(c)
  <2>1. call[c].token \in Calls \ {c} /\ ~ Issued(c)
    BY <1>0, <1>3 DEF Replaces, PerCall
  <2>2. \A t \in Calls \ {c} : /\ row'[t].user = row[t].user
                               /\ row'[t].family = row[t].family
                               /\ row[t].revoked => row'[t].revoked
    BY <1>0, <1>3, <2>1, RotatedType DEF Replaces
  <2>. QED  BY <1>3, <2>1, <2>2 DEF Replaces, Grows, Issued
<1>4. CASE RevokesUnlocked(c)
  BY <1>0, <1>4, RevokedType DEF RevokesUnlocked, Grows, Issued
<1>. QED  BY <1>0, <1>1, <1>2, <1>3, <1>4, RowCases

\* A row is locked when its rotation gets under way, unlocked when it ends.
Locks(c) ==
    /\ stage[c] = "rotate" /\ stage'[c] = "mint" /\ row' = row
    /\ Valid(call[c].token) /\ Unlocked(call[c].token)
    /\ lock' = [lock EXCEPT ![call[c].token] = c]

Unlocks(c) ==
    /\ stage[c] = "mint" /\ stage'[c] = "answered"
    /\ lock' = [t \in Calls |-> IF lock[t] = c THEN None ELSE lock[t]]

LEMMA LockCases ==
    ASSUME IInv, NEW c \in Calls, CallStep(c)
    PROVE  \/ lock' = lock /\ stage[c] # "mint" /\ stage'[c] # "mint"
           \/ Locks(c) /\ call' = call
           \/ Unlocks(c) /\ call' = call
<1>. USE DEF Goto, End
<1>0. /\ stage \in [Calls -> Stages] /\ lock \in [Calls -> Calls \cup {None}]
      /\ \A t \in Calls : lock[t] = c => stage[c] = "mint" /\ call[c].token = t
      /\ stage[c] = "mint" => lock[call[c].token] = c
  BY NoneAssumption DEF IInv, TypeOK, LocksHeld
<1>1. CASE Arrive(c)
  BY <1>0, <1>1 DEF Arrive, Register, Login, Refresh, Logout, Begin
<1>2. CASE Serve(c)
  <2>1. CASE RotateCommits(c)
    BY <1>0, <2>1 DEF RotateCommits, Unlocks
  <2>2. CASE RotateRevokes(c)
    BY <1>0, <2>2 DEF RotateRevokes, Locks
  <2>3. CASE CreateUser(c) \/ Lookup(c) \/ SignAndDeliver(c) \/ FindValid(c)
    BY <1>0, <2>3 DEF CreateUser, Lookup, SignAndDeliver, FindValid
  <2>4. CASE FindRevoked(c) \/ RevokeAllSelects(c) \/ FindUser(c) \/ Revoke(c)
    BY <1>0, <2>4 DEF FindRevoked, RevokeAllSelects, FindUser, Revoke
  <2>5. CASE SignNext(c) \/ Authenticate(c) \/ IssueToken(c) \/ RevokeAllApplies(c)
    BY <1>0, <2>5 DEF SignNext, Authenticate, IssueToken, RevokeAllApplies
  <2>. QED  BY <1>2, <2>1, <2>2, <2>3, <2>4, <2>5 DEF Serve
<1>3. CASE Break(c)
  <2>1. CASE SigningFails(c)
    BY <1>0, <2>1 DEF SigningFails
  <2>2. CASE CallFails(c)
    <3>1. stage'[c] = "answered" /\ call' = call
          /\ lock' = [t \in Calls |-> IF lock[t] = c THEN None ELSE lock[t]]
      BY <1>0, <2>2 DEF CallFails
    <3>2. stage[c] # "mint" => lock' = lock
      BY <1>0, <3>1
    <3>. QED  BY <3>1, <3>2 DEF Unlocks
  <2>. QED  BY <1>3, <2>1, <2>2 DEF Break
<1>. QED  BY <1>1, <1>2, <1>3 DEF CallStep

\* No step revokes a row that stays locked: revocations wait, and a rotation
\* that revokes its row gives up the lock.
LEMMA LockedStaysUnrevoked ==
    ASSUME IInv, NEW c \in Calls, CallStep(c), NEW t \in Calls,
           ~ row[t].revoked, row'[t].revoked
    PROVE  lock[t] = None \/ (lock[t] = c /\ stage'[c] = "answered")
<1>0. TypeOK /\ PerCall(c) /\ LocksHeld
  BY Regroup
<1>1. CASE Inserts(c)
  <2>1. CASE t = c
    <3>1. row'[t] = NewRow(call[c].user, c)
      BY <1>0, <1>1, <2>1, CreatedType DEF Inserts
    <3>. QED  BY <3>1 DEF NewRow
  <2>2. CASE t # c
    <3>1. row'[t] = row[t]
      BY <1>0, <1>1, <2>2, CreatedType DEF Inserts
    <3>. QED  BY <3>1
  <2>. QED  BY <2>1, <2>2
<1>2. CASE Replaces(c)
  <2>1. call[c].token \in Calls \ {c} /\ lock[call[c].token] = c
    BY <1>0, <1>2 DEF Replaces, PerCall, LocksHeld
  <2>2. CASE t = c
    <3>1. row'[t] = NewRow(row[call[c].token].user, row[call[c].token].family)
      BY <1>0, <1>2, <2>1, <2>2, RotatedType DEF Replaces
    <3>. QED  BY <3>1 DEF NewRow
  <2>3. CASE t # c
    <3>1. row'[t].revoked => t = call[c].token
      BY <1>0, <1>2, <2>1, <2>3, RotatedType DEF Replaces
    <3>. QED  BY <1>2, <2>1, <3>1 DEF Replaces
  <2>. QED  BY <2>2, <2>3
<1>3. CASE RevokesUnlocked(c)
  BY <1>0, <1>3, RevokedType DEF RevokesUnlocked, Unlocked
<1>4. CASE row' = row
  BY <1>4
<1>. QED  BY <1>0, <1>1, <1>2, <1>3, <1>4, RowCases

LEMMA LocksStep ==
    ASSUME IInv, NEW c \in Calls, CallStep(c)
    PROVE  LocksHeld'
<1>0. TypeOK /\ LocksHeld /\ PerCall(c)
  BY Regroup
<1>1. lock \in [Calls -> Calls \cup {None}] /\ stage \in [Calls -> Stages]
  BY <1>0 DEF TypeOK
<1>2. \A q \in Calls \ {c} : stage'[q] = stage[q] /\ call'[q] = call[q]
  BY <1>0, OthersUntouched
<1>3. CASE lock' = lock /\ stage[c] # "mint" /\ stage'[c] # "mint"
  <2>1. ASSUME NEW t \in Calls, lock[t] # None
        PROVE  lock[t] # c /\ ~ row'[t].revoked
    BY <1>0, <1>3, <2>1, LockedStaysUnrevoked DEF LocksHeld
  <2>. QED  BY <1>0, <1>1, <1>2, <1>3, <2>1 DEF LocksHeld
<1>4. CASE Locks(c) /\ call' = call
  <2>. DEFINE old == call[c].token
  <2>1. old \in Calls /\ ~ row[old].revoked /\ lock[old] = None
    BY <1>0, <1>4 DEF Locks, PerCall, Valid, Unlocked
  <2>2. \A t \in Calls : lock'[t] = IF t = old THEN c ELSE lock[t]
    BY <1>1, <1>4, <2>1 DEF Locks
  <2>. QED
    BY <1>0, <1>1, <1>2, <1>4, <2>1, <2>2, NoneAssumption DEF LocksHeld, Locks
<1>5. CASE Unlocks(c) /\ call' = call
  <2>1. \A t \in Calls : lock'[t] = IF lock[t] = c THEN None ELSE lock[t]
    BY <1>5 DEF Unlocks
  <2>2. ASSUME NEW t \in Calls, lock'[t] # None
        PROVE  lock'[t] = lock[t] /\ lock[t] # c /\ lock[t] # None /\ ~ row'[t].revoked
    BY <1>0, <2>1, <2>2, LockedStaysUnrevoked DEF LocksHeld
  <2>3. ASSUME NEW q \in Calls, stage'[q] = "mint"
        PROVE  lock'[call'[q].token] = q
    <3>1. q # c
      BY <1>5, <2>3 DEF Unlocks
    <3>2. PerCall(q)
      BY Regroup
    <3>. QED
      BY <1>0, <1>2, <1>5, <2>1, <2>3, <3>1, <3>2 DEF LocksHeld, PerCall
  <2>. QED  BY <1>0, <1>1, <1>2, <1>5, <2>2, <2>3 DEF LocksHeld
<1>. QED  BY <1>3, <1>4, <1>5, LockCases

LEMMA WholeStep ==
    ASSUME IInv, NEW c \in Calls, CallStep(c)
    PROVE  RowsAreWhole'
<1>0. /\ TypeOK /\ PerCall(c) /\ LocksHeld /\ RowsAreWhole /\ Grows(c)
      /\ \A t \in Calls : row[t] \in RowType
  BY Regroup, Growth, TypeFacts
<1>. SUFFICES ASSUME NEW t \in Calls
              PROVE  \/ row'[t] = NoRow
                     \/ Issued(t)' /\ \E f \in Calls :
                           /\ row'[t].family = f /\ Issued(f)'
                           /\ row'[f].user = row'[t].user /\ row'[f].family = f
  BY DEF RowsAreWhole, Issued
<1>1. CASE Issued(t)
  <2>1. PICK f \in Calls :
            /\ row[t].family = f /\ Issued(f)
            /\ row[f].user = row[t].user /\ row[f].family = f
    BY <1>0, <1>1 DEF RowsAreWhole, NoRow, Issued
  <2>. QED  BY <1>0, <1>1, <2>1 DEF Grows
<1>2. CASE ~ Issued(t)
  <2>1. row[t] = NoRow
    BY <1>0, <1>2 DEF RowsAreWhole
  <2>2. CASE row' = row
    BY <2>1, <2>2
  <2>3. CASE Inserts(c)
    <3>1. CASE t = c
      <4>1. row'[t] = NewRow(call[c].user, c) /\ call[c].user \in Users
        BY <1>0, <2>3, <3>1, CreatedType DEF Inserts, PerCall
      <4>2. row'[t].user # None /\ row'[t].family = t
        BY <3>1, <4>1, NoneAssumption DEF NewRow
      <4>. QED  BY <4>2 DEF Issued
    <3>2. CASE t # c
      <4>1. row'[t] = row[t]
        BY <1>0, <2>3, <3>2, CreatedType DEF Inserts
      <4>. QED  BY <2>1, <4>1
    <3>. QED  BY <3>1, <3>2
  <2>4. CASE Replaces(c)
    <3>1. PICK old \in Calls \ {c} :
              old = call[c].token /\ Issued(old) /\ ~ Issued(c)
      BY <1>0, <2>4 DEF Replaces, PerCall
    <3>2. PICK f \in Calls :
              /\ row[old].family = f /\ Issued(f)
              /\ row[f].user = row[old].user /\ row[f].family = f
      BY <1>0, <3>1 DEF RowsAreWhole, NoRow, Issued
    <3>3. CASE t = c
      <4>1. row'[t] = NewRow(row[old].user, f)
        BY <1>0, <2>4, <3>1, <3>2, <3>3, RotatedType DEF Replaces
      <4>2. Issued(f)' /\ row'[f].user = row[old].user /\ row'[f].family = f
        BY <1>0, <3>2 DEF Grows
      <4>. QED  BY <3>1, <3>2, <4>1, <4>2 DEF NewRow, Issued
    <3>4. CASE t # c
      <4>1. t # old
        BY <1>2, <3>1
      <4>. QED
        BY <2>1, <2>4, <3>1, <3>4, <4>1 DEF Replaces, Rotated, Revoked
    <3>. QED  BY <3>3, <3>4
  <2>5. CASE RevokesUnlocked(c)
    <3>1. PICK tokens \in SUBSET Calls :
              row' = Revoked(tokens) /\ \A s \in tokens : Issued(s)
      BY <2>5 DEF RevokesUnlocked
    <3>2. row'[t] = row[t]
      BY <1>2, <3>1 DEF Revoked
    <3>. QED  BY <2>1, <3>2
  <2>. QED  BY <1>0, <2>2, <2>3, <2>4, <2>5, RowCases
<1>. QED  BY <1>1, <1>2

LEMMA SessionStep ==
    ASSUME IInv, NEW c \in Calls, CallStep(c)
    PROVE  OneTokenPerSession'
<1>0. /\ TypeOK /\ PerCall(c) /\ LocksHeld /\ RowsAreWhole /\ Grows(c)
      /\ OneTokenPerSession
  BY Regroup, Growth
\* A token that is unrevoked and not new was unrevoked before.
<1>1. ASSUME NEW t \in Calls, Unrevoked(t)', Issued(t)
      PROVE  Unrevoked(t) /\ row'[t].family = row[t].family
  BY <1>0, <1>1 DEF Grows, Unrevoked
<1>2. ASSUME NEW t \in Calls, Unrevoked(t)', ~ Issued(t)
      PROVE  t = c /\ (Inserts(c) \/ Replaces(c))
  <2>1. t = c /\ stage[c] \in {"issue", "mint"} /\ row' # row
    BY <1>0, <1>2 DEF Grows, Unrevoked, Issued
  <2>. QED  BY <1>0, <2>1, RowCases DEF RevokesUnlocked
<1>3. ASSUME NEW t \in Calls \ {c}, Issued(t), Unrevoked(t)', Unrevoked(c)', ~ Issued(c)
      PROVE  row'[t].family # row'[c].family
  <2>0. Unrevoked(t) /\ row'[t].family = row[t].family
    BY <1>1, <1>3
  <2>1. CASE Inserts(c)
    <3>1. row'[c].family = c
      <4>1. row'[c] = NewRow(call[c].user, c)
        BY <1>0, <2>1, CreatedType DEF Inserts
      <4>. QED  BY <4>1 DEF NewRow
    <3>2. row[t].family # c
      BY <1>0, <1>3 DEF RowsAreWhole, NoRow, Issued
    <3>. QED  BY <2>0, <3>1, <3>2
  <2>2. CASE Replaces(c)
    <3>. DEFINE old == call[c].token
    <3>1. old \in Calls \ {c} /\ Issued(old) /\ ~ row[old].revoked
      BY <1>0, <2>2, NoneAssumption DEF Replaces, PerCall, LocksHeld
    <3>2. row'[c].family = row[old].family
      <4>1. row'[c] = NewRow(row[old].user, row[old].family)
        BY <1>0, <2>2, <3>1, RotatedType DEF Replaces
      <4>. QED  BY <4>1 DEF NewRow
    <3>3. row'[old].revoked
      BY <1>0, <2>2, <3>1, RotatedType DEF Replaces
    <3>4. t # old
      BY <1>3, <3>3 DEF Unrevoked
    <3>5. row[t].family # row[old].family
      BY <1>0, <2>0, <3>1, <3>4 DEF OneTokenPerSession, Unrevoked
    <3>. QED  BY <2>0, <3>2, <3>5
  <2>. QED  BY <1>2, <1>3, <2>1, <2>2
<1>4. ASSUME NEW s \in Calls, NEW t \in Calls, Unrevoked(s)', Unrevoked(t)',
             row'[s].family = row'[t].family
      PROVE  s = t
  <2>1. CASE Issued(s) /\ Issued(t)
    BY <1>0, <1>1, <1>4, <2>1 DEF OneTokenPerSession
  <2>2. CASE ~ Issued(s) \/ ~ Issued(t)
    BY <1>2, <1>3, <1>4, <2>2
  <2>. QED  BY <2>1, <2>2
<1>. QED  BY <1>4 DEF OneTokenPerSession

\* The histories only grow, and delivered tokens are issued.
LEMMA HistoryStep ==
    ASSUME IInv, NEW c \in Calls, CallStep(c)
    PROVE  /\ seenActive \subseteq seenActive'
           /\ Over \subseteq Over'
           /\ delivered' \subseteq {t \in Calls : Issued(t)'}
<1>0. /\ TypeOK /\ PerCall(c) /\ Grows(c)
      /\ delivered \subseteq {t \in Calls : Issued(t)}
  BY Regroup, Growth
<1>1. seenActive \subseteq seenActive' /\ stage[c] # "answered"
      /\ (delivered' = delivered \/ (SignAndDeliver(c) \/ RotateCommits(c)))
  <2>1. CASE Arrive(c)
    BY <2>1 DEF Arrive, Register, Login, Refresh, Logout, Begin
  <2>2. CASE Serve(c)
    BY <2>2
    DEF Serve, CreateUser, Lookup, IssueToken, SignAndDeliver, FindValid,
        FindRevoked, RevokeAllSelects, RevokeAllApplies, FindUser, SignNext,
        RotateRevokes, RotateCommits, Authenticate, Revoke
  <2>3. CASE Break(c)
    BY <2>3 DEF Break, CallFails, SigningFails, InFlight
  <2>. QED  BY <2>1, <2>2, <2>3 DEF CallStep
<1>2. Over \subseteq Over'
  BY <1>0, <1>1, OthersUntouched DEF Over
<1>3. \A t \in delivered : Issued(t)'
  BY <1>0 DEF Grows
<1>4. ASSUME SignAndDeliver(c) \/ RotateCommits(c)
      PROVE  delivered' = delivered \cup {c} /\ Issued(c)'
  <2>1. CASE SignAndDeliver(c)
    <3>1. Issued(c)
      BY <1>0, <2>1 DEF SignAndDeliver, PerCall
    <3>. QED  BY <1>0, <2>1, <3>1 DEF SignAndDeliver, Grows
  <2>2. CASE RotateCommits(c)
    <3>1. PICK old \in Calls \ {c} : old = call[c].token /\ Issued(old)
      BY <1>0, <2>2 DEF RotateCommits, PerCall
    <3>2. row'[c] = NewRow(row[old].user, row[old].family)
      BY <1>0, <2>2, <3>1, RotatedType DEF RotateCommits
    <3>. QED  BY <2>2, <3>1, <3>2 DEF RotateCommits, NewRow, Issued
  <2>. QED  BY <1>4, <2>1, <2>2
<1>. QED  BY <1>0, <1>1, <1>2, <1>3, <1>4

LEMMA OtherStep ==
    ASSUME IInv, NEW c \in Calls, CallStep(c), NEW q \in Calls \ {c}
    PROVE  PerCall(q)'
<1>0. /\ TypeOK /\ PerCall(q) /\ Grows(c)
      /\ stage'[q] = stage[q] /\ call'[q] = call[q] /\ answer'[q] = answer[q]
      /\ seenActive \subseteq seenActive' /\ Over \subseteq Over'
  BY Regroup, Growth, OthersUntouched, HistoryStep
<1>1. Issued(q)' <=> Issued(q)
  BY <1>0 DEF Grows
<1>2. TokensOf(call[q].user) \subseteq {t \in Calls : Issued(t)' /\ row'[t].user = call[q].user}
  BY <1>0 DEF Grows, TokensOf
<1>3. ASSUME NEW t \in call[q].earlier, Issued(t)', row'[t].user = call[q].user
      PROVE  /\ t \in call[q].earlier \cap TokensOf(call[q].user)
             /\ row[t].revoked => row'[t].revoked
  <2>1. t \in Calls /\ stage[t] = "answered"
    BY <1>0, <1>3 DEF PerCall, Over
  <2>2. Issued(t)
    BY <1>0, <1>3, <2>1 DEF Grows
  <2>. QED  BY <1>0, <1>3, <2>1, <2>2 DEF Grows, TokensOf
<1>4. call[q].op \in {"refresh", "logout"} =>
        /\ call[q].token \in Calls
        /\ row'[call[q].token].user = row[call[q].token].user
        /\ row'[call[q].token].user # None
        /\ row[call[q].token].revoked => row'[call[q].token].revoked
  BY <1>0 DEF Grows, PerCall, Issued
<1>5. stage[q] = "revoking" =>
        \A t \in call[q].earlier :
           Issued(t)' /\ row'[t].user = call[q].user =>
              row'[t].revoked \/ t \in call[q].targets
  BY <1>0, <1>3 DEF PerCall
<1>6. answer[q] = "reuse" =>
        \A t \in call[q].earlier :
           Issued(t)' /\ row'[t].user = call[q].user => row'[t].revoked
  BY <1>0, <1>3 DEF PerCall
<1>. QED
  BY <1>0, <1>1, <1>2, <1>4, <1>5, <1>6 DEF PerCall, TokensOf, Issued

\* What a step leaves true of what its call has read and been asked.
LEMMA OwnFacts ==
    ASSUME IInv, NEW c \in Calls, CallStep(c)
    PROVE  /\ stage \in [Calls -> Stages] /\ call \in [Calls -> CallType]
           /\ answer \in [Calls -> Answers]
           /\ PerCall(c)
           /\ call[c].op \in {"refresh", "logout"} =>
                 /\ call[c].token \in Calls
                 /\ row'[call[c].token].user = row[call[c].token].user
                 /\ row'[call[c].token].user # None
           /\ call[c].targets \subseteq
                 {t \in Calls : Issued(t)' /\ row'[t].user = call[c].user}
           /\ call[c].earlier \subseteq Over'
           /\ stage[c] # "answered" => answer[c] = "none"
           /\ Issued(c)' => Issued(c) \/ stage[c] \in {"issue", "mint"}
           /\ Issued(c) => Issued(c)'
           /\ seenActive \subseteq seenActive'
<1>0. TypeOK /\ PerCall(c) /\ Grows(c) /\ Over \subseteq Over'
      /\ seenActive \subseteq seenActive'
  BY Regroup, Growth, HistoryStep
<1>1. call \in [Calls -> CallType]
  BY <1>0, TypeFacts
<1>. QED  BY <1>0, <1>1 DEF TypeOK, Grows, PerCall, TokensOf, Issued

LEMMA OwnArrive ==
    ASSUME IInv, NEW c \in Calls, Arrive(c)
    PROVE  PerCall(c)'
<1>0. PICK op \in {"register", "login", "refresh", "logout"},
           u \in Users \cup {None}, t \in Calls \cup {None},
           s \in {"createUser", "lookup", "findValid", "authenticate"} :
          /\ Begin(c, op, u, t, s)
          /\ s \in {"createUser", "lookup"} => op \in {"register", "login"} /\ u \in Users
          /\ s = "findValid" => op = "refresh"
          /\ s = "authenticate" => op = "logout"
          /\ op \in {"refresh", "logout"} => t \in delivered
  BY DEF Arrive, Register, Login, Refresh, Logout, IInv, TypeOK
<1>1. /\ PerCall(c) /\ CallStep(c)
      /\ stage[c] = "idle" /\ stage'[c] = s /\ answer'[c] = "none" /\ row' = row
      /\ stage \in [Calls -> Stages]
  BY <1>0, Regroup DEF CallStep, Begin, Goto, PerCall, TypeOK
<1>2. call'[c] = [NoCall EXCEPT !.op = op, !.user = u, !.token = t, !.earlier = Over]
  BY <1>0, Regroup DEF Begin, TypeOK
<1>3. /\ call'[c].op = op /\ call'[c].user = u /\ call'[c].token = t
      /\ call'[c].targets = {} /\ call'[c].earlier = Over
  BY <1>2 DEF NoCall
<1>4. ~ Issued(c)'
  BY <1>1 DEF PerCall, Issued
<1>5. Over \subseteq Over'
  BY <1>1, HistoryStep
<1>6. op \in {"refresh", "logout"} => t \in Calls /\ Issued(t)'
  BY <1>0, <1>1, Regroup DEF Issued
<1>. QED
  BY <1>0, <1>1, <1>3, <1>4, <1>5, <1>6 DEF PerCall, Issued

\* The steps of register(), login() and issueTokenPair().
LEMMA OwnIssuing ==
    ASSUME IInv, NEW c \in Calls,
           CreateUser(c) \/ Lookup(c) \/ IssueToken(c) \/ SignAndDeliver(c)
    PROVE  PerCall(c)'
<1>. USE DEF Goto, End
<1>0. CallStep(c)
  BY DEF CallStep, Serve
<1>1. CASE CreateUser(c) \/ Lookup(c)
  <2>1. /\ stage[c] \in {"createUser", "lookup"} /\ row' = row /\ call' = call
        /\ \/ stage'[c] = "issue" /\ answer' = answer /\ c \in seenActive'
           \/ stage'[c] = "answered" /\ answer'[c] = "refused"
    BY <1>0, <1>1, OwnFacts DEF CreateUser, Lookup
  <2>. QED  BY <1>0, <2>1, OwnFacts DEF PerCall, TokensOf, Issued
<1>2. CASE IssueToken(c)
  <2>1. stage[c] = "issue" /\ stage'[c] = "sign" /\ call' = call /\ answer' = answer
    BY <1>0, <1>2, OwnFacts DEF IssueToken
  <2>2. call[c].user \in Users /\ c \in seenActive
    BY <1>0, <2>1, OwnFacts DEF PerCall
  <2>3. row'[c] = NewRow(call[c].user, c)
    BY <1>2, CreatedType, Regroup DEF IssueToken
  <2>4. Issued(c)'
    BY <2>2, <2>3, NoneAssumption DEF NewRow, Issued
  <2>. QED  BY <1>0, <2>1, <2>2, <2>4, OwnFacts DEF PerCall, TokensOf, Issued
<1>3. CASE SignAndDeliver(c)
  <2>1. /\ stage[c] = "sign" /\ stage'[c] = "answered"
        /\ call' = call /\ answer'[c] = "ok" /\ row' = row
    BY <1>0, <1>3, OwnFacts DEF SignAndDeliver
  <2>. QED  BY <1>0, <2>1, OwnFacts DEF PerCall, TokensOf, Issued
<1>. QED  BY <1>1, <1>2, <1>3

\* The lookups of refresh() and the revocation of everything.
LEMMA OwnLookups ==
    ASSUME IInv, NEW c \in Calls,
           \/ FindValid(c) \/ FindRevoked(c)
           \/ RevokeAllSelects(c) \/ RevokeAllApplies(c)
    PROVE  PerCall(c)'
<1>. USE DEF Goto, End
<1>0. CallStep(c) /\ TypeOK /\ PerCall(c)
  BY Regroup DEF CallStep, Serve
<1>1. CASE FindValid(c) \/ FindRevoked(c)
  <2>. DEFINE t == call[c].token
  <2>1. /\ stage[c] \in {"findValid", "findRevoked"} /\ row' = row
        /\ call[c].targets = {} /\ call[c].op = "refresh"
        /\ call[c] \in CallType /\ t \in Calls /\ Issued(t)
    BY <1>0, <1>1, OwnFacts DEF FindValid, FindRevoked, PerCall
  <2>2. \/ /\ call' = [call EXCEPT ![c].user = row[t].user] /\ answer' = answer
           /\ stage'[c] \in {"findUser", "revokeAll"}
           /\ stage'[c] = "revokeAll" => row[t].revoked
        \/ call' = call /\ answer' = answer /\ stage'[c] = "findRevoked"
        \/ call' = call /\ answer'[c] = "refused" /\ stage'[c] = "answered"
    BY <1>0, <1>1, OwnFacts DEF FindValid, FindRevoked, RevokedUnexpired
  <2>3. CASE call' = call /\ answer' = answer /\ stage'[c] = "findRevoked"
    BY <1>0, <2>1, <2>3, OwnFacts DEF PerCall, TokensOf, Issued
  <2>4. CASE call' = call /\ answer'[c] = "refused" /\ stage'[c] = "answered"
    BY <1>0, <2>1, <2>4, OwnFacts DEF PerCall, TokensOf, Issued
  <2>5. CASE /\ call' = [call EXCEPT ![c].user = row[t].user] /\ answer' = answer
             /\ stage'[c] \in {"findUser", "revokeAll"}
             /\ stage'[c] = "revokeAll" => row[t].revoked
    <3>1. /\ call'[c].op = "refresh" /\ call'[c].user = row[t].user
          /\ call'[c].token = call[c].token /\ call'[c].targets = {}
          /\ call'[c].earlier = call[c].earlier
      BY <1>0, <2>1, <2>5, OwnFacts DEF CallType
    <3>2. answer'[c] = "none"
      BY <1>0, <2>1, <2>5, OwnFacts
    <3>. QED
      BY <1>0, <2>1, <2>5, <3>1, <3>2, OwnFacts DEF PerCall, TokensOf, Issued
  <2>. QED  BY <2>2, <2>3, <2>4, <2>5
<1>2. CASE RevokeAllSelects(c)
  <2>. DEFINE chosen == {t \in TokensOf(call[c].user) : ~ row[t].revoked}
  <2>1. /\ stage[c] = "revokeAll" /\ stage'[c] = "revoking" /\ row' = row
        /\ call[c] \in CallType /\ call[c].op = "refresh" /\ answer'[c] = "none"
        /\ call' = [call EXCEPT ![c].targets = chosen]
    BY <1>0, <1>2, OwnFacts DEF RevokeAllSelects, PerCall
  <2>2. /\ call'[c].op = "refresh" /\ call'[c].user = call[c].user
        /\ call'[c].token = call[c].token /\ call'[c].targets = chosen
        /\ call'[c].earlier = call[c].earlier
    BY <1>0, <2>1, OwnFacts DEF CallType
  <2>3. \A t \in TokensOf(call[c].user) : row'[t].revoked \/ t \in chosen
    BY <2>1
  <2>. QED
    BY <1>0, <2>1, <2>2, <2>3, OwnFacts DEF PerCall, TokensOf, Issued
<1>3. CASE RevokeAllApplies(c)
  <2>1. /\ stage[c] = "revoking" /\ stage'[c] = "answered" /\ call' = call
        /\ answer'[c] = "reuse" /\ row' = Revoked(call[c].targets)
    BY <1>0, <1>3, OwnFacts DEF RevokeAllApplies
  <2>2. ASSUME NEW t \in call[c].earlier, Issued(t)', row'[t].user = call[c].user
        PROVE  row'[t].revoked
    <3>1. t \in Calls /\ row'[t].user = row[t].user
          /\ (row'[t].revoked <=> (row[t].revoked \/ t \in call[c].targets))
      BY <1>0, <2>1, RevokedType DEF PerCall, Over
    <3>2. t \in TokensOf(call[c].user)
      BY <2>2, <3>1 DEF TokensOf, Issued
    <3>3. row[t].revoked \/ t \in call[c].targets
      BY <1>0, <2>1, <3>2 DEF PerCall
    <3>. QED  BY <3>1, <3>3
  <2>3. call[c].op = "refresh" /\ ~ Issued(c) /\ ~ Issued(c)'
    BY <1>0, <2>1, OwnFacts DEF PerCall
  <2>. QED  BY <1>0, <2>1, <2>2, <2>3, OwnFacts DEF PerCall, TokensOf, Issued
<1>. QED  BY <1>1, <1>2, <1>3

\* The rotation of a valid token.
LEMMA OwnRotation ==
    ASSUME IInv, NEW c \in Calls,
           FindUser(c) \/ SignNext(c) \/ RotateRevokes(c) \/ RotateCommits(c)
    PROVE  PerCall(c)'
<1>. USE DEF Goto, End
<1>0. CallStep(c) /\ TypeOK /\ PerCall(c)
  BY Regroup DEF CallStep, Serve
<1>1. CASE FindUser(c) \/ SignNext(c) \/ RotateRevokes(c)
  <2>1. /\ stage[c] \in {"findUser", "signNext", "rotate"} /\ row' = row /\ call' = call
        /\ \/ /\ stage'[c] \in {"signNext", "rotate", "mint"} /\ answer' = answer
              /\ c \in seenActive'
           \/ stage'[c] = "answered" /\ answer'[c] = "refused"
    BY <1>0, <1>1, OwnFacts DEF FindUser, SignNext, RotateRevokes, PerCall
  <2>2. call[c].op = "refresh" /\ call[c].user = row[call[c].token].user
    BY <1>0, <2>1 DEF PerCall
  <2>. QED  BY <1>0, <2>1, <2>2, OwnFacts DEF PerCall, TokensOf, Issued
<1>2. CASE RotateCommits(c)
  <2>1. /\ stage[c] = "mint" /\ stage'[c] = "answered" /\ call' = call
        /\ answer'[c] = "ok" /\ call[c].op = "refresh" /\ c \in seenActive
    BY <1>0, <1>2, OwnFacts DEF RotateCommits, PerCall
  <2>. QED  BY <1>0, <2>1, OwnFacts DEF PerCall, TokensOf, Issued
<1>. QED  BY <1>1, <1>2

\* logout().
LEMMA OwnLogout ==
    ASSUME IInv, NEW c \in Calls, Authenticate(c) \/ Revoke(c)
    PROVE  PerCall(c)'
<1>. USE DEF Goto, End
<1>0. CallStep(c) /\ TypeOK /\ PerCall(c)
  BY Regroup DEF CallStep, Serve
<1>1. CASE Authenticate(c)
  <2>1. /\ stage[c] = "authenticate" /\ row' = row /\ call' = call
        /\ \/ stage'[c] = "revoke" /\ answer' = answer
           \/ stage'[c] = "answered" /\ answer'[c] = "refused"
    BY <1>0, <1>1, OwnFacts DEF Authenticate
  <2>. QED  BY <1>0, <2>1, OwnFacts DEF PerCall, TokensOf, Issued
<1>2. CASE Revoke(c)
  <2>1. /\ stage[c] = "revoke" /\ stage'[c] = "answered" /\ call' = call
        /\ answer'[c] = "ok" /\ call[c].op = "logout"
        /\ row' = Revoked(RevokeTargets(c)) /\ call[c].token \in Calls
    BY <1>0, <1>2, OwnFacts DEF Revoke, PerCall
  <2>2. row[call[c].token].user = call[c].user => row'[call[c].token].revoked
    BY <1>0, <2>1, RevokedType DEF RevokeTargets
  <2>. QED  BY <1>0, <2>1, <2>2, OwnFacts DEF PerCall, TokensOf, Issued
<1>. QED  BY <1>1, <1>2

LEMMA OwnBreak ==
    ASSUME IInv, NEW c \in Calls, Break(c)
    PROVE  PerCall(c)'
<1>. USE DEF Goto, End
<1>0. CallStep(c) /\ TypeOK /\ PerCall(c)
  BY Regroup DEF CallStep
<1>1. /\ stage[c] # "answered" /\ stage'[c] = "answered" /\ call' = call
      /\ \/ answer'[c] = "error"
         \/ answer'[c] = "sign_error" /\ row' = row /\ stage[c] \in {"sign", "signNext"}
  BY <1>0, OwnFacts DEF Break, CallFails, SigningFails, InFlight
<1>2. Issued(c)' => c \in seenActive
  BY <1>0, OwnFacts DEF PerCall
<1>3. answer'[c] = "sign_error" /\ call[c].op = "refresh" => ~ Issued(c)'
  BY <1>0, <1>1, OwnFacts DEF PerCall
<1>. QED  BY <1>0, <1>1, <1>2, <1>3, OwnFacts DEF PerCall, TokensOf, Issued

-----------------------------------------------------------------------------
(***************************************************************************)
(* The whole step.                                                         *)
(***************************************************************************)

\* A step of a call leaves well-formed rows ...
LEMMA RowTypeStep ==
    ASSUME IInv, NEW c \in Calls, CallStep(c)
    PROVE  row' \in [Calls -> RowType]
<1>0. TypeOK /\ PerCall(c) /\ row \in [Calls -> RowType]
  BY Regroup, TypeFacts
<1>1. CASE row' = row
  BY <1>0, <1>1
<1>2. CASE Inserts(c)
  BY <1>0, <1>2, CreatedType DEF Inserts
<1>3. CASE Replaces(c)
  <2>1. PICK old \in Calls \ {c} : old = call[c].token
    BY <1>0, <1>3 DEF Replaces, PerCall
  <2>. QED  BY <1>0, <1>3, <2>1, RotatedType DEF Replaces
<1>4. CASE RevokesUnlocked(c)
  BY <1>0, <1>4, RevokedType DEF RevokesUnlocked
<1>. QED  BY <1>0, <1>1, <1>2, <1>3, <1>4, RowCases

\* ... and well-formed calls ...
LEMMA CallTypeStep ==
    ASSUME IInv, NEW c \in Calls, CallStep(c)
    PROVE  call' \in [Calls -> CallType]
<1>. USE DEF Goto, End
<1>0. TypeOK /\ PerCall(c) /\ call \in [Calls -> CallType]
      /\ \A t \in Calls : row[t] \in RowType
  BY Regroup, TypeFacts
<1>1. CASE Arrive(c)
  <2>1. PICK op \in {"register", "login", "refresh", "logout"},
             u \in Users \cup {None}, t \in Calls \cup {None} :
            call' = [call EXCEPT ![c] = [NoCall EXCEPT !.op = op, !.user = u,
                                         !.token = t, !.earlier = Over]]
    BY <1>0, <1>1 DEF Arrive, Register, Login, Refresh, Logout, Begin, TypeOK
  <2>2. [NoCall EXCEPT !.op = op, !.user = u, !.token = t, !.earlier = Over] \in CallType
    BY DEF NoCall, CallType, Over
  <2>. QED  BY <1>0, <2>1, <2>2
<1>2. CASE Serve(c)
  <2>1. CASE FindValid(c) \/ FindRevoked(c)
    <3>1. call[c].token \in Calls
      BY <1>0, <2>1 DEF FindValid, FindRevoked, PerCall
    <3>2. row[call[c].token].user \in Users \cup {None}
      BY <1>0, <3>1 DEF RowType
    <3>3. \/ call' = call
          \/ call' = [call EXCEPT ![c].user = row[call[c].token].user]
      BY <2>1 DEF FindValid, FindRevoked
    <3>. QED  BY <1>0, <3>2, <3>3 DEF CallType
  <2>2. CASE RevokeAllSelects(c)
    <3>1. PICK chosen \in SUBSET Calls : call' = [call EXCEPT ![c].targets = chosen]
      BY <2>2 DEF RevokeAllSelects, TokensOf
    <3>. QED  BY <1>0, <3>1 DEF CallType
  <2>3. CASE ~ (FindValid(c) \/ FindRevoked(c) \/ RevokeAllSelects(c))
    <3>1. call' = call
      BY <1>2, <2>3
      DEF Serve, CreateUser, Lookup, IssueToken, SignAndDeliver,
          RevokeAllApplies, FindUser, SignNext, RotateRevokes,
          RotateCommits, Authenticate, Revoke
    <3>. QED  BY <1>0, <3>1
  <2>. QED  BY <2>1, <2>2, <2>3
<1>3. CASE Break(c)
  <2>1. call' = call
    BY <1>3 DEF Break, CallFails, SigningFails
  <2>. QED  BY <1>0, <2>1
<1>. QED  BY <1>1, <1>2, <1>3 DEF CallStep

\* ... and everything else of its type.
LEMMA TypeStep ==
    ASSUME IInv, NEW c \in Calls, CallStep(c)
    PROVE  TypeOK'
<1>. USE DEF Goto, End
<1>0. TypeOK /\ PerCall(c) /\ LocksHeld
  BY Regroup
<1>1. row' \in [Calls -> RowType] /\ call' \in [Calls -> CallType]
  BY RowTypeStep, CallTypeStep
<1>2. lock' \in [Calls -> Calls \cup {None}]
  BY <1>0, LockCases DEF TypeOK, Locks, Unlocks
<1>3. /\ stage' \in [Calls -> Stages] /\ answer' \in [Calls -> Answers]
      /\ delivered' \subseteq Calls
  <2>. USE DEF TypeOK, Stages, Answers
  <2>1. CASE Arrive(c)
    <3>1. PICK s \in {"createUser", "lookup", "findValid", "authenticate"} :
              /\ stage' = [stage EXCEPT ![c] = s]
              /\ answer' = answer /\ delivered' = delivered
      BY <2>1 DEF Arrive, Register, Login, Refresh, Logout, Begin
    <3>. QED  BY <1>0, <3>1
  <2>2. CASE CreateUser(c) \/ Lookup(c) \/ IssueToken(c) \/ SignAndDeliver(c)
    BY <1>0, <2>2 DEF CreateUser, Lookup, IssueToken, SignAndDeliver
  <2>3. CASE FindValid(c) \/ FindRevoked(c) \/ RevokeAllSelects(c) \/ RevokeAllApplies(c)
    BY <1>0, <2>3 DEF FindValid, FindRevoked, RevokeAllSelects, RevokeAllApplies
  <2>4. CASE FindUser(c) \/ SignNext(c) \/ RotateRevokes(c) \/ RotateCommits(c)
    BY <1>0, <2>4 DEF FindUser, SignNext, RotateRevokes, RotateCommits
  <2>5. CASE Authenticate(c) \/ Revoke(c)
    BY <1>0, <2>5 DEF Authenticate, Revoke
  <2>6. CASE Break(c)
    BY <1>0, <2>6 DEF Break, CallFails, SigningFails
  <2>. QED  BY <2>1, <2>2, <2>3, <2>4, <2>5, <2>6 DEF CallStep, Serve
<1>4. /\ users' \in [Users -> {"absent", "active", "inactive"}]
      /\ seenActive' \subseteq Calls /\ faults' \in 0..MaxFaults
  <2>. USE DEF TypeOK
  <2>1. CASE Arrive(c)
    BY <1>0, <2>1 DEF Arrive, Register, Login, Refresh, Logout, Begin
  <2>2. CASE CreateUser(c) \/ Lookup(c)
    BY <1>0, <2>2 DEF CreateUser, Lookup
  <2>3. CASE Serve(c) /\ ~ CreateUser(c) /\ ~ Lookup(c)
    BY <1>0, <2>3
    DEF Serve, IssueToken, SignAndDeliver, FindValid, FindRevoked,
        RevokeAllSelects, RevokeAllApplies, FindUser, SignNext, RotateRevokes,
        RotateCommits, Authenticate, Revoke
  <2>4. CASE Break(c)
    <3>1. faults' \in 0..MaxFaults /\ seenActive' = seenActive
      BY <1>0, <2>4, FaultsAssumption DEF Break, CallFails, SigningFails, Fault
    <3>2. \/ users' = users
          \/ users' = [users EXCEPT ![call[c].user] = "active"]
      BY <2>4 DEF Break, CallFails, SigningFails
    <3>. QED  BY <1>0, <3>1, <3>2
  <2>. QED  BY <2>1, <2>2, <2>3, <2>4 DEF CallStep
<1>. QED  BY <1>1, <1>2, <1>3, <1>4 DEF TypeOK, RowType, CallType

LEMMA CallStepPreserves ==
    ASSUME IInv, NEW c \in Calls, CallStep(c)
    PROVE  IInv'
<1>1. PerCall(c)'
  BY OwnArrive, OwnIssuing, OwnLookups, OwnRotation, OwnLogout, OwnBreak
  DEF CallStep, Serve
<1>2. \A q \in Calls \ {c} : PerCall(q)'
  BY OtherStep
<1>3. TypeOK' /\ RowsAreWhole' /\ LocksHeld' /\ OneTokenPerSession'
  BY TypeStep, WholeStep, LocksStep, SessionStep
<1>4. delivered' \subseteq {t \in Calls : Issued(t)'}
  BY HistoryStep
<1>5. /\ TypeOK'
      /\ delivered' \subseteq {t \in Calls : Issued(t)'}
      /\ RowsAreWhole' /\ LocksHeld' /\ OneTokenPerSession'
      /\ \A q \in Calls : PerCall(q)'
  BY <1>1, <1>2, <1>3, <1>4
<1>. QED  BY <1>5, RegroupNext

\* Changing an account touches no row, lock or call.
LEMMA AccountStepPreserves ==
    ASSUME IInv, NEW u \in Users, Deactivate(u) \/ Reactivate(u)
    PROVE  IInv'
<1>1. TypeOK'
  BY DEF Deactivate, Reactivate, IInv, TypeOK
<1>2. /\ UNCHANGED <<row, lock, call, stage, answer, delivered>>
      /\ seenActive \subseteq seenActive'
  BY DEF Deactivate, Reactivate
<1>3. /\ RowsAreWhole' /\ LocksHeld' /\ OneTokenPerSession'
      /\ delivered' \subseteq {t \in Calls : Issued(t)'}
  BY <1>2, Regroup DEF RowsAreWhole, LocksHeld, OneTokenPerSession, Unrevoked, Issued
<1>4. ASSUME NEW c \in Calls
      PROVE  PerCall(c)'
  <2>1. PerCall(c)
    BY Regroup
  <2>. QED  BY <1>2, <2>1 DEF PerCall, TokensOf, Issued, Over
<1>. QED  BY <1>1, <1>3, <1>4, RegroupNext

\* Time only ages the rows.
LEMMA TickPreserves ==
    ASSUME IInv, Tick
    PROVE  IInv'
<1>0. /\ TypeOK /\ RowsAreWhole /\ LocksHeld /\ OneTokenPerSession
      /\ delivered \subseteq {t \in Calls : Issued(t)}
      /\ \A t \in Calls : row[t] \in RowType
      /\ UNCHANGED <<users, lock, call, stage, answer, delivered, seenActive, faults>>
  BY Regroup, TypeFacts DEF Tick
<1>1. ASSUME NEW t \in Calls
      PROVE  /\ row'[t] \in RowType
             /\ row'[t].user = row[t].user /\ row'[t].family = row[t].family
             /\ row'[t].revoked = row[t].revoked
             /\ row'[t].left = Countdown(row[t].left)
  <2>1. row[t] \in RowType /\ row'[t] = [row[t] EXCEPT !.left = Countdown(row[t].left)]
    BY <1>0 DEF Tick
  <2>. QED  BY <2>1, CountdownType DEF RowType
<1>2. TypeOK'
  BY <1>0, <1>1 DEF TypeOK, Tick, RowType
<1>3. RowsAreWhole'
  <2>1. ASSUME NEW t \in Calls, row[t] = NoRow
        PROVE  row'[t] = NoRow
    BY <1>0, <2>1 DEF Tick, NoRow, Countdown
  <2>. QED  BY <1>0, <1>1, <2>1 DEF RowsAreWhole, Issued
<1>4. LocksHeld'
  BY <1>0, <1>1 DEF LocksHeld, TypeOK
<1>5. OneTokenPerSession' /\ delivered' \subseteq {t \in Calls : Issued(t)'}
  BY <1>0, <1>1 DEF OneTokenPerSession, Unrevoked, Issued
<1>6. ASSUME NEW c \in Calls
      PROVE  PerCall(c)'
  <2>1. PerCall(c)
    BY Regroup
  <2>. QED  BY <1>0, <1>1, <2>1 DEF PerCall, TokensOf, Issued, Over
<1>. QED  BY <1>2, <1>3, <1>4, <1>5, <1>6, RegroupNext

LEMMA InvInit ==
    ASSUME Init
    PROVE  IInv
<1>1. TypeOK
  BY TTLAssumption, FaultsAssumption DEF Init, TypeOK, NoRow, NoCall, Stages, Answers
<1>2. RowsAreWhole /\ LocksHeld /\ OneTokenPerSession
  BY DEF Init, RowsAreWhole, LocksHeld, OneTokenPerSession, Unrevoked, Issued, NoRow
<1>3. ASSUME NEW c \in Calls
      PROVE  PerCall(c)
  BY DEF Init, PerCall, Issued, NoRow, NoCall
<1>. QED  BY <1>1, <1>2, <1>3, Regroup DEF Init

LEMMA InvNext ==
    ASSUME IInv, [Next]_vars
    PROVE  IInv'
<1>1. CASE UNCHANGED vars
  BY <1>1
  DEF vars, IInv, TypeOK, Issued, RowsAreWhole, MintedLate, CallShape, LocksHeld,
      TargetsComplete, ActiveSeen, OneTokenPerSession, LogoutRevokes,
      ReuseRevokesEarlierTokens, SigningFailureMintsNothing, IssuedWhileActive,
      Unrevoked, TokensOf, Over
<1>. QED
  BY <1>1, CallStepPreserves, AccountStepPreserves, TickPreserves DEF Next, CallStep

-----------------------------------------------------------------------------
(***************************************************************************)
(* No token is revoked without cause.                                      *)
(***************************************************************************)

\* A call is only changed while it is asked and while it reads.
LEMMA CallSettled ==
    ASSUME NEW c \in Calls, CallStep(c),
           stage[c] \notin {"idle", "findValid", "findRevoked", "revokeAll"}
    PROVE  call' = call
<1>1. CASE Arrive(c)
  BY <1>1 DEF Arrive, Register, Login, Refresh, Logout, Begin
<1>2. CASE Break(c)
  BY <1>2 DEF Break, CallFails, SigningFails
<1>3. CASE Serve(c)
  BY <1>3
  DEF Serve, CreateUser, Lookup, IssueToken, SignAndDeliver, FindValid,
      FindRevoked, RevokeAllSelects, RevokeAllApplies, FindUser, SignNext,
      RotateRevokes, RotateCommits, Authenticate, Revoke
<1>. QED  BY <1>1, <1>2, <1>3 DEF CallStep

\* Whoever has caused a revocation has been asked and has read all there is.
LEMMA CauseSettled ==
    ASSUME IInv, NEW c \in Calls, CallStep(c), NEW t \in Calls, Cause(c, t)
    PROVE  call' = call
<1>1. PerCall(c)
  BY Regroup
<1>2. stage[c] \notin {"idle", "findValid", "findRevoked", "revokeAll"} \/ call' = call
  <2>1. CASE stage[c] = "idle"
    BY <1>1, <2>1 DEF PerCall, NoCall, Cause
  <2>2. CASE stage[c] \in {"findValid", "findRevoked", "revokeAll"}
    BY <1>1, <2>2 DEF PerCall, Cause
  <2>. QED  BY <2>1, <2>2
<1>. QED  BY <1>2, CallSettled

\* So causes last.
LEMMA CauseLasts ==
    ASSUME IInv, NEW q \in Calls, CallStep(q), NEW c \in Calls, NEW t \in Calls,
           Issued(t), Cause(c, t)
    PROVE  Cause(c, t)'
<1>1. row'[t].user = row[t].user /\ (Issued(c) => Issued(c)')
  BY Growth DEF Grows
<1>2. call'[c] = call[c]
  <2>1. CASE q = c
    BY <2>1, CauseSettled
  <2>2. CASE q # c
    BY <2>2, OthersUntouched, Regroup
  <2>. QED  BY <2>1, <2>2
<1>3. call[c].op = "refresh" /\ row[call[c].token].revoked =>
          row'[call[c].token].revoked
  BY Growth, Regroup DEF Grows, PerCall
<1>. QED  BY <1>1, <1>2, <1>3 DEF Cause

\* A step that revokes a token is its cause.
LEMMA RevokerIsCause ==
    ASSUME IInv, NEW c \in Calls, CallStep(c), NEW t \in Calls,
           ~ row[t].revoked, row'[t].revoked
    PROVE  Issued(t) /\ Cause(c, t)'
<1>0. TypeOK /\ PerCall(c) /\ Grows(c)
  BY Regroup, Growth
<1>1. CASE Inserts(c)
  <2>1. row'[c] = NewRow(call[c].user, c) /\ \A r \in Calls \ {c} : row'[r] = row[r]
    BY <1>0, <1>1, CreatedType DEF Inserts
  <2>. QED  BY <2>1 DEF NewRow
<1>2. CASE Replaces(c)
  <2>1. PICK old \in Calls \ {c} : old = call[c].token /\ Issued(old)
    BY <1>0, <1>2 DEF Replaces, PerCall
  <2>2. row'[c] = NewRow(row[old].user, row[old].family)
    BY <1>0, <1>2, <2>1, RotatedType DEF Replaces
  <2>3. t = old /\ Issued(c)'
    <3>1. t # c
      BY <2>2 DEF NewRow
    <3>2. t = old
      BY <1>0, <1>2, <2>1, <3>1, RotatedType DEF Replaces
    <3>. QED  BY <2>1, <2>2, <3>2 DEF NewRow, Issued
  <2>4. call[c].op = "refresh" /\ call' = call
    BY <1>0, <1>2, LockCases DEF Replaces, PerCall
  <2>. QED  BY <2>1, <2>3, <2>4 DEF Cause
<1>3. CASE RevokesUnlocked(c)
  <2>1. PICK tokens \in SUBSET Calls :
            /\ row' = Revoked(tokens)
            /\ \A r \in tokens :
                  /\ Issued(r) /\ row[r].user = call[c].user
                  /\ IF stage[c] = "revoke" THEN r = call[c].token
                                           ELSE r \in call[c].targets
    BY <1>3 DEF RevokesUnlocked
  <2>2. t \in tokens /\ row'[t].user = row[t].user
    BY <1>0, <2>1, RevokedType
  <2>3. /\ call' = call
        /\ stage[c] = "revoke" => call[c].op = "logout"
        /\ stage[c] # "revoke" => call[c].op = "refresh"
    BY <1>0, <1>3 DEF RevokesUnlocked, PerCall
  <2>4. stage[c] # "revoke" => row'[call[c].token].revoked
    BY <1>0, <1>3 DEF RevokesUnlocked, PerCall, Grows
  <2>. QED  BY <2>1, <2>2, <2>3, <2>4 DEF Cause
<1>4. CASE row' = row
  BY <1>4
<1>. QED  BY <1>0, <1>1, <1>2, <1>3, <1>4, RowCases

\* Administration and time revoke nothing.
LEMMA EnvironmentRows ==
    ASSUME IInv, Tick \/ UNCHANGED vars
                 \/ \E u \in Users : Deactivate(u) \/ Reactivate(u)
    PROVE  \A t \in Calls : /\ row'[t].user = row[t].user
                            /\ row'[t].family = row[t].family
                            /\ row'[t].revoked = row[t].revoked
<1>1. CASE Tick
  <2>1. \A t \in Calls : row'[t] = [row[t] EXCEPT !.left = Countdown(row[t].left)]
    BY <1>1 DEF Tick
  <2>. QED  BY <2>1, Regroup, TypeFacts DEF RowType
<1>2. CASE ~ Tick
  BY <1>2 DEF Deactivate, Reactivate, vars
<1>. QED  BY <1>1, <1>2

LEMMA CausesNext ==
    ASSUME IInv, RevokedForCause, [Next]_vars
    PROVE  RevokedForCause'
<1>1. CASE \E q \in Calls : CallStep(q)
  <2>1. PICK q \in Calls : CallStep(q)
    BY <1>1
  <2>2. ASSUME NEW t \in Calls, row'[t].revoked
        PROVE  \E c \in Calls : Cause(c, t)'
    <3>1. CASE row[t].revoked
      <4>1. Issued(t)
        BY <3>1, Regroup DEF RowsAreWhole, NoRow
      <4>2. PICK c \in Calls : Cause(c, t)
        BY <3>1 DEF RevokedForCause
      <4>. QED  BY <2>1, <4>1, <4>2, CauseLasts
    <3>2. CASE ~ row[t].revoked
      BY <2>1, <2>2, <3>2, RevokerIsCause
    <3>. QED  BY <3>1, <3>2
  <2>. QED  BY <2>2 DEF RevokedForCause
<1>2. CASE Tick \/ UNCHANGED vars \/ \E u \in Users : Deactivate(u) \/ Reactivate(u)
  <2>1. call' = call
    BY <1>2 DEF Tick, Deactivate, Reactivate, vars
  <2>2. \A t \in Calls : /\ row'[t].user = row[t].user
                         /\ row'[t].revoked = row[t].revoked
    BY <1>2, EnvironmentRows
  <2>3. ASSUME NEW c \in Calls, NEW t \in Calls, Cause(c, t) PROVE Cause(c, t)'
    <3>1. call[c].op = "refresh" => call[c].token \in Calls
      BY Regroup DEF PerCall
    <3>. QED  BY <2>1, <2>2, <2>3, <3>1 DEF Cause, Issued
  <2>. QED  BY <2>2, <2>3 DEF RevokedForCause
<1>. QED  BY <1>1, <1>2 DEF Next, CallStep

-----------------------------------------------------------------------------
(***************************************************************************)
(* A token has one successor.                                              *)
(***************************************************************************)

\* The call has exchanged the token it was given.
Exchanged(c) == call[c].op = "refresh" /\ Issued(c)

\* What has been exchanged is revoked: a second exchange finds it so.
ExchangedIsRevoked == \A c \in Calls : Exchanged(c) => row[call[c].token].revoked

\* A call that has exchanged a token had done so before, or does it in this
\* step and revokes a token that was not revoked.
LEMMA ExchangeStep ==
    ASSUME IInv, NEW q \in Calls, CallStep(q), NEW c \in Calls, Exchanged(c)'
    PROVE  /\ call'[c] = call[c] /\ call[c].token \in Calls
           /\ Issued(call[c].token)
           /\ \/ Exchanged(c)
              \/ /\ c = q /\ ~ row[call[c].token].revoked
                 /\ row'[call[c].token].revoked
<1>0. TypeOK /\ PerCall(c) /\ LocksHeld /\ Grows(q)
  BY Regroup, Growth
<1>1. call'[c] = call[c]
  <2>1. CASE c # q
    BY <1>0, <2>1, OthersUntouched
  <2>2. CASE c = q
    <3>1. stage[c] \in {"sign", "answered", "issue", "mint"}
      BY <1>0, <2>2 DEF Grows, PerCall, Exchanged
    <3>. QED  BY <2>2, <3>1, CallSettled
  <2>. QED  BY <2>1, <2>2
<1>2. call[c].op = "refresh" /\ call[c].token \in Calls /\ Issued(call[c].token)
  BY <1>0, <1>1 DEF Exchanged, PerCall
<1>3. CASE Issued(c)
  BY <1>1, <1>2, <1>3 DEF Exchanged
<1>4. CASE ~ Issued(c)
  <2>1. c = q /\ stage[c] = "mint"
    BY <1>0, <1>2, <1>4 DEF Grows, PerCall, Exchanged
  <2>2. PICK old \in Calls \ {c} : old = call[c].token /\ ~ row[old].revoked
    BY <1>0, <1>2, <1>4, <2>1, NoneAssumption DEF LocksHeld
  <2>3. row' # row
    BY <1>4 DEF Exchanged, Issued
  <2>4. row' = Rotated(c)
    BY <1>0, <2>1, <2>3, RowCases DEF Inserts, Replaces, RevokesUnlocked
  <2>5. row'[old].revoked
    BY <1>0, <2>2, <2>4, RotatedType
  <2>. QED  BY <1>1, <1>2, <2>1, <2>2, <2>5
<1>. QED  BY <1>3, <1>4

LEMMA SuccessorsNext ==
    ASSUME IInv, OneSuccessor, ExchangedIsRevoked, [Next]_vars
    PROVE  OneSuccessor' /\ ExchangedIsRevoked'
<1>1. CASE \E q \in Calls : CallStep(q)
  <2>1. PICK q \in Calls : CallStep(q)
    BY <1>1
  <2>2. ExchangedIsRevoked'
    <3>1. ASSUME NEW c \in Calls, Exchanged(c)'
          PROVE  row'[call'[c].token].revoked
      <4>1. CASE Exchanged(c)
        BY <2>1, <3>1, <4>1, ExchangeStep, Growth DEF ExchangedIsRevoked, Grows
      <4>. QED  BY <2>1, <3>1, <4>1, ExchangeStep
    <3>. QED  BY <3>1 DEF ExchangedIsRevoked
  <2>3. ASSUME NEW c \in Calls, NEW d \in Calls, Exchanged(c)', Exchanged(d)',
               call'[c].token = call'[d].token
        PROVE  c = d
    <3>1. call[c].token = call[d].token
      BY <2>1, <2>3, ExchangeStep
    <3>2. CASE Exchanged(c) /\ Exchanged(d)
      BY <3>1, <3>2 DEF OneSuccessor, Exchanged
    <3>3. CASE ~ Exchanged(c) /\ ~ Exchanged(d)
      BY <2>1, <2>3, <3>3, ExchangeStep
    <3>4. CASE (Exchanged(c) /\ ~ Exchanged(d)) \/ (~ Exchanged(c) /\ Exchanged(d))
      BY <2>1, <2>3, <3>1, <3>4, ExchangeStep DEF ExchangedIsRevoked
    <3>. QED  BY <3>2, <3>3, <3>4
  <2>. QED  BY <2>2, <2>3 DEF OneSuccessor, Exchanged
<1>2. CASE Tick \/ UNCHANGED vars \/ \E u \in Users : Deactivate(u) \/ Reactivate(u)
  <2>1. call' = call
    BY <1>2 DEF Tick, Deactivate, Reactivate, vars
  <2>2. \A t \in Calls : /\ row'[t].user = row[t].user
                         /\ row'[t].revoked = row[t].revoked
    BY <1>2, EnvironmentRows
  <2>3. \A c \in Calls : Exchanged(c)' <=> Exchanged(c)
    BY <2>1, <2>2 DEF Exchanged, Issued
  <2>4. ExchangedIsRevoked'
    <3>1. \A c \in Calls : Exchanged(c) => call[c].token \in Calls
      BY Regroup DEF PerCall, Exchanged
    <3>. QED  BY <2>1, <2>2, <2>3, <3>1 DEF ExchangedIsRevoked
  <2>. QED  BY <2>1, <2>3, <2>4 DEF OneSuccessor, Exchanged
<1>. QED  BY <1>1, <1>2 DEF Next, CallStep

-----------------------------------------------------------------------------
(***************************************************************************)
(* The results.                                                            *)
(***************************************************************************)

\* Rows, locks, calls and answers always agree: the inductive invariant.
THEOREM Invariance == Spec => []IInv
<1>1. Init => IInv
  BY InvInit
<1>2. IInv /\ [Next]_vars => IInv'
  BY InvNext
<1>. QED  BY <1>1, <1>2, PTL DEF Spec

\* Every variable always has its type.
THEOREM TypeCorrect == Spec => []TypeOK
<1>1. IInv => TypeOK
  BY DEF IInv
<1>. QED  BY <1>1, Invariance, PTL

\* However many refreshes of one token race, and whichever of them fail, a
\* session never has two unrevoked tokens.
THEOREM SingleToken == Spec => []OneTokenPerSession
<1>1. IInv => OneTokenPerSession
  BY DEF IInv
<1>. QED  BY <1>1, Invariance, PTL

\* A logout that answered has revoked the caller's presented token, also when
\* a rotation of it was open meanwhile.
THEOREM LogoutTakesEffect == Spec => []LogoutRevokes
<1>1. IInv => LogoutRevokes
  BY DEF IInv
<1>. QED  BY <1>1, Invariance, PTL

\* A reuse that was answered has revoked every token of the user that a call
\* which was over before had minted.
THEOREM ReuseTakesEffect == Spec => []ReuseRevokesEarlierTokens
<1>1. IInv => ReuseRevokesEarlierTokens
  BY DEF IInv
<1>. QED  BY <1>1, Invariance, PTL

\* A refresh whose access token could not be signed has rotated nothing.
THEOREM SigningIsSafe == Spec => []SigningFailureMintsNothing
<1>1. IInv => SigningFailureMintsNothing
  BY DEF IInv
<1>. QED  BY <1>1, Invariance, PTL

\* Tokens are only issued by calls during which their user was active.
THEOREM ActiveUsersOnly == Spec => []IssuedWhileActive
<1>1. IInv => IssuedWhileActive
  BY DEF IInv
<1>. QED  BY <1>1, Invariance, PTL

\* However refreshes of one token overlap, and whatever fails, the token is
\* exchanged at most once: an exchange revokes it, and needs it unrevoked.
THEOREM ExchangedOnce == Spec => []OneSuccessor
<1>1. Init => OneSuccessor /\ ExchangedIsRevoked
  BY DEF Init, OneSuccessor, ExchangedIsRevoked, Exchanged, Issued, NoRow
<1>2. IInv /\ OneSuccessor /\ ExchangedIsRevoked /\ [Next]_vars
      => OneSuccessor' /\ ExchangedIsRevoked'
  BY SuccessorsNext
<1>. QED  BY <1>1, <1>2, Invariance, PTL DEF Spec

\* Nobody loses a session because of someone else: whatever is revoked was
\* rotated, logged out by its owner, or caught by a reuse of its owner's token.
THEOREM NoRevocationWithoutCause == Spec => []RevokedForCause
<1>1. Init => RevokedForCause
  BY DEF Init, RevokedForCause, NoRow
<1>2. IInv /\ RevokedForCause /\ [Next]_vars => RevokedForCause'
  BY CausesNext
<1>. QED  BY <1>1, <1>2, Invariance, PTL DEF Spec
-----------------------------------------------------------------------------
(***************************************************************************)
(* Calls come to an end.                                                   *)
(***************************************************************************)

\* How many statements a call has behind it when it is at a stage, at most.
Rank(s) ==
    CASE s = "idle" -> 0
      [] s \in {"createUser", "lookup", "findValid", "authenticate"} -> 1
      [] s \in {"issue", "findRevoked", "findUser", "revoke"} -> 2
      [] s \in {"sign", "revokeAll", "signNext"} -> 3
      [] s \in {"revoking", "rotate"} -> 4
      [] s = "mint" -> 5
      [] s = "answered" -> 6

Advances(c) == Rank(stage'[c]) > Rank(stage[c])

LEMMA MoverAdvances ==
    ASSUME TypeOK, NEW c \in Calls, CallStep(c)
    PROVE  Advances(c)
<1>. USE DEF Goto, End, Advances, Rank
<1>0. stage \in [Calls -> Stages]
  BY DEF TypeOK
<1>1. CASE Arrive(c)
  <2>1. PICK s \in {"createUser", "lookup", "findValid", "authenticate"} :
           stage[c] = "idle" /\ stage' = [stage EXCEPT ![c] = s]
    BY <1>1 DEF Arrive, Register, Login, Refresh, Logout, Begin
  <2>. QED  BY <1>0, <2>1
<1>2. CASE Serve(c)
  <2>1. CASE CreateUser(c) \/ Lookup(c)
    BY <1>0, <2>1 DEF CreateUser, Lookup
  <2>2. CASE IssueToken(c) \/ SignAndDeliver(c)
    BY <1>0, <2>2 DEF IssueToken, SignAndDeliver
  <2>3. CASE FindValid(c) \/ FindRevoked(c)
    BY <1>0, <2>3 DEF FindValid, FindRevoked
  <2>4. CASE FindUser(c) \/ SignNext(c)
    BY <1>0, <2>4 DEF FindUser, SignNext
  <2>5. CASE RevokeAllSelects(c) \/ RevokeAllApplies(c)
    BY <1>0, <2>5 DEF RevokeAllSelects, RevokeAllApplies
  <2>6. CASE RotateRevokes(c) \/ RotateCommits(c)
    BY <1>0, <2>6 DEF RotateRevokes, RotateCommits
  <2>7. CASE Authenticate(c) \/ Revoke(c)
    BY <1>0, <2>7 DEF Authenticate, Revoke
  <2>. QED  BY <1>2, <2>1, <2>2, <2>3, <2>4, <2>5, <2>6, <2>7 DEF Serve
<1>3. CASE Break(c)
  <2>1. stage[c] \notin {"idle", "answered"} /\ stage'[c] = "answered"
    BY <1>0, <1>3 DEF Break, CallFails, SigningFails, InFlight
  <2>. QED  BY <1>0, <2>1 DEF Stages
<1>. QED  BY <1>1, <1>2, <1>3 DEF CallStep

\* A call is over after at most six steps of its own: whoever is served moves on
\* to a later statement, and no step of anybody sends a call back to an earlier
\* one.  No code path of register, login, refresh or logout loops or starts over.
THEOREM CallsAdvance ==
    Spec => [][/\ \A c \in Calls : stage'[c] # stage[c] => Advances(c)
               /\ \A c \in Calls : Serve(c) => Advances(c)]_vars
<1>1. ASSUME TypeOK, [Next]_vars, NEW c \in Calls, stage'[c] # stage[c]
      PROVE  Advances(c)
  <2>1. ASSUME NEW d \in Calls, CallStep(d) PROVE Advances(c)
    BY <1>1, <2>1, MoverAdvances, OthersUntouched
  <2>2. CASE stage' = stage
    BY <1>1, <2>2
  <2>3. (\E d \in Calls : CallStep(d)) \/ stage' = stage
    BY <1>1 DEF Next, CallStep, Deactivate, Reactivate, Tick, vars
  <2>. QED  BY <2>1, <2>2, <2>3
<1>2. ASSUME TypeOK, NEW c \in Calls, Serve(c) PROVE Advances(c)
  BY <1>2, MoverAdvances DEF CallStep
<1>3. TypeOK /\ [Next]_vars =>
        [/\ \A c \in Calls : stage'[c] # stage[c] => Advances(c)
         /\ \A c \in Calls : Serve(c) => Advances(c)]_vars
  BY <1>1, <1>2
<1>. QED  BY <1>3, TypeCorrect, PTL DEF Spec
=============================================================================
