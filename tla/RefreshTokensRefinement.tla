---------------------- MODULE RefreshTokensRefinement ----------------------
(***************************************************************************)
(* RefreshTokens implements Sessions, for all values of the constants.     *)
(***************************************************************************)
EXTENDS RefreshTokensProofs

\* The token of a session is the unrevoked one of its family.
IsView ==
    /\ Current \in [Calls -> Calls \cup {None}]
    /\ \A s, t \in Calls : Current[s] = t <=> Unrevoked(t) /\ row[t].family = s

LEMMA View ==
    ASSUME IInv
    PROVE  IsView
<1>1. ASSUME NEW s \in Calls, NEW t \in UnrevokedOf(s)
      PROVE  UnrevokedOf(s) = {t}
  BY Regroup, <1>1 DEF UnrevokedOf, OneTokenPerSession
<1>2. ASSUME NEW s \in Calls
      PROVE  /\ UnrevokedOf(s) = {} => Current[s] = None
             /\ \A t \in UnrevokedOf(s) : Current[s] = t
             /\ UnrevokedOf(s) \subseteq Calls
  <2>1. \A t \in UnrevokedOf(s) : (CHOOSE r \in UnrevokedOf(s) : TRUE) = t
    BY <1>1
  <2>. QED  BY <2>1 DEF Current, UnrevokedOf
<1>. QED  BY <1>2, NoneAssumption DEF IsView, UnrevokedOf, Current

\* The same after a step.
LEMMA ViewNext ==
    ASSUME IInv'
    PROVE  IsView'
<1>1. OneTokenPerSession'
  BY DEF IInv
<1>2. ASSUME NEW s \in Calls, NEW t \in UnrevokedOf(s)'
      PROVE  UnrevokedOf(s)' = {t}
  BY <1>1, <1>2 DEF UnrevokedOf, OneTokenPerSession
<1>3. ASSUME NEW s \in Calls
      PROVE  /\ UnrevokedOf(s)' = {} => Current'[s] = None
             /\ \A t \in UnrevokedOf(s)' : Current'[s] = t
             /\ UnrevokedOf(s)' \subseteq Calls
  <2>1. \A t \in UnrevokedOf(s)' : (CHOOSE r \in UnrevokedOf(s)' : TRUE) = t
    BY <1>2
  <2>. QED  BY <2>1 DEF Current, UnrevokedOf
<1>. QED  BY <1>3, NoneAssumption DEF IsView, UnrevokedOf, Current

\* What the sessions have become is settled by the new rows.
LEMMA CurrentNext ==
    ASSUME IInv', NEW next \in [Calls -> Calls \cup {None}],
           \A s, t \in Calls :
              next[s] = t <=> Unrevoked(t)' /\ row'[t].family = s
    PROVE  Current' = next
<1>1. /\ Current' \in [Calls -> Calls \cup {None}]
      /\ \A s, t \in Calls : Current'[s] = t <=> next[s] = t
  BY ViewNext DEF IsView
<1>2. \A s \in Calls : Current'[s] = next[s]
  BY <1>1
<1>. QED  BY <1>1, <1>2

\* Rows of sessions and owners of sessions, by the tokens they began with.
LEMMA Roots ==
    ASSUME IInv, NEW t \in Calls, Issued(t)
    PROVE  /\ row[t].family \in Calls /\ Issued(row[t].family)
           /\ Owner[row[t].family] = row[t].user
BY Regroup DEF RowsAreWhole, NoRow, Issued, Owner

-----------------------------------------------------------------------------
(***************************************************************************)
(* Every step is a step of Sessions or leaves its variables alone.         *)
(***************************************************************************)
SessionsStep == [Abstract!SessionsNext]_(Abstract!sessionVars)

\* A step that revokes and mints nothing at most delivers a token.
LEMMA SameSessions ==
    ASSUME IInv, IInv',
           \A t \in Calls : /\ row'[t].user = row[t].user
                            /\ row'[t].family = row[t].family
                            /\ row'[t].revoked = row[t].revoked,
           \/ delivered' = delivered
           \/ \E c \in IssuedTokens : delivered' = delivered \cup {c}
    PROVE  SessionsStep
<1>1. Owner' = Owner /\ IssuedTokens' = IssuedTokens
  BY DEF Owner, IssuedTokens, Issued
<1>2. Current' = Current
  <2>1. /\ Current \in [Calls -> Calls \cup {None}]
        /\ \A s, t \in Calls :
              Current[s] = t <=> Unrevoked(t)' /\ row'[t].family = s
    BY View DEF IsView, Unrevoked, Issued
  <2>. QED  BY <2>1, CurrentNext
<1>3. CASE delivered' = delivered
  BY <1>1, <1>2, <1>3 DEF SessionsStep, Abstract!sessionVars
<1>4. CASE \E c \in IssuedTokens : delivered' = delivered \cup {c}
  <2>1. PICK c \in IssuedTokens : delivered' = delivered \cup {c}
    BY <1>4
  <2>2. c \in Calls
    BY DEF IssuedTokens
  <2>3. Abstract!Deliver(c)
    BY <1>1, <1>2, <2>1 DEF Abstract!Deliver
  <2>. QED  BY <2>2, <2>3 DEF SessionsStep, Abstract!SessionsNext
<1>. QED  BY <1>3, <1>4

\* A step delivers at most the token its call has minted or is minting.
LEMMA Deliveries ==
    ASSUME TypeOK, NEW c \in Calls, CallStep(c)
    PROVE  \/ delivered' = delivered
           \/ delivered' = delivered \cup {c} /\ stage[c] = "sign" /\ row' = row
           \/ delivered' = delivered \cup {c} /\ stage[c] = "mint"
<1>1. CASE Arrive(c)
  BY <1>1 DEF Arrive, Register, Login, Refresh, Logout, Begin
<1>2. CASE Serve(c)
  BY <1>2
  DEF Serve, CreateUser, Lookup, IssueToken, SignAndDeliver, FindValid,
      FindRevoked, RevokeAllSelects, RevokeAllApplies, FindUser, SignNext,
      RotateRevokes, RotateCommits, Authenticate, Revoke
<1>3. CASE Break(c)
  BY <1>3 DEF Break, CallFails, SigningFails
<1>. QED  BY <1>1, <1>2, <1>3 DEF CallStep

\* The first token of a session.
LEMMA InsertMaps ==
    ASSUME IInv, IInv', NEW c \in Calls, CallStep(c), Inserts(c)
    PROVE  Abstract!Open(c)
<1>0. TypeOK /\ PerCall(c) /\ IsView
  BY Regroup, View
<1>1. ~ Issued(c) /\ call[c].user \in Users /\ delivered' = delivered
  BY <1>0, Deliveries DEF Inserts, PerCall
<1>2. /\ row'[c].user = call[c].user /\ row'[c].family = c /\ ~ row'[c].revoked
      /\ \A t \in Calls \ {c} : row'[t] = row[t]
  <2>1. row'[c] = NewRow(call[c].user, c) /\ \A t \in Calls \ {c} : row'[t] = row[t]
    BY <1>0, CreatedType DEF Inserts
  <2>. QED  BY <2>1 DEF NewRow
<1>3. Owner' = [Owner EXCEPT ![c] = call[c].user]
  BY <1>2 DEF Owner
<1>4. IssuedTokens' = IssuedTokens \cup {c}
  BY <1>1, <1>2, NoneAssumption DEF IssuedTokens, Issued
<1>5. Current' = [Current EXCEPT ![c] = c]
  <2>. DEFINE next == [Current EXCEPT ![c] = c]
  <2>1. next \in [Calls -> Calls \cup {None}]
    BY <1>0 DEF IsView
  <2>2. ASSUME NEW s \in Calls, NEW t \in Calls
        PROVE  next[s] = t <=> Unrevoked(t)' /\ row'[t].family = s
    <3>1. CASE t = c
      <4>1. Unrevoked(t)' /\ row'[t].family = c
        BY <1>1, <1>2, <3>1, NoneAssumption DEF Unrevoked, Issued
      <4>2. Current[s] # c
        BY <1>0, <1>1 DEF IsView, Unrevoked
      <4>. QED  BY <1>0, <3>1, <4>1, <4>2 DEF IsView
    <3>2. CASE t # c
      <4>1. Current[s] = t <=> Unrevoked(t)' /\ row'[t].family = s
        BY <1>0, <1>2, <3>2 DEF IsView, Unrevoked, Issued
      <4>2. Unrevoked(t)' => row'[t].family # c
        BY <1>1, <1>2, <3>2, Roots DEF Unrevoked, Issued
      <4>. QED  BY <1>0, <3>2, <4>1, <4>2 DEF IsView
    <3>. QED  BY <3>1, <3>2
  <2>. QED  BY <2>1, <2>2, CurrentNext
<1>. QED  BY <1>1, <1>3, <1>4, <1>5 DEF Abstract!Open, IssuedTokens

\* A rotation moves the session of the token it replaces.
LEMMA ReplaceMaps ==
    ASSUME IInv, IInv', NEW c \in Calls, CallStep(c), Replaces(c)
    PROVE  \E s \in Calls : Abstract!Advance(s, c)
<1>0. TypeOK /\ PerCall(c) /\ IsView /\ LocksHeld /\ RowsAreWhole
  BY Regroup, View
<1>1. PICK old \in Calls \ {c} :
          old = call[c].token /\ Unrevoked(old) /\ ~ Issued(c) /\ row[c] = NoRow
  BY <1>0, NoneAssumption
  DEF Replaces, PerCall, LocksHeld, Unrevoked, RowsAreWhole
<1>. DEFINE s == row[old].family
<1>2. s \in Calls \ {c} /\ row[old].user \in Users
  BY <1>0, <1>1, Roots, TypeFacts DEF Unrevoked, Issued, RowType
<1>3. Current[s] = old /\ old # None
  BY <1>0, <1>1, <1>2, NoneAssumption DEF IsView
<1>4. /\ row'[c].user = row[old].user /\ row'[c].family = s /\ ~ row'[c].revoked
      /\ \A t \in Calls \ {c} :
            /\ row'[t].user = row[t].user /\ row'[t].family = row[t].family
            /\ row'[t].revoked <=> (row[t].revoked \/ t = old)
  <2>1. row'[c] = NewRow(row[old].user, s)
    BY <1>0, <1>1, RotatedType DEF Replaces
  <2>. QED  BY <1>0, <1>1, <2>1, RotatedType DEF Replaces, NewRow
<1>. HIDE DEF s
<1>5. Owner' = Owner
  BY <1>1, <1>2, <1>4, NoneAssumption DEF Owner, NoRow
<1>6. IssuedTokens' = IssuedTokens \cup {c}
  BY <1>2, <1>4, NoneAssumption DEF IssuedTokens, Issued
<1>7. Current' = [Current EXCEPT ![s] = c]
  <2>. DEFINE next == [Current EXCEPT ![s] = c]
  <2>1. next \in [Calls -> Calls \cup {None}]
    BY <1>0 DEF IsView
  <2>2. ASSUME NEW f \in Calls, NEW t \in Calls
        PROVE  next[f] = t <=> Unrevoked(t)' /\ row'[t].family = f
    <3>1. CASE t = c
      <4>1. Unrevoked(t)' /\ row'[t].family = s
        BY <1>2, <1>4, <3>1, NoneAssumption DEF Unrevoked, Issued
      <4>2. Current[f] # c
        BY <1>0, <1>1 DEF IsView, Unrevoked
      <4>. QED  BY <1>0, <1>2, <3>1, <4>1, <4>2 DEF IsView
    <3>2. CASE t = old
      <4>1. ~ Unrevoked(t)'
        BY <1>4, <3>2 DEF Unrevoked
      <4>2. Current[f] = t => f = s
        BY <1>0, <3>2 DEF IsView, s
      <4>. QED  BY <1>0, <1>1, <1>2, <3>2, <4>1, <4>2 DEF IsView
    <3>3. CASE t \notin {c, old}
      <4>1. Current[f] = t <=> Unrevoked(t)' /\ row'[t].family = f
        BY <1>0, <1>4, <3>3 DEF IsView, Unrevoked, Issued
      <4>. QED  BY <1>0, <1>2, <1>3, <3>3, <4>1 DEF IsView
    <3>. QED  BY <3>1, <3>2, <3>3
  <2>. QED  BY <2>1, <2>2, CurrentNext
<1>8. delivered' \in {delivered, delivered \cup {c}}
  BY <1>0, Deliveries
<1>. QED
  BY <1>1, <1>2, <1>3, <1>5, <1>6, <1>7, <1>8
  DEF Abstract!Advance, Abstract!Live, IssuedTokens

\* A revocation ends sessions of one user.
LEMMA RevokeMaps ==
    ASSUME IInv, IInv', NEW c \in Calls, CallStep(c), RevokesUnlocked(c)
    PROVE  \E S \in SUBSET Abstract!Live : Abstract!Close(S)
<1>0. TypeOK /\ IsView
  BY Regroup, View
<1>1. PICK tokens \in SUBSET Calls :
          /\ row' = Revoked(tokens)
          /\ \A t \in tokens : row[t].user = call[c].user
  BY DEF RevokesUnlocked
<1>2. \A t \in Calls :
          /\ row'[t].user = row[t].user /\ row'[t].family = row[t].family
          /\ row'[t].revoked <=> (row[t].revoked \/ t \in tokens)
  BY <1>0, <1>1, RevokedType
<1>3. Owner' = Owner /\ IssuedTokens' = IssuedTokens /\ delivered' = delivered
  BY <1>0, <1>2, Deliveries DEF Owner, IssuedTokens, Issued, RevokesUnlocked
<1>. DEFINE S == {s \in Calls : Current[s] \in tokens}
            next == [s \in Calls |-> IF s \in S THEN None ELSE Current[s]]
<1>4. S \subseteq Abstract!Live
  BY NoneAssumption DEF Abstract!Live
<1>5. ASSUME NEW s \in S
      PROVE  Owner[s] = call[c].user
  <2>1. PICK t \in tokens : Current[s] = t
    OBVIOUS
  <2>2. Unrevoked(t) /\ row[t].family = s
    BY <1>0, <2>1 DEF IsView
  <2>. QED  BY <1>1, <2>2, Roots DEF Unrevoked
<1>6. Current' = next
  <2>1. next \in [Calls -> Calls \cup {None}]
    BY <1>0 DEF IsView
  <2>2. ASSUME NEW s \in Calls, NEW t \in Calls
        PROVE  next[s] = t <=> Unrevoked(t)' /\ row'[t].family = s
    <3>1. Unrevoked(t)' /\ row'[t].family = s <=> Current[s] = t /\ t \notin tokens
      BY <1>0, <1>2 DEF IsView, Unrevoked, Issued
    <3>. QED  BY <3>1, NoneAssumption
  <2>. HIDE DEF next
  <2>. QED  BY <2>1, <2>2, CurrentNext
<1>7. Abstract!Close(S)
  BY <1>3, <1>5, <1>6 DEF Abstract!Close
<1>. QED  BY <1>4, <1>7

LEMMA CallMaps ==
    ASSUME IInv, IInv', NEW c \in Calls, CallStep(c)
    PROVE  SessionsStep
<1>0. TypeOK /\ PerCall(c)
  BY Regroup
<1>1. CASE row' = row
  <2>1. delivered' = delivered \/ delivered' = delivered \cup {c}
    BY <1>0, Deliveries
  <2>2. \A t \in delivered' : t \in Calls /\ Issued(t)'
    BY DEF IInv
  <2>3. delivered' # delivered => c \in IssuedTokens
    BY <1>1, <2>1, <2>2 DEF IssuedTokens, Issued
  <2>. QED  BY <1>1, <2>1, <2>3, SameSessions
<1>2. CASE Inserts(c)
  BY <1>2, InsertMaps DEF SessionsStep, Abstract!SessionsNext
<1>3. CASE Replaces(c)
  BY <1>3, ReplaceMaps DEF SessionsStep, Abstract!SessionsNext
<1>4. CASE RevokesUnlocked(c)
  BY <1>4, RevokeMaps DEF SessionsStep, Abstract!SessionsNext
<1>. QED  BY <1>0, <1>1, <1>2, <1>3, <1>4, RowCases

\* Administration and time move no session.
LEMMA EnvironmentMaps ==
    ASSUME IInv, IInv', Tick \/ \E u \in Users : Deactivate(u) \/ Reactivate(u)
    PROVE  SessionsStep
<1>1. delivered' = delivered
  BY DEF Tick, Deactivate, Reactivate
<1>. QED  BY <1>1, EnvironmentRows, SameSessions

LEMMA StepMaps ==
    ASSUME IInv, [Next]_vars
    PROVE  SessionsStep
<1>1. IInv'
  BY InvNext
<1>2. CASE UNCHANGED vars
  BY <1>1, <1>2, SameSessions DEF vars
<1>3. CASE \E c \in Calls : CallStep(c)
  BY <1>1, <1>3, CallMaps
<1>4. CASE Tick \/ \E u \in Users : Deactivate(u) \/ Reactivate(u)
  BY <1>1, <1>4, EnvironmentMaps
<1>. QED  BY <1>2, <1>3, <1>4 DEF Next, CallStep

\* Nothing Sessions may do gives an ended session a token.
LEMMA EndedStep ==
    ASSUME IInv, SessionsStep, NEW s \in Calls, Issued(s), Current[s] = None
    PROVE  Current'[s] = None
<1>1. Current \in [Calls -> Calls \cup {None}] /\ s \in IssuedTokens
  BY View DEF IsView, IssuedTokens
<1>2. CASE UNCHANGED Abstract!sessionVars
  BY <1>2 DEF Abstract!sessionVars
<1>3. ASSUME NEW r \in Calls, Abstract!Open(r) \/ Abstract!Deliver(r)
      PROVE  Current'[s] = None
  BY <1>1, <1>3 DEF Abstract!Open, Abstract!Deliver
<1>4. ASSUME NEW r \in Calls, NEW t \in Calls, Abstract!Advance(r, t)
      PROVE  Current'[s] = None
  BY <1>1, <1>4 DEF Abstract!Advance, Abstract!Live
<1>5. ASSUME NEW S \in SUBSET Abstract!Live, Abstract!Close(S)
      PROVE  Current'[s] = None
  BY <1>1, <1>5 DEF Abstract!Close
<1>. QED  BY <1>2, <1>3, <1>4, <1>5 DEF SessionsStep, Abstract!SessionsNext

\* Registration, login, rotation, logout and reuse detection, one statement at
\* a time and with faults, are sessions that are opened, advanced by one token
\* at a time and closed for good.
THEOREM Refinement == Spec => ImplementsSessions
<1>1. Init => Abstract!SessionsInit
  <2>1. Init => /\ Owner = [s \in Calls |-> None] /\ IssuedTokens = {}
                /\ \A s \in Calls : UnrevokedOf(s) = {}
    BY NoneAssumption
    DEF Init, NoRow, Owner, IssuedTokens, UnrevokedOf, Unrevoked, Issued
  <2>2. Init => Current = [s \in Calls |-> None]
    BY <2>1 DEF Current
  <2>. QED  BY <2>1, <2>2 DEF Init, Abstract!SessionsInit
<1>2. IInv /\ [Next]_vars => [Abstract!SessionsNext]_(Abstract!sessionVars)
  BY StepMaps DEF SessionsStep
<1>. QED
  BY <1>1, <1>2, Invariance, PTL DEF Spec, ImplementsSessions, Abstract!Spec

\* A session that logout or a reuse has ended never gets a token again, also
\* from a refresh that had read its token before: no step of Sessions revives
\* a session, and every step of the code is one of those.
THEOREM EndedStaysEnded == Spec => EndedForGood
<1>1. IInv /\ [Next]_vars =>
          [\A s \in Calls : Issued(s) /\ Current[s] = None => Current'[s] = None]_vars
  BY StepMaps, EndedStep
<1>. QED  BY <1>1, Invariance, PTL DEF Spec, EndedForGood
=============================================================================
