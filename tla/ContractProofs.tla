--------------------------- MODULE ContractProofs ---------------------------
(***************************************************************************)
(* What the two abstract specifications promise, from their own steps: one *)
(* runner per key and faithful replays for IdempotencyContract, tokens that*)
(* are spent for good for Sessions.                                        *)
(***************************************************************************)
EXTENDS IdempotencyContract, TLAPS

CONSTANTS Users, Calls
VARIABLES owner, current, issued, delivered

Tokens == INSTANCE Sessions

Kinds == {"none", "passed", "bad_request", "error", "conflict", "replay",
          "in_progress", "unique_violation", "lost", "ok", "failed"}

\* The shape of the contract's variables, as far as the promises need it.
ContractType ==
    /\ req \in [Requests -> [identity : Identities, hash : Hashes]]
    /\ claims \subseteq [by : Requests, done : BOOLEAN]
    /\ running \subseteq Requests
    /\ answer \in [Requests -> [kind : Kinds, from : Requests \cup {None}]]

ContractInv == ContractType /\ RunnersHoldTheClaim /\ RepliesAreOfEquals

LEMMA TypeStep ==
    ASSUME ContractType, ContractNext
    PROVE  ContractType'
<1>0. ASSUME NEW r \in Requests, NEW kind \in Kinds, NEW from \in Requests \cup {None},
             Tell(r, kind, from)
      PROVE  answer' \in [Requests -> [kind : Kinds, from : Requests \cup {None}]]
  BY <1>0 DEF ContractType, Tell
<1>1. ASSUME NEW r \in Requests,
             Bypass(r) \/ Claim(r) \/ ClaimUnheard(r) \/ Fail(r) \/ Again(r)
      PROVE  ContractType'
  <2>1. answer' \in [Requests -> [kind : Kinds, from : Requests \cup {None}]]
    <3>1. CASE answer' = answer
      BY <3>1 DEF ContractType
    <3>2. \/ Tell(r, "passed", r) \/ Tell(r, "bad_request", None)
          \/ Tell(r, "error", None) \/ Tell(r, "unique_violation", None)
          \/ Tell(r, "lost", None) \/ Tell(r, "none", None) \/ answer' = answer
      BY <1>1 DEF Bypass, Claim, ClaimUnheard, Fail, Again
    <3>. QED  BY <1>0, <3>1, <3>2 DEF Kinds
  <2>2. /\ req' = req /\ running' \subseteq running \cup {r}
        /\ claims' = claims \/ claims' = claims \cup {[by |-> r, done |-> FALSE]}
    BY <1>1 DEF Bypass, Claim, ClaimUnheard, Fail, Again
  <2>3. claims' \subseteq [by : Requests, done : BOOLEAN]
    <3>1. [by |-> r, done |-> FALSE] \in [by : Requests, done : BOOLEAN]
      OBVIOUS
    <3>. QED  BY <2>2, <3>1 DEF ContractType
  <2>4. req' = req /\ running' \subseteq Requests
    BY <2>2 DEF ContractType
  <2>. QED  BY <2>1, <2>3, <2>4 DEF ContractType
<1>2. ASSUME NEW r \in Requests, Refuse(r)
      PROVE  ContractType'
  <2>1. PICK c \in claims :
            \/ Tell(r, "conflict", None) \/ Tell(r, "in_progress", None)
            \/ Tell(r, "replay", c.by)
    BY <1>2 DEF Refuse, Claimed
  <2>2. c.by \in Requests
    BY DEF ContractType
  <2>3. answer' \in [Requests -> [kind : Kinds, from : Requests \cup {None}]]
    BY <1>0, <2>1, <2>2 DEF Kinds
  <2>. QED  BY <1>2, <2>3 DEF ContractType, Refuse
<1>3. ASSUME NEW r \in Requests, Finish(r) \/ FinishUnheard(r) \/ Abandon(r) \/ Orphan(r)
      PROVE  ContractType'
  <2>1. answer' \in [Requests -> [kind : Kinds, from : Requests \cup {None}]]
    <3>1. CASE answer' = answer
      BY <3>1 DEF ContractType
    <3>2. \/ Tell(r, "ok", r) \/ Tell(r, "failed", None) \/ Tell(r, "lost", None)
          \/ answer' = answer
      BY <1>3 DEF Finish, FinishUnheard, Abandon, Orphan
    <3>. QED  BY <1>0, <3>1, <3>2 DEF Kinds
  <2>2. /\ req' = req /\ running' \subseteq running
        /\ claims' \subseteq claims \cup {[by |-> r, done |-> TRUE]}
    BY <1>3 DEF Finish, FinishUnheard, Finalize, Abandon, Orphan
  <2>3. claims' \subseteq [by : Requests, done : BOOLEAN]
    <3>1. [by |-> r, done |-> TRUE] \in [by : Requests, done : BOOLEAN]
      OBVIOUS
    <3>. QED  BY <2>2, <3>1 DEF ContractType
  <2>4. req' = req /\ running' \subseteq Requests
    BY <2>2 DEF ContractType
  <2>. QED  BY <2>1, <2>3, <2>4 DEF ContractType
<1>4. CASE Lapse
  BY <1>4 DEF ContractType, Lapse
<1>. QED  BY <1>1, <1>2, <1>3, <1>4 DEF ContractNext

\* A claim is only taken where there is none, changed where it is one's own,
\* and given up by somebody who stops running.
LEMMA ClaimStep ==
    ASSUME ContractType, RunnersHoldTheClaim, ContractNext
    PROVE  RunnersHoldTheClaim'
<1>1. ASSUME NEW r \in Requests, Bypass(r) \/ Refuse(r) \/ Fail(r) \/ Again(r)
      PROVE  RunnersHoldTheClaim'
  BY <1>1 DEF RunnersHoldTheClaim, Bypass, Refuse, Fail, Again
<1>2. ASSUME NEW r \in Requests, Claim(r) \/ ClaimUnheard(r)
      PROVE  RunnersHoldTheClaim'
  <2>1. /\ claims' = claims \cup {[by |-> r, done |-> FALSE]}
        /\ req' = req /\ running' \subseteq running \cup {r}
        /\ \A c \in claims : req[c.by].identity # req[r].identity
    BY <1>2 DEF Claim, ClaimUnheard, Available, Claimed
  <2>2. \A c \in claims : c.by # r
    BY <2>1
  <2>3. \A c \in claims' : c \in claims \/ (c = [by |-> r, done |-> FALSE] /\ c.by = r)
    BY <2>1
  <2>4. \A c, d \in claims' : req'[c.by].identity = req'[d.by].identity => c = d
    BY <2>1, <2>3 DEF RunnersHoldTheClaim
  <2>5. \A q \in running' : \E c \in claims' : c.by = q
    <3>1. [by |-> r, done |-> FALSE] \in claims' /\ claims \subseteq claims'
      BY <2>1
    <3>. QED  BY <2>1, <3>1 DEF RunnersHoldTheClaim
  <2>. QED  BY <2>4, <2>5 DEF RunnersHoldTheClaim
<1>3. ASSUME NEW r \in Requests, Finish(r) \/ FinishUnheard(r)
      PROVE  RunnersHoldTheClaim'
  <2>1. /\ r \in running /\ req' = req /\ running' \subseteq running
        /\ claims' = (claims \ {[by |-> r, done |-> FALSE]})
                         \cup {[by |-> r, done |-> TRUE]}
    BY <1>3 DEF Finish, FinishUnheard, Finalize
  <2>2. PICK own \in claims : own.by = r
    BY <2>1 DEF RunnersHoldTheClaim
  <2>3. claims' = (claims \ {own}) \cup {[by |-> r, done |-> TRUE]}
    <3>1. own = [by |-> r, done |-> own.done] /\ own.done \in BOOLEAN
      BY <2>2 DEF ContractType
    <3>2. CASE own.done = FALSE
      BY <2>1, <3>1, <3>2
    <3>3. CASE own.done = TRUE
      <4>1. own # [by |-> r, done |-> FALSE]
        BY <3>3
      <4>2. [by |-> r, done |-> FALSE] \notin claims
        BY <2>2, <4>1 DEF RunnersHoldTheClaim
      <4>. QED  BY <2>1, <3>1, <3>3, <4>2
    <3>. QED  BY <3>1, <3>2, <3>3
  <2>4. \A c \in claims \ {own} : req[c.by].identity # req[r].identity
    BY <2>2 DEF RunnersHoldTheClaim
  <2>. DEFINE new == [by |-> r, done |-> TRUE]
  <2>5. new.by = r /\ \A c \in claims' : c = new \/ c \in claims \ {own}
    BY <2>3
  <2>. HIDE DEF new
  <2>6. \A c, d \in claims' : req'[c.by].identity = req'[d.by].identity => c = d
    BY <2>1, <2>4, <2>5 DEF RunnersHoldTheClaim
  <2>7. \A q \in running' : \E c \in claims' : c.by = q
    <3>1. new \in claims' /\ \A c \in claims : c.by # r => c \in claims'
      BY <2>2, <2>3 DEF new
    <3>. QED  BY <2>1, <2>5, <3>1 DEF RunnersHoldTheClaim
  <2>. QED  BY <2>6, <2>7 DEF RunnersHoldTheClaim
<1>4. ASSUME NEW r \in Requests, Abandon(r)
      PROVE  RunnersHoldTheClaim'
  BY <1>4 DEF RunnersHoldTheClaim, Abandon
<1>5. ASSUME NEW r \in Requests, Orphan(r)
      PROVE  RunnersHoldTheClaim'
  BY <1>5 DEF RunnersHoldTheClaim, Orphan
<1>6. CASE Lapse
  BY <1>6 DEF RunnersHoldTheClaim, Lapse
<1>. QED  BY <1>1, <1>2, <1>3, <1>4, <1>5, <1>6 DEF ContractNext

LEMMA ReplyStep ==
    ASSUME ContractType, RepliesAreOfEquals, ContractNext
    PROVE  RepliesAreOfEquals'
<1>1. req' = req
  BY DEF ContractNext, Bypass, Claim, ClaimUnheard, Refuse, Fail, Again, Finish,
         FinishUnheard, Abandon, Orphan, Lapse
<1>2. ASSUME NEW r \in Requests, Refuse(r)
      PROVE  RepliesAreOfEquals'
  <2>1. PICK c \in claims :
            \/ Tell(r, "conflict", None) \/ Tell(r, "in_progress", None)
            \/ req[c.by] = req[r] /\ Tell(r, "replay", c.by)
    BY <1>2 DEF Refuse, Claimed
  <2>2. c.by \in Requests
    BY DEF ContractType
  <2>. QED  BY <1>1, <2>1, <2>2 DEF Tell, RepliesAreOfEquals, ContractType
<1>3. ASSUME NEW r \in Requests, NEW kind, NEW from, kind # "replay", Tell(r, kind, from)
      PROVE  RepliesAreOfEquals'
  BY <1>1, <1>3 DEF Tell, RepliesAreOfEquals, ContractType
<1>4. CASE answer' = answer
  BY <1>1, <1>4 DEF RepliesAreOfEquals
<1>5. ASSUME NEW r \in Requests,
             Bypass(r) \/ Claim(r) \/ ClaimUnheard(r) \/ Fail(r) \/ Again(r)
      PROVE  RepliesAreOfEquals'
  <2>1. \/ Tell(r, "passed", r) \/ Tell(r, "bad_request", None)
        \/ Tell(r, "error", None) \/ Tell(r, "unique_violation", None)
        \/ Tell(r, "lost", None) \/ Tell(r, "none", None) \/ answer' = answer
    BY <1>5 DEF Bypass, Claim, ClaimUnheard, Fail, Again
  <2>. QED  BY <1>3, <1>4, <2>1
<1>6. ASSUME NEW r \in Requests, Finish(r) \/ FinishUnheard(r) \/ Abandon(r) \/ Orphan(r)
      PROVE  RepliesAreOfEquals'
  <2>1. \/ Tell(r, "ok", r) \/ Tell(r, "failed", None) \/ Tell(r, "lost", None)
        \/ answer' = answer
    BY <1>6 DEF Finish, FinishUnheard, Abandon, Orphan
  <2>. QED  BY <1>3, <1>4, <2>1
<1>. QED  BY <1>2, <1>4, <1>5, <1>6 DEF ContractNext, Lapse

LEMMA ContractInvariance == Spec => []ContractInv
<1>1. ContractInit => ContractInv
  <2>1. ContractInit => ContractType
    BY DEF ContractInit, ContractType, Kinds
  <2>2. ContractInit => RunnersHoldTheClaim /\ RepliesAreOfEquals
    BY DEF ContractInit, RunnersHoldTheClaim, RepliesAreOfEquals
  <2>. QED  BY <2>1, <2>2 DEF ContractInv
<1>2. ContractInv /\ [ContractNext]_contractVars => ContractInv'
  <2>1. ContractInv /\ ContractNext => ContractInv'
    BY TypeStep, ClaimStep, ReplyStep DEF ContractInv
  <2>2. ContractInv /\ UNCHANGED contractVars => ContractInv'
    BY DEF contractVars, ContractInv, ContractType, RunnersHoldTheClaim,
           RepliesAreOfEquals
  <2>. QED  BY <2>1, <2>2
<1>. QED  BY <1>1, <1>2, PTL DEF Spec

\* The contract lets at most one handler run per identity.
THEOREM ContractExcludes == Spec => []OneRunner
<1>1. ContractInv => OneRunner
  BY DEF ContractInv, RunnersHoldTheClaim, OneRunner
<1>. QED  BY <1>1, ContractInvariance, PTL

\* The contract replays a response only to a request equal to its own.
THEOREM ContractReplays == Spec => []RepliesAreOfEquals
<1>1. ContractInv => RepliesAreOfEquals
  BY DEF ContractInv
<1>. QED  BY <1>1, ContractInvariance, PTL

\* Under the contract no finalized response is lost while its request runs.
THEOREM ContractKeeps == Spec => FinalizedIsKept
<1>1. ASSUME ContractInv, ContractNext, NEW c \in claims, c.done
      PROVE  c \in claims' \/ c.by \notin running
  <2>1. \A r \in Requests : c # [by |-> r, done |-> FALSE]
    BY <1>1
  <2>. QED
    BY <1>1, <2>1
    DEF ContractNext, Bypass, Claim, ClaimUnheard, Refuse, Fail, Again, Finish,
        FinishUnheard, Finalize, Abandon, Orphan, Lapse
<1>2. ContractInv /\ [ContractNext]_contractVars =>
          [\A c \in claims : c.done => c \in claims' \/ c.by \notin running]_contractVars
  BY <1>1
<1>. QED  BY <1>2, ContractInvariance, PTL DEF Spec, FinalizedIsKept

-----------------------------------------------------------------------------
(***************************************************************************)
(* Sessions.                                                               *)
(***************************************************************************)

\* A current token has been issued, to the owner of its one session.
TokensInv ==
    /\ owner \in [Calls -> Users \cup {None}]
    /\ current \in [Calls -> Calls \cup {None}]
    /\ issued \subseteq Calls /\ \A s \in Tokens!Live : current[s] \in issued
    /\ Tokens!TokenOfOneSession

LEMMA TokensStep ==
    ASSUME None \notin Calls, TokensInv, Tokens!SessionsNext
    PROVE  TokensInv' /\ Tokens!Spent \subseteq Tokens!Spent'
<1>. USE DEF TokensInv, Tokens!TokenOfOneSession, Tokens!Live, Tokens!Spent
<1>1. ASSUME NEW s \in Calls, Tokens!Open(s)
      PROVE  TokensInv' /\ Tokens!Spent \subseteq Tokens!Spent'
  BY <1>1 DEF Tokens!Open
<1>2. ASSUME NEW s \in Calls, Tokens!Deliver(s)
      PROVE  TokensInv' /\ Tokens!Spent \subseteq Tokens!Spent'
  BY <1>2 DEF Tokens!Deliver
<1>3. ASSUME NEW s \in Calls, NEW t \in Calls, Tokens!Advance(s, t)
      PROVE  TokensInv' /\ Tokens!Spent \subseteq Tokens!Spent'
  BY <1>3 DEF Tokens!Advance
<1>4. ASSUME NEW S \in SUBSET Tokens!Live, Tokens!Close(S)
      PROVE  TokensInv' /\ Tokens!Spent \subseteq Tokens!Spent'
  <2>1. /\ owner' = owner /\ issued' = issued
        /\ current' \in [Calls -> Calls \cup {None}]
        /\ \A s \in Calls : current'[s] \in {current[s], None}
    BY <1>4 DEF Tokens!Close
  <2>. QED  BY <2>1
<1>. QED  BY <1>1, <1>2, <1>3, <1>4 DEF Tokens!SessionsNext

LEMMA TokensInvariance ==
    ASSUME None \notin Calls
    PROVE  Tokens!Spec => []TokensInv
<1>1. Tokens!SessionsInit => TokensInv
  BY DEF Tokens!SessionsInit, TokensInv, Tokens!TokenOfOneSession, Tokens!Live
<1>2. TokensInv /\ [Tokens!SessionsNext]_(Tokens!sessionVars) => TokensInv'
  <2>1. TokensInv /\ UNCHANGED Tokens!sessionVars => TokensInv'
    BY DEF Tokens!sessionVars, TokensInv, Tokens!TokenOfOneSession, Tokens!Live
  <2>. QED  BY <2>1, TokensStep
<1>. QED  BY <1>1, <1>2, PTL DEF Tokens!Spec

\* A token is the current one of one session, which belongs to a user.
THEOREM SessionsAreDisjoint ==
    ASSUME None \notin Calls
    PROVE  Tokens!Spec => []Tokens!TokenOfOneSession
<1>1. TokensInv => Tokens!TokenOfOneSession
  BY DEF TokensInv
<1>. QED  BY <1>1, TokensInvariance, PTL

\* A token once exchanged or revoked is never current again.
THEOREM SpentStaysSpent ==
    ASSUME None \notin Calls
    PROVE  Tokens!Spec => Tokens!SpentForGood
<1>1. TokensInv /\ [Tokens!SessionsNext]_(Tokens!sessionVars) =>
          [Tokens!Spent \subseteq Tokens!Spent']_(Tokens!sessionVars)
  BY TokensStep
<1>. QED  BY <1>1, TokensInvariance, PTL DEF Tokens!Spec, Tokens!SpentForGood
=============================================================================
