--------------------------- MODULE RefreshTokens ---------------------------
(***************************************************************************)
(* Registration, login, refresh-token rotation and logout: AuthService over*)
(* the Prisma/Postgres token storage, one database statement at a time.    *)
(*                                                                         *)
(* A call is one HTTP request to the auth controller.  It mints at most one*)
(* refresh token, so the token a call mints, and its row, are named by the *)
(* call.  Statements run at READ COMMITTED: a row changed by an open       *)
(* transaction is locked and read as it was, and an UPDATE that wants it   *)
(* waits, then tests its condition again on the rows it had selected.      *)
(* Clocks are kept relative: `left` is what remains until `expiresAt`.     *)
(***************************************************************************)
EXTENDS Integers

CONSTANTS
    Users,      \* accounts, registered or not
    Calls,      \* HTTP requests to the auth controller
    TTL,        \* lifetime of a refresh token, in ticks
    MaxFaults,  \* bound: failed statements, failed signatures and crashes
    None        \* no user, no call

ASSUME TTLAssumption == TTL \in Nat
ASSUME FaultsAssumption == MaxFaults \in Nat
ASSUME NoneAssumption == None \notin Users /\ None \notin Calls

VARIABLES
    users,      \* each account: absent, active or inactive
    row,        \* the rows of RefreshToken, by the call that minted them
    lock,       \* the call whose open transaction has locked a row
    call,       \* what each call was asked, and what it has read so far
    stage,      \* where each call stands
    answer,     \* how each call ended
    delivered,  \* tokens a client has received
    seenActive, \* history: calls during which their user was active
    faults      \* faults so far

vars == <<users, row, lock, call, stage, answer, delivered, seenActive, faults>>

Stages == {"idle", "createUser", "lookup", "issue", "sign",
           "findValid", "findRevoked", "revokeAll", "revoking",
           "findUser", "signNext", "rotate", "mint",
           "authenticate", "revoke", "answered"}

Answers == {"none", "ok", "refused", "reuse", "error", "sign_error"}

\* `family` is history: the token the session began with.
NoRow == [user |-> None, family |-> None, revoked |-> FALSE, left |-> 0]

\* `earlier` is history: the calls that were over when this one began.
NoCall == [op |-> "none", user |-> None, token |-> None,
           targets |-> {}, earlier |-> {}]

TypeOK ==
    /\ users \in [Users -> {"absent", "active", "inactive"}]
    /\ row \in [Calls -> [user : Users \cup {None}, family : Calls \cup {None},
                          revoked : BOOLEAN, left : 0..TTL]]
    /\ lock \in [Calls -> Calls \cup {None}]
    /\ call \in [Calls -> [op : {"none", "register", "login", "refresh", "logout"},
                           user : Users \cup {None}, token : Calls \cup {None},
                           targets : SUBSET Calls, earlier : SUBSET Calls]]
    /\ stage \in [Calls -> Stages]
    /\ answer \in [Calls -> Answers]
    /\ delivered \subseteq Calls
    /\ seenActive \subseteq Calls
    /\ faults \in 0..MaxFaults

Init ==
    /\ users = [u \in Users |-> "absent"]
    /\ row = [t \in Calls |-> NoRow]
    /\ lock = [t \in Calls |-> None]
    /\ call = [c \in Calls |-> NoCall]
    /\ stage = [c \in Calls |-> "idle"]
    /\ answer = [c \in Calls |-> "none"]
    /\ delivered = {}
    /\ seenActive = {}
    /\ faults = 0

-----------------------------------------------------------------------------
Issued(t) == row[t].user # None

\* Committed, unrevoked and unexpired: what findValid and rotate look for.
Valid(t) == Issued(t) /\ ~ row[t].revoked /\ row[t].left > 0

\* What findRevoked looks for.
RevokedUnexpired(t) == row[t].revoked /\ row[t].left > 0

Unlocked(t) == lock[t] = None

TokensOf(u) == {t \in Calls : Issued(t) /\ row[t].user = u}

\* Variant: the lifetime is multiplied by a thousand once too often.
NewRow_InMilliseconds(u, f) ==
    [user |-> u, family |-> f, revoked |-> FALSE, left |-> TTL * 1000]

\* A row as it is inserted.
NewRow(u, f) == [user |-> u, family |-> f, revoked |-> FALSE, left |-> TTL]

\* The first token of a session.
Created(c) == [row EXCEPT ![c] = NewRow(call[c].user, c)]

Revoked(tokens) ==
    [t \in Calls |-> IF t \in tokens THEN [row[t] EXCEPT !.revoked = TRUE]
                     ELSE row[t]]

\* The committed effect of rotate(): the old token revoked, its successor in.
Rotated(c) ==
    LET t == call[c].token
    IN  [Revoked({t}) EXCEPT ![c] = NewRow(row[t].user, row[t].family)]

\* Variant: logout does not compare the owner.
RevokeTargets_AnyOwner(c) == {t \in {call[c].token} : ~ row[t].revoked}

\* The rows revoke() updates: the presented token, if it is the caller's.
RevokeTargets(c) ==
    {t \in {call[c].token} : row[t].user = call[c].user /\ ~ row[t].revoked}

Goto(c, s) == stage' = [stage EXCEPT ![c] = s]

End(c, result) ==
    /\ Goto(c, "answered")
    /\ answer' = [answer EXCEPT ![c] = result]

InFlight(c) == stage[c] \notin {"idle", "answered"}

Over == {c \in Calls : stage[c] = "answered"}

-----------------------------------------------------------------------------
(***************************************************************************)
(* Calls arrive.  Clients present tokens they have received.               *)
(***************************************************************************)
Begin(c, op, u, t, s) ==
    /\ stage[c] = "idle"
    /\ call' = [call EXCEPT ![c] = [NoCall EXCEPT !.op = op, !.user = u,
                                    !.token = t, !.earlier = Over]]
    /\ Goto(c, s)
    /\ UNCHANGED <<users, row, lock, answer, delivered, seenActive, faults>>

Register(c) == \E u \in Users : Begin(c, "register", u, None, "createUser")

Login(c) == \E u \in Users : Begin(c, "login", u, None, "lookup")

Refresh(c) == \E t \in delivered : Begin(c, "refresh", None, t, "findValid")

\* The bearer of an access token of u, with any refresh token in the body.
Logout(c) ==
    \E t \in delivered, u \in Users :
        /\ users[u] # "absent"
        /\ Begin(c, "logout", u, t, "authenticate")

(***************************************************************************)
(* register(), login() and issueTokenPair().                               *)
(***************************************************************************)
CreateUser(c) ==
    /\ stage[c] = "createUser"
    /\ LET u == call[c].user
       IN  \/ /\ users[u] = "absent"
              /\ users' = [users EXCEPT ![u] = "active"]
              /\ seenActive' = seenActive \cup {c}
              /\ Goto(c, "issue")
              /\ UNCHANGED answer
           \/ /\ users[u] # "absent"
              /\ End(c, "refused")
              /\ UNCHANGED <<users, seenActive>>
    /\ UNCHANGED <<row, lock, call, delivered, faults>>

\* The account is read once; password and isActive are judged on what was read.
Lookup(c) ==
    /\ stage[c] = "lookup"
    /\ \/ /\ users[call[c].user] = "active"
          /\ seenActive' = seenActive \cup {c}
          /\ Goto(c, "issue")
          /\ UNCHANGED answer
       \/ /\ End(c, "refused")
          /\ UNCHANGED seenActive
    /\ UNCHANGED <<users, row, lock, call, delivered, faults>>

IssueToken(c) ==
    /\ stage[c] = "issue"
    /\ row' = Created(c)
    /\ Goto(c, "sign")
    /\ UNCHANGED <<users, lock, call, answer, delivered, seenActive, faults>>

SignAndDeliver(c) ==
    /\ stage[c] = "sign"
    /\ delivered' = delivered \cup {c}
    /\ End(c, "ok")
    /\ UNCHANGED <<users, row, lock, call, seenActive, faults>>

(***************************************************************************)
(* refresh(): look the token up, or detect its reuse and revoke everything.*)
(***************************************************************************)
FindValid(c) ==
    /\ stage[c] = "findValid"
    /\ LET t == call[c].token
       IN  \/ /\ Valid(t)
              /\ call' = [call EXCEPT ![c].user = row[t].user]
              /\ Goto(c, "findUser")
           \/ /\ ~ Valid(t)
              /\ Goto(c, "findRevoked")
              /\ UNCHANGED call
    /\ UNCHANGED <<users, row, lock, answer, delivered, seenActive, faults>>

FindRevoked(c) ==
    /\ stage[c] = "findRevoked"
    /\ LET t == call[c].token
       IN  \/ /\ RevokedUnexpired(t)
              /\ call' = [call EXCEPT ![c].user = row[t].user]
              /\ Goto(c, "revokeAll")
              /\ UNCHANGED answer
           \/ /\ ~ RevokedUnexpired(t)
              /\ End(c, "refused")
              /\ UNCHANGED call
    /\ UNCHANGED <<users, row, lock, delivered, seenActive, faults>>

\* Variant: only the reused token is revoked.
RevokeAllSelects_OnlyPresented(c) ==
    /\ stage[c] = "revokeAll"
    /\ call' = [call EXCEPT ![c].targets = {call[c].token}]
    /\ Goto(c, "revoking")
    /\ UNCHANGED <<users, row, lock, answer, delivered, seenActive, faults>>

\* The UPDATE of revokeAllForUser takes its snapshot ...
RevokeAllSelects(c) ==
    /\ stage[c] = "revokeAll"
    /\ call' = [call EXCEPT ![c].targets =
                    {t \in TokensOf(call[c].user) : ~ row[t].revoked}]
    /\ Goto(c, "revoking")
    /\ UNCHANGED <<users, row, lock, answer, delivered, seenActive, faults>>

\* ... and updates the rows it selected, waiting for those that are locked.  The
\* step is its commit.  The locks it takes before, row by row, only keep others
\* from these rows until then: they go first here, or find them revoked.  Two
\* revocations that lock each other out are ended by Postgres failing one of them,
\* which is CallFails.
RevokeAllApplies(c) ==
    /\ stage[c] = "revoking"
    /\ \A t \in call[c].targets : Unlocked(t)
    /\ row' = Revoked(call[c].targets)
    /\ End(c, "reuse")
    /\ UNCHANGED <<users, lock, call, delivered, seenActive, faults>>

(***************************************************************************)
(* refresh() of a valid token: check the user, sign, rotate.               *)
(***************************************************************************)
\* Variant: any existing account will do.
FindUser_AnyAccount(c) ==
    /\ stage[c] = "findUser"
    /\ users[call[c].user] # "absent"
    /\ seenActive' =
          IF users[call[c].user] = "active" THEN seenActive \cup {c} ELSE seenActive
    /\ Goto(c, "signNext")
    /\ UNCHANGED <<users, row, lock, call, answer, delivered, faults>>

FindUser(c) ==
    /\ stage[c] = "findUser"
    /\ \/ /\ users[call[c].user] = "active"
          /\ seenActive' = seenActive \cup {c}
          /\ Goto(c, "signNext")
          /\ UNCHANGED answer
       \/ /\ users[call[c].user] # "active"
          /\ End(c, "refused")
          /\ UNCHANGED seenActive
    /\ UNCHANGED <<users, row, lock, call, delivered, faults>>

SignNext(c) ==
    /\ stage[c] = "signNext"
    /\ Goto(c, "rotate")
    /\ UNCHANGED <<users, row, lock, call, answer, delivered, seenActive, faults>>

\* Variant: the UPDATE does not require an unrevoked row.
RotateRevokes_EvenRevoked(c) ==
    /\ stage[c] = "rotate"
    /\ LET t == call[c].token
       IN  \/ /\ row[t].left > 0 /\ Unlocked(t)
              /\ lock' = [lock EXCEPT ![t] = c]
              /\ Goto(c, "mint")
              /\ UNCHANGED answer
           \/ /\ row[t].left = 0
              /\ End(c, "refused")
              /\ UNCHANGED lock
    /\ UNCHANGED <<users, row, call, delivered, seenActive, faults>>

\* The conditional UPDATE of rotate(), inside its transaction: it locks the
\* row it revokes, or matches none and the transaction is rolled back.
RotateRevokes(c) ==
    /\ stage[c] = "rotate"
    /\ LET t == call[c].token
       IN  \/ /\ Valid(t) /\ Unlocked(t)
              /\ lock' = [lock EXCEPT ![t] = c]
              /\ Goto(c, "mint")
              /\ UNCHANGED answer
           \/ /\ ~ Valid(t)
              /\ End(c, "refused")
              /\ UNCHANGED lock
    /\ UNCHANGED <<users, row, call, delivered, seenActive, faults>>

\* Variant: the access token is signed after the rotation.
RotateCommits_BeforeSigning(c) ==
    /\ stage[c] = "mint"
    /\ row' = Rotated(c)
    /\ lock' = [lock EXCEPT ![call[c].token] = None]
    /\ Goto(c, "sign")
    /\ UNCHANGED <<users, call, answer, delivered, seenActive, faults>>

\* The successor is inserted, the transaction commits, the client hears of it.
RotateCommits(c) ==
    /\ stage[c] = "mint"
    /\ row' = Rotated(c)
    /\ lock' = [lock EXCEPT ![call[c].token] = None]
    /\ delivered' = delivered \cup {c}
    /\ End(c, "ok")
    /\ UNCHANGED <<users, call, seenActive, faults>>

(***************************************************************************)
(* logout(): the guard authenticates, the presented token is revoked if it *)
(* is the caller's own.                                                    *)
(***************************************************************************)
Authenticate(c) ==
    /\ stage[c] = "authenticate"
    /\ \/ /\ users[call[c].user] = "active"
          /\ Goto(c, "revoke")
          /\ UNCHANGED answer
       \/ /\ users[call[c].user] # "active"
          /\ End(c, "refused")
    /\ UNCHANGED <<users, row, lock, call, delivered, seenActive, faults>>

\* Variant: a locked row is skipped instead of waited for.
Revoke_SkipsLocked(c) ==
    /\ stage[c] = "revoke"
    /\ row' = Revoked({t \in RevokeTargets(c) : Unlocked(t)})
    /\ End(c, "ok")
    /\ UNCHANGED <<users, lock, call, delivered, seenActive, faults>>

Revoke(c) ==
    /\ stage[c] = "revoke"
    /\ \A t \in RevokeTargets(c) : Unlocked(t)
    /\ row' = Revoked(RevokeTargets(c))
    /\ End(c, "ok")
    /\ UNCHANGED <<users, lock, call, delivered, seenActive, faults>>

-----------------------------------------------------------------------------
(***************************************************************************)
(* Faults.  The statement or the process serving a call fails; a write in  *)
(* progress may have been committed or not, an open transaction is ended.  *)
(***************************************************************************)
Fault == faults < MaxFaults /\ faults' = faults + 1

\* Variant: a failed call leaves its transaction open.
CallFails_TransactionOpen(c) ==
    /\ Fault
    /\ InFlight(c)
    /\ End(c, "error")
    /\ UNCHANGED <<users, row, lock, call, delivered, seenActive>>

\* Variant: the insert is not rolled back with the revocation.
CallFails_InsertCommitted(c) ==
    /\ Fault
    /\ InFlight(c)
    /\ row' \in {row} \cup
           (IF stage[c] = "mint"
            THEN LET t == call[c].token
                 IN  {[row EXCEPT ![c] = NewRow(row[t].user, row[t].family)]}
            ELSE {})
    /\ lock' = [t \in Calls |-> IF lock[t] = c THEN None ELSE lock[t]]
    /\ End(c, "error")
    /\ UNCHANGED <<users, call, delivered, seenActive>>

CallFails(c) ==
    /\ Fault
    /\ InFlight(c)
    /\ users' \in {users} \cup
           (IF stage[c] = "createUser" /\ users[call[c].user] = "absent"
            THEN {[users EXCEPT ![call[c].user] = "active"]} ELSE {})
    /\ row' \in {row} \cup
           (CASE stage[c] = "issue" -> {Created(c)}
              [] stage[c] = "mint" -> {Rotated(c)}
              [] stage[c] = "revoking" /\ \A t \in call[c].targets : Unlocked(t)
                    -> {Revoked(call[c].targets)}
              [] stage[c] = "revoke" /\ \A t \in RevokeTargets(c) : Unlocked(t)
                    -> {Revoked(RevokeTargets(c))}
              [] OTHER -> {})
    /\ lock' = [t \in Calls |-> IF lock[t] = c THEN None ELSE lock[t]]
    /\ End(c, "error")
    /\ UNCHANGED <<call, delivered, seenActive>>

SigningFails(c) ==
    /\ Fault
    /\ stage[c] \in {"sign", "signNext"}
    /\ End(c, "sign_error")
    /\ UNCHANGED <<users, row, lock, call, delivered, seenActive>>

(***************************************************************************)
(* The environment: an administrator changes accounts, time passes.        *)
(***************************************************************************)
Deactivate(u) ==
    /\ users[u] = "active"
    /\ users' = [users EXCEPT ![u] = "inactive"]
    /\ UNCHANGED <<row, lock, call, stage, answer, delivered, seenActive, faults>>

Reactivate(u) ==
    /\ users[u] = "inactive"
    /\ users' = [users EXCEPT ![u] = "active"]
    /\ seenActive' = seenActive \cup {c \in Calls : InFlight(c) /\ call[c].user = u}
    /\ UNCHANGED <<row, lock, call, stage, answer, delivered, faults>>

Countdown(n) == IF n = 0 THEN 0 ELSE n - 1

Tick ==
    /\ row' = [t \in Calls |-> [row[t] EXCEPT !.left = Countdown(row[t].left)]]
    /\ UNCHANGED <<users, lock, call, stage, answer, delivered, seenActive, faults>>

-----------------------------------------------------------------------------
Arrive(c) == Register(c) \/ Login(c) \/ Refresh(c) \/ Logout(c)

Serve(c) ==
    \/ CreateUser(c) \/ Lookup(c) \/ IssueToken(c) \/ SignAndDeliver(c)
    \/ FindValid(c) \/ FindRevoked(c) \/ RevokeAllSelects(c) \/ RevokeAllApplies(c)
    \/ FindUser(c) \/ SignNext(c) \/ RotateRevokes(c) \/ RotateCommits(c)
    \/ Authenticate(c) \/ Revoke(c)

Break(c) == CallFails(c) \/ SigningFails(c)

Next ==
    \/ \E c \in Calls : Arrive(c) \/ Serve(c) \/ Break(c)
    \/ \E u \in Users : Deactivate(u) \/ Reactivate(u)
    \/ Tick

\* A call's awaited promises settle; a statement that waits is served in turn.
Fairness == \A c \in Calls : WF_vars(Serve(c))

Spec == Init /\ [][Next]_vars

FairSpec == Spec /\ Fairness

-----------------------------------------------------------------------------
(***************************************************************************)
(* What makes token handling correct.                                      *)
(***************************************************************************)
Unrevoked(t) == Issued(t) /\ ~ row[t].revoked

\* "Only the request whose updateMany flips an unrevoked row is allowed to
\* mint a successor": a session never has two unrevoked tokens, however many
\* refreshes of one token race.
OneTokenPerSession ==
    \A s, t \in Calls :
        Unrevoked(s) /\ Unrevoked(t) /\ row[s].family = row[t].family => s = t

\* Once logout has answered, the caller's own presented token is revoked, even
\* if a rotation of it was open, committed or rolled back meanwhile.
LogoutRevokes ==
    \A c \in Calls :
        /\ call[c].op = "logout" /\ answer[c] = "ok"
        /\ row[call[c].token].user = call[c].user
        => row[call[c].token].revoked

\* Once a reuse has been answered, every token the user got from a call that
\* was over before the reusing call began is revoked.
ReuseRevokesEarlierTokens ==
    \A c \in Calls :
        answer[c] = "reuse" =>
            \A t \in call[c].earlier \cap TokensOf(call[c].user) : row[t].revoked

\* "A signing failure never leaves the client with a rotated-but-undelivered
\* refresh token": a refresh that fails to sign has minted nothing.
SigningFailureMintsNothing ==
    \A c \in Calls :
        answer[c] = "sign_error" /\ call[c].op = "refresh" => ~ Issued(c)

\* A token is issued only by a call during which its user was active.
IssuedWhileActive ==
    \A c \in Calls : Issued(c) => c \in seenActive

\* Every call is answered: rotations, revocations and logouts that wait for
\* each other's rows never wait for ever.
EveryCallAnswered == \A c \in Calls : InFlight(c) ~> stage[c] = "answered"

\* No token is revoked without cause: it was rotated, or its owner logged it
\* out, or a revoked token of its owner was reused.
Cause(c, t) ==
    \/ call[c].op = "refresh" /\ call[c].token = t /\ Issued(c)
    \/ call[c].op = "logout" /\ call[c].token = t /\ call[c].user = row[t].user
    \/ /\ call[c].op = "refresh" /\ row[call[c].token].revoked
       /\ t \in call[c].targets /\ call[c].user = row[t].user

RevokedForCause ==
    \A t \in Calls : row[t].revoked => \E c \in Calls : Cause(c, t)

\* A token is exchanged once: of two refreshes of the same token, however they
\* overlap and whatever fails, at most one has minted a successor.
OneSuccessor ==
    \A c, d \in Calls :
        /\ call[c].op = "refresh" /\ Issued(c)
        /\ call[d].op = "refresh" /\ Issued(d)
        /\ call[c].token = call[d].token
        => c = d

\* "revokes all user tokens when a revoked refresh token is reused": when the
\* reuse is answered, the reused token's own session has no unrevoked token.
ReuseEndsSession ==
    [][\A c \in Calls :
          answer'[c] = "reuse" /\ answer[c] # "reuse" =>
              \A t \in Calls :
                  row'[t].family = row'[call[c].token].family => row'[t].revoked]_vars

-----------------------------------------------------------------------------
(***************************************************************************)
(* The inductive invariant behind the safety properties.                   *)
(***************************************************************************)

\* A row belongs to the session and the user of the issued token that began
\* the session; where there is no row nothing is revoked or ages.
RowsAreWhole ==
    \A t \in Calls :
        \/ row[t] = NoRow
        \/ /\ Issued(t) /\ row[t].family \in Calls /\ Issued(row[t].family)
           /\ row[row[t].family].user = row[t].user
           /\ row[row[t].family].family = row[t].family

\* A call has a row once it has got past minting it, and not before.
MintedLate ==
    \A c \in Calls :
        /\ Issued(c) => stage[c] \in {"sign", "answered"}
        /\ stage[c] = "sign" => Issued(c)

\* What each stage says of the call that is in it.
CallShape ==
    \A c \in Calls :
        /\ stage[c] = "idle" => call[c] = NoCall
        /\ stage[c] \in {"createUser", "lookup", "issue", "sign"} =>
              call[c].op \in {"register", "login"} /\ call[c].user \in Users
        /\ stage[c] \in {"findValid", "findRevoked", "revokeAll", "revoking",
                          "findUser", "signNext", "rotate", "mint"} =>
              call[c].op = "refresh"
        /\ stage[c] \in {"authenticate", "revoke"} => call[c].op = "logout"
        /\ call[c].op \in {"refresh", "logout"} =>
              call[c].token \in Calls /\ Issued(call[c].token)
        /\ stage[c] \in {"revokeAll", "revoking"} =>
              call[c].user = row[call[c].token].user
              /\ row[call[c].token].revoked
        /\ stage[c] \in {"findUser", "signNext", "rotate", "mint"} =>
              call[c].user = row[call[c].token].user
        /\ call[c].targets \subseteq TokensOf(call[c].user)
        /\ stage[c] \notin {"revoking", "answered"} => call[c].targets = {}
        /\ call[c].earlier \subseteq Over
        /\ answer[c] # "none" => stage[c] = "answered"
        /\ answer[c] = "reuse" => call[c].op = "refresh"

\* A row is locked exactly by the rotation that is about to replace it.
LocksHeld ==
    /\ \A t \in Calls : lock[t] # None =>
          /\ stage[lock[t]] = "mint" /\ call[lock[t]].token = t
          /\ ~ row[t].revoked
    /\ \A c \in Calls : stage[c] = "mint" => lock[call[c].token] = c

\* The snapshot of a revocation misses no unrevoked earlier token.
TargetsComplete ==
    \A c \in Calls : stage[c] = "revoking" =>
        \A t \in call[c].earlier \cap TokensOf(call[c].user) :
            row[t].revoked \/ t \in call[c].targets

\* A call that may still mint has seen its user active.
ActiveSeen ==
    \A c \in Calls :
        stage[c] \in {"issue", "sign", "signNext", "rotate", "mint"} =>
            c \in seenActive

\* The inductive invariant: rows, locks, calls and answers agree.
IInv ==
    /\ TypeOK
    /\ delivered \subseteq {t \in Calls : Issued(t)}
    /\ RowsAreWhole /\ MintedLate /\ CallShape /\ LocksHeld
    /\ TargetsComplete /\ ActiveSeen
    /\ OneTokenPerSession /\ LogoutRevokes /\ ReuseRevokesEarlierTokens
    /\ SigningFailureMintsNothing /\ IssuedWhileActive
-----------------------------------------------------------------------------
(***************************************************************************)
(* The sessions these rows stand for.                                      *)
(***************************************************************************)
\* The user of each session, None for a token that began none.
Owner == [s \in Calls |-> IF row[s].family = s THEN row[s].user ELSE None]

\* The unrevoked tokens of a session, of which there is at most one ...
UnrevokedOf(s) == {t \in Calls : Unrevoked(t) /\ row[t].family = s}

\* ... and that one.
Current ==
    [s \in Calls |-> IF UnrevokedOf(s) = {} THEN None
                     ELSE CHOOSE t \in UnrevokedOf(s) : TRUE]

\* A session that logout or a reuse has ended never gets a token again, also
\* from a refresh that had found its token valid before.
EndedForGood ==
    [][\A s \in Calls :
          Issued(s) /\ Current[s] = None => Current'[s] = None]_vars

IssuedTokens == {t \in Calls : Issued(t)}

Abstract == INSTANCE Sessions WITH
    owner <- Owner, current <- Current, issued <- IssuedTokens

\* Every interleaving of statements, transactions and faults moves sessions as
\* if each rotation, logout and reuse detection happened at one moment: a token
\* has at most one successor, and a session that has ended never comes back.
ImplementsSessions == Abstract!Spec
=============================================================================
