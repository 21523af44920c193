------------------------------ MODULE Sessions ------------------------------
(***************************************************************************)
(* Refresh tokens and the accounts that own them: login, registration,     *)
(* rotation with reuse detection, logout, the account operations that drop *)
(* sessions, and the nightly purge.                                        *)
(*                                                                         *)
(* A request is a process; each of its awaited database statements is one  *)
(* step.  PostgreSQL runs at READ COMMITTED: a statement reads what was    *)
(* committed when it started, waits for a row another transaction has      *)
(* locked, and looks at that row again before changing it.  A statement    *)
(* over many rows therefore takes two steps: it picks its rows, then       *)
(* changes those that still match once none of them is locked.             *)
(*                                                                         *)
(* Passwords, addresses, user agents and the contents of access tokens are *)
(* left out.  A check that makes a request answer with an error and change *)
(* nothing is the absence of a step, or Fail when the request has started. *)
(***************************************************************************)
EXTENDS Naturals, FiniteSets

CONSTANTS
    Procs,      \* requests being served at the same time
    Users,      \* primary keys of User rows
    Admins,     \* users that exist at the start with role admin
    Members,    \* users that exist at the start with role user
    Tokens,     \* primary keys of RefreshToken rows: the bound on their number
    Roles,      \* what User.role may be: user, editor, admin
    Requests,   \* the kinds of request that arrive
    MaxExpired, \* bound on the number of tokens that reach their expiry
    NoProc, NoUser, NoToken

RequestKinds ==
    { "login", "register", "refresh", "logout", "changePassword",
      "resetPassword", "blockUser", "unblockUser", "updateRole", "assignPlan",
      "adminUpdateUser", "deleteUser", "handleExpiredTokens" }

ASSUME SessionsAssumption ==
    /\ Admins \subseteq Users /\ Members \subseteq Users
    /\ Admins \cap Members = {}
    /\ Requests \subseteq RequestKinds
    /\ { "user", "admin" } \subseteq Roles /\ "keep" \notin Roles
    /\ MaxExpired \in Nat
    /\ NoProc \notin Procs /\ NoUser \notin Users /\ NoToken \notin Tokens

VARIABLES
    account,    \* User rows: does the row exist, its role and blocked flag
    row,        \* RefreshToken rows: free (never created), active
                \*   (revokedAt is null), revoked or gone (deleted)
    expired,    \* expiresAt lies in the past
    owner,      \* RefreshToken.userId
    rowLock,    \* the transaction that has changed a token row but not committed
    userLock,   \* the transaction that has changed a user row but not committed
    req,        \* where each request is and what it has read
    \* History, read by no step.
    parent,     \* the token a token was rotated from
    root,       \* the token of the login its chain of rotations began with
    spent,      \* tokens whose revokedAt was ever set
    alarmed,    \* tokens whose reuse was answered with "All sessions revoked"
    overtaken,  \* requests past their look at the blocked flag when it changed
    missed      \* tokens a block has missed: created by an overtaken request or
                \*   inside the block, or kept by an overtaken adminUpdateUser

accounts == <<account, userLock>>
tokens   == <<row, owner, parent, root, spent>>
history  == <<alarmed, overtaken, missed>>
vars     == <<accounts, tokens, expired, rowLock, req, history>>

Standings == { "allowed", "blocked" }

\* The fields of a User row an update sets ("keep": the dto leaves it
\* undefined), whether the same handler also deletes the user's tokens, and
\* whether the update changes the address: a unique column, so that PostgreSQL
\* takes the lock a new row with this foreign key has to wait for.
Writes ==
    [ role : Roles \cup {"keep"}, standing : Standings \cup {"keep"},
      revoke : BOOLEAN, rekey : BOOLEAN ]
Touch == [ role |-> "keep", standing |-> "keep", revoke |-> TRUE, rekey |-> FALSE ]

Places ==
    { "idle", "userCreate", "saveRefreshToken",
      "consume", "create", "recheck", "reuse", "revokeActive", "logout",
      "txUpdate", "txDelete", "commit", "update", "dropTokens", "dropRows", "dropUser",
      "purge" }

Idle ==
    [ at |-> "idle", user |-> NoUser, token |-> NoToken, targets |-> {},
      write |-> Touch ]

At(place, u)          == [Idle EXCEPT !.at = place, !.user = u]
AtToken(place, u, t)  == [At(place, u) EXCEPT !.token = t]
AtWrite(place, u, w)  == [At(place, u) EXCEPT !.write = w]

TypeOK ==
    /\ account \in [ Users -> [ life : { "new", "live", "gone" },
                                role : Roles, standing : Standings ] ]
    /\ row \in [ Tokens -> { "free", "active", "revoked", "gone" } ]
    /\ expired \in [ Tokens -> BOOLEAN ]
    /\ owner \in [ Tokens -> Users \cup {NoUser} ]
    /\ rowLock \in [ Tokens -> Procs \cup {NoProc} ]
    /\ userLock \in [ Users -> Procs \cup {NoProc} ]
    /\ req \in [ Procs -> [ at : Places, user : Users \cup {NoUser},
                            token : Tokens \cup {NoToken},
                            targets : SUBSET Tokens, write : Writes ] ]
    /\ parent \in [ Tokens -> Tokens \cup {NoToken} ]
    /\ root \in [ Tokens -> Tokens \cup {NoToken} ]
    /\ spent \subseteq Tokens
    /\ alarmed \subseteq Tokens
    /\ overtaken \subseteq Procs
    /\ missed \subseteq Tokens

Init ==
    /\ account = [ u \in Users |->
                     [ life     |-> IF u \in Admins \cup Members THEN "live" ELSE "new",
                       role     |-> IF u \in Admins THEN "admin" ELSE "user",
                       standing |-> "allowed" ] ]
    /\ row = [ t \in Tokens |-> "free" ]
    /\ expired = [ t \in Tokens |-> FALSE ]
    /\ owner = [ t \in Tokens |-> NoUser ]
    /\ rowLock = [ t \in Tokens |-> NoProc ]
    /\ userLock = [ u \in Users |-> NoProc ]
    /\ req = [ p \in Procs |-> Idle ]
    /\ parent = [ t \in Tokens |-> NoToken ]
    /\ root = [ t \in Tokens |-> NoToken ]
    /\ spent = {} /\ alarmed = {} /\ overtaken = {} /\ missed = {}

-----------------------------------------------------------------------------
(* What the steps are made of.                                             *)

Live(u)    == account[u].life = "live"
Allowed(u) == Live(u) /\ account[u].standing = "allowed"
IsAdmin(u) == Allowed(u) /\ account[u].role = "admin"

Stored(t)      == row[t] \in { "active", "revoked" }
TokensOf(u)    == { t \in Tokens : owner[t] = u /\ Stored(t) }
ActiveTokens(u) == { t \in TokensOf(u) : row[t] = "active" }

\* No other transaction has an uncommitted change of these rows.
Unlocked(S) == \A t \in S : rowLock[t] = NoProc

\* The row locks once the transaction of p is over.
Released(p) == [t \in Tokens |-> IF rowLock[t] = p THEN NoProc ELSE rowLock[t]]

\* Slip: the handlers begin with SELECT ... FOR UPDATE of the user row.
Rekeyed_ForUpdate(u) == userLock[u] # NoProc

\* A token row cannot be added: the user row is locked by an update of its key.
Rekeyed(u) == userLock[u] # NoProc /\ req[userLock[u]].write.rekey

\* Requests that will still create a token, and have checked their user.
Issuing == { p \in Procs :
               req[p].at \in { "saveRefreshToken", "consume", "create" } }

\* Bound: a request that may create a token starts only while there is a
\* row left for it.
RoomForToken ==
    Cardinality({ t \in Tokens : row[t] = "free" })
      > Cardinality(Issuing \cup { p \in Procs : req[p].at = "userCreate" })

Begin(p, kind, r) ==
    /\ kind \in Requests
    /\ req[p].at = "idle"
    /\ req' = [req EXCEPT ![p] = r]

Goto(p, to) == req' = [req EXCEPT ![p].at = to]

\* A statement over many rows starts, with the rows it sees.
Pick(p, from, to, S) ==
    /\ req[p].at = from
    /\ req' = [req EXCEPT ![p].at = to, ![p].targets = S]

Answer(p, from) ==
    /\ req[p].at = from
    /\ req' = [req EXCEPT ![p] = Idle]
    /\ overtaken' = overtaken \ {p}

\* A new row for u on behalf of p, rotated from t or the first of its chain.
Insert(p, u, n, from, chain) ==
    /\ owner' = [owner EXCEPT ![n] = u]
    /\ parent' = [parent EXCEPT ![n] = from]
    /\ root' = [root EXCEPT ![n] = chain]
    /\ missed' = IF p \in overtaken \/ userLock[u] # NoProc THEN missed \cup {n} ELSE missed

Revoke(S) ==
    /\ row' = [t \in Tokens |-> IF t \in S THEN "revoked" ELSE row[t]]
    /\ spent' = spent \cup S

\* Requests that have looked at the blocked flag of u and will act on it, when
\* it is set to s: those that issue a token, behind a block, and those that
\* have yet to lock the row to block it once more, behind an unblock.
Overtaken(u, s) ==
    { q \in Procs :
        /\ req[q].user = u
        /\ \/ s = "blocked" /\ q \in Issuing
           \/ /\ s = "allowed" /\ account[u].standing = "blocked"
              /\ req[q].at = "txUpdate"
              /\ req[q].write.standing = "blocked" /\ ~req[q].write.revoke }

Delete(S) == row' = [t \in Tokens |-> IF t \in S THEN "gone" ELSE row[t]]

-----------------------------------------------------------------------------
(* Login and registration.                                                 *)

\* The read of the user, the blocked check and the password check; a user
\* that is missing or blocked is answered at once.
Login(p, u) ==
    /\ Allowed(u)
    /\ RoomForToken
    /\ Begin(p, "login", At("saveRefreshToken", u))
    /\ UNCHANGED <<accounts, tokens, expired, rowLock, history>>

\* The address is looked up before the password is hashed.
Register(p, u) ==
    /\ account[u].life = "new"
    /\ RoomForToken
    /\ Begin(p, "register", At("userCreate", u))
    /\ UNCHANGED <<accounts, tokens, expired, rowLock, history>>

\* The unique index on the address refuses the slower of two registrations.
UserCreate(p) ==
    LET u == req[p].user IN
    /\ req[p].at = "userCreate"
    /\ \/ /\ account[u].life = "new"
          /\ Goto(p, "saveRefreshToken")
          /\ account' = [account EXCEPT ![u].life = "live"]
          /\ UNCHANGED overtaken
       \/ /\ account[u].life # "new"
          /\ Answer(p, "userCreate")
          /\ UNCHANGED account
    /\ UNCHANGED <<userLock, tokens, expired, rowLock, alarmed, missed>>

\* The foreign key refuses the row when the user is gone.
SaveRefreshToken(p) ==
    LET u == req[p].user IN
    /\ Answer(p, "saveRefreshToken")
    /\ ~Rekeyed(u)
    /\ \/ /\ Live(u)
          /\ \E n \in Tokens :
               /\ row[n] = "free"
               /\ row' = [row EXCEPT ![n] = "active"]
               /\ Insert(p, u, n, NoToken, n)
       \/ /\ ~Live(u)
          /\ UNCHANGED <<row, owner, parent, root, missed>>
    /\ UNCHANGED <<accounts, spent, expired, rowLock, alarmed>>

-----------------------------------------------------------------------------
(* Rotation.                                                               *)

\* Slip: the blocked flag of the owner is not looked at.
Refresh_IgnoresBlocked(p, t) ==
    /\ \/ /\ row[t] = "revoked"
          /\ Begin(p, "refresh", AtToken("reuse", owner[t], t))
       \/ /\ row[t] = "active"
          /\ ~expired[t]
          /\ RoomForToken
          /\ Begin(p, "refresh", AtToken("consume", owner[t], t))
    /\ UNCHANGED <<accounts, tokens, expired, rowLock, history>>

\* findFirst by token hash.  A revoked token is treated as reused before its
\* expiry or its owner is looked at; a deleted or an expired one is answered.
Refresh(p, t) ==
    /\ \/ /\ row[t] = "revoked"
          /\ Begin(p, "refresh", AtToken("reuse", owner[t], t))
       \/ /\ row[t] = "active"
          /\ ~expired[t]
          /\ Allowed(owner[t])
          /\ RoomForToken
          /\ Begin(p, "refresh", AtToken("consume", owner[t], t))
    /\ UNCHANGED <<accounts, tokens, expired, rowLock, history>>

\* Slip: the where clause of updateMany has no revokedAt: null.
Consume_AnyState(p) ==
    LET t == req[p].token IN
    /\ req[p].at = "consume"
    /\ Unlocked({t})
    /\ \/ /\ Stored(t)
          /\ Goto(p, "create")
          /\ rowLock' = [rowLock EXCEPT ![t] = p]
       \/ /\ ~Stored(t)
          /\ Goto(p, "recheck")
          /\ UNCHANGED rowLock
    /\ UNCHANGED <<accounts, tokens, expired, history>>

\* Slip: updateMany on the service's client, outside the transaction.
Consume_Committed(p) ==
    LET t == req[p].token IN
    /\ req[p].at = "consume"
    /\ Unlocked({t})
    /\ \/ /\ row[t] = "active"
          /\ Goto(p, "create")
          /\ Revoke({t})
       \/ /\ row[t] # "active"
          /\ Goto(p, "recheck")
          /\ UNCHANGED <<row, spent>>
    /\ UNCHANGED <<accounts, owner, parent, root, expired, rowLock, history>>

\* updateMany with revokedAt: null in the where clause, inside the
\* transaction: it waits for the row, and either changes one row or none.
Consume(p) ==
    LET t == req[p].token IN
    /\ req[p].at = "consume"
    /\ Unlocked({t})
    /\ \/ /\ row[t] = "active"
          /\ Goto(p, "create")
          /\ rowLock' = [rowLock EXCEPT ![t] = p]
       \/ /\ row[t] # "active"
          /\ Goto(p, "recheck")
          /\ UNCHANGED rowLock
    /\ UNCHANGED <<accounts, tokens, expired, history>>

\* create and commit: the consumed row and the new one appear together.
Create(p) ==
    LET t == req[p].token IN
    /\ Answer(p, "create")
    /\ ~Rekeyed(owner[t])
    /\ \E n \in Tokens :
         /\ row[n] = "free"
         /\ row' = [row EXCEPT ![t] = "revoked", ![n] = "active"]
         /\ Insert(p, owner[t], n, t, root[t])
    /\ spent' = spent \cup {t}
    /\ rowLock' = [rowLock EXCEPT ![t] = NoProc]
    /\ UNCHANGED <<accounts, expired, alarmed>>

\* Slip: a missing row is taken for a revoked one.
Recheck_MissingIsReuse(p) ==
    LET t == req[p].token IN
    /\ req[p].at = "recheck"
    /\ \/ /\ row[t] # "active"
          /\ Goto(p, "reuse")
          /\ UNCHANGED overtaken
       \/ /\ row[t] = "active"
          /\ Answer(p, "recheck")
    /\ UNCHANGED <<accounts, tokens, expired, rowLock, alarmed, missed>>

\* Slip: a lost exchange is tried again instead of being answered.
Recheck_TriesAgain(p) ==
    LET t == req[p].token IN
    /\ req[p].at = "recheck"
    /\ Goto(p, IF row[t] = "revoked" THEN "reuse" ELSE "consume")
    /\ UNCHANGED <<accounts, tokens, expired, rowLock, history>>

\* The loser of the race reads the row again: revoked means reuse, a row
\* that was deleted in the meantime does not.
Recheck(p) ==
    LET t == req[p].token IN
    /\ req[p].at = "recheck"
    /\ \/ /\ row[t] = "revoked"
          /\ Goto(p, "reuse")
          /\ UNCHANGED overtaken
       \/ /\ row[t] # "revoked"
          /\ Answer(p, "recheck")
    /\ UNCHANGED <<accounts, tokens, expired, rowLock, alarmed, missed>>

\* Slip: only the token that was presented is revoked, not its owner's.
RejectRefreshTokenReuse_OneToken(p) ==
    /\ Pick(p, "reuse", "revokeActive", {req[p].token})
    /\ UNCHANGED <<accounts, tokens, expired, rowLock, history>>

\* The statement that revokes every active token of the owner starts ...
RejectRefreshTokenReuse(p) ==
    /\ Pick(p, "reuse", "revokeActive", ActiveTokens(req[p].user))
    /\ UNCHANGED <<accounts, tokens, expired, rowLock, history>>

\* ... and changes those that are still active when it gets to them.
RevokeActiveRefreshTokens(p) ==
    /\ Answer(p, "revokeActive")
    /\ Unlocked(req[p].targets)
    /\ Revoke({ t \in req[p].targets : row[t] = "active" })
    /\ alarmed' = alarmed \cup {req[p].token}
    /\ UNCHANGED <<accounts, owner, parent, root, expired, rowLock, missed>>

-----------------------------------------------------------------------------
(* Logout, and the account operations.  The strategy reloads the caller    *)
(* from the database, so a handler starts only for a caller that exists    *)
(* and is not blocked; the admin routes also want the reloaded role.       *)

Logout(p, by, t) ==
    /\ Allowed(by)
    /\ row[t] # "free"
    /\ Begin(p, "logout", AtToken("logout", by, t))
    /\ UNCHANGED <<accounts, tokens, expired, rowLock, history>>

\* updateMany by hash, user and revokedAt: null.
LogoutRevoke(p) ==
    LET t == req[p].token IN
    /\ Answer(p, "logout")
    /\ Unlocked({t})
    /\ Revoke({ x \in {t} : owner[x] = req[p].user /\ row[x] = "active" })
    /\ UNCHANGED <<accounts, owner, parent, root, expired, rowLock, alarmed, missed>>

ChangePassword(p, by) ==
    /\ Allowed(by)
    /\ Begin(p, "changePassword", AtWrite("txUpdate", by, Touch))
    /\ UNCHANGED <<accounts, tokens, expired, rowLock, history>>

\* The reset token names a user that existed when it was signed.
ResetPassword(p, u) ==
    /\ account[u].life # "new"
    /\ Begin(p, "resetPassword", AtWrite("txUpdate", u, Touch))
    /\ UNCHANGED <<accounts, tokens, expired, rowLock, history>>

BlockUser(p, by, u) ==
    /\ IsAdmin(by) /\ by # u /\ Live(u)
    /\ Begin(p, "blockUser",
             AtWrite("txUpdate", u, [Touch EXCEPT !.standing = "blocked"]))
    /\ UNCHANGED <<accounts, tokens, expired, rowLock, history>>

UnblockUser(p, by, u) ==
    /\ IsAdmin(by) /\ Live(u)
    /\ Begin(p, "unblockUser",
             AtWrite("update", u, [Touch EXCEPT !.standing = "allowed",
                                                !.revoke = FALSE]))
    /\ UNCHANGED <<accounts, tokens, expired, rowLock, history>>

UpdateRole(p, by, u, r) ==
    /\ IsAdmin(by) /\ by # u /\ Live(u)
    /\ Begin(p, "updateRole",
             AtWrite("update", u, [Touch EXCEPT !.role = r, !.revoke = FALSE]))
    /\ UNCHANGED <<accounts, tokens, expired, rowLock, history>>

\* Two statements with no transaction around them.
AssignPlan(p, by, u) ==
    /\ IsAdmin(by) /\ Live(u)
    /\ Begin(p, "assignPlan", AtWrite("update", u, Touch))
    /\ UNCHANGED <<accounts, tokens, expired, rowLock, history>>

\* Slip: only a change of the role drops the sessions.
AdminUpdateUser_RoleOnly(p, by, u, r, s, confirmed, email) ==
    /\ IsAdmin(by) /\ Live(u)
    /\ Begin(p, "adminUpdateUser",
             AtWrite("txUpdate", u,
                     [ role |-> r, standing |-> s, rekey |-> email,
                       revoke |-> r \notin { "keep", account[u].role } \/ confirmed ]))
    /\ UNCHANGED <<accounts, tokens, expired, rowLock, history>>

\* Whether to drop the sessions is decided from the row as read here, before
\* the transaction; confirmed and email stand for a dto that changes these.
AdminUpdateUser(p, by, u, r, s, confirmed, email) ==
    /\ IsAdmin(by) /\ Live(u)
    /\ Begin(p, "adminUpdateUser",
             AtWrite("txUpdate", u,
                     [ role |-> r, standing |-> s, rekey |-> email,
                       revoke |-> \/ r \notin { "keep", account[u].role }
                                  \/ s \notin { "keep", account[u].standing }
                                  \/ confirmed ]))
    /\ UNCHANGED <<accounts, tokens, expired, rowLock, history>>

DeleteUser(p, by, u) ==
    /\ IsAdmin(by) /\ Live(u)
    /\ Begin(p, "deleteUser", At("dropTokens", u))
    /\ UNCHANGED <<accounts, tokens, expired, rowLock, history>>

\* The fields of the row after an update that leaves some of them alone.
Written(old, w) ==
    [old EXCEPT !.role = IF w.role = "keep" THEN old.role ELSE w.role,
                !.standing = IF w.standing = "keep" THEN old.standing ELSE w.standing]

\* user.update outside a transaction.  An update of a row that is gone is an
\* error, here and below.
Update(p) ==
    LET u == req[p].user IN
    /\ req[p].at = "update"
    /\ userLock[u] = NoProc
    /\ \/ /\ Live(u) /\ req[p].write.revoke
          /\ Goto(p, "txDelete")
          /\ account' = [account EXCEPT ![u] = Written(account[u], req[p].write)]
          /\ UNCHANGED overtaken
       \/ /\ Live(u) /\ ~req[p].write.revoke
          /\ req' = [req EXCEPT ![p] = Idle]
          /\ account' = [account EXCEPT ![u] = Written(account[u], req[p].write)]
          /\ overtaken' = overtaken \cup Overtaken(u, req[p].write.standing)
       \/ /\ ~Live(u)
          /\ Answer(p, "update")
          /\ UNCHANGED account
    /\ UNCHANGED <<userLock, tokens, expired, rowLock, alarmed, missed>>

\* user.update inside a transaction: nothing is visible before the commit,
\* and other changes of the row wait for it.
TxUpdate(p) ==
    LET u == req[p].user IN
    /\ req[p].at = "txUpdate"
    /\ userLock[u] = NoProc
    /\ \/ /\ Live(u)
          /\ Goto(p, IF req[p].write.revoke THEN "txDelete" ELSE "commit")
          /\ userLock' = [userLock EXCEPT ![u] = p]
          /\ UNCHANGED overtaken
       \/ /\ ~Live(u)
          /\ Answer(p, "txUpdate")
          /\ UNCHANGED userLock
    /\ UNCHANGED <<account, tokens, expired, rowLock, alarmed, missed>>

\* refreshToken.deleteMany starts: it will delete the rows it sees now.
TxDelete(p) ==
    /\ Pick(p, "txDelete", "commit", TokensOf(req[p].user))
    /\ UNCHANGED <<accounts, tokens, expired, rowLock, history>>

\* The deletion ends and, where there is a transaction, it commits.
Commit(p) ==
    LET u == req[p].user
        w == req[p].write
        held == userLock[u] = p
    IN
    /\ req[p].at = "commit"
    /\ Unlocked(req[p].targets)
    /\ Delete(req[p].targets)
    /\ req' = [req EXCEPT ![p] = Idle]
    /\ account' = IF held THEN [account EXCEPT ![u] = Written(account[u], w)] ELSE account
    /\ userLock' = IF held THEN [userLock EXCEPT ![u] = NoProc] ELSE userLock
    /\ overtaken' = (IF held THEN overtaken \cup Overtaken(u, w.standing)
                             ELSE overtaken) \ {p}
    /\ missed' = IF held /\ p \in overtaken THEN missed \cup ActiveTokens(u) ELSE missed
    /\ UNCHANGED <<owner, parent, root, spent, expired, rowLock, alarmed>>

\* deleteUser: refreshToken.deleteMany starts ...
DropTokens(p) ==
    /\ Pick(p, "dropTokens", "dropRows", TokensOf(req[p].user))
    /\ UNCHANGED <<accounts, tokens, expired, rowLock, history>>

\* ... and deletes those still stored: the transaction holds them from here
\* on, and to everyone else they read as before.
DropRows(p) ==
    LET held == { t \in req[p].targets : Stored(t) } IN
    /\ req[p].at = "dropRows"
    /\ Unlocked(req[p].targets)
    /\ req' = [req EXCEPT ![p].at = "dropUser", ![p].targets = held]
    /\ rowLock' = [t \in Tokens |-> IF t \in held THEN p ELSE rowLock[t]]
    /\ UNCHANGED <<accounts, tokens, expired, history>>

\* Slip: RefreshToken.userId has no foreign key.
DropUser_NoForeignKey(p) ==
    LET u == req[p].user IN
    /\ Answer(p, "dropUser")
    /\ userLock[u] = NoProc
    /\ Live(u)
    /\ Delete(req[p].targets)
    /\ account' = [account EXCEPT ![u].life = "gone"]
    /\ rowLock' = Released(p)
    /\ UNCHANGED <<userLock, owner, parent, root, spent, expired, alarmed, missed>>

\* user.delete waits for the user row, with the token rows still held.  The
\* foreign key refuses it, and the transaction is rolled back, when a token
\* row was added in between.
DropUser(p) ==
    LET u == req[p].user IN
    /\ Answer(p, "dropUser")
    /\ userLock[u] = NoProc
    /\ \/ /\ Live(u) /\ TokensOf(u) \subseteq req[p].targets
          /\ Delete(req[p].targets)
          /\ account' = [account EXCEPT ![u].life = "gone"]
       \/ /\ ~(Live(u) /\ TokensOf(u) \subseteq req[p].targets)
          /\ UNCHANGED <<account, row>>
    /\ rowLock' = Released(p)
    /\ UNCHANGED <<userLock, owner, parent, root, spent, expired, alarmed, missed>>

-----------------------------------------------------------------------------
(* Time, the nightly purge, and requests that fail.                        *)

Expire(t) ==
    /\ Stored(t) /\ ~expired[t]
    /\ Cardinality({ x \in Tokens : expired[x] }) < MaxExpired
    /\ expired' = [expired EXCEPT ![t] = TRUE]
    /\ UNCHANGED <<accounts, tokens, rowLock, req, history>>

HandleExpiredTokens(p) ==
    /\ Begin(p, "handleExpiredTokens",
             [Idle EXCEPT !.at = "purge",
                          !.targets = { t \in Tokens : Stored(t) /\ expired[t] }])
    /\ UNCHANGED <<accounts, tokens, expired, rowLock, history>>

Purge(p) ==
    /\ Answer(p, "purge")
    /\ Unlocked(req[p].targets)
    /\ Delete(req[p].targets)
    /\ UNCHANGED <<accounts, owner, parent, root, spent, expired, rowLock, alarmed, missed>>

\* A statement fails, the password is wrong, the transaction times out or is
\* the victim of a deadlock, or the server stops: the request ends and its open transaction is undone.
Fail(p) ==
    /\ req[p].at # "idle"
    /\ Answer(p, req[p].at)
    /\ rowLock' = Released(p)
    /\ userLock' = [u \in Users |-> IF userLock[u] = p THEN NoProc ELSE userLock[u]]
    /\ UNCHANGED <<account, tokens, expired, alarmed, missed>>

-----------------------------------------------------------------------------
Arrive(p) ==
    /\ req[p].at = "idle"
    /\ \/ \E u \in Users :
            Login(p, u) \/ Register(p, u) \/ ChangePassword(p, u) \/ ResetPassword(p, u)
       \/ \E t \in Tokens : Refresh(p, t)
       \/ \E u \in Users, t \in Tokens : Logout(p, u, t)
       \/ \E by, u \in Users :
            \/ BlockUser(p, by, u) \/ UnblockUser(p, by, u)
            \/ AssignPlan(p, by, u) \/ DeleteUser(p, by, u)
       \/ \E by, u \in Users, r \in Roles : UpdateRole(p, by, u, r)
       \/ \E by, u \in Users, r \in Roles \cup {"keep"}, s \in Standings \cup {"keep"},
             confirmed, email \in BOOLEAN :
            AdminUpdateUser(p, by, u, r, s, confirmed, email)
       \/ HandleExpiredTokens(p)

Advance(p) ==
    \/ UserCreate(p) \/ SaveRefreshToken(p)
    \/ Consume(p) \/ Create(p) \/ Recheck(p)
    \/ RejectRefreshTokenReuse(p) \/ RevokeActiveRefreshTokens(p)
    \/ LogoutRevoke(p)
    \/ Update(p) \/ TxUpdate(p) \/ TxDelete(p) \/ Commit(p)
    \/ DropTokens(p) \/ DropRows(p) \/ DropUser(p) \/ Purge(p)

Next ==
    \/ \E p \in Procs : Arrive(p) \/ Advance(p) \/ Fail(p)
    \/ \E t \in Tokens : Expire(t)

Spec == Init /\ [][Next]_vars

\* The transactions the statement of p waits for.
Blockers(p) ==
    LET r == req[p]
        rows == IF r.at \in { "consume", "logout" } THEN {r.token}
                ELSE IF r.at \in { "revokeActive", "commit", "dropRows", "purge" }
                  THEN r.targets ELSE {}
        key  == \/ r.at \in { "update", "txUpdate", "dropUser" }
                \/ r.at \in { "saveRefreshToken", "create" } /\ Rekeyed(r.user)
    IN ({ rowLock[t] : t \in rows } \cup (IF key THEN {userLock[r.user]} ELSE {}))
         \ {NoProc}

Deadlocked(p, q) == p \in Blockers(q) /\ q \in Blockers(p)

\* A request that has started runs on, and PostgreSQL serves the waiters of
\* a lock in their order: one that could go on again and again goes on.  Of
\* two transactions that wait for each other it ends one.
Fairness ==
    /\ \A p \in Procs : SF_vars(Advance(p))
    /\ WF_vars(\E p, q \in Procs : Deadlocked(p, q) /\ Fail(p))
FairSpec == Spec /\ Fairness

-----------------------------------------------------------------------------
(* Properties.                                                             *)

\* However many requests present the same refresh token, and whatever they
\* interleave with, the rotations of one login form a line: at most one row
\* of the chain is still active (the conditional updateMany and the create in
\* one transaction in refresh).
OneActivePerChain ==
    \A s, t \in Tokens :
        row[s] = "active" /\ row[t] = "active" /\ root[s] = root[t] => s = t

\* Once a request has been answered with the reuse alarm, the token that the
\* reused one was exchanged for is dead, also when the two exchanges raced:
\* the loser finds the winner's new token and revokes it, unless the winner
\* has already exchanged it in turn.
AlarmReachesSuccessor ==
    \A s, t \in Tokens : t \in alarmed /\ parent[s] = t => row[s] # "active"

\* The alarm, which ends every session of the user, is raised only for a
\* token that was exchanged or revoked: never for one that merely expired or
\* was deleted while its request was between two statements.
NoFalseAlarm == alarmed \subseteq spent

\* Refreshing never costs the session: no step of an exchange, and no failure
\* in the middle of one, leaves a chain without its active token.
ChainActive(f) == \E t \in Tokens : row[t] = "active" /\ root[t] = f
ExchangeKeepsSession ==
    [][ \A p \in Procs, f \in Tokens :
          (Consume(p) \/ Create(p) \/ Fail(p)) /\ ChainActive(f) => ChainActive(f)' ]_vars

\* Each login, named by its first token, as Logins sees it: open while a
\* token of its chain is active, and over when none is any more.
LoginState ==
    [ c \in Tokens |-> IF row[c] = "free" \/ root[c] # c THEN "none"
                       ELSE IF ChainActive(c) THEN "open" ELSE "over" ]

Promise == INSTANCE Logins WITH Chains <- Tokens, login <- LoginState

\* A session that has ended, by logout, an alarm, a block, a deletion or the
\* purge, never comes back, not through an exchange that was under way and not
\* through a token that is presented once more: Sessions implements Logins.
EndedStaysEnded == Promise!Spec

\* The sessions of a blocked account end with the block: a token that is
\* active while its owner is blocked was created inside the blocking
\* transaction, or by a request that had passed its own blocked check before,
\* or was kept by an adminUpdateUser that blocks the account once more, when it
\* had read it as blocked and another admin unblocked it in between.
BlockEndsSessions ==
    \A t \in Tokens :
        row[t] = "active" /\ account[owner[t]].standing = "blocked" => t \in missed

\* No token row outlives its user, whatever deleteUser races with.
NoOrphanTokens == \A t \in Tokens : Stored(t) => Live(owner[t])

\* What the properties above rest on.  An uncommitted exchange holds the row
\* it consumed, a deleteUser those it deletes, and to everyone else they read
\* as they were.
Holds(p, t) ==
    \/ req[p].at = "create" /\ req[p].token = t
    \/ req[p].at = "dropUser" /\ t \in req[p].targets
LocksHeld ==
    \A t \in Tokens :
        /\ rowLock[t] # NoProc => Stored(t)
        /\ \A p \in Procs :
             /\ rowLock[t] = p <=> Holds(p, t)
             /\ req[p].at = "create" /\ req[p].token = t => row[t] = "active"

\* A row of a chain has an owner and a stored root; a parent is over, and its
\* child belongs to the same user; spent is what the rows say.
Lineage ==
    \A t \in Tokens :
        /\ row[t] # "free" =>
             owner[t] \in Users /\ root[t] \in Tokens /\ row[root[t]] # "free"
        /\ row[t] = "free" => parent[t] = NoToken
        /\ parent[t] # NoToken => parent[t] \in spent /\ owner[parent[t]] = owner[t]
        /\ t \in spent => row[t] \in { "revoked", "gone" }
        /\ row[t] = "revoked" => t \in spent

\* What a request may rely on of what it read: the rows it holds exist, the
\* token it refreshes has the owner it read, and a request that raises the
\* alarm has seen a spent token and targets its successor.
Remembers(p) ==
    /\ req[p].at \notin { "idle", "purge" } => req[p].user \in Users
    /\ \A t \in req[p].targets : row[t] # "free"
    /\ req[p].at = "logout" => req[p].token \in Tokens
    /\ req[p].at \in { "consume", "create", "recheck", "reuse", "revokeActive" } =>
         /\ req[p].token \in Tokens
         /\ row[req[p].token] # "free"
         /\ req[p].user = owner[req[p].token]
    /\ req[p].at \in { "reuse", "revokeActive" } => req[p].token \in spent
    /\ req[p].at = "revokeActive" =>
         \A s \in Tokens :
             parent[s] = req[p].token /\ row[s] = "active" => s \in req[p].targets
RequestsRemember == \A p \in Procs : Remembers(p)

\* Exchanges, chains, alarms and foreign keys hold together in every
\* interleaving of the requests.
TokenInv ==
    /\ TypeOK
    /\ LocksHeld
    /\ Lineage
    /\ RequestsRemember
    /\ OneActivePerChain
    /\ AlarmReachesSuccessor
    /\ NoFalseAlarm
    /\ NoOrphanTokens

\* What a request may rely on of the account it acts on.  It is the only one
\* to change a row it has locked; what it decided from the flag as it read it
\* is right, or it was overtaken; and when it blocks, it has picked every
\* token that is not missed.
Decides(p) ==
    LET r == req[p] IN
    /\ \A u \in Users : userLock[u] = p =>
         r.user = u /\ r.at \in { "txDelete", "commit" } /\ Live(u)
    /\ p \in Issuing /\ account[r.user].standing = "blocked" => p \in overtaken
    /\ r.at = "update" =>
         r.write.standing = "keep" \/ (r.write.standing = "allowed" /\ ~r.write.revoke)
    /\ r.at = "txDelete" => r.write.revoke
    /\ r.at \in { "txUpdate", "commit" } /\ r.write.standing = "blocked" =>
         IF r.at = "commit" /\ userLock[r.user] # p THEN TRUE
         ELSE IF ~r.write.revoke
           THEN account[r.user].standing = "blocked" \/ p \in overtaken
           ELSE r.at = "commit" => ActiveTokens(r.user) \subseteq r.targets \cup missed

\* What is behind BlockEndsSessions.
BlockInv ==
    /\ BlockEndsSessions
    /\ \A u \in Users : account[u].life = "new" => account[u].standing = "allowed"
    /\ \A p \in Procs : Decides(p)

\* The inductive invariant.
SessionInv == TokenInv /\ BlockInv

\* Handlers that lock token and user rows do not lock them in one order:
\* deleteUser holds the tokens and wants the user, the others hold the user and
\* want the tokens.  Two requests wait for each other only where one of them
\* deletes the user, or changes its address while a token is exchanged.
DeadlocksAreKnown ==
    \A p, q \in Procs :
        Deadlocked(p, q) =>
          \E d \in {p, q} : req[d].at = "dropUser" \/ req[d].write.rekey

\* No request waits for ever for the rows of another, or repeats a statement
\* for ever: every one is answered.
EveryRequestEnds == \A p \in Procs : req[p].at # "idle" ~> req[p].at = "idle"

==============================================================================
