--------------------------- MODULE SessionsProofs ---------------------------
(***************************************************************************)
(* Proofs about Sessions: TokenInv is inductive, for any number of       *)
(* requests, users and tokens and any kinds of request.                    *)
(***************************************************************************)
EXTENDS Sessions, TLAPS

AccountRow == [ life : { "new", "live", "gone" }, role : Roles, standing : Standings ]
RequestRow == [ at : Places, user : Users \cup {NoUser}, token : Tokens \cup {NoToken},
                targets : SUBSET Tokens, write : Writes ]

(* A request is always a record of its type, whatever it is started with.  *)
LEMMA IdleType == Idle \in RequestRow /\ Touch \in Writes
  BY DEF Idle, RequestRow, Touch, Writes, Places

(* The records requests are started with.                                  *)
LEMMA AtType ==
  ASSUME NEW place \in Places, NEW u \in Users \cup {NoUser}
  PROVE  /\ At(place, u) \in RequestRow
         /\ At(place, u).at = place /\ At(place, u).user = u
         /\ At(place, u).targets = {}
  BY IdleType DEF At, Idle, RequestRow

LEMMA AtTokenType ==
  ASSUME NEW place \in Places, NEW u \in Users \cup {NoUser},
         NEW t \in Tokens \cup {NoToken}
  PROVE  /\ AtToken(place, u, t) \in RequestRow
         /\ AtToken(place, u, t).at = place /\ AtToken(place, u, t).user = u
         /\ AtToken(place, u, t).token = t /\ AtToken(place, u, t).targets = {}
  BY IdleType DEF At, AtToken, Idle, RequestRow

LEMMA AtWriteType ==
  ASSUME NEW place \in Places, NEW u \in Users \cup {NoUser}, NEW w \in Writes
  PROVE  /\ AtWrite(place, u, w) \in RequestRow
         /\ AtWrite(place, u, w).at = place /\ AtWrite(place, u, w).user = u
         /\ AtWrite(place, u, w).targets = {}
  BY IdleType DEF At, AtWrite, Idle, RequestRow

(* An update of an account row yields an account row.                      *)
LEMMA WrittenType ==
  ASSUME NEW a \in AccountRow, NEW w \in Writes
  PROVE  Written(a, w) \in AccountRow /\ Written(a, w).life = a.life
  BY DEF Written, AccountRow, Writes, Standings

LEMMA InitType == Init => TypeOK
  <1> SUFFICES ASSUME Init PROVE TypeOK
    OBVIOUS
  <1>1. account \in [ Users -> AccountRow ]
    BY SessionsAssumption DEF Init, AccountRow, Standings
  <1>2. req \in [ Procs -> RequestRow ]
    BY IdleType DEF Init
  <1> QED
    BY <1>1, <1>2 DEF Init, TypeOK, AccountRow, RequestRow
-----------------------------------------------------------------------------
(* How a step moves its request.                                           *)

LEMMA BeginMoves ==
  ASSUME TypeOK, NEW p \in Procs, NEW kind, NEW r \in RequestRow, Begin(p, kind, r)
  PROVE  /\ req[p].at = "idle" /\ req'[p] = r
         /\ req' \in [ Procs -> RequestRow ]
         /\ \A q \in Procs \ {p} : req'[q] = req[q]
  BY DEF TypeOK, Begin, RequestRow

LEMMA GotoMoves ==
  ASSUME TypeOK, NEW p \in Procs, NEW to \in Places, Goto(p, to)
  PROVE  /\ req' \in [ Procs -> RequestRow ]
         /\ \A q \in Procs \ {p} : req'[q] = req[q]
         /\ req'[p].at = to /\ req'[p].user = req[p].user
         /\ req'[p].token = req[p].token /\ req'[p].targets = req[p].targets
         /\ req'[p].write = req[p].write
  BY DEF TypeOK, Goto, RequestRow

LEMMA AnswerMoves ==
  ASSUME TypeOK, NEW p \in Procs, NEW from, Answer(p, from)
  PROVE  /\ req[p].at = from /\ req'[p] = Idle
         /\ req' \in [ Procs -> RequestRow ]
         /\ \A q \in Procs \ {p} : req'[q] = req[q]
         /\ overtaken' \subseteq Procs
  BY IdleType DEF TypeOK, Answer, RequestRow

(* A multi-row statement starts: the request remembers its rows.           *)
LEMMA PickMoves ==
  ASSUME TypeOK, NEW p \in Procs, NEW from, NEW to \in Places, NEW S \in SUBSET Tokens,
         Pick(p, from, to, S)
  PROVE  /\ req[p].at = from /\ req' \in [ Procs -> RequestRow ]
         /\ \A q \in Procs \ {p} : req'[q] = req[q]
         /\ req'[p].at = to /\ req'[p].user = req[p].user
         /\ req'[p].token = req[p].token /\ req'[p].targets = S
         /\ req'[p].write = req[p].write
  BY DEF TypeOK, RequestRow, Pick

-----------------------------------------------------------------------------
(* Requests that arrive.                                                   *)

\* Such a step changes nothing but the record of its request ...
Quiet == UNCHANGED <<accounts, tokens, expired, rowLock, history>>

\* ... which is at the start of its handler, with what it read.
Starts(r) ==
    /\ r \in RequestRow
    /\ r.at \notin { "idle", "create", "recheck", "revokeActive", "commit", "dropUser" }
    /\ r.at # "purge" => r.user \in Users
    /\ \A t \in r.targets : row[t] # "free"
    /\ r.at = "logout" => r.token \in Tokens
    /\ r.at \in { "consume", "reuse" } =>
         r.token \in Tokens /\ row[r.token] # "free" /\ r.user = owner[r.token]
    /\ r.at = "reuse" => r.token \in spent

LEMMA StartAt ==
  ASSUME NEW u \in Users, NEW place \in { "saveRefreshToken", "userCreate", "dropTokens" }
  PROVE  Starts(At(place, u))
  BY AtType DEF Starts, Places

LEMMA StartAtWrite ==
  ASSUME NEW u \in Users, NEW w \in Writes, NEW place \in { "txUpdate", "update" }
  PROVE  Starts(AtWrite(place, u, w))
  BY AtWriteType DEF Starts, Places

LEMMA ArriveStarts ==
  ASSUME TypeOK, Lineage, NEW p \in Procs, Arrive(p)
  PROVE  Quiet /\ \E r : Starts(r) /\ \E kind : Begin(p, kind, r)
  <1> DEFINE Goal == Quiet /\ \E r : Starts(r) /\ \E kind : Begin(p, kind, r)
  <1>1. ASSUME NEW u \in Users,
               Login(p, u) \/ Register(p, u) \/ ChangePassword(p, u) \/ ResetPassword(p, u)
        PROVE  Goal
    <2>1. /\ Starts(At("saveRefreshToken", u)) /\ Starts(At("userCreate", u))
          /\ Starts(AtWrite("txUpdate", u, Touch))
      BY StartAt, StartAtWrite, IdleType
    <2> QED
      BY <1>1, <2>1 DEF Login, Register, ChangePassword, ResetPassword, Quiet
  <1>2. ASSUME NEW t \in Tokens, Refresh(p, t) PROVE Goal
    <2>1. row[t] # "free" /\ owner[t] \in Users
      BY <1>2 DEF Refresh, Lineage
    <2>2. Starts(AtToken("consume", owner[t], t))
      BY <2>1, AtTokenType DEF Starts, Places
    <2>3. row[t] = "revoked" => Starts(AtToken("reuse", owner[t], t))
      BY <2>1, AtTokenType DEF Starts, Places, Lineage
    <2> QED
      BY <1>2, <2>2, <2>3 DEF Refresh, Quiet
  <1>3. ASSUME NEW u \in Users, NEW t \in Tokens, Logout(p, u, t) PROVE Goal
    <2>1. Starts(AtToken("logout", u, t))
      BY AtTokenType DEF Starts, Places
    <2> QED
      BY <1>3, <2>1 DEF Logout, Quiet
  <1>4. ASSUME NEW by \in Users, NEW u \in Users,
               \/ BlockUser(p, by, u) \/ UnblockUser(p, by, u)
               \/ AssignPlan(p, by, u) \/ DeleteUser(p, by, u)
        PROVE  Goal
    <2>1. /\ [Touch EXCEPT !.standing = "blocked"] \in Writes
          /\ [Touch EXCEPT !.standing = "allowed", !.revoke = FALSE] \in Writes
      BY DEF Touch, Writes, Standings
    <2>2. /\ Starts(AtWrite("txUpdate", u, [Touch EXCEPT !.standing = "blocked"]))
          /\ Starts(AtWrite("update", u, [Touch EXCEPT !.standing = "allowed",
                                                       !.revoke = FALSE]))
          /\ Starts(AtWrite("update", u, Touch))
          /\ Starts(At("dropTokens", u))
      BY <2>1, StartAt, StartAtWrite, IdleType
    <2> QED
      BY <1>4, <2>2 DEF BlockUser, UnblockUser, AssignPlan, DeleteUser, Quiet
  <1>5. ASSUME NEW by \in Users, NEW u \in Users, NEW r \in Roles, UpdateRole(p, by, u, r)
        PROVE  Goal
    <2>1. [Touch EXCEPT !.role = r, !.revoke = FALSE] \in Writes
      BY DEF Touch, Writes
    <2>2. Starts(AtWrite("update", u, [Touch EXCEPT !.role = r, !.revoke = FALSE]))
      BY <2>1, StartAtWrite
    <2> QED
      BY <1>5, <2>2 DEF UpdateRole, Quiet
  <1>6. ASSUME NEW by \in Users, NEW u \in Users, NEW r \in Roles \cup {"keep"},
               NEW s \in Standings \cup {"keep"}, NEW confirmed \in BOOLEAN,
               NEW email \in BOOLEAN,
               AdminUpdateUser(p, by, u, r, s, confirmed, email)
        PROVE  Goal
    <2> DEFINE w == [ role |-> r, standing |-> s, rekey |-> email,
                      revoke |-> \/ r \notin { "keep", account[u].role }
                                 \/ s \notin { "keep", account[u].standing }
                                 \/ confirmed ]
    <2>1. w \in Writes
      BY DEF Writes
    <2>2. Starts(AtWrite("txUpdate", u, w))
      BY <2>1, StartAtWrite
    <2> QED
      BY <1>6, <2>2 DEF AdminUpdateUser, Quiet
  <1>7. ASSUME HandleExpiredTokens(p) PROVE Goal
    <2> DEFINE r == [Idle EXCEPT !.at = "purge",
                                 !.targets = { t \in Tokens : Stored(t) /\ expired[t] }]
    <2>1. r \in RequestRow /\ r.at = "purge"
          /\ r.targets = { t \in Tokens : Stored(t) /\ expired[t] }
      BY IdleType DEF Idle, RequestRow, Places
    <2>2. Starts(r)
      BY <2>1 DEF Starts, Stored
    <2> QED
      BY <1>7, <2>2 DEF HandleExpiredTokens, Quiet
  <1> QED
    BY <1>1, <1>2, <1>3, <1>4, <1>5, <1>6, <1>7 DEF Arrive

LEMMA StartKeepsInv ==
  ASSUME TokenInv, NEW p \in Procs, NEW r, NEW kind, Starts(r), Begin(p, kind, r), Quiet
  PROVE  TokenInv'
  <1> USE DEF Quiet, accounts, tokens, history
  <1>1. /\ req[p].at = "idle" /\ req'[p] = r /\ r \in RequestRow
        /\ req' \in [ Procs -> RequestRow ]
        /\ \A q \in Procs \ {p} : req'[q] = req[q]
    BY BeginMoves DEF TokenInv, Starts
  <1>2. TypeOK'
    BY <1>1 DEF TokenInv, TypeOK, RequestRow
  <1>3. LocksHeld'
    BY <1>1 DEF TokenInv, LocksHeld, Holds, Stored, Starts
  <1>4. RequestsRemember'
    <2> SUFFICES ASSUME NEW q \in Procs PROVE Remembers(q)'
      BY DEF RequestsRemember
    <2>1. CASE q = p
      BY <1>1, <2>1 DEF Remembers, Starts
    <2>2. CASE q # p
      BY <1>1, <2>2 DEF Remembers, TokenInv, RequestsRemember
    <2> QED
      BY <2>1, <2>2
  <1>5. Lineage' /\ OneActivePerChain' /\ AlarmReachesSuccessor' /\ NoFalseAlarm'
    BY DEF TokenInv, Lineage, OneActivePerChain, AlarmReachesSuccessor, NoFalseAlarm
  <1>6. NoOrphanTokens'
    BY DEF TokenInv, NoOrphanTokens, Stored, Live
  <1> QED
    BY <1>2, <1>3, <1>4, <1>5, <1>6 DEF TokenInv

-----------------------------------------------------------------------------
(* Steps that only end tokens.  Most steps of a handler revoke or delete   *)
(* rows nobody has locked, or change no row: what they share is said once. *)

\* Rows end, unless another transaction holds them; an ended row that is not
\* deleted is spent; nothing else about a row changes.  Afterwards the request
\* holds no row.
Ends(p) ==
    /\ UNCHANGED <<owner, parent, root>> /\ rowLock' = Released(p)
    /\ spent \subseteq spent'
    /\ \A t \in Tokens :
         /\ \/ row'[t] = row[t]
            \/ /\ rowLock[t] \in { NoProc, p } /\ row[t] \in { "active", "revoked" }
               /\ row'[t] \in { "revoked", "gone" }
         /\ t \in spent' => row'[t] \in { "revoked", "gone" }
         /\ row'[t] = "revoked" => t \in spent'
         /\ row'[t] \in { "active", "revoked" } => Live(owner[t])'

(* Only two places hold rows.                                              *)
LEMMA NoLocks ==
  ASSUME TokenInv, NEW p \in Procs, req[p].at \notin { "create", "dropUser" }
  PROVE  Released(p) = rowLock
  <1>1. \A t \in Tokens : rowLock[t] # p
    BY DEF TokenInv, LocksHeld, Holds
  <1> QED
    BY <1>1 DEF Released, TokenInv, TypeOK

LEMMA EndsKeepsInv ==
  ASSUME TokenInv, TypeOK', NEW p \in Procs, Ends(p),
         req'[p].at \notin { "create", "dropUser" }, Remembers(p)',
         \A q \in Procs \ {p} : req'[q] = req[q],
         alarmed' \subseteq spent',
         \A s, t \in Tokens :
             t \in alarmed' /\ t \notin alarmed /\ parent[s] = t => row'[s] # "active"
  PROVE  TokenInv'
  <1>1. LocksHeld'
    <2> SUFFICES ASSUME NEW t \in Tokens
                 PROVE  /\ rowLock'[t] # NoProc => Stored(t)'
                        /\ \A q \in Procs :
                             /\ rowLock'[t] = q <=> Holds(q, t)'
                             /\ req'[q].at = "create" /\ req'[q].token = t => row'[t] = "active"
      BY DEF LocksHeld
    <2>1. rowLock'[t] = IF rowLock[t] = p THEN NoProc ELSE rowLock[t]
      BY DEF Ends, Released
    <2>2. rowLock[t] \notin { NoProc, p } => row'[t] = row[t]
      BY DEF Ends
    <2>3. rowLock'[t] # NoProc => Stored(t)'
      BY <2>1, <2>2 DEF TokenInv, LocksHeld, Stored
    <2>4. ASSUME NEW q \in Procs, q # p
          PROVE  /\ rowLock'[t] = q <=> Holds(q, t)'
                 /\ req'[q].at = "create" /\ req'[q].token = t => row'[t] = "active"
      <3>1. req'[q] = req[q] /\ q # NoProc
        BY <2>4, SessionsAssumption
      <3>2. rowLock[t] = q <=> Holds(q, t)
        BY DEF TokenInv, LocksHeld
      <3>3. Holds(q, t)' <=> Holds(q, t)
        BY <3>1 DEF Holds
      <3>4. ASSUME req[q].at = "create", req[q].token = t PROVE row'[t] = "active"
        BY <2>2, <2>4, <3>1, <3>2, <3>4 DEF Holds, TokenInv, LocksHeld
      <3> QED
        BY <2>1, <2>4, <3>1, <3>2, <3>3, <3>4
    <2>5. rowLock'[t] # p /\ ~Holds(p, t)' /\ req'[p].at # "create"
      BY <2>1, SessionsAssumption DEF Holds
    <2> QED
      BY <2>3, <2>4, <2>5
  <1>2. Lineage'
    BY DEF TokenInv, Lineage, Ends, TypeOK
  <1>3. RequestsRemember'
    <2> SUFFICES ASSUME NEW q \in Procs, q # p PROVE Remembers(q)'
      BY DEF RequestsRemember
    <2>1. req'[q] = req[q] /\ Remembers(q)
      BY DEF TokenInv, RequestsRemember
    <2>2. \A t \in Tokens : row[t] # "free" => row'[t] # "free"
      BY DEF Ends
    <2>3. \A t \in Tokens : row'[t] = "active" => row[t] = "active"
      BY DEF Ends
    <2>4. req[q].targets \subseteq Tokens
      BY DEF TokenInv, TypeOK
    <2> QED
      BY <2>1, <2>2, <2>3, <2>4 DEF Remembers, Ends
  <1>4. OneActivePerChain' /\ AlarmReachesSuccessor' /\ NoFalseAlarm'
    BY DEF TokenInv, OneActivePerChain, AlarmReachesSuccessor, NoFalseAlarm, Ends
  <1>5. NoOrphanTokens'
    BY DEF NoOrphanTokens, Stored, Ends
  <1> QED
    BY <1>1, <1>2, <1>3, <1>4, <1>5 DEF TokenInv

(* A finished request remembers nothing.                                   *)
LEMMA IdleRemembers ==
  ASSUME NEW p \in Procs, req'[p] = Idle
  PROVE  Remembers(p)' /\ req'[p].at \notin { "create", "dropUser" }
  BY DEF Remembers, Idle

-----------------------------------------------------------------------------
(* Steps of a request that has started.                                    *)

\* Every column but those a step of a request moves.
Still == UNCHANGED <<row, owner, parent, root, spent, alarmed>>

LEMMA StillEnds ==
  ASSUME TokenInv, NEW p \in Procs, Still, rowLock' = Released(p),
         \A u \in Users : Live(u) => Live(u)'
  PROVE  Ends(p)
  BY DEF Ends, Still, TokenInv, Lineage, NoOrphanTokens, Stored

(* A step that changes no token row, and leaves its request consistent.    *)
LEMMA StillKeepsInv ==
  ASSUME TokenInv, TypeOK', Still, \A u \in Users : Live(u) => Live(u)',
         NEW p \in Procs,
         \/ rowLock' = Released(p)
         \/ UNCHANGED rowLock /\ req[p].at \notin { "create", "dropUser" },
         req'[p].at \notin { "create", "dropUser" }, Remembers(p)',
         \A q \in Procs \ {p} : req'[q] = req[q]
  PROVE  TokenInv'
  <1>1. Ends(p)
    BY NoLocks, StillEnds
  <1> QED
    BY <1>1, EndsKeepsInv DEF Still, TokenInv, NoFalseAlarm

LEMMA UserCreateInv ==
  ASSUME TokenInv, NEW p \in Procs, UserCreate(p)
  PROVE  TokenInv'
  <1> DEFINE u == req[p].user
  <1>1. req[p].at = "userCreate" /\ u \in Users /\ TypeOK /\ Remembers(p)
    BY DEF UserCreate, TokenInv, RequestsRemember, Remembers
  <1>2. Still /\ UNCHANGED <<expired, rowLock, userLock, missed>>
    BY DEF UserCreate, Still, tokens
  <1>3. CASE account[u].life = "new"
    <2>1. /\ Goto(p, "saveRefreshToken") /\ account' = [account EXCEPT ![u].life = "live"]
          /\ UNCHANGED overtaken
      BY <1>3 DEF UserCreate
    <2>2. /\ req' \in [ Procs -> RequestRow ]
          /\ \A q \in Procs \ {p} : req'[q] = req[q]
          /\ req'[p].at = "saveRefreshToken" /\ req'[p].user = u
          /\ req'[p].targets = req[p].targets
      BY <1>1, <2>1, GotoMoves DEF Places
    <2>3. account' \in [ Users -> AccountRow ] /\ \A x \in Users : Live(x) => Live(x)'
      BY <1>1, <2>1 DEF TypeOK, AccountRow, Live
    <2>4. TypeOK'
      BY <1>1, <1>2, <2>1, <2>2, <2>3 DEF TypeOK, AccountRow, RequestRow, Still
    <2>5. Remembers(p)'
      BY <1>1, <1>2, <2>2 DEF Remembers, Still
    <2> QED
      BY <1>1, <1>2, <2>2, <2>3, <2>4, <2>5, StillKeepsInv
  <1>4. CASE account[u].life # "new"
    <2>1. Answer(p, "userCreate") /\ UNCHANGED account
      BY <1>4 DEF UserCreate
    <2>2. /\ req'[p] = Idle /\ req' \in [ Procs -> RequestRow ]
          /\ \A q \in Procs \ {p} : req'[q] = req[q]
          /\ overtaken' \subseteq Procs
      BY <1>1, <2>1, AnswerMoves
    <2>3. TypeOK'
      BY <1>1, <1>2, <2>1, <2>2 DEF TypeOK, RequestRow, Still
    <2> QED
      BY <1>1, <1>2, <2>1, <2>2, <2>3, IdleRemembers, StillKeepsInv DEF Live
  <1> QED
    BY <1>3, <1>4

(* The row a request inserts starts a chain, or continues that of a row    *)
(* that ends in the same step.                                             *)
LEMMA SaveRefreshTokenInv ==
  ASSUME TokenInv, NEW p \in Procs, SaveRefreshToken(p)
  PROVE  TokenInv'
  <1> DEFINE u == req[p].user
  <1>1. req[p].at = "saveRefreshToken" /\ u \in Users /\ TypeOK
    BY DEF SaveRefreshToken, Answer, TokenInv, RequestsRemember, Remembers
  <1>2. /\ req'[p] = Idle /\ req' \in [ Procs -> RequestRow ]
        /\ \A q \in Procs \ {p} : req'[q] = req[q]
        /\ overtaken' \subseteq Procs
    BY <1>1, AnswerMoves DEF SaveRefreshToken
  <1>3. UNCHANGED <<account, userLock, spent, expired, rowLock, alarmed>>
    BY DEF SaveRefreshToken, accounts
  <1>4. CASE ~Live(u)
    <2>1. UNCHANGED <<row, owner, parent, root, missed>>
      BY <1>4 DEF SaveRefreshToken
    <2>2. TypeOK'
      BY <1>1, <1>2, <1>3, <2>1 DEF TypeOK, RequestRow
    <2> QED
      BY <1>1, <1>2, <1>3, <2>1, <2>2, IdleRemembers, StillKeepsInv DEF Still, Live
  <1>5. CASE Live(u)
    <2>1. PICK n \in Tokens : /\ row[n] = "free"
                              /\ row' = [row EXCEPT ![n] = "active"]
                              /\ Insert(p, u, n, NoToken, n)
      BY <1>5 DEF SaveRefreshToken
    <2>2. /\ owner' = [owner EXCEPT ![n] = u] /\ parent' = [parent EXCEPT ![n] = NoToken]
          /\ root' = [root EXCEPT ![n] = n] /\ missed' \subseteq Tokens
      BY <1>1, <2>1 DEF Insert, TypeOK
    <2>3. TypeOK'
      BY <1>1, <1>2, <1>3, <2>1, <2>2 DEF TypeOK, RequestRow
    <2>4. LocksHeld'
      <3>1. LocksHeld /\ NoProc \notin Procs
        BY SessionsAssumption DEF TokenInv
      <3>2. ASSUME NEW q \in Procs, NEW x \in Tokens
            PROVE  /\ Holds(q, x)' <=> Holds(q, x)
                   /\ req'[q].at = "create" /\ req'[q].token = x => row'[x] = "active"
        <4>1. CASE q = p
          BY <1>1, <1>2, <4>1, IdleRemembers DEF Holds
        <4>2. CASE q # p
          BY <1>1, <1>2, <2>1, <3>1, <4>2 DEF Holds, LocksHeld, TypeOK
        <4> QED
          BY <4>1, <4>2
      <3>3. ASSUME NEW x \in Tokens, rowLock[x] # NoProc PROVE Stored(x)'
        BY <1>1, <2>1, <3>1, <3>3 DEF LocksHeld, Stored, TypeOK
      <3> QED
        BY <1>3, <3>1, <3>2, <3>3 DEF LocksHeld
    <2>5. n \notin spent /\ \A t \in Tokens : parent[t] # n
      <3>1. n \notin spent
        BY <2>1 DEF TokenInv, Lineage
      <3>2. ASSUME NEW t \in Tokens, parent[t] = n PROVE FALSE
        <4>1. parent[t] # NoToken
          BY <3>2, SessionsAssumption
        <4> QED
          BY <3>1, <3>2, <4>1 DEF TokenInv, Lineage
      <3> QED
        BY <3>1, <3>2
    <2>6. Lineage'
      BY <1>1, <1>3, <2>1, <2>2, <2>5 DEF TokenInv, Lineage, TypeOK
    <2>7. RequestsRemember'
      <3> SUFFICES ASSUME NEW q \in Procs, q # p PROVE Remembers(q)'
        BY <1>2, IdleRemembers DEF RequestsRemember
      <3>1. req'[q] = req[q] /\ Remembers(q)
        BY <1>2 DEF TokenInv, RequestsRemember
      <3>2. req[q].targets \subseteq Tokens /\ req[q].token \in Tokens \cup {NoToken}
        BY <1>1 DEF TypeOK
      <3> QED
        BY <1>1, <1>3, <2>1, <2>2, <2>5, <3>1, <3>2, SessionsAssumption DEF Remembers, TypeOK
    <2>8. OneActivePerChain'
      BY <1>1, <2>1, <2>2 DEF TokenInv, OneActivePerChain, Lineage, TypeOK
    <2>9. AlarmReachesSuccessor' /\ NoFalseAlarm'
      BY <1>1, <1>3, <2>1, <2>2, SessionsAssumption
         DEF TokenInv, AlarmReachesSuccessor, NoFalseAlarm, TypeOK
    <2>10. NoOrphanTokens'
      BY <1>1, <1>3, <1>5, <2>1, <2>2 DEF TokenInv, NoOrphanTokens, Stored, Live, TypeOK
    <2> QED
      BY <2>3, <2>4, <2>6, <2>7, <2>8, <2>9, <2>10 DEF TokenInv
  <1> QED
    BY <1>4, <1>5

LEMMA ConsumeInv ==
  ASSUME TokenInv, NEW p \in Procs, Consume(p)
  PROVE  TokenInv'
  <1> DEFINE t == req[p].token
  <1>1. /\ req[p].at = "consume" /\ TypeOK /\ Remembers(p)
        /\ t \in Tokens /\ rowLock[t] = NoProc
    BY DEF Consume, Unlocked, TokenInv, RequestsRemember, Remembers
  <1>2. UNCHANGED <<account, userLock, row, owner, parent, root, spent, expired, alarmed,
                    overtaken, missed>>
    BY DEF Consume, accounts, tokens, history
  <1>3. CASE row[t] # "active"
    <2>1. Goto(p, "recheck") /\ UNCHANGED rowLock
      BY <1>3 DEF Consume
    <2>2. /\ req' \in [ Procs -> RequestRow ]
          /\ \A q \in Procs \ {p} : req'[q] = req[q]
          /\ req'[p].at = "recheck" /\ req'[p].user = req[p].user
          /\ req'[p].token = t /\ req'[p].targets = req[p].targets
      BY <1>1, <2>1, GotoMoves DEF Places
    <2>3. TypeOK'
      BY <1>1, <1>2, <2>1, <2>2 DEF TypeOK, RequestRow
    <2>4. Remembers(p)'
      BY <1>1, <1>2, <2>2 DEF Remembers
    <2> QED
      BY <1>1, <1>2, <2>1, <2>2, <2>3, <2>4, StillKeepsInv DEF Still, Live
  <1>4. CASE row[t] = "active"
    <2>1. Goto(p, "create") /\ rowLock' = [rowLock EXCEPT ![t] = p]
      BY <1>4 DEF Consume
    <2>2. /\ req' \in [ Procs -> RequestRow ]
          /\ \A q \in Procs \ {p} : req'[q] = req[q]
          /\ req'[p].at = "create" /\ req'[p].user = req[p].user
          /\ req'[p].token = t /\ req'[p].targets = req[p].targets
      BY <1>1, <2>1, GotoMoves DEF Places
    <2>3. TypeOK'
      BY <1>1, <1>2, <2>1, <2>2 DEF TypeOK, RequestRow
    <2>4. LocksHeld'
      <3>1. ASSUME NEW x \in Tokens PROVE rowLock'[x] # NoProc => Stored(x)'
        BY <1>1, <1>2, <1>4, <2>1 DEF TokenInv, LocksHeld, Stored, TypeOK
      <3>2. ASSUME NEW x \in Tokens, NEW q \in Procs
            PROVE  /\ rowLock'[x] = q <=> Holds(q, x)'
                   /\ req'[q].at = "create" /\ req'[q].token = x => row'[x] = "active"
        <4>1. /\ rowLock[x] = q <=> Holds(q, x)
              /\ req[q].at = "create" /\ req[q].token = x => row[x] = "active"
          BY DEF TokenInv, LocksHeld
        <4>2. rowLock'[x] = IF x = t THEN p ELSE rowLock[x]
          BY <1>1, <2>1 DEF TypeOK
        <4>3. CASE q = p
          BY <1>1, <1>2, <1>4, <2>2, <4>1, <4>2, <4>3 DEF Holds
        <4>4. CASE q # p
          BY <1>1, <1>2, <2>2, <4>1, <4>2, <4>4, SessionsAssumption DEF Holds
        <4> QED
          BY <4>3, <4>4
      <3> QED
        BY <3>1, <3>2 DEF LocksHeld
    <2>5. RequestsRemember'
      BY <1>1, <1>2, <2>2 DEF TokenInv, RequestsRemember, Remembers
    <2> QED
      BY <1>2, <2>3, <2>4, <2>5
         DEF TokenInv, Lineage, OneActivePerChain, AlarmReachesSuccessor, NoFalseAlarm,
             NoOrphanTokens, Stored, Live
  <1> QED
    BY <1>3, <1>4

(* The exchange: the consumed row ends, and the new one continues its chain. *)
LEMMA CreateInv ==
  ASSUME TokenInv, NEW p \in Procs, Create(p)
  PROVE  TokenInv'
  <1> DEFINE t == req[p].token
  <1>1. req[p].at = "create" /\ TypeOK /\ t \in Tokens /\ rowLock[t] = p
    BY DEF Create, Answer, TokenInv, RequestsRemember, Remembers, LocksHeld, Holds
  <1>2. row[t] = "active" /\ t \notin spent /\ owner[t] \in Users /\ root[t] \in Tokens
    BY <1>1, SessionsAssumption DEF TokenInv, LocksHeld, Lineage
  <1>3. /\ req'[p] = Idle /\ req' \in [ Procs -> RequestRow ]
        /\ \A q \in Procs \ {p} : req'[q] = req[q]
        /\ overtaken' \subseteq Procs
    BY <1>1, AnswerMoves DEF Create
  <1>4. /\ UNCHANGED <<account, userLock, expired, alarmed>>
        /\ spent' = spent \cup {t} /\ rowLock' = [rowLock EXCEPT ![t] = NoProc]
    BY DEF Create, accounts
  <1>5. PICK n \in Tokens : /\ row[n] = "free"
                            /\ row' = [row EXCEPT ![t] = "revoked", ![n] = "active"]
                            /\ Insert(p, owner[t], n, t, root[t])
    BY DEF Create
  <1>6. /\ owner' = [owner EXCEPT ![n] = owner[t]] /\ parent' = [parent EXCEPT ![n] = t]
        /\ root' = [root EXCEPT ![n] = root[t]] /\ missed' \subseteq Tokens
    BY <1>1, <1>5 DEF Insert, TypeOK
  <1>7. n # t /\ row'[t] = "revoked" /\ row'[n] = "active"
        /\ \A x \in Tokens : x # t /\ x # n => row'[x] = row[x]
    BY <1>1, <1>2, <1>5 DEF TypeOK
  <1>8. n \notin spent /\ \A x \in Tokens : parent[x] # n
    <2>1. n \notin spent
      BY <1>5 DEF TokenInv, Lineage
    <2>2. ASSUME NEW x \in Tokens, parent[x] = n PROVE FALSE
      <3>1. parent[x] # NoToken
        BY <2>2, SessionsAssumption
      <3> QED
        BY <2>1, <2>2, <3>1 DEF TokenInv, Lineage
    <2> QED
      BY <2>1, <2>2
  <1>9. TypeOK'
    BY <1>1, <1>2, <1>3, <1>4, <1>5, <1>6 DEF TypeOK, RequestRow
  <1>10. LocksHeld'
    <2> SUFFICES ASSUME NEW x \in Tokens
                 PROVE  /\ rowLock'[x] # NoProc => Stored(x)'
                        /\ \A q \in Procs :
                             /\ rowLock'[x] = q <=> Holds(q, x)'
                             /\ req'[q].at = "create" /\ req'[q].token = x => row'[x] = "active"
      BY DEF LocksHeld
    <2>1. rowLock'[x] = IF x = t THEN NoProc ELSE rowLock[x]
      BY <1>1, <1>4 DEF TypeOK
    <2>2. rowLock'[x] # NoProc => Stored(x)'
      BY <1>1, <1>7, <2>1 DEF TokenInv, LocksHeld, Stored
    <2>3. ASSUME NEW q \in Procs
          PROVE  /\ rowLock'[x] = q <=> Holds(q, x)'
                 /\ req'[q].at = "create" /\ req'[q].token = x => row'[x] = "active"
      <3>1. /\ rowLock[x] = q <=> Holds(q, x)
            /\ req[q].at = "create" /\ req[q].token = x => row[x] = "active"
        BY DEF TokenInv, LocksHeld
      <3>2. CASE q = p
        BY <1>1, <1>3, <2>1, <3>1, <3>2, IdleRemembers, SessionsAssumption DEF Holds
      <3>3. CASE q # p
        <4>1. Holds(q, x)' <=> Holds(q, x)
          BY <1>3, <3>3 DEF Holds
        <4>2. ASSUME req[q].at = "create", req[q].token = x PROVE row'[x] = "active"
          BY <1>1, <1>5, <1>7, <3>1, <3>3, <4>2 DEF Holds
        <4> QED
          BY <1>1, <1>3, <2>1, <3>1, <3>3, <4>1, <4>2, SessionsAssumption
      <3> QED
        BY <3>2, <3>3
    <2> QED
      BY <2>2, <2>3
  <1>11. Lineage'
    <2> SUFFICES ASSUME NEW x \in Tokens
                 PROVE  /\ row'[x] # "free" => /\ owner'[x] \in Users /\ root'[x] \in Tokens
                                               /\ row'[root'[x]] # "free"
                        /\ row'[x] = "free" => parent'[x] = NoToken
                        /\ parent'[x] # NoToken =>
                             parent'[x] \in spent' /\ owner'[parent'[x]] = owner'[x]
                        /\ x \in spent' => row'[x] \in { "revoked", "gone" }
                        /\ row'[x] = "revoked" => x \in spent'
      BY DEF Lineage
    <2>1. \A y \in Tokens : row[y] # "free" => row'[y] # "free"
      BY <1>5, <1>7
    <2>2. CASE x = n
      BY <1>1, <1>2, <1>4, <1>6, <1>7, <1>8, <2>1, <2>2, SessionsAssumption
         DEF TokenInv, Lineage, TypeOK
    <2>3. CASE x # n
      <3>1. owner'[x] = owner[x] /\ parent'[x] = parent[x] /\ root'[x] = root[x]
        BY <1>1, <1>6, <2>3 DEF TypeOK
      <3>2. parent[x] # NoToken => parent[x] \in Tokens /\ owner'[parent[x]] = owner[parent[x]]
        BY <1>1, <1>6, <1>8 DEF TypeOK
      <3> QED
        BY <1>2, <1>4, <1>7, <2>1, <2>3, <3>1, <3>2 DEF TokenInv, Lineage
    <2> QED
      BY <2>2, <2>3
  <1>12. RequestsRemember'
    <2> SUFFICES ASSUME NEW q \in Procs, q # p PROVE Remembers(q)'
      BY <1>3, IdleRemembers DEF RequestsRemember
    <2>1. req'[q] = req[q] /\ Remembers(q)
      BY <1>3 DEF TokenInv, RequestsRemember
    <2>2. req[q].targets \subseteq Tokens /\ req[q].token \in Tokens \cup {NoToken}
      BY <1>1 DEF TypeOK
    <2>3. \A y \in Tokens : row[y] # "free" => row'[y] # "free" /\ owner'[y] = owner[y]
      BY <1>1, <1>5, <1>6, <1>7 DEF TypeOK
    <2>4. ASSUME req[q].at = "revokeActive", NEW s \in Tokens,
                 parent'[s] = req[q].token, row'[s] = "active"
          PROVE  s \in req[q].targets
      <3>1. s # n
        BY <1>1, <1>2, <1>6, <2>1, <2>4 DEF Remembers, TypeOK
      <3> QED
        BY <1>1, <1>6, <1>7, <2>1, <2>4, <3>1 DEF Remembers, TypeOK
    <2> QED
      BY <1>4, <2>1, <2>2, <2>3, <2>4 DEF Remembers
  <1>13. OneActivePerChain'
    BY <1>1, <1>2, <1>5, <1>6, <1>7 DEF TokenInv, OneActivePerChain, TypeOK
  <1>14. AlarmReachesSuccessor' /\ NoFalseAlarm'
    BY <1>1, <1>2, <1>4, <1>6, <1>7 DEF TokenInv, AlarmReachesSuccessor, NoFalseAlarm, TypeOK
  <1>15. NoOrphanTokens'
    BY <1>1, <1>2, <1>4, <1>6, <1>7 DEF TokenInv, NoOrphanTokens, Stored, Live, TypeOK
  <1> QED
    BY <1>9, <1>10, <1>11, <1>12, <1>13, <1>14, <1>15 DEF TokenInv

LEMMA RecheckInv ==
  ASSUME TokenInv, NEW p \in Procs, Recheck(p)
  PROVE  TokenInv'
  <1> DEFINE t == req[p].token
  <1>1. req[p].at = "recheck" /\ TypeOK /\ Remembers(p) /\ t \in Tokens
    BY DEF Recheck, TokenInv, RequestsRemember, Remembers
  <1>2. UNCHANGED <<account, userLock, row, owner, parent, root, spent, expired, rowLock,
                    alarmed, missed>>
    BY DEF Recheck, accounts, tokens
  <1>3. CASE row[t] = "revoked"
    <2>1. Goto(p, "reuse") /\ UNCHANGED overtaken
      BY <1>3 DEF Recheck
    <2>2. /\ req' \in [ Procs -> RequestRow ]
          /\ \A q \in Procs \ {p} : req'[q] = req[q]
          /\ req'[p].at = "reuse" /\ req'[p].user = req[p].user
          /\ req'[p].token = t /\ req'[p].targets = req[p].targets
      BY <1>1, <2>1, GotoMoves DEF Places
    <2>3. TypeOK'
      BY <1>1, <1>2, <2>1, <2>2 DEF TypeOK, RequestRow
    <2>4. t \in spent
      BY <1>1, <1>3 DEF TokenInv, Lineage
    <2>5. Remembers(p)'
      BY <1>1, <1>2, <2>2, <2>4 DEF Remembers
    <2> QED
      BY <1>1, <1>2, <2>2, <2>3, <2>5, StillKeepsInv DEF Still, Live
  <1>4. CASE row[t] # "revoked"
    <2>1. Answer(p, "recheck")
      BY <1>4 DEF Recheck
    <2>2. /\ req'[p] = Idle /\ req' \in [ Procs -> RequestRow ]
          /\ \A q \in Procs \ {p} : req'[q] = req[q]
          /\ overtaken' \subseteq Procs
      BY <1>1, <2>1, AnswerMoves
    <2>3. TypeOK'
      BY <1>1, <1>2, <2>2 DEF TypeOK, RequestRow
    <2> QED
      BY <1>1, <1>2, <2>2, <2>3, IdleRemembers, StillKeepsInv DEF Still, Live
  <1> QED
    BY <1>3, <1>4

(* The successor of the reused token is among the rows the alarm picks.    *)
LEMMA RejectRefreshTokenReuseInv ==
  ASSUME TokenInv, NEW p \in Procs, RejectRefreshTokenReuse(p)
  PROVE  TokenInv'
  <1> DEFINE S == ActiveTokens(req[p].user)
  <1>1. /\ req[p].at = "reuse" /\ TypeOK /\ Remembers(p)
        /\ Pick(p, "reuse", "revokeActive", S)
    BY DEF RejectRefreshTokenReuse, Pick, TokenInv, RequestsRemember
  <1>2. /\ UNCHANGED <<account, userLock, row, owner, parent, root, spent, expired, rowLock>>
        /\ UNCHANGED <<alarmed, overtaken, missed>>
    BY DEF RejectRefreshTokenReuse, accounts, tokens, history
  <1>3. S \subseteq Tokens /\ \A s \in S : row[s] # "free"
    BY DEF ActiveTokens, TokensOf, Stored
  <1>4. /\ req' \in [ Procs -> RequestRow ]
        /\ \A q \in Procs \ {p} : req'[q] = req[q]
        /\ req'[p].at = "revokeActive" /\ req'[p].user = req[p].user
        /\ req'[p].token = req[p].token /\ req'[p].targets = S
    <2> HIDE DEF S
    <2>1. "revokeActive" \in Places
      BY DEF Places
    <2> QED
      BY <1>1, <1>3, <2>1, PickMoves
  <1>5. TypeOK'
    BY <1>1, <1>2, <1>4 DEF TypeOK, RequestRow
  <1>6. ASSUME NEW s \in Tokens, parent[s] = req[p].token, row[s] = "active"
        PROVE  s \in S
    <2>1. parent[s] # NoToken /\ owner[s] = req[p].user
      BY <1>1, <1>6, SessionsAssumption DEF Remembers, TokenInv, Lineage
    <2> QED
      BY <1>6, <2>1 DEF ActiveTokens, TokensOf, Stored
  <1>7. Remembers(p)'
    BY <1>1, <1>2, <1>3, <1>4, <1>6 DEF Remembers
  <1> QED
    BY <1>1, <1>2, <1>4, <1>5, <1>7, StillKeepsInv DEF Still, Live

(* Rows that are revoked were active and not locked: they end.             *)
LEMMA RevokeEnds ==
  ASSUME TokenInv, NEW p \in Procs, req[p].at \notin { "create", "dropUser" },
         NEW S \in SUBSET Tokens, Revoke(S), Unlocked(S),
         \A t \in S : row[t] = "active",
         UNCHANGED <<account, owner, parent, root, rowLock>>
  PROVE  Ends(p) /\ row' \in [ Tokens -> { "free", "active", "revoked", "gone" } ]
              /\ spent' \subseteq Tokens
  <1>1. row' = [t \in Tokens |-> IF t \in S THEN "revoked" ELSE row[t]]
        /\ spent' = spent \cup S /\ TypeOK
    BY DEF Revoke, TokenInv
  <1>2. ASSUME NEW t \in Tokens, row'[t] \in { "active", "revoked" }
        PROVE  Live(owner[t])'
    BY <1>1, <1>2 DEF TokenInv, NoOrphanTokens, Stored, Live
  <1> QED
    BY <1>1, <1>2, NoLocks DEF Ends, Unlocked, TokenInv, Lineage, TypeOK

LEMMA RevokeActiveRefreshTokensInv ==
  ASSUME TokenInv, NEW p \in Procs, RevokeActiveRefreshTokens(p)
  PROVE  TokenInv'
  <1> DEFINE S == { t \in req[p].targets : row[t] = "active" }
  <1>1. req[p].at = "revokeActive" /\ TypeOK /\ Remembers(p)
    BY DEF RevokeActiveRefreshTokens, Answer, TokenInv, RequestsRemember
  <1>2. /\ req'[p] = Idle /\ req' \in [ Procs -> RequestRow ]
        /\ \A q \in Procs \ {p} : req'[q] = req[q]
        /\ overtaken' \subseteq Procs
    BY <1>1, AnswerMoves DEF RevokeActiveRefreshTokens
  <1>3. /\ UNCHANGED <<account, userLock, owner, parent, root, expired, rowLock, missed>>
        /\ alarmed' = alarmed \cup {req[p].token} /\ Revoke(S) /\ Unlocked(S)
    BY DEF RevokeActiveRefreshTokens, accounts, Unlocked
  <1>4. S \in SUBSET Tokens
    BY <1>1 DEF TypeOK
  <1>5. Ends(p) /\ row' \in [ Tokens -> { "free", "active", "revoked", "gone" } ]
                /\ spent' \subseteq Tokens
    BY <1>1, <1>3, <1>4, RevokeEnds
  <1>6. req[p].token \in Tokens /\ req[p].token \in spent
    BY <1>1 DEF Remembers
  <1>7. TypeOK'
    BY <1>1, <1>2, <1>3, <1>5, <1>6 DEF TypeOK, RequestRow
  <1>8. ASSUME NEW s \in Tokens, parent[s] = req[p].token PROVE row'[s] # "active"
    <2>1. row[s] = "active" => s \in S
      BY <1>1, <1>8 DEF Remembers
    <2> QED
      BY <1>3, <2>1 DEF Revoke
  <1>9. alarmed' \subseteq spent'
    BY <1>3, <1>5, <1>6 DEF TokenInv, NoFalseAlarm, Ends
  <1> QED
    BY <1>1, <1>2, <1>3, <1>5, <1>7, <1>8, <1>9, IdleRemembers, EndsKeepsInv

LEMMA LogoutRevokeInv ==
  ASSUME TokenInv, NEW p \in Procs, LogoutRevoke(p)
  PROVE  TokenInv'
  <1> DEFINE t == req[p].token
             S == { x \in {t} : owner[x] = req[p].user /\ row[x] = "active" }
  <1>1. req[p].at = "logout" /\ TypeOK /\ t \in Tokens
    BY DEF LogoutRevoke, Answer, TokenInv, RequestsRemember, Remembers
  <1>2. /\ req'[p] = Idle /\ req' \in [ Procs -> RequestRow ]
        /\ \A q \in Procs \ {p} : req'[q] = req[q]
        /\ overtaken' \subseteq Procs
    BY <1>1, AnswerMoves DEF LogoutRevoke
  <1>3. /\ UNCHANGED <<account, userLock, owner, parent, root, expired, rowLock, alarmed, missed>>
        /\ Revoke(S) /\ Unlocked(S)
    BY DEF LogoutRevoke, accounts, Unlocked
  <1>4. Ends(p) /\ row' \in [ Tokens -> { "free", "active", "revoked", "gone" } ]
                /\ spent' \subseteq Tokens
    BY <1>1, <1>3, RevokeEnds
  <1>5. TypeOK'
    BY <1>1, <1>2, <1>3, <1>4 DEF TypeOK, RequestRow
  <1> QED
    BY <1>1, <1>2, <1>3, <1>4, <1>5, IdleRemembers, EndsKeepsInv
       DEF TokenInv, NoFalseAlarm, Ends

(* Rows that are deleted existed and no other request held them: they end. *)
LEMMA DeleteEnds ==
  ASSUME TokenInv, NEW p \in Procs, NEW S \in SUBSET Tokens, Delete(S),
         \A t \in S : row[t] # "free" /\ rowLock[t] \in { NoProc, p },
         UNCHANGED <<owner, parent, root, spent>>, rowLock' = Released(p),
         \A t \in Tokens : Stored(t) /\ t \notin S => Live(owner[t])'
  PROVE  Ends(p) /\ row' \in [ Tokens -> { "free", "active", "revoked", "gone" } ]
  <1>1. row' = [t \in Tokens |-> IF t \in S THEN "gone" ELSE row[t]] /\ TypeOK
    BY DEF Delete, TokenInv
  <1>2. ASSUME NEW t \in Tokens, row'[t] \in { "active", "revoked" }
        PROVE  Live(owner[t])'
    BY <1>1, <1>2 DEF Stored
  <1>3. ASSUME NEW t \in Tokens
        PROVE  \/ row'[t] = row[t]
               \/ /\ rowLock[t] \in { NoProc, p } /\ row[t] \in { "active", "revoked" }
                  /\ row'[t] \in { "revoked", "gone" }
    BY <1>1 DEF TypeOK
  <1>4. ASSUME NEW t \in Tokens
        PROVE  /\ t \in spent' => row'[t] \in { "revoked", "gone" }
               /\ row'[t] = "revoked" => t \in spent'
    BY <1>1 DEF TokenInv, Lineage
  <1>5. row' \in [ Tokens -> { "free", "active", "revoked", "gone" } ]
    BY <1>1 DEF TypeOK
  <1> QED
    BY <1>2, <1>3, <1>4, <1>5 DEF Ends

LEMMA PurgeInv ==
  ASSUME TokenInv, NEW p \in Procs, Purge(p)
  PROVE  TokenInv'
  <1> DEFINE S == req[p].targets
  <1>1. req[p].at = "purge" /\ TypeOK /\ S \in SUBSET Tokens /\ \A t \in S : row[t] # "free"
    BY DEF Purge, Answer, TokenInv, TypeOK, RequestsRemember, Remembers
  <1>2. /\ req'[p] = Idle /\ req' \in [ Procs -> RequestRow ]
        /\ \A q \in Procs \ {p} : req'[q] = req[q]
        /\ overtaken' \subseteq Procs
    BY <1>1, AnswerMoves DEF Purge
  <1>3. /\ UNCHANGED <<account, userLock, owner, parent, root, spent, expired, rowLock>>
        /\ UNCHANGED <<alarmed, missed>> /\ Delete(S) /\ Unlocked(S)
    BY DEF Purge, accounts
  <1>4. \A t \in Tokens : Stored(t) /\ t \notin S => Live(owner[t])'
    BY <1>3 DEF TokenInv, NoOrphanTokens, Live
  <1>5. Ends(p) /\ row' \in [ Tokens -> { "free", "active", "revoked", "gone" } ]
    BY <1>1, <1>3, <1>4, NoLocks, DeleteEnds DEF Unlocked
  <1>6. TypeOK'
    BY <1>1, <1>2, <1>3, <1>5 DEF TypeOK, RequestRow
  <1> QED
    BY <1>1, <1>2, <1>3, <1>5, <1>6, IdleRemembers, EndsKeepsInv DEF TokenInv, NoFalseAlarm

LEMMA DropUserInv ==
  ASSUME TokenInv, NEW p \in Procs, DropUser(p)
  PROVE  TokenInv'
  <1> DEFINE S == req[p].targets
             u == req[p].user
  <1>1. /\ req[p].at = "dropUser" /\ TypeOK /\ u \in Users
        /\ S \in SUBSET Tokens /\ \A t \in S : row[t] # "free"
    BY DEF DropUser, Answer, TokenInv, TypeOK, RequestsRemember, Remembers
  <1>2. /\ req'[p] = Idle /\ req' \in [ Procs -> RequestRow ]
        /\ \A q \in Procs \ {p} : req'[q] = req[q]
        /\ overtaken' \subseteq Procs
    BY <1>1, AnswerMoves DEF DropUser
  <1>3. /\ UNCHANGED <<userLock, owner, parent, root, spent, expired, alarmed, missed>>
        /\ rowLock' = Released(p) /\ \A t \in S : rowLock[t] = p
    BY <1>1 DEF DropUser, TokenInv, LocksHeld, Holds
  <1>r. rowLock' \in [ Tokens -> Procs \cup {NoProc} ]
    BY <1>1, <1>3 DEF Released, TypeOK
  <1>4. CASE ~(Live(u) /\ TokensOf(u) \subseteq S)
    <2>1. UNCHANGED <<account, row>>
      BY <1>4 DEF DropUser
    <2>2. TypeOK'
      BY <1>1, <1>2, <1>3, <1>r, <2>1 DEF TypeOK, RequestRow
    <2> QED
      BY <1>1, <1>2, <1>3, <2>1, <2>2, IdleRemembers, StillKeepsInv DEF Still, Live
  <1>5. CASE Live(u) /\ TokensOf(u) \subseteq S
    <2>1. Delete(S) /\ account' = [account EXCEPT ![u].life = "gone"]
      BY <1>5 DEF DropUser
    <2>2. account' \in [ Users -> AccountRow ]
      <3>1. account \in [ Users -> AccountRow ] /\ account[u] \in AccountRow
        BY <1>1 DEF TypeOK, AccountRow
      <3>2. [account[u] EXCEPT !.life = "gone"] \in AccountRow
        BY <3>1 DEF AccountRow
      <3> QED
        BY <2>1, <3>1, <3>2
    <2>3. ASSUME NEW t \in Tokens, Stored(t), t \notin S PROVE Live(owner[t])'
      <3>1. owner[t] # u
        BY <1>5, <2>3 DEF TokensOf
      <3>2. owner[t] \in Users /\ Live(owner[t])
        BY <2>3 DEF TokenInv, Lineage, NoOrphanTokens, Stored
      <3> QED
        BY <1>1, <1>3, <2>1, <3>1, <3>2 DEF Live, TypeOK
    <2>4. Ends(p) /\ row' \in [ Tokens -> { "free", "active", "revoked", "gone" } ]
      BY <1>1, <1>3, <2>1, <2>3, DeleteEnds
    <2>5. TypeOK'
      BY <1>1, <1>2, <1>3, <1>r, <2>2, <2>4 DEF TypeOK, RequestRow, AccountRow
    <2> QED
      BY <1>1, <1>2, <1>3, <2>4, <2>5, IdleRemembers, EndsKeepsInv DEF TokenInv, NoFalseAlarm
  <1> QED
    BY <1>4, <1>5

LEMMA CommitInv ==
  ASSUME TokenInv, NEW p \in Procs, Commit(p)
  PROVE  TokenInv'
  <1> DEFINE S == req[p].targets
             u == req[p].user
             w == req[p].write
  <1>1. /\ req[p].at = "commit" /\ TypeOK /\ u \in Users /\ w \in Writes
        /\ S \in SUBSET Tokens /\ \A t \in S : row[t] # "free"
    BY DEF Commit, TokenInv, TypeOK, RequestsRemember, Remembers
  <1>2. /\ req'[p] = Idle /\ req' \in [ Procs -> RequestRow ]
        /\ \A q \in Procs \ {p} : req'[q] = req[q]
    BY <1>1, IdleType DEF Commit, TypeOK, RequestRow
  <1>3. /\ UNCHANGED <<owner, parent, root, spent, expired, rowLock>>
        /\ UNCHANGED alarmed /\ Delete(S) /\ Unlocked(S)
    BY DEF Commit
  <1>4. account' \in [ Users -> AccountRow ] /\ \A x \in Users : Live(x) => Live(x)'
    <2>1. account \in [ Users -> AccountRow ]
      BY <1>1 DEF TypeOK, AccountRow
    <2>2. Written(account[u], w) \in AccountRow /\ Written(account[u], w).life = account[u].life
      BY <1>1, <2>1, WrittenType
    <2>3. \/ account' = [account EXCEPT ![u] = Written(account[u], w)]
          \/ account' = account
      BY DEF Commit
    <2> QED
      BY <1>1, <2>1, <2>2, <2>3 DEF Live
  <1>5. /\ userLock' \in [ Users -> Procs \cup {NoProc} ] /\ overtaken' \subseteq Procs
        /\ missed' \subseteq Tokens
    BY <1>1 DEF Commit, TypeOK, Overtaken, ActiveTokens, TokensOf
  <1>6. ASSUME NEW t \in Tokens, Stored(t), t \notin S PROVE Live(owner[t])'
    <2>1. owner[t] \in Users /\ Live(owner[t])
      BY <1>6 DEF TokenInv, Lineage, NoOrphanTokens, Stored
    <2> QED
      BY <1>3, <1>4, <2>1 DEF Live
  <1>7. Ends(p) /\ row' \in [ Tokens -> { "free", "active", "revoked", "gone" } ]
    BY <1>1, <1>3, <1>6, NoLocks, DeleteEnds DEF Unlocked
  <1>8. TypeOK'
    BY <1>1, <1>2, <1>3, <1>4, <1>5, <1>7 DEF TypeOK, RequestRow, AccountRow
  <1> QED
    BY <1>1, <1>2, <1>3, <1>7, <1>8, IdleRemembers, EndsKeepsInv DEF TokenInv, NoFalseAlarm

(* TxDelete and DropTokens: the request picks its user's rows.             *)
LEMMA PickInv ==
  ASSUME TokenInv, NEW p \in Procs, TxDelete(p) \/ DropTokens(p)
  PROVE  TokenInv'
  <1> DEFINE S == TokensOf(req[p].user)
  <1>1. /\ req[p].at \in { "txDelete", "dropTokens" } /\ TypeOK /\ Remembers(p)
        /\ Pick(p, "txDelete", "commit", S) \/ Pick(p, "dropTokens", "dropRows", S)
    BY DEF TxDelete, DropTokens, Pick, TokenInv, RequestsRemember
  <1>2. /\ UNCHANGED <<account, userLock, row, owner, parent, root, spent, expired, rowLock>>
        /\ UNCHANGED <<alarmed, overtaken, missed>>
    BY DEF TxDelete, DropTokens, accounts, tokens, history
  <1>3. S \in SUBSET Tokens /\ \A s \in S : row[s] # "free"
    BY DEF TokensOf, Stored
  <1>4. /\ req' \in [ Procs -> RequestRow ]
        /\ \A q \in Procs \ {p} : req'[q] = req[q]
        /\ req'[p].at \in { "commit", "dropRows" } /\ req'[p].user = req[p].user
        /\ req'[p].targets = S
    <2> HIDE DEF S
    <2>1. "commit" \in Places /\ "dropRows" \in Places
      BY DEF Places
    <2>2. PICK to \in { "commit", "dropRows" }, from \in { "txDelete", "dropTokens" } : Pick(p, from, to, S)
      BY <1>1
    <2> QED
      BY <1>1, <1>3, <2>1, <2>2, PickMoves
  <1>5. TypeOK'
    BY <1>1, <1>2, <1>4 DEF TypeOK, RequestRow
  <1>6. Remembers(p)'
    BY <1>1, <1>2, <1>3, <1>4 DEF Remembers
  <1> QED
    BY <1>1, <1>2, <1>4, <1>5, <1>6, StillKeepsInv DEF Still, Live

(* The rows deleteUser deletes are held from here on.                      *)
LEMMA DropRowsInv ==
  ASSUME TokenInv, NEW p \in Procs, DropRows(p)
  PROVE  TokenInv'
  <1>s. PICK S, T : S = req[p].targets /\ T = { t \in S : Stored(t) }
    OBVIOUS
  <1>1. /\ req[p].at = "dropRows" /\ TypeOK /\ Remembers(p) /\ S \subseteq Tokens
        /\ \A t \in S : rowLock[t] = NoProc
        /\ req' = [req EXCEPT ![p].at = "dropUser", ![p].targets = T]
        /\ rowLock' = [t \in Tokens |-> IF t \in T THEN p ELSE rowLock[t]]
    BY <1>s DEF DropRows, Unlocked, TokenInv, TypeOK, RequestsRemember
  <1>2. UNCHANGED <<account, userLock, row, owner, parent, root, spent, expired, alarmed,
                    overtaken, missed>>
    BY DEF DropRows, accounts, tokens, history
  <1>3. T \subseteq Tokens /\ T \subseteq S /\ \A t \in T : Stored(t)
    BY <1>s, <1>1
  <1>4. /\ req' \in [ Procs -> RequestRow ]
        /\ \A q \in Procs \ {p} : req'[q] = req[q]
        /\ req'[p].at = "dropUser" /\ req'[p].user = req[p].user /\ req'[p].targets = T
    <2>1. "dropUser" \in Places
      BY DEF Places
    <2>2. Pick(p, "dropRows", "dropUser", T)
      BY <1>1 DEF Pick
    <2> QED
      BY <1>1, <1>3, <2>1, <2>2, PickMoves
  <1>5. TypeOK'
    BY <1>1, <1>2, <1>4 DEF TypeOK, RequestRow
  <1>6. LocksHeld'
    <2> SUFFICES ASSUME NEW x \in Tokens
                 PROVE  /\ rowLock'[x] # NoProc => Stored(x)'
                        /\ \A q \in Procs :
                             /\ rowLock'[x] = q <=> Holds(q, x)'
                             /\ req'[q].at = "create" /\ req'[q].token = x => row'[x] = "active"
      BY DEF LocksHeld
    <2>1. rowLock'[x] = IF x \in T THEN p ELSE rowLock[x]
      BY <1>1
    <2>2. rowLock'[x] # NoProc => Stored(x)'
      BY <1>2, <1>3, <2>1 DEF TokenInv, LocksHeld, Stored
    <2>3. ASSUME NEW q \in Procs
          PROVE  /\ rowLock'[x] = q <=> Holds(q, x)'
                 /\ req'[q].at = "create" /\ req'[q].token = x => row'[x] = "active"
      <3>1. /\ rowLock[x] = q <=> Holds(q, x)
            /\ req[q].at = "create" /\ req[q].token = x => row[x] = "active"
        BY DEF TokenInv, LocksHeld
      <3>2. CASE q = p
        BY <1>1, <1>4, <2>1, <3>1, <3>2 DEF Holds
      <3>3. CASE q # p
        BY <1>1, <1>2, <1>3, <1>4, <2>1, <3>1, <3>3, SessionsAssumption DEF Holds
      <3> QED
        BY <3>2, <3>3
    <2> QED
      BY <2>2, <2>3
  <1>7. RequestsRemember'
    <2> SUFFICES ASSUME NEW q \in Procs PROVE Remembers(q)'
      BY DEF RequestsRemember
    <2>1. CASE q = p
      BY <1>1, <1>2, <1>3, <1>4, <2>1 DEF Remembers, Stored
    <2>2. CASE q # p
      BY <1>2, <1>4, <2>2 DEF TokenInv, RequestsRemember, Remembers
    <2> QED
      BY <2>1, <2>2
  <1> QED
    BY <1>2, <1>5, <1>6, <1>7
       DEF TokenInv, Lineage, OneActivePerChain, AlarmReachesSuccessor, NoFalseAlarm,
           NoOrphanTokens, Stored, Live

(* Update and TxUpdate: the user row is written, or locked, or is gone.    *)
LEMMA UpdateInv ==
  ASSUME TokenInv, NEW p \in Procs, Update(p) \/ TxUpdate(p)
  PROVE  TokenInv'
  <1> DEFINE u == req[p].user
             w == req[p].write
  <1>1. /\ req[p].at \in { "update", "txUpdate" } /\ TypeOK /\ Remembers(p)
        /\ u \in Users /\ w \in Writes
    BY DEF Update, TxUpdate, TokenInv, TypeOK, RequestsRemember, Remembers
  <1>2. /\ UNCHANGED <<row, owner, parent, root, spent, expired, rowLock, alarmed, missed>>
    BY DEF Update, TxUpdate, tokens
  <1>3. account' \in [ Users -> AccountRow ] /\ \A x \in Users : Live(x) => Live(x)'
    <2>1. account \in [ Users -> AccountRow ]
      BY <1>1 DEF TypeOK, AccountRow
    <2>2. Written(account[u], w) \in AccountRow /\ Written(account[u], w).life = account[u].life
      BY <1>1, <2>1, WrittenType
    <2>3. \/ account' = [account EXCEPT ![u] = Written(account[u], w)]
          \/ account' = account
      BY DEF Update, TxUpdate
    <2> QED
      BY <1>1, <2>1, <2>2, <2>3 DEF Live
  <1>4. userLock' \in [ Users -> Procs \cup {NoProc} ]
    BY <1>1 DEF Update, TxUpdate, TypeOK
  <1>5. /\ req' \in [ Procs -> RequestRow ]
        /\ \A q \in Procs \ {p} : req'[q] = req[q]
        /\ overtaken' \subseteq Procs
        /\ req'[p].at \notin { "create", "dropUser" } /\ Remembers(p)'
    <2>1. \/ req' = [req EXCEPT ![p] = Idle] /\ overtaken' \subseteq Procs
          \/ UNCHANGED overtaken /\ \E to \in { "txDelete", "commit" } : Goto(p, to)
      BY <1>1 DEF Update, TxUpdate, Answer, Overtaken, TypeOK
    <2>2. CASE req' = [req EXCEPT ![p] = Idle] /\ overtaken' \subseteq Procs
      BY <1>1, <2>2, IdleType, IdleRemembers DEF TypeOK, RequestRow
    <2>3. ASSUME NEW to \in { "txDelete", "commit" }, Goto(p, to), UNCHANGED overtaken
          PROVE  /\ req' \in [ Procs -> RequestRow ]
                 /\ \A q \in Procs \ {p} : req'[q] = req[q]
                 /\ overtaken' \subseteq Procs
                 /\ req'[p].at \notin { "create", "dropUser" } /\ Remembers(p)'
      <3>1. to \in Places
        BY DEF Places
      <3>2. /\ req' \in [ Procs -> RequestRow ]
            /\ \A q \in Procs \ {p} : req'[q] = req[q]
            /\ req'[p].at = to /\ req'[p].user = u /\ req'[p].targets = req[p].targets
        BY <1>1, <2>3, <3>1, GotoMoves
      <3>3. Remembers(p)'
        BY <1>1, <1>2, <3>2 DEF Remembers
      <3> QED
        BY <1>1, <2>3, <3>2, <3>3 DEF TypeOK
    <2> QED
      BY <2>1, <2>2, <2>3
  <1>6. TypeOK'
    <2>1. req' \in [ Procs -> RequestRow ] /\ overtaken' \subseteq Procs
      BY <1>5
    <2>2. TypeOK
      BY <1>1
    <2> HIDE DEF u, w
    <2> QED
      BY <1>2, <1>3, <1>4, <2>1, <2>2 DEF TypeOK, RequestRow, AccountRow
  <1>7. Still /\ UNCHANGED rowLock /\ req[p].at \notin { "create", "dropUser" }
    BY <1>1, <1>2 DEF Still
  <1> QED
    BY <1>3, <1>5, <1>6, <1>7, StillKeepsInv

(* A request that fails lets go of what its transaction held.              *)
LEMMA FailInv ==
  ASSUME TokenInv, NEW p \in Procs, Fail(p)
  PROVE  TokenInv'
  <1>1. TypeOK /\ Answer(p, req[p].at)
    BY DEF Fail, TokenInv
  <1>2. /\ req'[p] = Idle /\ req' \in [ Procs -> RequestRow ]
        /\ \A q \in Procs \ {p} : req'[q] = req[q]
        /\ overtaken' \subseteq Procs
    BY <1>1, AnswerMoves
  <1>3. /\ UNCHANGED <<account, row, owner, parent, root, spent, expired, alarmed, missed>>
        /\ rowLock' = Released(p)
        /\ userLock' = [u \in Users |-> IF userLock[u] = p THEN NoProc ELSE userLock[u]]
    BY DEF Fail, tokens
  <1>4. TypeOK'
    BY <1>1, <1>2, <1>3 DEF TypeOK, RequestRow, Released
  <1> QED
    BY <1>2, <1>3, <1>4, IdleRemembers, StillKeepsInv DEF Still, Live

LEMMA ExpireInv ==
  ASSUME TokenInv, NEW t \in Tokens, Expire(t)
  PROVE  TokenInv'
  <1>1. /\ UNCHANGED <<account, userLock, row, owner, parent, root, spent, rowLock, req>>
        /\ UNCHANGED <<alarmed, overtaken, missed>>
        /\ expired' = [expired EXCEPT ![t] = TRUE]
    BY DEF Expire, accounts, tokens, history
  <1>2. TypeOK'
    BY <1>1 DEF TokenInv, TypeOK
  <1> QED
    BY <1>1, <1>2
       DEF TokenInv, LocksHeld, Holds, Lineage, RequestsRemember, Remembers,
           OneActivePerChain, AlarmReachesSuccessor, NoFalseAlarm, NoOrphanTokens, Stored, Live

-----------------------------------------------------------------------------
(* Accounts: what a request decided from a flag it read.                   *)

\* A request that is between two requests decides nothing.
LEMMA IdleDecides ==
  ASSUME NEW p \in Procs, req'[p] = Idle, \A u \in Users : userLock'[u] # p
  PROVE  Decides(p)'
  BY DEF Decides, Idle, Issuing

\* Only a transaction that has written its user row holds it.
LEMMA HoldsNothing ==
  ASSUME SessionInv, NEW p \in Procs, req[p].at \notin { "txDelete", "commit" }
  PROVE  \A u \in Users : userLock[u] # p
  BY DEF SessionInv, BlockInv, Decides

\* What another request does may not disturb: q still stands by what it read.
LEMMA OthersDecide ==
  ASSUME SessionInv, NEW q \in Procs, req'[q] = req[q],
         missed \subseteq missed',
         \A u \in Users : account'[u].standing \in Standings,
         q \in overtaken => q \in overtaken',
         \A u \in Users : userLock'[u] = q => userLock[u] = q /\ (Live(u) => Live(u)'),
         \A u \in Users : account'[u].standing # account[u].standing =>
             /\ userLock[u] # q
             /\ q \in Overtaken(u, account'[u].standing) => q \in overtaken',
         \A u \in Users : userLock'[u] = q => ActiveTokens(u)' \subseteq ActiveTokens(u) \cup missed'
  PROVE  Decides(q)'
  <1> DEFINE r == req[q]
  <1>1. Decides(q) /\ TypeOK /\ Remembers(q)
    BY DEF SessionInv, BlockInv, TokenInv, RequestsRemember
  <1>2. r.at \notin { "idle", "purge" } => r.user \in Users
    BY <1>1 DEF Remembers
  <1>3. account[r.user].standing \in { "allowed", "blocked" } \/ r.user \notin Users
    BY <1>1 DEF TypeOK, Standings
  <1>4. \A u \in Users : userLock'[u] = q =>
            r.user = u /\ r.at \in { "txDelete", "commit" } /\ Live(u)'
    BY <1>1 DEF Decides
  <1>5. ASSUME q \in Issuing', account'[r.user].standing = "blocked" PROVE q \in overtaken'
    <2>1. q \in Issuing /\ r.user \in Users
      BY <1>2, <1>5 DEF Issuing
    <2>2. CASE account[r.user].standing = "blocked"
      BY <1>1, <2>1, <2>2 DEF Decides
    <2>3. CASE account[r.user].standing # "blocked"
      BY <1>5, <2>1, <2>3 DEF Overtaken
    <2> QED
      BY <2>2, <2>3
  <1>6. r.at = "update" =>
          r.write.standing = "keep" \/ (r.write.standing = "allowed" /\ ~r.write.revoke)
    BY <1>1 DEF Decides
  <1>7. r.at = "txDelete" => r.write.revoke
    BY <1>1 DEF Decides
  <1>8. ASSUME r.at \in { "txUpdate", "commit" }, r.write.standing = "blocked",
               r.at = "commit" => userLock'[r.user] = q
        PROVE  /\ ~r.write.revoke => account'[r.user].standing = "blocked" \/ q \in overtaken'
               /\ r.write.revoke /\ r.at = "commit" =>
                     ActiveTokens(r.user)' \subseteq r.targets \cup missed'
    <2>1. r.user \in Users /\ (r.at = "commit" => userLock[r.user] = q)
      BY <1>2, <1>8
    <2>2. /\ ~r.write.revoke => account[r.user].standing = "blocked" \/ q \in overtaken
          /\ r.write.revoke /\ r.at = "commit" => ActiveTokens(r.user) \subseteq r.targets \cup missed
      BY <1>1, <1>8, <2>1 DEF Decides
    <2>3. ASSUME ~r.write.revoke
          PROVE  account'[r.user].standing = "blocked" \/ q \in overtaken'
      <3>1. CASE account'[r.user].standing = account[r.user].standing
        BY <2>2, <2>3, <3>1
      <3>2. CASE account'[r.user].standing # account[r.user].standing
        <4>1. r.at = "txUpdate"
          BY <1>8, <2>1, <3>2
        <4>2. CASE account[r.user].standing = "blocked" /\ account'[r.user].standing = "allowed"
          BY <1>8, <2>1, <2>3, <3>2, <4>1, <4>2 DEF Overtaken
        <4>3. CASE account[r.user].standing # "blocked"
          BY <2>2, <2>3, <4>3
        <4>4. account'[r.user].standing \in { "allowed", "blocked" }
          BY <2>1 DEF Standings
        <4> QED
          BY <4>2, <4>3, <4>4, <3>2
      <3> QED
        BY <3>1, <3>2
    <2>4. ASSUME r.write.revoke, r.at = "commit"
          PROVE  ActiveTokens(r.user)' \subseteq r.targets \cup missed'
      BY <1>8, <2>1, <2>2, <2>4
    <2> QED
      BY <2>3, <2>4
  <1> QED
    BY <1>4, <1>5, <1>6, <1>7, <1>8 DEF Decides


\* The steps that set no blocked flag.
LEMMA FlagKeptBlock ==
  ASSUME SessionInv, TypeOK', NEW p \in Procs,
         missed \subseteq missed',
         \A q \in Procs \ {p} : req'[q] = req[q] /\ (q \in overtaken => q \in overtaken'),
         \A u \in Users :
             /\ account'[u].standing = account[u].standing
             /\ account'[u].life = "new" => account[u].life = "new"
             /\ Live(u) /\ userLock[u] # NoProc => Live(u)'
             /\ userLock'[u] \in { userLock[u], p, NoProc },
         \A t \in Tokens : row'[t] = "active" =>
             \/ row[t] = "active" /\ owner'[t] = owner[t]
             \/ /\ owner'[t] \in Users
                /\ userLock[owner'[t]] # NoProc \/ account[owner'[t]].standing = "blocked"
                     => t \in missed',
         Decides(p)'
  PROVE  BlockInv'
  <1>1. SessionInv /\ TypeOK /\ Lineage /\ BlockInv
    BY DEF SessionInv, TokenInv
  <1>2. \A q \in Procs : q # NoProc
    BY SessionsAssumption
  <1>3. BlockEndsSessions'
    <2> SUFFICES ASSUME NEW t \in Tokens, row'[t] = "active",
                        account'[owner'[t]].standing = "blocked"
                 PROVE  t \in missed'
      BY DEF BlockEndsSessions
    <2>1. CASE row[t] = "active" /\ owner'[t] = owner[t]
      <3>1. owner[t] \in Users
        BY <1>1, <2>1 DEF Lineage
      <3> QED
        BY <1>1, <2>1, <3>1 DEF BlockInv, BlockEndsSessions
    <2>2. CASE ~(row[t] = "active" /\ owner'[t] = owner[t])
      BY <2>2
    <2> QED
      BY <2>1, <2>2
  <1>4. (\A u \in Users : account[u].life = "new" => account[u].standing = "allowed")'
    BY <1>1 DEF BlockInv
  <1>5. ASSUME NEW q \in Procs, q # p PROVE Decides(q)'
    <2>1. req'[q] = req[q] /\ (q \in overtaken => q \in overtaken')
      BY <1>5
    <2>2. \A u \in Users : userLock'[u] = q => userLock[u] = q /\ (Live(u) => Live(u)')
      BY <1>2, <1>5
    <2>3. \A u \in Users : userLock'[u] = q => ActiveTokens(u)' \subseteq ActiveTokens(u) \cup missed'
      <3> SUFFICES ASSUME NEW u \in Users, userLock'[u] = q,
                          NEW t \in Tokens, owner'[t] = u, row'[t] = "active"
                   PROVE  t \in ActiveTokens(u) \cup missed'
        BY DEF ActiveTokens, TokensOf
      <3>1. userLock[u] # NoProc
        BY <1>2, <2>2
      <3> QED
        BY <3>1 DEF ActiveTokens, TokensOf, Stored
    <2>4. \A u \in Users : account'[u].standing \in Standings
      BY <1>1 DEF TypeOK
    <2> QED
      BY <1>1, <2>1, <2>2, <2>3, <2>4, OthersDecide
  <1> QED
    BY <1>3, <1>4, <1>5 DEF BlockInv

\* What a request begins with: it has just looked at the flag.
LEMMA ArriveDecides ==
  ASSUME SessionInv, TypeOK', NEW p \in Procs, Arrive(p)
  PROVE  BlockInv'
  <1> DEFINE r == req'[p]
             Fresh(x) ==
               /\ x.at \notin { "txDelete", "commit" }
               /\ x.at \in { "saveRefreshToken", "consume", "create" } =>
                     account[x.user].standing # "blocked"
               /\ x.at = "update" => x.write.standing = "keep" \/
                                    (x.write.standing = "allowed" /\ ~x.write.revoke)
               /\ x.at = "txUpdate" /\ x.write.standing = "blocked" =>
                     x.write.revoke \/ account[x.user].standing = "blocked"
  <1>1. /\ TypeOK /\ Lineage /\ BlockInv /\ TokenInv
        /\ req[p].at = "idle" /\ \A q \in Procs \ {p} : req'[q] = req[q]
        /\ UNCHANGED <<account, userLock, row, owner, overtaken, missed>>
    <2>1. Quiet /\ \E x : Starts(x) /\ \E kind : Begin(p, kind, x)
      BY ArriveStarts DEF SessionInv, TokenInv
    <2> QED
      BY <2>1, BeginMoves DEF SessionInv, TokenInv, Starts, Quiet, accounts, tokens, history
  <1>2. ASSUME NEW kind, NEW x, Begin(p, kind, x) PROVE r = x
    BY <1>1, <1>2 DEF Begin, TypeOK
  <1>w. ASSUME NEW kind, NEW u, NEW w, NEW place \in { "update", "txUpdate" },
               Begin(p, kind, AtWrite(place, u, w)),
               place = "update" => w.standing = "keep" \/ (w.standing = "allowed" /\ ~w.revoke),
               w.standing = "blocked" => w.revoke \/ account[u].standing = "blocked"
        PROVE  Fresh(r)
    <2>1. r = AtWrite(place, u, w)
      BY <1>2, <1>w
    <2>2. r.at = place /\ r.user = u /\ r.write = w
      BY <2>1 DEF AtWrite, At, Idle
    <2> HIDE DEF r
    <2> QED
      BY <1>w, <2>2
  <1>a. ASSUME NEW kind, NEW u, NEW place \in { "saveRefreshToken", "userCreate", "dropTokens" },
               Begin(p, kind, At(place, u)), place = "saveRefreshToken" => Allowed(u)
        PROVE  Fresh(r)
    <2>1. r = At(place, u)
      BY <1>2, <1>a
    <2>2. r.at = place /\ r.user = u
      BY <2>1 DEF At, Idle
    <2> HIDE DEF r
    <2> QED
      BY <1>a, <2>2 DEF Allowed
  <1>t. ASSUME NEW kind, NEW u, NEW t, NEW place \in { "consume", "reuse", "logout" },
               Begin(p, kind, AtToken(place, u, t)), place = "consume" => Allowed(u)
        PROVE  Fresh(r)
    <2>1. r = AtToken(place, u, t)
      BY <1>2, <1>t
    <2>2. r.at = place /\ r.user = u
      BY <2>1 DEF AtToken, At, Idle
    <2> HIDE DEF r
    <2> QED
      BY <1>t, <2>2 DEF Allowed
  <1>3. Fresh(r)
    <2>1. ASSUME NEW u \in Users, Login(p, u) \/ Register(p, u) PROVE Fresh(r)
      BY <2>1, <1>a DEF Login, Register
    <2>2. ASSUME NEW u \in Users, ChangePassword(p, u) \/ ResetPassword(p, u) PROVE Fresh(r)
      <3>1. Touch.standing = "keep"
        BY DEF Touch
      <3> QED
        BY <2>2, <3>1, <1>w DEF ChangePassword, ResetPassword
    <2>3. ASSUME NEW t \in Tokens, Refresh(p, t) PROVE Fresh(r)
      BY <2>3, <1>t DEF Refresh
    <2>4. ASSUME NEW u \in Users, NEW t \in Tokens, Logout(p, u, t) PROVE Fresh(r)
      BY <2>4, <1>t DEF Logout
    <2>5. ASSUME NEW by \in Users, NEW u \in Users,
                 \/ BlockUser(p, by, u) \/ UnblockUser(p, by, u)
                 \/ AssignPlan(p, by, u) \/ DeleteUser(p, by, u)
          PROVE  Fresh(r)
      <3>1. /\ [Touch EXCEPT !.standing = "blocked"].revoke
            /\ [Touch EXCEPT !.standing = "allowed", !.revoke = FALSE].standing = "allowed"
            /\ ~[Touch EXCEPT !.standing = "allowed", !.revoke = FALSE].revoke
            /\ Touch.standing = "keep"
        BY DEF Touch
      <3>2. CASE BlockUser(p, by, u)
        BY <3>1, <3>2, <1>w DEF BlockUser
      <3>3. CASE UnblockUser(p, by, u)
        BY <3>1, <3>3, <1>w DEF UnblockUser
      <3>4. CASE AssignPlan(p, by, u)
        BY <3>1, <3>4, <1>w DEF AssignPlan
      <3>5. CASE DeleteUser(p, by, u)
        BY <3>5, <1>a DEF DeleteUser
      <3> QED
        BY <2>5, <3>2, <3>3, <3>4, <3>5
    <2>6. ASSUME NEW by \in Users, NEW u \in Users, NEW x \in Roles, UpdateRole(p, by, u, x)
          PROVE  Fresh(r)
      <3>1. [Touch EXCEPT !.role = x, !.revoke = FALSE].standing = "keep"
        BY DEF Touch
      <3> QED
        BY <2>6, <3>1, <1>w DEF UpdateRole
    <2>7. ASSUME NEW by \in Users, NEW u \in Users, NEW x \in Roles \cup {"keep"},
                 NEW s \in Standings \cup {"keep"}, NEW confirmed \in BOOLEAN,
                 NEW email \in BOOLEAN,
                 AdminUpdateUser(p, by, u, x, s, confirmed, email)
          PROVE  Fresh(r)
      <3> DEFINE w == [ role |-> x, standing |-> s, rekey |-> email,
                        revoke |-> \/ x \notin { "keep", account[u].role }
                                   \/ s \notin { "keep", account[u].standing }
                                   \/ confirmed ]
      <3>1. w.standing = "blocked" => w.revoke \/ account[u].standing = "blocked"
        OBVIOUS
      <3>2. Begin(p, "adminUpdateUser", AtWrite("txUpdate", u, w))
        BY <2>7 DEF AdminUpdateUser
      <3> HIDE DEF w
      <3> QED
        BY <3>1, <3>2, <1>w
    <2>8. ASSUME HandleExpiredTokens(p) PROVE Fresh(r)
      <3>1. r.at = "purge"
        BY <2>8, <1>2 DEF HandleExpiredTokens, Idle
      <3> HIDE DEF r
      <3> QED
        BY <3>1
    <2> HIDE DEF r, Fresh
    <2> QED
      BY <2>1, <2>2, <2>3, <2>4, <2>5, <2>6, <2>7, <2>8 DEF Arrive
  <1>4. \A u \in Users : userLock'[u] # p
    BY <1>1, HoldsNothing
  <1>5. Decides(p)'
    BY <1>1, <1>3, <1>4 DEF Decides, Issuing
  <1>6. \A t \in Tokens : row'[t] = "active" => row[t] = "active" /\ owner'[t] = owner[t]
    BY <1>1
  <1>7. \A u \in Users :
             /\ account'[u].standing = account[u].standing
             /\ account'[u].life = "new" => account[u].life = "new"
             /\ Live(u) /\ userLock[u] # NoProc => Live(u)'
             /\ userLock'[u] \in { userLock[u], p, NoProc }
    BY <1>1 DEF Live
  <1> QED
    BY <1>1, <1>5, <1>6, <1>7, FlagKeptBlock

\* The steps that leave the accounts alone, and do not end a transaction.
LEMMA AccountsKeptBlock ==
  ASSUME SessionInv, TypeOK', NEW p \in Procs, UNCHANGED <<account, userLock>>,
         missed \subseteq missed',
         \A q \in Procs \ {p} : req'[q] = req[q] /\ (q \in overtaken => q \in overtaken'),
         \A t \in Tokens : row'[t] = "active" =>
             \/ row[t] = "active" /\ owner'[t] = owner[t]
             \/ /\ owner'[t] \in Users
                /\ userLock[owner'[t]] # NoProc \/ account[owner'[t]].standing = "blocked"
                     => t \in missed',
         \/ req[p].at \notin { "txDelete", "commit" } /\ req'[p] = Idle
         \/ Decides(p)'
  PROVE  BlockInv'
  <1>1. CASE req[p].at \notin { "txDelete", "commit" } /\ req'[p] = Idle
    <2>1. Decides(p)'
      BY <1>1, HoldsNothing, IdleDecides
    <2> QED
      BY <2>1, FlagKeptBlock DEF Live
  <1>2. CASE Decides(p)'
    BY <1>2, FlagKeptBlock DEF Live
  <1> QED
    BY <1>1, <1>2

\* Between reading the flag and the token a request may only be overtaken.
LEMMA ConsumeBlock ==
  ASSUME SessionInv, TypeOK', NEW p \in Procs, Consume(p) \/ Recheck(p) \/ RejectRefreshTokenReuse(p)
  PROVE  BlockInv'
  <1>1. /\ TypeOK /\ BlockInv /\ Decides(p)
        /\ req[p].at \in { "consume", "recheck", "reuse" }
        /\ UNCHANGED <<account, userLock, row, owner, missed>>
        /\ \A q \in Procs \ {p} : req'[q] = req[q] /\ (q \in overtaken => q \in overtaken')
    BY DEF Consume, Recheck, RejectRefreshTokenReuse, Goto, Pick, Answer, accounts, tokens,
           history, SessionInv, TokenInv, TypeOK, BlockInv
  <1>2. \/ req'[p] = Idle
        \/ /\ req'[p].at \in { "create", "recheck", "reuse", "revokeActive" }
           /\ req'[p].at = "create" => req[p].at = "consume"
           /\ req'[p].user = req[p].user /\ overtaken' = overtaken
    BY <1>1 DEF Consume, Recheck, RejectRefreshTokenReuse, Goto, Pick, Answer, TypeOK, history
  <1>3. ASSUME req'[p] # Idle PROVE Decides(p)'
    <2>1. \A u \in Users : userLock'[u] # p
      BY <1>1, HoldsNothing
    <2>2. req'[p].at = "create" /\ account[req[p].user].standing = "blocked" => p \in overtaken
      BY <1>1, <1>2, <1>3 DEF Decides, Issuing
    <2> QED
      BY <1>1, <1>2, <1>3, <2>1, <2>2 DEF Decides, Issuing
  <1>4. \A t \in Tokens : row'[t] = "active" => row[t] = "active" /\ owner'[t] = owner[t]
    BY <1>1
  <1> QED
    BY <1>1, <1>3, <1>4, AccountsKeptBlock

\* Steps that only end tokens, and end their request.
LEMMA EndBlock ==
  ASSUME SessionInv, TypeOK', NEW p \in Procs,
         RevokeActiveRefreshTokens(p) \/ LogoutRevoke(p) \/ Purge(p)
  PROVE  BlockInv'
  <1>1. /\ req[p].at \notin { "txDelete", "commit" } /\ req'[p] = Idle
        /\ UNCHANGED <<account, userLock, owner, missed>>
        /\ \A q \in Procs \ {p} : req'[q] = req[q] /\ (q \in overtaken => q \in overtaken')
    BY DEF RevokeActiveRefreshTokens, LogoutRevoke, Purge, Answer, accounts, SessionInv, TokenInv, TypeOK
  <1>2. \A t \in Tokens : row'[t] = "active" => row[t] = "active"
    BY DEF RevokeActiveRefreshTokens, LogoutRevoke, Purge, Revoke, Delete
  <1> QED
    BY <1>1, <1>2, AccountsKeptBlock

\* A new token of an account that is blocked, or being blocked, is missed.
LEMMA IssueBlock ==
  ASSUME SessionInv, TypeOK', NEW p \in Procs, SaveRefreshToken(p) \/ Create(p)
  PROVE  BlockInv'
  <1>1. /\ TypeOK /\ Decides(p) /\ Remembers(p)
        /\ req[p].at \in { "saveRefreshToken", "create" } /\ req'[p] = Idle
        /\ UNCHANGED <<account, userLock>>
        /\ \A q \in Procs \ {p} : req'[q] = req[q] /\ (q \in overtaken => q \in overtaken')
    BY DEF SaveRefreshToken, Create, Answer, accounts, SessionInv, TokenInv, TypeOK,
           RequestsRemember, BlockInv
  <1>2. req[p].user \in Users /\ (account[req[p].user].standing = "blocked" => p \in overtaken)
    BY <1>1 DEF Decides, Remembers, Issuing
  <1>3. CASE UNCHANGED <<row, owner, missed>>
    BY <1>1, <1>3, AccountsKeptBlock
  <1>4. ASSUME NEW n \in Tokens, NEW from, NEW chain, Insert(p, req[p].user, n, from, chain),
               \A t \in Tokens : row'[t] = "active" => t = n \/ row[t] = "active"
        PROVE  BlockInv'
    <2>1. /\ missed \subseteq missed'
          /\ p \in overtaken \/ userLock[req[p].user] # NoProc => n \in missed'
          /\ owner'[n] = req[p].user
          /\ \A t \in Tokens \ {n} : owner'[t] = owner[t]
      BY <1>1, <1>4 DEF Insert, TypeOK
    <2>2. \A t \in Tokens : row'[t] = "active" =>
             \/ row[t] = "active" /\ owner'[t] = owner[t]
             \/ /\ owner'[t] \in Users
                /\ userLock[owner'[t]] # NoProc \/ account[owner'[t]].standing = "blocked"
                     => t \in missed'
      BY <1>2, <1>4, <2>1
    <2> QED
      BY <1>1, <2>1, <2>2, AccountsKeptBlock
  <1>5. CASE SaveRefreshToken(p)
    <2>1. CASE UNCHANGED <<row, owner, missed>>
      BY <1>3, <2>1
    <2>2. ASSUME NEW n \in Tokens, row' = [row EXCEPT ![n] = "active"],
                 Insert(p, req[p].user, n, NoToken, n)
          PROVE  BlockInv'
      <3>1. \A t \in Tokens : row'[t] = "active" => t = n \/ row[t] = "active"
        BY <1>1, <2>2 DEF TypeOK
      <3> QED
        BY <1>4, <2>2, <3>1
    <2> QED
      BY <1>5, <2>1, <2>2 DEF SaveRefreshToken
  <1>6. CASE Create(p)
    <2> DEFINE t == req[p].token
    <2>1. req[p].user = owner[t]
      BY <1>1, <1>6 DEF Create, Answer, Remembers
    <2>2. PICK n \in Tokens : /\ row' = [row EXCEPT ![t] = "revoked", ![n] = "active"]
                              /\ Insert(p, owner[t], n, t, root[t])
      BY <1>6 DEF Create
    <2>3. \A x \in Tokens : row'[x] = "active" => x = n \/ row[x] = "active"
      BY <1>1, <2>2 DEF TypeOK
    <2> QED
      BY <1>4, <2>1, <2>2, <2>3
  <1> QED
    BY <1>5, <1>6

\* A transaction that blocks has now picked every token of its user.
LEMMA PickBlock ==
  ASSUME SessionInv, TypeOK', NEW p \in Procs, TxDelete(p) \/ DropTokens(p)
  PROVE  BlockInv'
  <1>1. /\ TypeOK /\ Decides(p)
        /\ UNCHANGED <<account, userLock, row, owner, overtaken, missed>>
        /\ \A q \in Procs \ {p} : req'[q] = req[q] /\ (q \in overtaken => q \in overtaken')
        /\ req'[p].user = req[p].user /\ req'[p].write = req[p].write
        /\ req'[p].targets = TokensOf(req[p].user)
        /\ \/ req[p].at = "txDelete" /\ req'[p].at = "commit"
           \/ req[p].at = "dropTokens" /\ req'[p].at = "dropRows"
    BY DEF TxDelete, DropTokens, Pick, accounts, tokens, history, SessionInv, TokenInv, TypeOK, BlockInv
  <1>2. Decides(p)'
    <2>1. CASE req[p].at = "txDelete"
      <3>1. ActiveTokens(req[p].user) \subseteq TokensOf(req[p].user)
        BY DEF ActiveTokens
      <3>2. ActiveTokens(req[p].user)' \subseteq req'[p].targets
        BY <1>1, <3>1 DEF ActiveTokens, TokensOf, Stored
      <3> QED
        BY <1>1, <2>1, <3>2 DEF Decides, Issuing, Live
    <2>2. CASE req[p].at = "dropTokens"
      BY <1>1, <2>2 DEF Decides, Issuing
    <2> QED
      BY <1>1, <2>1, <2>2
  <1> QED
    BY <1>1, <1>2, AccountsKeptBlock

\* Taking the locks of token rows decides nothing.
LEMMA DropRowsBlock ==
  ASSUME SessionInv, TypeOK', NEW p \in Procs, DropRows(p)
  PROVE  BlockInv'
  <1>1. /\ TypeOK /\ req[p].at = "dropRows"
        /\ UNCHANGED <<account, userLock, row, owner, overtaken, missed>>
        /\ \A q \in Procs \ {p} : req'[q] = req[q] /\ (q \in overtaken => q \in overtaken')
        /\ req'[p].at = "dropUser"
    <2>1. PICK T : Pick(p, "dropRows", "dropUser", T)
      BY DEF DropRows, Pick
    <2>2. TypeOK
      BY DEF SessionInv, TokenInv
    <2>3. /\ req[p].at = "dropRows" /\ req'[p].at = "dropUser"
          /\ \A q \in Procs \ {p} : req'[q] = req[q]
      BY <2>1, <2>2 DEF Pick, TypeOK
    <2> QED
      BY <2>2, <2>3 DEF DropRows, accounts, tokens, history
  <1>2. Decides(p)'
    BY <1>1, HoldsNothing DEF Decides, Issuing
  <1> QED
    BY <1>1, <1>2, AccountsKeptBlock

\* An account that is created is not blocked.
LEMMA UserCreateBlock ==
  ASSUME SessionInv, TypeOK', NEW p \in Procs, UserCreate(p)
  PROVE  BlockInv'
  <1> DEFINE u == req[p].user
  <1>1. /\ TypeOK /\ Decides(p) /\ BlockInv /\ u \in Users
        /\ req[p].at = "userCreate"
        /\ UNCHANGED <<userLock, row, owner, missed>>
        /\ \A q \in Procs \ {p} : req'[q] = req[q] /\ (q \in overtaken => q \in overtaken')
    BY DEF UserCreate, Goto, Answer, tokens, SessionInv, TokenInv, TypeOK, BlockInv,
           RequestsRemember, Remembers
  <1>2. \A x \in Users : userLock'[x] # p
    BY <1>1, HoldsNothing
  <1>3. CASE req'[p] = Idle /\ account' = account
    BY <1>1, <1>3, AccountsKeptBlock
  <1>4. CASE /\ account[u].life = "new" /\ Goto(p, "saveRefreshToken")
             /\ account' = [account EXCEPT ![u].life = "live"]
    <2>1. /\ req'[p].at = "saveRefreshToken" /\ req'[p].user = u
          /\ \A x \in Users : account'[x].standing = account[x].standing
          /\ \A x \in Users : account'[x].life = "new" => account[x].life = "new"
          /\ \A x \in Users : Live(x) => Live(x)'
      BY <1>1, <1>4 DEF Goto, TypeOK, Live
    <2>2. account[u].standing = "allowed"
      BY <1>1, <1>4 DEF BlockInv
    <2>3. Decides(p)'
      BY <1>1, <1>2, <2>1, <2>2 DEF Decides, Issuing
    <2> QED
      BY <1>1, <2>1, <2>3, FlagKeptBlock
  <1> QED
    BY <1>1, <1>3, <1>4 DEF UserCreate, Answer, TypeOK

\* From now on the account is this transaction's to change.
LEMMA TxUpdateBlock ==
  ASSUME SessionInv, TypeOK', NEW p \in Procs, TxUpdate(p)
  PROVE  BlockInv'
  <1>u. PICK u, w : u = req[p].user /\ w = req[p].write
    OBVIOUS
  <1>1. /\ TypeOK /\ Decides(p) /\ u \in Users
        /\ req[p].at = "txUpdate" /\ userLock[u] = NoProc
        /\ UNCHANGED <<account, row, owner, missed>>
        /\ \A q \in Procs \ {p} : req'[q] = req[q] /\ (q \in overtaken => q \in overtaken')
    BY <1>u DEF TxUpdate, Goto, Answer, tokens, SessionInv, TokenInv, TypeOK, BlockInv,
           RequestsRemember, Remembers
  <1>2. \A x \in Users : userLock[x] # p
    BY <1>1, HoldsNothing
  <1>3. CASE req'[p] = Idle /\ userLock' = userLock
    BY <1>1, <1>3, AccountsKeptBlock
  <1>4. CASE /\ Live(u) /\ Goto(p, IF w.revoke THEN "txDelete" ELSE "commit")
             /\ userLock' = [userLock EXCEPT ![u] = p] /\ UNCHANGED overtaken
    <2>1. /\ req'[p].at = IF w.revoke THEN "txDelete" ELSE "commit"
          /\ req'[p].user = u /\ req'[p].write = w
          /\ userLock'[u] = p /\ \A x \in Users \ {u} : userLock'[x] = userLock[x]
      BY <1>u, <1>1, <1>4 DEF Goto, TypeOK
    <2>2. w.standing = "blocked" /\ ~w.revoke => account[u].standing = "blocked" \/ p \in overtaken
      BY <1>u, <1>1 DEF Decides
    <2>3. Live(u)' /\ overtaken' = overtaken /\ account' = account
      BY <1>1, <1>4 DEF Live
    <2>4. Decides(p)'
      BY <1>2, <2>1, <2>2, <2>3 DEF Decides, Issuing
    <2>5. \A x \in Users : userLock'[x] \in { userLock[x], p, NoProc }
      BY <2>1
    <2> QED
      BY <1>1, <2>3, <2>4, <2>5, FlagKeptBlock DEF Live
  <1> QED
    BY <1>u, <1>1, <1>3, <1>4 DEF TxUpdate, Answer, TypeOK

\* A user row goes only when no transaction holds it.
LEMMA DropUserBlock ==
  ASSUME SessionInv, TypeOK', NEW p \in Procs, DropUser(p)
  PROVE  BlockInv'
  <1> DEFINE u == req[p].user
  <1>1. /\ TypeOK /\ req[p].at = "dropUser" /\ req'[p] = Idle /\ userLock[u] = NoProc
        /\ UNCHANGED <<userLock, owner, missed>>
        /\ \A q \in Procs \ {p} : req'[q] = req[q] /\ (q \in overtaken => q \in overtaken')
        /\ account' = account \/ account' = [account EXCEPT ![u].life = "gone"]
    BY DEF DropUser, Answer, SessionInv, TokenInv, TypeOK
  <1>2. Decides(p)'
    BY <1>1, HoldsNothing, IdleDecides
  <1>3. \A t \in Tokens : row'[t] = "active" => row[t] = "active"
    BY DEF DropUser, Delete
  <1>4. \A x \in Users :
             /\ account'[x].standing = account[x].standing
             /\ account'[x].life = "new" => account[x].life = "new"
             /\ Live(x) /\ userLock[x] # NoProc => Live(x)'
    BY <1>1 DEF TypeOK, Live
  <1> QED
    BY <1>1, <1>2, <1>3, <1>4, FlagKeptBlock

LEMMA FailBlock ==
  ASSUME SessionInv, TypeOK', NEW p \in Procs, Fail(p)
  PROVE  BlockInv'
  <1>1. /\ req'[p] = Idle
        /\ UNCHANGED <<account, row, owner, missed>>
        /\ \A q \in Procs \ {p} : req'[q] = req[q] /\ (q \in overtaken => q \in overtaken')
        /\ userLock' = [u \in Users |-> IF userLock[u] = p THEN NoProc ELSE userLock[u]]
    BY DEF Fail, Answer, tokens, SessionInv, TokenInv, TypeOK
  <1>2. Decides(p)'
    BY <1>1, IdleDecides, SessionsAssumption
  <1>3. \A u \in Users : userLock'[u] \in { userLock[u], p, NoProc }
    BY <1>1
  <1> QED
    BY <1>1, <1>2, <1>3, FlagKeptBlock DEF Live

\* The flag as an update leaves it.
LEMMA WrittenStanding ==
  ASSUME NEW a \in AccountRow, NEW w \in Writes
  PROVE  Written(a, w).standing = IF w.standing = "keep" THEN a.standing ELSE w.standing
  BY DEF Written, AccountRow

\* No update outside a transaction blocks anybody; an unblock overtakes those
\* that are about to block the account as they had read it.
LEMMA UpdateBlock ==
  ASSUME SessionInv, TypeOK', NEW p \in Procs, Update(p)
  PROVE  BlockInv'
  <1> DEFINE u == req[p].user
             w == req[p].write
  <1>1. /\ TypeOK /\ Decides(p) /\ BlockInv /\ u \in Users /\ w \in Writes
        /\ req[p].at = "update" /\ userLock[u] = NoProc
        /\ UNCHANGED <<userLock, row, owner, missed>>
        /\ \A q \in Procs \ {p} : req'[q] = req[q] /\ (q \in overtaken => q \in overtaken')
        /\ req'[p] = Idle \/ (req'[p].at = "txDelete" /\ req'[p].write = w /\ w.revoke)
    BY DEF Update, Goto, Answer, tokens, SessionInv, TokenInv, TypeOK, BlockInv,
           RequestsRemember, Remembers
  <1>2. \A x \in Users : userLock'[x] # p
    BY <1>1, HoldsNothing
  <1>3. Decides(p)'
    BY <1>1, <1>2, IdleDecides DEF Decides, Issuing
  <1>4. w.standing # "blocked"
    BY <1>1 DEF Decides
  <1>5. CASE account' = account
    BY <1>1, <1>3, <1>5, AccountsKeptBlock
  <1>6. CASE /\ Live(u) /\ account' = [account EXCEPT ![u] = Written(account[u], w)]
             /\ w.standing = "keep" \/ overtaken' = overtaken \cup Overtaken(u, w.standing)
    <2>1. /\ account[u] \in AccountRow
          /\ Written(account[u], w).life = account[u].life
          /\ Written(account[u], w).standing =
               IF w.standing = "keep" THEN account[u].standing ELSE w.standing
      BY <1>1, WrittenType, WrittenStanding DEF TypeOK, AccountRow
    <2>2. /\ \A x \in Users \ {u} : account'[x] = account[x]
          /\ account'[u].life = account[u].life
          /\ account'[u].standing = IF w.standing = "keep" THEN account[u].standing ELSE w.standing
      BY <1>1, <1>6, <2>1 DEF TypeOK
    <2>3. \A x \in Users : Live(x) => Live(x)'
      BY <2>2 DEF Live
    <2>4. \A x \in Users : account'[x].standing = "blocked" => account[x].standing = "blocked"
      BY <1>4, <2>2
    <2>5. BlockEndsSessions'
      <3> SUFFICES ASSUME NEW t \in Tokens, row[t] = "active",
                          account'[owner[t]].standing = "blocked"
                   PROVE  t \in missed
        BY <1>1 DEF BlockEndsSessions
      <3>1. owner[t] \in Users
        BY DEF SessionInv, TokenInv, Lineage
      <3> QED
        BY <1>1, <2>4, <3>1 DEF BlockInv, BlockEndsSessions
    <2>6. (\A x \in Users : account[x].life = "new" => account[x].standing = "allowed")'
      BY <1>1, <1>6, <2>2 DEF BlockInv, Live
    <2>7. ASSUME NEW q \in Procs, q # p PROVE Decides(q)'
      <3>1. \A x \in Users : account'[x].standing # account[x].standing =>
              /\ userLock[x] # q
              /\ q \in Overtaken(x, account'[x].standing) => q \in overtaken'
        BY <1>1, <1>6, <2>2, SessionsAssumption
      <3>2. \A x \in Users : ActiveTokens(x)' = ActiveTokens(x)
        BY <1>1 DEF ActiveTokens, TokensOf, Stored
      <3>3. \A x \in Users : account'[x].standing \in Standings
        BY DEF TypeOK
      <3> QED
        BY <1>1, <2>3, <2>7, <3>1, <3>2, <3>3, OthersDecide
    <2> QED
      BY <1>3, <2>5, <2>6, <2>7 DEF BlockInv
  <1>7. w.revoke => w.standing = "keep"
    BY <1>1 DEF Decides
  <1> QED
    BY <1>1, <1>4, <1>5, <1>6, <1>7 DEF Update

\* A block deletes what its user holds, or follows one that did, or was overtaken.
LEMMA CommitBlock ==
  ASSUME SessionInv, TypeOK', NEW p \in Procs, Commit(p)
  PROVE  BlockInv'
  <1>u. PICK u, w, S : u = req[p].user /\ w = req[p].write /\ S = req[p].targets
    OBVIOUS
  <1>1. /\ TypeOK /\ Decides(p) /\ BlockInv /\ u \in Users /\ w \in Writes /\ S \subseteq Tokens
        /\ req[p].at = "commit" /\ req'[p] = Idle
        /\ Delete(S) /\ UNCHANGED owner
        /\ \A q \in Procs \ {p} : req'[q] = req[q] /\ (q \in overtaken => q \in overtaken')
    BY <1>u DEF Commit, SessionInv, TokenInv, TypeOK, BlockInv, RequestsRemember, Remembers
  <1>2. \A t \in Tokens : row'[t] = "active" => row[t] = "active" /\ t \notin S
    BY <1>1 DEF Delete
  <1>3. \A x \in Users : x # u => userLock[x] # p
    BY <1>u, <1>1 DEF Decides
  <1>4. CASE userLock[u] # p
    <2>1. UNCHANGED <<account, userLock, missed>>
      BY <1>u, <1>4 DEF Commit
    <2>2. Decides(p)'
      BY <1>1, <1>3, <1>4, <2>1, IdleDecides
    <2> QED
      BY <1>1, <1>2, <2>1, <2>2, AccountsKeptBlock
  <1>5. CASE userLock[u] = p
    <2>1. /\ account' = [account EXCEPT ![u] = Written(account[u], w)]
          /\ userLock' = [userLock EXCEPT ![u] = NoProc]
          /\ overtaken' = (overtaken \cup Overtaken(u, w.standing)) \ {p}
          /\ missed' = IF p \in overtaken THEN missed \cup ActiveTokens(u) ELSE missed
      BY <1>u, <1>5 DEF Commit
    <2>2. Live(u)
      BY <1>1, <1>5 DEF Decides
    <2>3. /\ account[u] \in AccountRow
          /\ Written(account[u], w).life = account[u].life
          /\ Written(account[u], w).standing =
               IF w.standing = "keep" THEN account[u].standing ELSE w.standing
      BY <1>1, WrittenType, WrittenStanding DEF TypeOK, AccountRow
    <2>4. /\ \A x \in Users \ {u} : account'[x] = account[x]
          /\ account'[u].life = account[u].life
          /\ account'[u].standing = IF w.standing = "keep" THEN account[u].standing ELSE w.standing
          /\ userLock'[u] = NoProc /\ \A x \in Users \ {u} : userLock'[x] = userLock[x]
      BY <1>1, <2>1, <2>3 DEF TypeOK
    <2>5. missed \subseteq missed'
      BY <2>1
    <2>6. Decides(p)'
      <3>1. \A x \in Users : userLock'[x] # p
        BY <1>3, <2>4, SessionsAssumption
      <3> QED
        BY <1>1, <3>1, IdleDecides
    <2>7. BlockEndsSessions'
      <3> SUFFICES ASSUME NEW t \in Tokens, row[t] = "active", t \notin S,
                          account'[owner[t]].standing = "blocked"
                   PROVE  t \in missed'
        BY <1>1, <1>2 DEF BlockEndsSessions
      <3>1. owner[t] \in Users
        BY DEF SessionInv, TokenInv, Lineage
      <3>2. CASE account[owner[t]].standing = "blocked"
        BY <1>1, <2>5, <3>2 DEF BlockInv, BlockEndsSessions
      <3>3. CASE account[owner[t]].standing # "blocked"
        <4>1. owner[t] = u /\ w.standing = "blocked" /\ account[u].standing # "blocked"
          BY <2>4, <3>1, <3>3
        <4>2. t \in ActiveTokens(u)
          BY <4>1 DEF ActiveTokens, TokensOf, Stored
        <4>3. w.revoke => ActiveTokens(u) \subseteq S \cup missed
          BY <1>u, <1>1, <1>5, <4>1 DEF Decides
        <4>4. ~w.revoke => p \in overtaken
          BY <1>u, <1>1, <1>5, <4>1 DEF Decides
        <4> QED
          BY <2>1, <2>5, <4>2, <4>3, <4>4
      <3> QED
        BY <3>2, <3>3
    <2>8. (\A x \in Users : account[x].life = "new" => account[x].standing = "allowed")'
      BY <1>1, <2>2, <2>4 DEF BlockInv, Live
    <2>9. ASSUME NEW q \in Procs, q # p PROVE Decides(q)'
      <3>1. \A x \in Users : account'[x].standing # account[x].standing =>
              /\ userLock[x] # q
              /\ q \in Overtaken(x, account'[x].standing) => q \in overtaken'
        BY <1>5, <2>1, <2>4, <2>9
      <3>2. \A x \in Users : ActiveTokens(x)' \subseteq ActiveTokens(x)
        BY <1>1, <1>2 DEF ActiveTokens, TokensOf, Stored
      <3>3. \A x \in Users : account'[x].standing \in Standings
        BY DEF TypeOK
      <3>4. \A x \in Users : userLock'[x] = q => userLock[x] = q /\ (Live(x) => Live(x)')
        BY <2>4, SessionsAssumption DEF Live
      <3> QED
        BY <1>1, <2>5, <2>9, <3>1, <3>2, <3>3, <3>4, OthersDecide
    <2> QED
      BY <2>6, <2>7, <2>8, <2>9 DEF BlockInv
  <1> QED
    BY <1>4, <1>5

-----------------------------------------------------------------------------
(* The theorems.                                                           *)

LEMMA InitInv == Init => TokenInv
  <1> SUFFICES ASSUME Init PROVE TokenInv
    OBVIOUS
  <1>1. TypeOK
    BY InitType
  <1>2. LocksHeld
    BY SessionsAssumption DEF Init, LocksHeld, Holds, Idle
  <1>3. Lineage
    BY DEF Init, Lineage
  <1>4. RequestsRemember
    BY DEF Init, RequestsRemember, Remembers, Idle
  <1>5. OneActivePerChain /\ AlarmReachesSuccessor /\ NoFalseAlarm /\ NoOrphanTokens
    BY DEF Init, OneActivePerChain, AlarmReachesSuccessor, NoFalseAlarm, NoOrphanTokens, Stored
  <1> QED
    BY <1>1, <1>2, <1>3, <1>4, <1>5 DEF TokenInv

LEMMA NextInv == TokenInv /\ [Next]_vars => TokenInv'
  <1> SUFFICES ASSUME TokenInv, [Next]_vars PROVE TokenInv'
    OBVIOUS
  <1>1. ASSUME NEW p \in Procs, Arrive(p) PROVE TokenInv'
    <2>1. Quiet /\ \E r : Starts(r) /\ \E kind : Begin(p, kind, r)
      BY <1>1, ArriveStarts DEF TokenInv
    <2> QED
      BY <2>1, StartKeepsInv
  <1>2. ASSUME NEW p \in Procs, Advance(p) PROVE TokenInv'
    BY <1>2, UserCreateInv, SaveRefreshTokenInv, ConsumeInv, CreateInv, RecheckInv,
       RejectRefreshTokenReuseInv, RevokeActiveRefreshTokensInv, LogoutRevokeInv,
       UpdateInv, PickInv, CommitInv, DropRowsInv, DropUserInv, PurgeInv
       DEF Advance
  <1>3. ASSUME NEW p \in Procs, Fail(p) PROVE TokenInv'
    BY <1>3, FailInv
  <1>4. ASSUME NEW t \in Tokens, Expire(t) PROVE TokenInv'
    BY <1>4, ExpireInv
  <1>5. CASE UNCHANGED vars
    BY <1>5
       DEF vars, accounts, tokens, history, TokenInv, TypeOK, LocksHeld, Holds, Lineage,
           RequestsRemember, Remembers, OneActivePerChain, AlarmReachesSuccessor,
           NoFalseAlarm, NoOrphanTokens, Stored, Live
  <1> QED
    BY <1>1, <1>2, <1>3, <1>4, <1>5 DEF Next

(* Every reachable state satisfies the inductive invariant, whatever       *)
(* requests arrive, race, wait for locks and fail half way.                *)
THEOREM TokenInvariant == Spec => []TokenInv
  <1>1. Init => TokenInv
    BY InitInv
  <1>2. TokenInv /\ [Next]_vars => TokenInv'
    BY NextInv
  <1> QED
    BY <1>1, <1>2, PTL DEF Spec

LEMMA NextBlock == SessionInv /\ TypeOK' /\ [Next]_vars => BlockInv'
  <1> SUFFICES ASSUME SessionInv, TypeOK', [Next]_vars PROVE BlockInv'
    OBVIOUS
  <1>1. ASSUME NEW p \in Procs, Advance(p) PROVE BlockInv'
    BY <1>1, UserCreateBlock, IssueBlock, ConsumeBlock, EndBlock, UpdateBlock, TxUpdateBlock,
       PickBlock, CommitBlock, DropRowsBlock, DropUserBlock
       DEF Advance
  <1>2. ASSUME NEW t \in Tokens, Expire(t) PROVE BlockInv'
    BY <1>2 DEF Expire, accounts, tokens, history, SessionInv, BlockInv, BlockEndsSessions,
                Decides, Issuing, Live, ActiveTokens, TokensOf, Stored
  <1>3. CASE UNCHANGED vars
    BY <1>3 DEF vars, accounts, tokens, history, SessionInv, BlockInv, BlockEndsSessions,
                Decides, Issuing, Live, ActiveTokens, TokensOf, Stored
  <1> QED
    BY <1>1, <1>2, <1>3, ArriveDecides, FailBlock DEF Next

(* Together with what the requests have read of the accounts.              *)
THEOREM SessionInvariant == Spec => []SessionInv
  <1>1. Init => SessionInv
    <2> SUFFICES ASSUME Init PROVE SessionInv
      OBVIOUS
    <2>1. BlockInv
      BY SessionsAssumption DEF Init, BlockInv, BlockEndsSessions, Decides, Issuing, Idle
    <2> QED
      BY <2>1, InitInv DEF SessionInv
  <1>2. SessionInv /\ [Next]_vars => SessionInv'
    <2> SUFFICES ASSUME SessionInv, [Next]_vars PROVE SessionInv'
      OBVIOUS
    <2>1. TokenInv'
      BY NextInv DEF SessionInv
    <2>2. TypeOK'
      BY <2>1 DEF TokenInv
    <2> QED
      BY <2>1, <2>2, NextBlock DEF SessionInv
  <1> QED
    BY <1>1, <1>2, PTL DEF Spec

(* A block leaves its user no session but those it could not have seen:    *)
(* login, refresh and adminUpdateUser decide from an older flag.           *)
THEOREM BlocksEndSessions == Spec => []BlockEndsSessions
  <1>1. SessionInv => BlockEndsSessions
    BY DEF SessionInv, BlockInv
  <1> QED
    BY <1>1, SessionInvariant, PTL

(* Of two requests that wait for each other one deletes the user, or        *)
(* changes the address: the others lock the user row, then the tokens.     *)
THEOREM DeadlocksAreFew == Spec => []DeadlocksAreKnown
  <1>1. SessionInv => DeadlocksAreKnown
    <2> SUFFICES ASSUME SessionInv, NEW p \in Procs, NEW q \in Procs, Deadlocked(p, q),
                        \A d \in { p, q } : req[d].at # "dropUser" /\ ~req[d].write.rekey
                 PROVE  FALSE
      BY DEF DeadlocksAreKnown
    <2>1. LocksHeld /\ Decides(p) /\ Decides(q) /\ p # NoProc /\ q # NoProc
      BY SessionsAssumption DEF SessionInv, TokenInv, BlockInv
    <2>2. ASSUME NEW x \in { p, q }, NEW y \in { p, q }, y \in Blockers(x)
          PROVE  \/ /\ req[x].at \in { "consume", "logout", "revokeActive", "commit",
                                     "dropRows", "purge" }
                    /\ req[y].at = "create"
                 \/ /\ req[x].at \in { "update", "txUpdate" }
                    /\ req[y].at \in { "txDelete", "commit" }
      <3>1. x \in Procs /\ y \in Procs /\ TypeOK /\ Remembers(x)
        BY DEF SessionInv, TokenInv, RequestsRemember
      <3>2. CASE \E t \in Tokens : rowLock[t] = y
        <4>1. req[y].at = "create"
          BY <2>1, <3>1, <3>2 DEF LocksHeld, Holds
        <4>2. \A u \in Users : userLock[u] # y
          BY <2>1, <4>1 DEF Decides
        <4> QED
          BY <2>1, <2>2, <3>1, <4>1, <4>2 DEF Blockers, TypeOK, Remembers
      <3>3. CASE \A t \in Tokens : rowLock[t] # y
        <4>1. /\ userLock[req[x].user] = y /\ req[x].user \in Users
              /\ \/ req[x].at \in { "update", "txUpdate", "dropUser" }
                 \/ Rekeyed(req[x].user)
          BY <2>1, <2>2, <3>1, <3>3 DEF Blockers, TypeOK, Remembers
        <4>2. req[y].at \in { "txDelete", "commit" }
          BY <2>1, <4>1 DEF Decides
        <4> QED
          BY <2>1, <4>1, <4>2 DEF Rekeyed
      <3> QED
        BY <3>2, <3>3
    <2> QED
      BY <2>2 DEF Deadlocked
  <1> QED
    BY <1>1, SessionInvariant, PTL

(* Every variable keeps its type.                                          *)
THEOREM TypeCorrect == Spec => []TypeOK
  <1>1. TokenInv => TypeOK
    BY DEF TokenInv
  <1> QED
    BY <1>1, TokenInvariant, PTL

(* Racing refreshes of a token never split a login into two sessions.      *)
THEOREM ChainsAreLines == Spec => []OneActivePerChain
  <1>1. TokenInv => OneActivePerChain
    BY DEF TokenInv
  <1> QED
    BY <1>1, TokenInvariant, PTL

(* The alarm always kills the token the reused one was exchanged for.      *)
THEOREM AlarmIsEffective == Spec => []AlarmReachesSuccessor
  <1>1. TokenInv => AlarmReachesSuccessor
    BY DEF TokenInv
  <1> QED
    BY <1>1, TokenInvariant, PTL

(* Expiry, the purge and deletions never raise the alarm.                  *)
THEOREM AlarmIsJustified == Spec => []NoFalseAlarm
  <1>1. TokenInv => NoFalseAlarm
    BY DEF TokenInv
  <1> QED
    BY <1>1, TokenInvariant, PTL

(* Deleting a user leaves no token of that user, whatever it races with.   *)
THEOREM UsersTakeTokensAlong == Spec => []NoOrphanTokens
  <1>1. TokenInv => NoOrphanTokens
    BY DEF TokenInv
  <1> QED
    BY <1>1, TokenInvariant, PTL

(* Refreshing, and failing to, never costs a login its session.            *)
THEOREM RefreshKeepsSession == Spec => ExchangeKeepsSession
  <1> DEFINE Keeps == \A p \in Procs, f \in Tokens :
                        (Consume(p) \/ Create(p) \/ Fail(p)) /\ ChainActive(f) => ChainActive(f)'
  <1>1. TokenInv => Keeps
    <2> SUFFICES ASSUME TokenInv, NEW p \in Procs, NEW f \in Tokens,
                        Consume(p) \/ Create(p) \/ Fail(p), ChainActive(f)
                 PROVE  ChainActive(f)'
      OBVIOUS
    <2>1. CASE Consume(p) \/ Fail(p)
      BY <2>1 DEF Consume, Fail, tokens, ChainActive
    <2>2. CASE Create(p)
      <3> DEFINE t == req[p].token
      <3>1. TypeOK /\ t \in Tokens /\ row[t] = "active"
        BY <2>2, SessionsAssumption
           DEF Create, Answer, TokenInv, RequestsRemember, Remembers, LocksHeld
      <3>2. PICK n \in Tokens : /\ row[n] = "free"
                                /\ row' = [row EXCEPT ![t] = "revoked", ![n] = "active"]
                                /\ Insert(p, owner[t], n, t, root[t])
        BY <2>2 DEF Create
      <3>3. /\ row'[n] = "active" /\ root'[n] = root[t]
            /\ \A x \in Tokens : x # t /\ x # n => row'[x] = row[x] /\ root'[x] = root[x]
        BY <3>1, <3>2 DEF TypeOK, Insert
      <3>4. PICK x \in Tokens : row[x] = "active" /\ root[x] = f
        BY DEF ChainActive
      <3> QED
        BY <3>2, <3>3, <3>4 DEF ChainActive
    <2> QED
      BY <2>1, <2>2
  <1>2. TokenInv /\ [Next]_vars => [Keeps]_vars
    BY <1>1
  <1> QED
    BY <1>2, TokenInvariant, PTL DEF Spec, ExchangeKeepsSession

-----------------------------------------------------------------------------
(* Sessions implements Logins.                                             *)

\* Rows may end, and no row is added or changes its chain.
Shrinks ==
    /\ root' = root
    /\ \A t \in Tokens :
         \/ row'[t] = row[t]
         \/ row[t] # "free" /\ row'[t] \in { "revoked", "gone" }

(* All but the two steps that insert a row shrink the set of active ones.  *)
LEMMA OthersShrink ==
  ASSUME TokenInv, [Next]_vars
  PROVE  Shrinks \/ \E p \in Procs : SaveRefreshToken(p) \/ Create(p)
  <1> DEFINE Goal == Shrinks \/ \E p \in Procs : SaveRefreshToken(p) \/ Create(p)
  <1>1. UNCHANGED <<row, root>> => Goal
    BY DEF Shrinks
  <1>2. ASSUME NEW S \in SUBSET Tokens, Delete(S), UNCHANGED root, \A t \in S : row[t] # "free"
        PROVE  Goal
    BY <1>2 DEF Delete, Shrinks
  <1>3. ASSUME NEW S \in SUBSET Tokens, Revoke(S), UNCHANGED root, \A t \in S : row[t] = "active"
        PROVE  Goal
    BY <1>3 DEF Revoke, Shrinks
  <1>4. ASSUME NEW p \in Procs, Arrive(p) PROVE Goal
    <2>1. Quiet
      BY <1>4, ArriveStarts DEF TokenInv
    <2> QED
      BY <1>1, <2>1 DEF Quiet, tokens
  <1>5. ASSUME NEW p \in Procs, Advance(p) PROVE Goal
    <2> DEFINE S == req[p].targets
    <2>1. S \in SUBSET Tokens /\ \A t \in S : row[t] # "free"
      BY DEF TokenInv, TypeOK, RequestsRemember, Remembers
    <2>2. CASE SaveRefreshToken(p) \/ Create(p)
      BY <2>2
    <2>3. CASE RevokeActiveRefreshTokens(p)
      <3>1. Revoke({ t \in S : row[t] = "active" }) /\ UNCHANGED root
        BY <2>3 DEF RevokeActiveRefreshTokens
      <3> QED
        BY <1>3, <2>1, <3>1
    <2>4. CASE LogoutRevoke(p)
      <3> DEFINE X == { x \in {req[p].token} : owner[x] = req[p].user /\ row[x] = "active" }
      <3>1. Revoke(X) /\ UNCHANGED root /\ X \in SUBSET Tokens
        BY <2>4 DEF LogoutRevoke, Answer, TokenInv, RequestsRemember, Remembers
      <3>2. \A x \in X : row[x] = "active"
        OBVIOUS
      <3> HIDE DEF X
      <3> QED
        BY <1>3, <3>1, <3>2
    <2>5. CASE Commit(p) \/ Purge(p)
      BY <1>2, <2>1, <2>5 DEF Commit, Purge
    <2>6. CASE DropUser(p)
      BY <1>1, <1>2, <2>1, <2>6 DEF DropUser
    <2>7. CASE \/ UserCreate(p) \/ Consume(p) \/ Recheck(p) \/ RejectRefreshTokenReuse(p)
               \/ Update(p) \/ TxUpdate(p) \/ TxDelete(p) \/ DropTokens(p) \/ DropRows(p)
      BY <1>1, <2>7 DEF UserCreate, Consume, Recheck, RejectRefreshTokenReuse, Update,
                        TxUpdate, TxDelete, DropTokens, DropRows, tokens
    <2> QED
      BY <1>5, <2>2, <2>3, <2>4, <2>5, <2>6, <2>7 DEF Advance
  <1>6. ASSUME NEW p \in Procs, Fail(p) PROVE Goal
    BY <1>1, <1>6 DEF Fail, tokens
  <1>7. ASSUME NEW t \in Tokens, Expire(t) PROVE Goal
    BY <1>1, <1>7 DEF Expire, tokens
  <1>8. CASE UNCHANGED vars
    BY <1>1, <1>8 DEF vars, tokens
  <1> QED
    BY <1>4, <1>5, <1>6, <1>7, <1>8 DEF Next

(* What a login is does not depend on how its rows are looked up.          *)
LEMMA LoginStateOf ==
  ASSUME NEW c \in Tokens
  PROVE  /\ LoginState[c] = IF row[c] = "free" \/ root[c] # c THEN "none"
                            ELSE IF ChainActive(c) THEN "open" ELSE "over"
         /\ LoginState'[c] = IF row'[c] = "free" \/ root'[c] # c THEN "none"
                             ELSE IF ChainActive(c)' THEN "open" ELSE "over"
  BY DEF LoginState

LEMMA SameLogins ==
  ASSUME \A c \in Tokens : LoginState'[c] = LoginState[c]
  PROVE  LoginState' = LoginState
  <1> DEFINE f == LoginState
             g == LoginState'
  <1>1. f = [ c \in Tokens |-> f[c] ] /\ g = [ c \in Tokens |-> g[c] ]
    BY DEF LoginState
  <1> QED
    BY <1>1

(* Rows that end may end logins: one step ends them all.                   *)
LEMMA ShrinkEnds ==
  ASSUME Shrinks
  PROVE  \E S \in SUBSET Tokens : Promise!End(S)
  <1> DEFINE S == { c \in Tokens : LoginState[c] = "open" /\ ~ChainActive(c)' }
  <1>1. \A c \in Tokens : ChainActive(c)' => ChainActive(c)
    BY DEF Shrinks, ChainActive
  <1>2. ASSUME NEW c \in Tokens
        PROVE  LoginState'[c] = IF c \in S THEN "over" ELSE LoginState[c]
    <2>1. (row'[c] = "free" \/ root'[c] # c) <=> (row[c] = "free" \/ root[c] # c)
      BY DEF Shrinks
    <2> QED
      BY <1>1, <2>1, LoginStateOf
  <1>3. LoginState' = [ c \in Tokens |-> LoginState'[c] ]
    BY DEF LoginState
  <1>4. LoginState' = [ c \in Tokens |-> IF c \in S THEN "over" ELSE LoginState[c] ]
    BY <1>2, <1>3
  <1>5. S \in SUBSET Tokens /\ \A c \in S : LoginState[c] = "open"
    OBVIOUS
  <1> HIDE DEF S
  <1> QED
    BY <1>4, <1>5 DEF Promise!End

(* A login, or one that finds its user gone.                               *)
LEMMA SaveOpens ==
  ASSUME TokenInv, NEW p \in Procs, SaveRefreshToken(p)
  PROVE  LoginState' = LoginState \/ \E n \in Tokens : Promise!Open(n)
  <1>1. CASE UNCHANGED <<row, root>>
    BY <1>1 DEF LoginState, ChainActive
  <1>2. ASSUME NEW n \in Tokens, row[n] = "free", row' = [row EXCEPT ![n] = "active"],
               root' = [root EXCEPT ![n] = n]
        PROVE  Promise!Open(n)
    <2>1. /\ row'[n] = "active" /\ root'[n] = n
          /\ \A x \in Tokens \ {n} : row'[x] = row[x] /\ root'[x] = root[x]
      BY <1>2 DEF TokenInv, TypeOK
    <2>2. \A c \in Tokens \ {n} : ChainActive(c)' <=> ChainActive(c)
      BY <1>2, <2>1 DEF ChainActive
    <2>3. \A c \in Tokens \ {n} : LoginState'[c] = LoginState[c]
      BY <2>1, <2>2, LoginStateOf
    <2>4. LoginState[n] = "none"
      BY <1>2, LoginStateOf
    <2>5. LoginState'[n] = "open"
      BY <2>1, LoginStateOf DEF ChainActive
    <2>6. /\ LoginState' = [ c \in Tokens |-> LoginState'[c] ]
          /\ LoginState = [ c \in Tokens |-> LoginState[c] ]
      BY DEF LoginState
    <2>7. LoginState' = [LoginState EXCEPT ![n] = "open"]
      BY <2>3, <2>5, <2>6
    <2> QED
      BY <2>4, <2>7 DEF Promise!Open
  <1> QED
    BY <1>1, <1>2 DEF SaveRefreshToken, Insert

(* An exchange: the chain goes on under another row.                       *)
LEMMA CreateStutters ==
  ASSUME TokenInv, NEW p \in Procs, Create(p)
  PROVE  LoginState' = LoginState
  <1> DEFINE t == req[p].token
  <1>1. TypeOK /\ t \in Tokens /\ row[t] = "active"
    BY SessionsAssumption
       DEF Create, Answer, TokenInv, RequestsRemember, Remembers, LocksHeld
  <1>2. root[t] \in Tokens /\ row[root[t]] # "free"
    BY <1>1 DEF TokenInv, Lineage
  <1>3. PICK n \in Tokens : /\ row[n] = "free"
                            /\ row' = [row EXCEPT ![t] = "revoked", ![n] = "active"]
                            /\ Insert(p, owner[t], n, t, root[t])
    BY DEF Create
  <1> HIDE DEF t
  <1>4. /\ row'[n] = "active" /\ root'[n] = root[t] /\ n # t /\ n # root[t]
        /\ row'[t] = "revoked" /\ root'[t] = root[t]
        /\ \A x \in Tokens : x # t /\ x # n => row'[x] = row[x] /\ root'[x] = root[x]
    BY <1>1, <1>2, <1>3 DEF TypeOK, Insert
  <1>5. \A c \in Tokens : ChainActive(c)' <=> ChainActive(c)
    <2> SUFFICES ASSUME NEW c \in Tokens PROVE ChainActive(c)' <=> ChainActive(c)
      OBVIOUS
    <2>1. CASE c = root[t]
      BY <1>1, <1>3, <1>4, <2>1 DEF ChainActive
    <2>2. CASE c # root[t]
      <3>1. \A x \in Tokens : (row'[x] = "active" /\ root'[x] = c) <=>
                             (row[x] = "active" /\ root[x] = c)
        BY <1>1, <1>3, <1>4, <2>2
      <3> QED
        BY <3>1 DEF ChainActive
    <2> QED
      BY <2>1, <2>2
  <1>6. ASSUME NEW c \in Tokens PROVE LoginState'[c] = LoginState[c]
    <2>1. (row'[c] = "free" \/ root'[c] # c) <=> (row[c] = "free" \/ root[c] # c)
      BY <1>1, <1>3, <1>4
    <2> QED
      BY <1>5, <2>1, LoginStateOf
  <1> QED
    BY <1>6, SameLogins

(* A login that has ended, however it ended, never comes back: the steps   *)
(* of the requests open and end logins as Logins says, or leave them as    *)
(* they are.                                                               *)
THEOREM EndedSessionsStayEnded == Spec => EndedStaysEnded
  <1>1. Init => Promise!Init
    BY DEF Init, Promise!Init, LoginState
  <1>2. TokenInv /\ [Next]_vars => [Promise!Next]_LoginState
    <2> SUFFICES ASSUME TokenInv, [Next]_vars PROVE [Promise!Next]_LoginState
      OBVIOUS
    <2>1. CASE Shrinks
      BY <2>1, ShrinkEnds DEF Promise!Next
    <2>2. CASE \E p \in Procs : SaveRefreshToken(p)
      BY <2>2, SaveOpens DEF Promise!Next
    <2>3. CASE \E p \in Procs : Create(p)
      BY <2>3, CreateStutters
    <2> QED
      BY <2>1, <2>2, <2>3, OthersShrink
  <1> QED
    BY <1>1, <1>2, TokenInvariant, PTL DEF Spec, EndedStaysEnded, Promise!Spec

=============================================================================
