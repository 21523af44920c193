------------------------------ MODULE Requests ------------------------------
(***************************************************************************)
(* What every request goes through: rate limits, the token, the roles of   *)
(* the route, the handler, and the audit job for the ones that write.      *)
(* The routes are those of the controllers, with their decorators.         *)
(*                                                                         *)
(* The token is checked and the user's row read once, before the handler;  *)
(* what the row says may have changed when the handler writes.  Of the     *)
(* handlers only what they do to accounts and to the queue is here, without *)
(* the audit jobs that login, logout and the two changes of a password add *)
(* themselves (writeAuditLog): those are jobs like any other to EmailQueue, *)
(* and no property here is about them.                                     *)
(***************************************************************************)
EXTENDS EmailQueue

CONSTANTS
    Procs,      \* requests being served at the same time
    GivenRoles  \* the roles that admins give

ASSUME RequestsAssumption == GivenRoles \subseteq Roles

VARIABLES
    claims,  \* the role in the access token each user holds, issued before
    req,     \* where each request is, its number, its route and its caller
    asked,   \* the number of requests so far
    \* History, read by no step.
    written, \* requests with an audited method whose handler succeeded
    lost,    \* of those, the ones whose audit job was not queued
    changed  \* accounts that were changed since the guards of a request

requestVars == <<claims, req, asked, written, lost, changed>>
vars        == <<queueVars, requestVars>>

-----------------------------------------------------------------------------
(* Routes.  The effect is what the handler does to an account or the queue. *)

\* The throttlers of app.module and throttler.config; 0 is skipped.
Limits   == [ default |-> 100, medium |-> 60, long |-> 80 ]
Skipping == [Limits EXCEPT !.default = 0]   \* @SkipThrottle()

Route(method, guard, roles, effect) ==
    [ method |-> method, guard |-> guard, roles |-> roles, effect |-> effect, limits |-> Limits ]
Public(method)       == Route(method, "none", {}, "none")
SkipThrottle(route)  == [route EXCEPT !.limits = Skipping]
Throttle(route, c, n) == [route EXCEPT !.limits[c] = n]
Only(roles, method)  == Route(method, "jwt", roles, "none")
Editors == { "admin", "editor" }

\* deleteUser, findAll, getProfile, updateProfile, findOne.
UsersRoutes ==
    { Route("DELETE", "jwt", {"admin"}, "delete"),
      Only({"admin"}, "GET"),
      [Only({}, "GET") EXCEPT !.limits = [ default |-> 0, medium |-> 0, long |-> 0 ]],
      Only({}, "PATCH") }

\* adminUpdateUser, updateRole, assignPlan, blockUser, unblockUser.
UserCommandRoutes ==
    { Route("PATCH", "jwt", {"admin"}, e) : e \in { "update", "role", "none", "block", "unblock" } }

\* login, register, refresh, logout, changePassword.
AuthRoutes ==
    { Throttle(Public("POST"), "medium", 30), Throttle(Public("POST"), "medium", 20),
      Public("POST"), Only({}, "POST") }

\* forgotPassword, verifyOtp, resetPassword.
ResetRoutes ==
    { Throttle(Route("POST", "none", {}, "otp"), "long", 10),
      Throttle(Public("POST"), "long", 20), Public("POST") }

\* findAll and findBySlug, findOwn, findAllAdmin and findBySlugAdmin.
ArticleReadRoutes ==
    { SkipThrottle(Route("GET", "optional", {}, "none")), Only(Roles, "GET"), Only(Editors, "GET") }

ArticleWriteRoutes == { Only(Editors, m) : m \in { "POST", "PATCH", "DELETE" } }

PortfolioRoutes ==
    { Only({"admin"}, m) : m \in { "GET", "POST", "PATCH", "DELETE" } }
    \cup { Route("GET", "optional", {}, "none") }

PlanRoutes ==
    { SkipThrottle(Public("GET")), Public("GET") }
    \cup { Only({"admin"}, m) : m \in { "GET", "POST", "PATCH", "DELETE" } }

CategoryRoutes ==
    { SkipThrottle(Public("GET")), Only(Editors, "POST"), Only(Editors, "PATCH"),
      Only({"admin"}, "DELETE") }

TagRoutes ==
    { SkipThrottle(Public("GET")), Only(Editors, "POST"), Only(Editors, "PATCH"),
      Only({"admin"}, "DELETE") }

DashboardRoutes == { Only({"admin"}, "GET") }

SiteSettingRoutes ==
    { SkipThrottle(Public("GET")), Only({"admin"}, "GET"), Only({"admin"}, "PATCH") }

ContactRoutes == { Throttle(Public("POST"), "long", 20) }

HealthRoutes == { SkipThrottle(Public("GET")) }

Routes ==
    UsersRoutes \cup UserCommandRoutes \cup AuthRoutes \cup ResetRoutes
    \cup ArticleReadRoutes \cup ArticleWriteRoutes \cup PortfolioRoutes \cup PlanRoutes
    \cup CategoryRoutes \cup TagRoutes \cup DashboardRoutes \cup SiteSettingRoutes
    \cup ContactRoutes \cup HealthRoutes

\* The methods the audit interceptor looks at.
Audited(method) == method \in { "POST", "PATCH", "PUT", "DELETE" }

\* What of a route makes a difference from here on.
Sort(r) == [ guard |-> r.guard, roles |-> r.roles, effect |-> r.effect,
             audited |-> Audited(r.method),
             limited |-> \E c \in DOMAIN r.limits : r.limits[c] # 0 ]
Sorts   == { Sort(r) : r \in Routes }

-----------------------------------------------------------------------------
NoRoute == Sort(Public("GET"))
Idle    == [ at |-> "idle", n |-> 0, route |-> NoRoute, caller |-> NoUser, user |-> NoUser ]

TypeOK ==
    /\ QueueTypeOK
    /\ claims \in [ Users -> Roles ]
    /\ req \in [ Procs -> [ at : { "idle", "limits", "guards", "handle", "otp", "audit" },
                            n : 0 .. MaxRequests, route : Sorts,
                            caller : Users \cup {NoUser}, user : Users \cup {NoUser} ] ]
    /\ asked \in 0 .. MaxRequests
    /\ written \subseteq 1 .. MaxRequests /\ lost \subseteq written
    /\ changed \in [ Procs -> SUBSET Users ]

\* Users with fresh tokens, an admin among them, and an empty queue.
Init ==
    /\ account \in [ Users -> [ live : {TRUE}, role : Roles, blocked : {FALSE} ] ]
    /\ \E u \in Users : account[u].role = "admin"
    /\ claims = [ u \in Users |-> account[u].role ]
    /\ QueueInit
    /\ req = [ p \in Procs |-> Idle ]
    /\ asked = 0
    /\ written = {} /\ lost = {}
    /\ changed = [ p \in Procs |-> {} ]

Goto(p, to) == req' = [req EXCEPT ![p].at = to]
Answer(p)   == req' = [req EXCEPT ![p] = Idle]

Others == <<claims, asked, written, lost, changed>>

\* A request, with the token of a user or with none.
Arrive(p, r, u) ==
    /\ req[p].at = "idle" /\ asked < MaxRequests
    /\ asked' = asked + 1
    /\ req' = [req EXCEPT ![p] = [Idle EXCEPT !.at = IF r.limited THEN "limits" ELSE "guards",
                                              !.n = asked + 1, !.route = r, !.caller = u]]
    /\ UNCHANGED <<queueVars, claims, written, lost, changed>>

\* ThrottlerGuard, the global guard: on, or 429.
Limit(p) ==
    /\ req[p].at = "limits"
    /\ Goto(p, "guards") \/ Answer(p)
    /\ UNCHANGED <<queueVars, Others>>

\* JwtStrategy.validate: is there a user to go with the token?
Valid(u) == u # NoUser /\ account[u].live /\ ~account[u].blocked

\* Slip: the role of the token is believed.
Permitted_ByToken(r, u) == r.roles = {} \/ claims[u] \in r.roles

\* RolesGuard, with the role of the row that was just read.
Permitted(r, u) == r.roles = {} \/ account[u].role \in r.roles

\* JwtAuthGuard and RolesGuard, OptionalJwtAuthGuard, or none: without a
\* guard nobody looks at the token.
Guards(p) ==
    LET r == req[p].route
        u == req[p].caller
    IN
    /\ req[p].at = "guards"
    /\ IF r.guard = "jwt"
         THEN IF Valid(u) /\ Permitted(r, u)
                THEN req' = [req EXCEPT ![p].at = "handle", ![p].user = u]
                ELSE Answer(p)
         ELSE req' = [req EXCEPT ![p].at = "handle",
                                 ![p].user = IF r.guard = "optional" /\ Valid(u) THEN u ELSE NoUser]
    /\ changed' = [changed EXCEPT ![p] = {}]
    /\ UNCHANGED <<queueVars, claims, asked, written, lost>>

\* What the handler leaves to do: the interceptor's job, or nothing.
Succeed(p) ==
    /\ IF req[p].route.audited THEN Goto(p, "audit") ELSE Answer(p)
    /\ written' = IF req[p].route.audited THEN written \cup {req[p].n} ELSE written

\* The accounts that the handler of an admin may make of another's.
Change(e, a) ==
    { b \in [ live : {a.live}, role : GivenRoles \cup {a.role}, blocked : BOOLEAN ] :
        \/ e = "role"    /\ b.role \in GivenRoles /\ b.blocked = a.blocked
        \/ e = "block"   /\ b.role = a.role /\ b.blocked
        \/ e = "unblock" /\ b.role = a.role /\ ~b.blocked
        \/ e = "update"  /\ b.role \in GivenRoles }

\* Nobody blocks or demotes himself, except through adminUpdateUser.
Handle(p, t, a) ==
    LET e == req[p].route.effect IN
    /\ req[p].at = "handle"
    /\ t # req[p].user \/ e \notin { "role", "block" }
    /\ account[t].live
    /\ a \in Change(e, account[t])
    /\ account' = [account EXCEPT ![t] = a]
    /\ Succeed(p)
    /\ changed' = [ q \in Procs |-> IF req'[q].at = "handle" THEN changed[q] \cup {t} ELSE {} ]
    /\ UNCHANGED <<queue, faulty, shared, claims, asked, lost>>

\* deleteUser, himself not excepted: the audit rows that name him go too.
HandleDelete(p, t) ==
    /\ req[p].at = "handle" /\ req[p].route.effect = "delete"
    /\ account[t].live
    /\ RowsGo(t)
    /\ Succeed(p)
    /\ changed' = [ q \in Procs |-> IF req'[q].at = "handle" THEN changed[q] \cup {t} ELSE {} ]
    /\ UNCHANGED <<job, worker, marked, mails, faults, faulty, shared, claims, asked, lost>>

\* forgotPassword: nothing for an unknown address, else a job it waits for.
HandleOtp(p) ==
    /\ req[p].at = "handle" /\ req[p].route.effect = "otp"
    /\ \/ Succeed(p)
       \/ Goto(p, "otp") /\ UNCHANGED written
    /\ UNCHANGED <<queueVars, claims, asked, lost, changed>>

EnqueueOtp(p) ==
    /\ req[p].at = "otp"
    /\ Add(<<"send_otp", req[p].n>>, NoUser)
    /\ Succeed(p)
    /\ UNCHANGED <<account, worker, marked, mails, logged, faults, faulty, shared, claims, asked, lost, changed>>

\* Any other handler.
HandleOther(p) ==
    /\ req[p].at = "handle" /\ req[p].route.effect = "none"
    /\ Succeed(p)
    /\ UNCHANGED <<queueVars, claims, asked, lost, changed>>

\* A guard, a pipe or the handler throws: the filter answers, and tap is not
\* reached.
Refuse(p) ==
    /\ req[p].at \in { "guards", "handle", "otp" }
    /\ Answer(p)
    /\ UNCHANGED <<queueVars, Others>>

\* AuditLogInterceptor: the answer does not wait for the queue.
Audit(p) ==
    /\ req[p].at = "audit"
    /\ Add(<<"audit_log", req[p].n>>, req[p].user)
    /\ Answer(p)
    /\ UNCHANGED <<account, worker, marked, mails, logged, faults, faulty, shared, Others>>

\* The queue refuses, which is only logged, or the server ends.
AuditFails(p) ==
    /\ req[p].at = "audit"
    /\ lost' = IF req[p].n \in written THEN lost \cup {req[p].n} ELSE lost
    /\ Answer(p)
    /\ UNCHANGED <<queueVars, claims, asked, written, changed>>

Serve(p) ==
    \/ Limit(p) \/ Guards(p)
    \/ \E t \in Users :
         HandleDelete(p, t) \/ \E a \in Change(req[p].route.effect, account[t]) : Handle(p, t, a)
    \/ HandleOtp(p) \/ EnqueueOtp(p) \/ HandleOther(p) \/ Refuse(p)
    \/ Audit(p) \/ AuditFails(p)

Next ==
    \/ \E p \in Procs :
         \/ \E r \in Sorts, u \in Users \cup {NoUser} : Arrive(p, r, u)
         \/ Serve(p)
    \/ QueueNext /\ UNCHANGED requestVars

Spec == Init /\ [][Next]_vars

-----------------------------------------------------------------------------
(* Properties.                                                             *)

\* An account is changed only for a caller who has the role for it and is not
\* blocked at that very moment, unless an admin changed him between the
\* guards and the handler: a token that is older than a demotion, a block or
\* a deletion opens nothing.
ChangesAreAuthorised ==
    [][ \A p \in Procs : \A t \in Users :
          account'[t] # account[t] /\ req[p].at = "handle" /\ req'[p] # req[p] =>
            LET u == req[p].user IN
            /\ u # NoUser
            /\ \/ u \in changed[p]
               \/ Valid(u) /\ account[u].role \in req[p].route.roles ]_vars

\* No write that succeeded goes without an audit row for no reason: the row
\* or the job that will write it is there, or the job was never queued, or it
\* failed after faults, or the user it names has been deleted.
WritesAreAccounted ==
    \A n \in written :
        LET j == <<"audit_log", n>> IN
        \/ logged[j] > 0
        \/ job[j].state \in Pending
        \/ job[j].state = "failed" /\ j \in faulty
        \/ n \in lost
        \/ job[j].user # NoUser /\ ~account[job[j].user].live
        \/ \E p \in Procs : req[p].at = "audit" /\ req[p].n = n

\* And nothing else leaves a job of the interceptor, or its row: no request that
\* was refused, and none whose handler failed (the job is queued by tap, which
\* only success reaches).
OnlyWritesAreAudited ==
    \A n \in 1 .. MaxRequests :
        job[<<"audit_log", n>>].state # "absent" => n \in written

=============================================================================
