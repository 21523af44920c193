------------------------------ MODULE Catalog -------------------------------
(***************************************************************************)
(* Categories, tags, plans and articles as rows that are found by their    *)
(* slug, the references between them, the users a plan is assigned to, and *)
(* the two lists Redis keeps.                                              *)
(*                                                                         *)
(* Every handler looks its row up by slug and then acts on that slug again *)
(* in a later statement: in between the slug may have been given up and    *)
(* taken by another row.  The database has a unique index on each slug and *)
(* foreign keys; the checks before are the handlers' own.                  *)
(***************************************************************************)
EXTENDS Naturals, FiniteSets

CONSTANTS
    Procs,     \* requests being served at the same time
    Slugs,
    MaxRows,   \* of each kind: bound on the number of rows ever inserted
    MaxRequests, \* bound on the number of requests
    DtoPlans,  \* the plans that the dto of an article names
    Users,     \* a plan is assigned to them; they write articles as editors
    NoSlug,
    NoUser     \* an admin

Kinds   == { "category", "tag", "plan", "article" }
Listed  == { "category", "plan" }   \* the kinds whose list Redis keeps
Rows(k) == 1 .. MaxRows[k]
Ids     == UNION { Rows(k) : k \in Kinds }

ASSUME CatalogAssumption ==
    /\ MaxRows \in [ Kinds -> Nat \ {0} ] /\ MaxRequests \in Nat
    /\ DtoPlans \subseteq Rows("plan")
    /\ NoSlug \notin Slugs /\ NoUser \notin Users

VARIABLES
    slug,     \* the rows: the slug of each (NoSlug: no row)
    used,     \* the last primary key of each kind that was given out
    article,  \* of each article: its category, its plans and who wrote it
    active,   \* Plan.isActive
    titles,   \* PlanFieldVisibility of each plan: its texts, 0 without a row
    assigned, \* User.planId: 0 when null
    gone,     \* users that were deleted
    list,     \* the lists in Redis, as they were found, or nothing
    req,      \* where each request is, and what it has found
    seen,     \* the pivot rows of an article that a request's deleteMany found
    asked,    \* the number of requests so far
    \* History, read by no step.
    since,    \* users to whom a plan was assigned since a request's count
    missed    \* lists stored by a request that had been overtaken by a write,
              \*   or left by a write that deletes no list or failed to

rows == <<slug, used, article, active, titles, assigned, gone>>
vars == <<rows, list, req, seen, asked, since, missed>>

Slug0   == Slugs \cup {NoSlug}
Texts   == 0 .. 1
Nothing == [ here |-> FALSE, rows |-> [ i \in Ids |-> NoSlug ], with |-> [ i \in Ids |-> 0 ] ]
Lists   == [ here : BOOLEAN, rows : [ Ids -> Slug0 ], with : [ Ids -> Nat ] ]
Article == [ category : Ids \cup {0}, plans : SUBSET Ids, author : Users \cup {NoUser} ]
NoArticle == [ category |-> 0, plans |-> {}, author |-> NoUser ]

Places == { "idle", "insert", "taken", "rename", "wipe", "wiped", "count", "delete",
            "assign", "upsert", "invalidate", "listFind", "listParts", "listSet" }
Idle   == [ at |-> "idle", kind |-> "tag", slug |-> NoSlug, to |-> NoSlug, id |-> 0,
            article |-> NoArticle, replan |-> FALSE, user |-> NoUser,
            active |-> TRUE, titles |-> 0, list |-> Nothing ]

TypeOK ==
    /\ slug \in [ Kinds -> [ Ids -> Slug0 ] ]
    /\ used \in [ Kinds -> Ids \cup {0} ]
    /\ article \in [ Ids -> Article ]
    /\ active \in [ Ids -> BOOLEAN ] /\ titles \in [ Ids -> Texts ]
    /\ assigned \in [ Users -> Ids \cup {0} ] /\ gone \subseteq Users
    /\ seen \in [ Procs -> SUBSET Ids ]
    /\ list \in [ Listed -> Lists ]
    /\ req \in [ Procs -> [ at : Places, kind : Kinds, slug : Slug0, to : Slug0,
                            id : Ids \cup {0}, article : Article, replan : BOOLEAN,
                            user : Users \cup {NoUser}, active : BOOLEAN, titles : Texts,
                            list : Lists ] ]
    /\ asked \in 0 .. MaxRequests
    /\ since \in [ Procs -> SUBSET Users ]
    /\ missed \subseteq Listed

Live(k, i)   == i \in Ids /\ slug[k][i] # NoSlug
Row(k, s)    == { i \in Ids : slug[k][i] = s }    \* at most one: the index
Free(k, s)   == Row(k, s) = {}
Articles     == { i \in Ids : Live("article", i) }

\* findMany of the categories with the number of their articles, in one
\* statement; of the plans on sale, whose texts come with the next.
CategoryRows == [ here |-> TRUE, rows |-> slug["category"],
                  with |-> [ i \in Ids |-> Cardinality({ a \in Articles : article[a].category = i }) ] ]
PlanRows     == [ here |-> TRUE,
                  rows |-> [ i \in Ids |-> IF active[i] THEN slug["plan"][i] ELSE NoSlug ],
                  with |-> [ i \in Ids |-> 0 ] ]
WithTitles(l) == [l EXCEPT !.with = [ i \in Ids |-> IF l.rows[i] = NoSlug THEN 0 ELSE titles[i] ]]
Present(k)    == IF k = "category" THEN CategoryRows ELSE WithTitles(PlanRows)

\* The foreign keys of an article (its author, when he is deleted, is set to null).
Refers(a) ==
    /\ Live("category", a.category)
    /\ \A i \in a.plans : Live("plan", i)

\* A row of each kind, a plan, or nothing.
Init ==
    \E s \in Slugs, u \in Users, some \in { {}, {"plan"}, Kinds } :
        /\ slug = [ k \in Kinds |-> [ i \in Ids |-> IF i = 1 /\ k \in some THEN s ELSE NoSlug ] ]
        /\ used = [ k \in Kinds |-> IF k \in some THEN 1 ELSE 0 ]
        /\ article = [ i \in Ids |->
                         IF i = 1 /\ "article" \in some
                           THEN [ category |-> 1, plans |-> {1}, author |-> u ]
                           ELSE NoArticle ]
        /\ active = [ i \in Ids |-> TRUE ]
        /\ titles = [ i \in Ids |-> 0 ]
        /\ assigned = [ v \in Users |-> 0 ] /\ gone = {}
        /\ seen = [ p \in Procs |-> {} ]
        /\ list = [ k \in Listed |-> Nothing ]
        /\ req = [ p \in Procs |-> Idle ]
        /\ asked = 0
        /\ since = [ p \in Procs |-> {} ]
        /\ missed = {}

Begin(p, r) ==
    /\ req[p].at = "idle" /\ asked < MaxRequests
    /\ req' = [req EXCEPT ![p] = r]
    /\ asked' = asked + 1

Goto(p, to) == req' = [req EXCEPT ![p].at = to]
Answer(p)   == req' = [req EXCEPT ![p] = Idle]

\* Slip: the list is left to its expiry.
Written_KeepsList(p) == Answer(p)

\* After a write: lists that are kept are deleted, of the others (articles:*
\* is the matter of ArticleCache, tags are not kept) nothing is here.
Written(p) ==
    req' = [req EXCEPT ![p] = IF req[p].kind \in Listed
                                THEN [Idle EXCEPT !.at = "invalidate", !.kind = req[p].kind]
                                ELSE Idle]

\* The categories are listed with the number of their articles, and no write
\* of an article deletes the list.
Counts(p) ==
    missed' = IF req[p].kind = "article" /\ Present("category")' # Present("category")
                THEN missed \cup {"category"} ELSE missed

At(place, k, s) == [Idle EXCEPT !.at = place, !.kind = k, !.slug = s]

-----------------------------------------------------------------------------
(* The lookups the handlers begin with; one that finds what it must not,   *)
(* or does not find what it must, is answered.                             *)

Create(p, k, s, r) ==
    /\ Begin(p, r)
    /\ Free(k, s)
    /\ UNCHANGED <<rows, list, seen, since, missed>>

CategoryCreate(p, s) == Create(p, "category", s, At("insert", "category", s))
PlanCreate(p, s, on) == Create(p, "plan", s, [At("insert", "plan", s) EXCEPT !.active = on])
TagCreate(p, s)      == Create(p, "tag", s, At("insert", "tag", s))

\* The author is the caller; the category and the plans come from the dto.
ArticleCreate(p, s, u, c, plans) ==
    /\ u \notin gone
    /\ Create(p, "article", s,
              [At("insert", "article", s) EXCEPT
                 !.article = [ category |-> c, plans |-> plans, author |-> u ]])

\* A tag without a slug of its own is inserted at once.
TagCreateUnnamed(p, s) ==
    /\ Begin(p, At("insert", "tag", s))
    /\ UNCHANGED <<rows, list, seen, since, missed>>

Update(p, k, s, r) ==
    /\ req[p].at = "idle"
    /\ \E i \in Row(k, s) : Begin(p, [r EXCEPT !.id = i])
    /\ UNCHANGED <<rows, list, seen, since, missed>>

\* A new slug that differs is looked up too.
Renaming(k, s, to) == [At(IF to = s THEN "rename" ELSE "taken", k, s) EXCEPT !.to = to]

CategoryUpdate(p, s, to) == Update(p, "category", s, Renaming("category", s, to))
TagUpdate(p, s, to)      == Update(p, "tag", s, Renaming("tag", s, to))

\* The slug of a plan never changes; the dto may take it off sale, and may
\* come with texts.
PlanUpdate(p, s, on, t) ==
    Update(p, "plan", s, [Renaming("plan", s, s) EXCEPT !.active = on, !.titles = t])

\* The texts alone.
PlanUpsertFieldVisibility(p, s, t) ==
    Update(p, "plan", s, [At("upsert", "plan", s) EXCEPT !.titles = t])

\* With planIds in the dto the plans are replaced; without a categoryId (0)
\* the category stays.
ArticleUpdate(p, s, to, c, replan, plans) ==
    Update(p, "article", s,
           [Renaming("article", s, to) EXCEPT
              !.at = IF to = s /\ replan THEN "wipe" ELSE @,
              !.replan = replan, !.article.category = c, !.article.plans = plans])

CategoryRemove(p, s) == Update(p, "category", s, At("count", "category", s))
PlanRemove(p, s)     == Update(p, "plan", s, At("count", "plan", s))
TagRemove(p, s)      == Update(p, "tag", s, At("delete", "tag", s))

\* An admin (NoUser) removes any article, an editor his own.
ArticleRemove(p, s, u) ==
    /\ u \notin gone
    /\ Update(p, "article", s, [At("wipe", "article", s) EXCEPT !.user = u])
    /\ u # NoUser => \A i \in Row("article", s) : article[i].author = u

\* assignPlan, and its lookups.
AssignPlan(p, u, i) ==
    /\ u \notin gone /\ Live("plan", i)
    /\ Begin(p, [Idle EXCEPT !.at = "assign", !.kind = "plan", !.id = i, !.user = u])
    /\ UNCHANGED <<rows, list, seen, since, missed>>

\* deleteUser, with its transaction: the user has a plan no more, and his
\* articles no author.  (His id is not given out again: he stays the one who
\* wrote them.)
DeleteUser(u) ==
    /\ u \notin gone /\ asked < MaxRequests
    /\ asked' = asked + 1
    /\ gone' = gone \cup {u}
    /\ assigned' = [assigned EXCEPT ![u] = 0]
    /\ UNCHANGED <<slug, used, article, active, titles, list, req, seen, since, missed>>

-----------------------------------------------------------------------------
(* The statements that follow.                                             *)

\* The unique index and the foreign keys have the last word.
Insert(p) ==
    LET r == req[p]
        i == used[r.kind] + 1
    IN
    /\ r.at = "insert"
    /\ used[r.kind] < MaxRows[r.kind]
    /\ Free(r.kind, r.slug)
    /\ r.kind = "article" => Refers(r.article) /\ r.article.author \notin gone
    /\ used' = [used EXCEPT ![r.kind] = i]
    /\ slug' = [slug EXCEPT ![r.kind][i] = r.slug]
    /\ article' = IF r.kind = "article" THEN [article EXCEPT ![i] = r.article] ELSE article
    /\ active' = IF r.kind = "plan" THEN [active EXCEPT ![i] = r.active] ELSE active
    /\ titles' = IF r.kind = "plan" THEN [titles EXCEPT ![i] = 1] ELSE titles
    /\ Written(p) /\ Counts(p)
    /\ UNCHANGED <<asked, assigned, gone, list, seen, since>>

\* Is the new slug taken?
Taken(p) ==
    /\ req[p].at = "taken"
    /\ IF Free(req[p].kind, req[p].to)
         THEN Goto(p, IF req[p].replan THEN "wipe" ELSE "rename")
         ELSE Answer(p)
    /\ UNCHANGED <<asked, rows, list, seen, since, missed>>

\* What article.update makes of a row, its plans aside.
Rewritten(r, a) ==
    [a EXCEPT !.category = IF r.article.category = 0 THEN @ ELSE r.article.category]

\* articlePlan.deleteMany for the article that was found opens the transaction
\* of an update that comes with plans, and that of a removal.
Wipe(p) ==
    /\ req[p].at = "wipe"
    /\ Goto(p, "wiped")
    /\ seen' = [seen EXCEPT ![p] = article[req[p].id].plans]
    /\ UNCHANGED <<asked, rows, list, since, missed>>

\* It waits for whoever has deleted some of these rows before, and is then left
\* with those that are still there.  They stay until it commits.
Wiped(p) ==
    /\ req[p].at = "wiped"
    /\ \A q \in Procs \ {p} :
         req[q].id = req[p].id /\ req[q].at # "wiped" => seen[q] \cap seen[p] = {}
    /\ Goto(p, IF req[p].replan THEN "rename" ELSE "delete")
    /\ UNCHANGED <<asked, rows, seen, list, since, missed>>

\* The pivot rows of an article as the transaction of p sees them.
Pivots(p, i) == article[i].plans \ (IF i = req[p].id THEN seen[p] ELSE {})

\* With the commit the rows it deleted are gone, for those that wait too.
Commits(p) ==
    seen' = [ q \in Procs |-> IF q = p THEN {}
                              ELSE IF req[q].id = req[p].id THEN seen[q] \ seen[p]
                              ELSE seen[q] ]

\* update where the slug is the one that was asked for: the row that has it
\* now, which need not be the row that was found, nor the one that has lost its
\* plans.  The primary key of the pivot rows refuses a plan twice.
Rename(p) ==
    LET r == req[p] IN
    /\ r.at = "rename"
    /\ \E i \in Row(r.kind, r.slug) :
         LET new == [Rewritten(r, article[i]) EXCEPT !.plans = Pivots(p, i) \cup r.article.plans] IN
         /\ r.to = r.slug \/ Free(r.kind, r.to)
         /\ slug' = [slug EXCEPT ![r.kind][i] = r.to]
         /\ r.kind = "article" => Refers(new) /\ Pivots(p, i) \cap r.article.plans = {}
         /\ article' = IF r.kind # "article" THEN article
                       ELSE [ j \in Ids |-> IF j = i THEN new
                                            ELSE [article[j] EXCEPT !.plans = Pivots(p, j)] ]
         /\ active' = IF r.kind = "plan" THEN [active EXCEPT ![i] = r.active] ELSE active
         /\ titles' = IF r.kind = "plan" /\ r.titles # 0
                        THEN [titles EXCEPT ![i] = r.titles] ELSE titles
    /\ Commits(p) /\ Written(p) /\ Counts(p)
    /\ UNCHANGED <<asked, used, assigned, gone, list, since>>

References(k, i) ==
    CASE k = "category" -> \E a \in Articles : article[a].category = i
      [] k = "plan"     -> \E u \in Users : assigned[u] = i
      [] OTHER          -> FALSE

\* Slip: the users are not counted.
Count_Skipped(p) ==
    /\ req[p].at = "count"
    /\ Goto(p, "delete")
    /\ since' = [since EXCEPT ![p] = {}]
    /\ UNCHANGED <<asked, rows, seen, list, missed>>

\* How many articles has the category, how many users the plan?
Count(p) ==
    /\ req[p].at = "count"
    /\ IF References(req[p].kind, req[p].id)
         THEN Answer(p)
         ELSE Goto(p, "delete")
    /\ since' = [since EXCEPT ![p] = {}]
    /\ UNCHANGED <<asked, rows, seen, list, missed>>

\* Slip: a removal takes what refers to it along.
Restricted_Cascades(p, i) == FALSE

\* Slip: the pivot rows are deleted through the slug.
Restricted_WipesBySlug(p, i) ==
    CASE req[p].kind = "category" -> \E a \in Articles : article[a].category = i
      [] req[p].kind = "plan"     -> \E a \in Articles : i \in article[a].plans
      [] OTHER                    -> FALSE

\* What the foreign keys say to the removal of a row: articles hold on to
\* their category, pivot rows to their plan and their article.
Restricted(p, i) ==
    CASE req[p].kind = "category" -> \E a \in Articles : article[a].category = i
      [] req[p].kind = "plan"     -> \E a \in Articles : i \in article[a].plans
      [] req[p].kind = "article"  -> Pivots(p, i) # {}
      [] OTHER                    -> FALSE

\* delete where the slug is the one asked for.  User.planId becomes null, a
\* plan's texts go with it, a tag leaves its articles.  The pivot rows that
\* went before are those of the article that was found.
Delete(p) ==
    LET r == req[p] IN
    /\ r.at = "delete"
    /\ \E i \in Row(r.kind, r.slug) :
         /\ ~Restricted(p, i)
         /\ slug' = [slug EXCEPT ![r.kind][i] = NoSlug]
         /\ article' = IF r.kind # "article" THEN article
                       ELSE [ j \in Ids |-> IF j = i THEN NoArticle
                                            ELSE [article[j] EXCEPT !.plans = Pivots(p, j)] ]
         /\ assigned' = IF r.kind # "plan" THEN assigned
                        ELSE [ u \in Users |-> IF assigned[u] = i THEN 0 ELSE assigned[u] ]
         /\ titles' = IF r.kind = "plan" THEN [titles EXCEPT ![i] = 0] ELSE titles
    /\ Commits(p) /\ Written(p) /\ Counts(p)
    /\ UNCHANGED <<asked, used, active, gone, list, since>>

\* user.update: the user must be there, and for the foreign key the plan.
Assign(p) ==
    LET r == req[p] IN
    /\ r.at = "assign"
    /\ Live("plan", r.id) /\ r.user \notin gone
    /\ assigned' = [assigned EXCEPT ![r.user] = r.id]
    /\ since' = [ q \in Procs |-> IF req[q].at = "delete" THEN since[q] \cup {r.user} ELSE {} ]
    /\ Answer(p)
    /\ UNCHANGED <<asked, slug, used, article, active, titles, gone, seen, list, missed>>

\* planFieldVisibility.upsert for the plan that was found.
Upsert(p) ==
    LET r == req[p] IN
    /\ r.at = "upsert"
    /\ Live("plan", r.id)
    /\ titles' = [titles EXCEPT ![r.id] = r.titles]
    /\ Written(p)
    /\ UNCHANGED <<asked, slug, used, article, active, assigned, gone, list, seen, since, missed>>

-----------------------------------------------------------------------------
(* The lists of categories and of plans.                                   *)

\* Slip: the rows of a list that is kept are renewed in place, on sale or not.
Invalidate_Renews(p) ==
    /\ req[p].at = "invalidate"
    /\ list' = [list EXCEPT ![req[p].kind].rows = slug[req[p].kind]]
    /\ missed' = missed \ {req[p].kind}
    /\ Answer(p)
    /\ UNCHANGED <<asked, rows, seen, since>>

\* DEL of the list's key (and of its older versions, which nobody writes).
Invalidate(p) ==
    /\ req[p].at = "invalidate"
    /\ list' = [list EXCEPT ![req[p].kind] = Nothing]
    /\ missed' = missed \ {req[p].kind}
    /\ Answer(p)
    /\ UNCHANGED <<asked, rows, seen, since>>

CategoryFindAll(p) ==
    /\ ~list["category"].here
    /\ Begin(p, [Idle EXCEPT !.at = "listFind", !.kind = "category"])
    /\ UNCHANGED <<rows, list, seen, since, missed>>

PlanFindAll(p) ==
    /\ ~list["plan"].here
    /\ Begin(p, [Idle EXCEPT !.at = "listFind", !.kind = "plan"])
    /\ UNCHANGED <<rows, list, seen, since, missed>>

ListFind(p) ==
    /\ req[p].at = "listFind"
    /\ req' = [req EXCEPT
         ![p].at   = IF req[p].kind = "plan" THEN "listParts" ELSE "listSet",
         ![p].list = IF req[p].kind = "plan" THEN PlanRows ELSE CategoryRows]
    /\ UNCHANGED <<asked, rows, list, seen, since, missed>>

\* The texts of the plans that were found, selected by their ids.
ListParts(p) ==
    /\ req[p].at = "listParts"
    /\ req' = [req EXCEPT ![p].at = "listSet", ![p].list = WithTitles(@)]
    /\ UNCHANGED <<asked, rows, list, seen, since, missed>>

\* SET with EX, an hour for categories, a day for plans.
ListSet(p) ==
    LET k == req[p].kind IN
    /\ req[p].at = "listSet"
    /\ list' = [list EXCEPT ![k] = req[p].list]
    /\ missed' = IF req[p].list = Present(k) THEN missed \ {k} ELSE missed \cup {k}
    /\ Answer(p)
    /\ UNCHANGED <<asked, rows, seen, since>>

Expire(k) ==
    /\ list[k].here
    /\ list' = [list EXCEPT ![k] = Nothing]
    /\ missed' = missed \ {k}
    /\ UNCHANGED <<asked, rows, req, seen, since>>

\* Anything thrown: a refusal by an index or a foreign key, P2025 for a row
\* that is gone, a deadlock (the transaction is rolled back), or Redis while the
\* lists are deleted, which is outside any try and fails the request although
\* its row is written.
Fail(p) ==
    /\ req[p].at # "idle"
    /\ missed' = IF req[p].at = "invalidate" /\ list[req[p].kind].here
                   THEN missed \cup {req[p].kind} ELSE missed
    /\ Answer(p)
    /\ seen' = [seen EXCEPT ![p] = {}]
    /\ UNCHANGED <<asked, rows, list, since>>

-----------------------------------------------------------------------------
Arrive(p) ==
    \/ \E s \in Slugs :
         \/ CategoryCreate(p, s) \/ TagCreate(p, s) \/ TagCreateUnnamed(p, s)
         \/ \E on \in BOOLEAN : PlanCreate(p, s, on)
         \/ \E t \in Texts, on \in BOOLEAN : PlanUpdate(p, s, on, t)
         \/ \E t \in Texts \ {0} : PlanUpsertFieldVisibility(p, s, t)
         \/ CategoryRemove(p, s) \/ PlanRemove(p, s) \/ TagRemove(p, s)
         \/ \E to \in Slugs : CategoryUpdate(p, s, to) \/ TagUpdate(p, s, to)
         \/ \E u \in Users \cup {NoUser}, c \in Rows("category"), plans \in SUBSET DtoPlans :
              ArticleCreate(p, s, u, c, plans)
         \/ \E to \in Slugs, c \in Rows("category") \cup {0} :
              \/ ArticleUpdate(p, s, to, c, FALSE, {})
              \/ \E plans \in SUBSET DtoPlans : ArticleUpdate(p, s, to, c, TRUE, plans)
         \/ \E u \in Users \cup {NoUser} : ArticleRemove(p, s, u)
    \/ \E u \in Users, i \in Rows("plan") : AssignPlan(p, u, i)
    \/ CategoryFindAll(p) \/ PlanFindAll(p)

Advance(p) ==
    \/ Insert(p) \/ Taken(p) \/ Wipe(p) \/ Wiped(p) \/ Rename(p) \/ Count(p) \/ Delete(p)
    \/ Assign(p) \/ Upsert(p) \/ Invalidate(p)
    \/ ListFind(p) \/ ListParts(p) \/ ListSet(p)

Next ==
    \/ \E p \in Procs : Arrive(p) \/ Advance(p) \/ Fail(p)
    \/ \E u \in Users : DeleteUser(u)
    \/ \E k \in Listed : Expire(k)

Spec == Init /\ [][Next]_vars

-----------------------------------------------------------------------------
(* Properties.                                                             *)

\* No two rows of a kind share a slug, whatever the lookups before said.
SlugsAreUnique ==
    \A k \in Kinds, i, j \in Ids : Live(k, i) /\ slug[k][i] = slug[k][j] => i = j

\* Whatever the order of lookups, renames and removals, an article has its
\* category and its plans, and a user the plan he was assigned: removals that
\* counted too early are refused, or null.
ReferencesHold ==
    /\ \A a \in Articles : Refers(article[a])
    /\ \A u \in Users : assigned[u] # 0 => Live("plan", assigned[u])

\* What the statements that follow a lookup rest on: a primary key is never
\* given out twice, who has a plan whose users were counted was assigned to it
\* since, and the article an editor was allowed to remove is his.
KeysAreSpent == \A k \in Kinds, i \in Ids : Live(k, i) => i <= used[k]

CountedAreSpared ==
    \A p \in Procs, u \in Users :
        /\ req[p].at = "delete" /\ req[p].kind = "plan"
        /\ assigned[u] # 0 /\ assigned[u] = req[p].id
        => u \in since[p]

Removes(r) ==
    /\ r.kind = "article"
    /\ \/ r.at = "delete"
       \/ r.at \in { "wipe", "wiped" } /\ ~r.replan

AllowedIsOwn ==
    \A p \in Procs :
        Removes(req[p]) =>
            /\ req[p].id \in Ids /\ req[p].id <= used["article"]
            /\ Live("article", req[p].id) => req[p].user \in { NoUser, article[req[p].id].author }

\* The steps of a handler are those of its kind of row, and the slugs it
\* writes, or looks for, are slugs.
Fits(r) ==
    /\ r.at \in { "insert", "rename", "taken", "wipe", "wiped", "count", "delete" } => r.slug \in Slugs
    /\ r.at \in { "rename", "taken" } \/ r.replan => r.to \in Slugs
    /\ r.at = "count" => r.kind # "article"
    /\ r.at = "assign" => r.user \in Users
    /\ r.at \in { "invalidate", "listFind", "listParts", "listSet" } => r.kind \in Listed

\* The pivot rows that go are those of an article that was found.
Wipes(r) ==
    r.at \in { "wipe", "wiped" } \/ (r.at = "taken" /\ r.replan) =>
        r.kind = "article" /\ r.id \in Ids
RequestsFit == \A p \in Procs : Fits(req[p]) /\ Wipes(req[p])

\* The inductive invariant.
CatalogInv ==
    /\ TypeOK
    /\ SlugsAreUnique
    /\ ReferencesHold
    /\ KeysAreSpent
    /\ CountedAreSpared
    /\ AllowedIsOwn
    /\ RequestsFit

\* Removing a plan costs no user the plan he had when its users were counted:
\* who is left without it was assigned after that.  (Nothing is said of the
\* users of another plan that has taken the slug between lookup and removal;
\* nobody counted those.)
RemovalSparesCounted ==
    [][ \A p \in Procs, u \in Users :
          assigned[u] # 0 /\ assigned'[u] = 0 /\ Delete(p) /\ req[p].id = assigned[u]
            => u \in since[p] ]_vars

\* No editor removes another's article that plans protect, even when the slug
\* of the article he was allowed to remove has moved to that one meanwhile: its
\* pivot rows are still there and refuse.  (One without plans he does remove.)
ProtectedIsRemovedByItsOwn ==
    [][ \A p \in Procs, a \in Ids :
          /\ Live("article", a) /\ slug'["article"][a] = NoSlug
          /\ Delete(p)
          /\ article[a].plans # {}
          => req[p].user \in {NoUser, article[a].author} ]_vars

\* A list is out of date only while a write is about to delete it, or when a
\* read that a write had overtaken stored it, an invalidation failed, or the
\* articles its categories are listed with were written.
StaleIsExplained ==
    \A k \in Listed :
        list[k].here /\ list[k] # Present(k) =>
            \/ k \in missed
            \/ \E p \in Procs : req[p].at = "invalidate" /\ req[p].kind = k

\* What CacheAside sees: the categories with the number of their articles, and
\* the plans on sale without their texts, which are found by a later statement;
\* what is kept of each, and what was found to be stored.
Seen(k, l) == IF ~l.here THEN Nothing
              ELSE IF k = "category" THEN l ELSE [l EXCEPT !.with = Nothing.with]
Now   == [ k \in Listed |-> Seen(k, Present(k)) ]
Kept  == [ k \in Listed |-> Seen(k, list[k]) ]
Found == { <<req[p].kind, Seen(req[p].kind, req[p].list)>> :
             p \in { q \in Procs : req[q].at \in { "listParts", "listSet" } } }

Promise == INSTANCE CacheAside
             WITH Keys <- Listed, Values <- Lists, None <- Nothing,
                  now <- Now, entry <- Kept, reads <- Found

\* A list that is kept was the list at some moment, however many rows were
\* inserted, renamed and removed while it was found and stored: the two lists
\* implement CacheAside.
OnlyWhatWasFound == Promise!Spec

=============================================================================
