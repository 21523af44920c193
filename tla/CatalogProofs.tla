---------------------------- MODULE CatalogProofs ----------------------------
(***************************************************************************)
(* Slugs stay unique and references whole, a counted removal costs nobody  *)
(* his plan, and no editor removes what another's plans protect, for any   *)
(* number of requests, rows, slugs and users.                              *)
(***************************************************************************)
EXTENDS Catalog, FiniteSetTheorems, TLAPS

Request == [ at : Places, kind : Kinds, slug : Slug0, to : Slug0,
             id : Ids \cup {0}, article : Article, replan : BOOLEAN,
             user : Users \cup {NoUser}, active : BOOLEAN, titles : Texts,
             list : Lists ]

-----------------------------------------------------------------------------
(* Keys, lists and requests.                                               *)

LEMMA IdsAreKeys ==
    /\ \A k \in Kinds : Rows(k) \subseteq Ids
    /\ Ids \subseteq Nat \ {0} /\ 1 \in Ids /\ 0 \notin Ids
    /\ \A k \in Kinds, n \in Nat : 0 < n /\ n <= MaxRows[k] => n \in Ids
<1>1. \A k \in Kinds : MaxRows[k] \in Nat \ {0}
  BY CatalogAssumption
<1>2. \A k \in Kinds : Rows(k) \subseteq Nat \ {0}
  BY <1>1 DEF Rows
<1>3. "tag" \in Kinds /\ 1 \in Rows("tag")
  BY <1>1 DEF Rows, Kinds
<1>4. \A k \in Kinds : Rows(k) \subseteq Ids
  BY DEF Ids
<1>5. Ids \subseteq Nat \ {0}
  BY <1>2 DEF Ids
<1>6. ASSUME NEW k \in Kinds, NEW n \in Nat, 0 < n, n <= MaxRows[k] PROVE n \in Ids
  BY <1>1, <1>4, <1>6 DEF Rows
<1> QED BY <1>3, <1>4, <1>5, <1>6

LEMMA IdsAreFinite == IsFiniteSet(Ids) /\ \A S \in SUBSET Ids : Cardinality(S) \in Nat
<1>1. ASSUME NEW k \in Kinds PROVE IsFiniteSet(Rows(k))
  BY CatalogAssumption, FS_Interval DEF Rows
<1>2. /\ IsFiniteSet(Rows("category")) /\ IsFiniteSet(Rows("tag"))
      /\ IsFiniteSet(Rows("plan")) /\ IsFiniteSet(Rows("article"))
  BY <1>1 DEF Kinds
<1>3. IsFiniteSet((Rows("category") \cup Rows("tag")) \cup (Rows("plan") \cup Rows("article")))
  BY <1>2, FS_Union
<1>4. Ids = (Rows("category") \cup Rows("tag")) \cup (Rows("plan") \cup Rows("article"))
  BY DEF Ids, Kinds
<1> QED BY <1>3, <1>4, FS_Subset, FS_CardinalityType

LEMMA NothingType == Nothing \in Lists /\ NoArticle \in Article /\ NoSlug \in Slug0
  BY DEF Nothing, Lists, NoArticle, Article, Slug0

LEMMA IdleType == Idle \in Request /\ Idle.at = "idle"
  BY NothingType DEF Idle, Request, Places, Kinds, Texts

(* The records handlers begin with.                                        *)
LEMMA AtType ==
    ASSUME NEW place \in Places, NEW k \in Kinds, NEW s \in Slugs
    PROVE  /\ At(place, k, s) \in Request
           /\ At(place, k, s).at = place /\ At(place, k, s).kind = k
           /\ At(place, k, s).slug = s /\ At(place, k, s).user = NoUser
           /\ ~At(place, k, s).replan
  BY IdleType DEF At, Idle, Request, Slug0

\* What is known of a request that is done, or of one that has just begun.
Plain(r) == Fits(r) /\ Wipes(r) /\ ~Removes(r) /\ r.at # "delete"

Starts(r) ==
    /\ r \in Request
    /\ r.at \notin { "idle", "invalidate", "listParts", "listSet" }
    /\ r.at = "delete" => r.kind # "plan"
    /\ Fits(r) /\ Wipes(r)
    /\ Removes(r) => Live("article", r.id) /\ r.user \in { NoUser, article[r.id].author }

Quiet == UNCHANGED <<rows, list, seen, since, missed>>

\* How a request begins: it finds a row, or it does not.
LEMMA CreateStarts ==
    ASSUME NEW p \in Procs, NEW k, NEW s, NEW r \in Request,
           Fits(r),
           r.at \notin { "idle", "invalidate", "listParts", "listSet", "taken", "delete", "wipe", "wiped" },
           Create(p, k, s, r)
    PROVE  Quiet /\ Begin(p, r) /\ Starts(r)
  BY DEF Create, Quiet, Starts, Removes, Wipes

LEMMA UpdateStarts ==
    ASSUME NEW p \in Procs, NEW k \in Kinds, NEW s \in Slugs, NEW r \in Request,
           r.at \notin { "idle", "invalidate", "listParts", "listSet" }, r.kind = k,
           r.at = "delete" => k # "plan", Fits(r),
           r.at \in { "wipe", "wiped" } \/ r.replan => k = "article",
           Removes(r) => \A i \in Row("article", s) : r.user \in { NoUser, article[i].author },
           Update(p, k, s, r)
    PROVE  Quiet /\ \E q : Begin(p, q) /\ Starts(q)
<1> USE DEF Fits
<1>1. PICK i \in Row(k, s) : Begin(p, [r EXCEPT !.id = i])
  BY DEF Update
<1>2. Quiet
  BY DEF Update, Quiet
<1> DEFINE q == [r EXCEPT !.id = i]
<1>3. i \in Ids /\ Live(k, i)
  BY <1>1, CatalogAssumption DEF Row, Live
<1>4. /\ q \in Request /\ q.at = r.at /\ q.kind = k /\ q.id = i /\ q.user = r.user
      /\ q.slug = r.slug /\ q.to = r.to /\ q.replan = r.replan
  BY <1>3 DEF Request
<1>5. Starts(q)
  BY <1>1, <1>3, <1>4 DEF Starts, Removes, Wipes
<1> QED BY <1>1, <1>2, <1>5

\* The records with which they do.
LEMMA RenamingType ==
    ASSUME NEW k \in Kinds, NEW s \in Slugs, NEW to \in Slugs
    PROVE  /\ Renaming(k, s, to) \in Request
           /\ Renaming(k, s, to).at \in { "rename", "taken" }
           /\ Renaming(k, s, to).kind = k
           /\ Renaming(k, s, to).slug = s /\ Renaming(k, s, to).to = to
           /\ ~Renaming(k, s, to).replan
<1>1. (IF to = s THEN "rename" ELSE "taken") \in Places
  BY DEF Places
<1> DEFINE r == At(IF to = s THEN "rename" ELSE "taken", k, s)
<1>2. r \in Request /\ r.kind = k /\ r.slug = s /\ r.at \in { "rename", "taken" } /\ ~r.replan
  BY <1>1, AtType
<1> HIDE DEF r
<1>3. Renaming(k, s, to) = [r EXCEPT !.to = to]
  BY DEF Renaming, r
<1> QED BY <1>2, <1>3 DEF Request, Slug0

LEMMA FieldTypes ==
    ASSUME NEW r \in Request
    PROVE  /\ \A on \in BOOLEAN : /\ [r EXCEPT !.active = on] \in Request
                                  /\ [r EXCEPT !.active = on].at = r.at
                                  /\ [r EXCEPT !.active = on].slug = r.slug
                                  /\ [r EXCEPT !.active = on].kind = r.kind
                                  /\ [r EXCEPT !.active = on].replan = r.replan
           /\ \A t \in Texts : /\ [r EXCEPT !.titles = t] \in Request
                               /\ [r EXCEPT !.titles = t].at = r.at
                               /\ [r EXCEPT !.titles = t].slug = r.slug
                               /\ [r EXCEPT !.titles = t].kind = r.kind
                               /\ [r EXCEPT !.titles = t].replan = r.replan
           /\ \A a \in Article : /\ [r EXCEPT !.article = a] \in Request
                                 /\ [r EXCEPT !.article = a].at = r.at
                                 /\ [r EXCEPT !.article = a].slug = r.slug
                                 /\ [r EXCEPT !.article = a].kind = r.kind
                                 /\ [r EXCEPT !.article = a].replan = r.replan
           /\ \A u \in Users \cup {NoUser} : /\ [r EXCEPT !.user = u] \in Request
                                             /\ [r EXCEPT !.user = u].at = r.at
                                             /\ [r EXCEPT !.user = u].slug = r.slug
                                             /\ [r EXCEPT !.user = u].kind = r.kind
                                             /\ [r EXCEPT !.user = u].user = u
                                             /\ [r EXCEPT !.user = u].replan = r.replan
  BY DEF Request

LEMMA DtoType ==
    ASSUME NEW c \in Rows("category") \cup {0}, NEW plans \in SUBSET DtoPlans,
           NEW u \in Users \cup {NoUser}
    PROVE  [ category |-> c, plans |-> plans, author |-> u ] \in Article
<1>1. "category" \in Kinds /\ "plan" \in Kinds
  BY DEF Kinds
<1> QED BY <1>1, IdsAreKeys, CatalogAssumption DEF Article

PlanRequest(s, on, t) == [Renaming("plan", s, s) EXCEPT !.active = on, !.titles = t]

LEMMA PlanUpdateType ==
    ASSUME NEW s \in Slugs, NEW on \in BOOLEAN, NEW t \in Texts
    PROVE  LET r == PlanRequest(s, on, t)
           IN  /\ r \in Request /\ r.at \in { "rename", "taken" } /\ r.kind = "plan"
               /\ r.slug = s /\ r.to = s /\ ~r.replan
<1> DEFINE b == Renaming("plan", s, s)
<1>1. /\ b \in Request /\ b.at \in { "rename", "taken" } /\ b.kind = "plan"
      /\ b.slug = s /\ b.to = s /\ ~b.replan
  BY RenamingType DEF Kinds
<1> HIDE DEF b
<1>2. /\ [b EXCEPT !.active = on, !.titles = t] \in Request
      /\ [b EXCEPT !.active = on, !.titles = t].at = b.at
      /\ [b EXCEPT !.active = on, !.titles = t].kind = b.kind
      /\ [b EXCEPT !.active = on, !.titles = t].slug = b.slug
      /\ [b EXCEPT !.active = on, !.titles = t].to = b.to
      /\ [b EXCEPT !.active = on, !.titles = t].replan = b.replan
  BY <1>1 DEF Request
<1> QED BY <1>1, <1>2 DEF b, PlanRequest

ArticleRequest(s, to, c, replan, plans) ==
    [Renaming("article", s, to) EXCEPT
       !.at = IF to = s /\ replan THEN "wipe" ELSE @,
       !.replan = replan, !.article.category = c, !.article.plans = plans]

LEMMA ArticleUpdateType ==
    ASSUME NEW s \in Slugs, NEW to \in Slugs, NEW c \in Rows("category") \cup {0},
           NEW replan \in BOOLEAN, NEW plans \in SUBSET DtoPlans
    PROVE  LET r == ArticleRequest(s, to, c, replan, plans)
           IN  /\ r \in Request /\ r.at \in { "rename", "taken", "wipe" } /\ r.kind = "article"
               /\ r.slug = s /\ r.to = to /\ (r.at = "wipe" => r.replan)
<1> DEFINE b == Renaming("article", s, to)
           at == IF to = s /\ replan THEN "wipe" ELSE b.at
           a  == [[b.article EXCEPT !.category = c] EXCEPT !.plans = plans]
<1>1. /\ b \in Request /\ b.at \in { "rename", "taken" } /\ b.kind = "article"
      /\ b.slug = s /\ b.to = to
  BY RenamingType DEF Kinds
<1>2. "category" \in Kinds /\ "plan" \in Kinds
  BY DEF Kinds
<1> HIDE DEF b
<1>3. a \in Article
  BY <1>1, <1>2, IdsAreKeys, CatalogAssumption DEF Request, Article
<1>4. at \in Places /\ at \in { "rename", "taken", "wipe" } /\ (at = "wipe" => replan)
  BY <1>1 DEF Places
<1> DEFINE r == [b EXCEPT !.at = IF to = s /\ replan THEN "wipe" ELSE @,
                          !.replan = replan, !.article.category = c, !.article.plans = plans]
<1>5. r = [b EXCEPT !.at = at, !.replan = replan, !.article = a]
  BY <1>1 DEF Request, Article
<1> HIDE DEF at, a, r
<1>6. r \in Request /\ r.at = at /\ r.kind = b.kind /\ r.slug = b.slug /\ r.to = b.to /\ r.replan = replan
  BY <1>1, <1>3, <1>4, <1>5 DEF Request
<1> QED BY <1>1, <1>4, <1>6 DEF b, r, ArticleRequest

LEMMA ArriveStarts ==
    ASSUME TypeOK, NEW p \in Procs, Arrive(p)
    PROVE  Quiet /\ \E r : Begin(p, r) /\ Starts(r)
<1> USE DEF Fits
<1> DEFINE Goal == Quiet /\ \E r : Begin(p, r) /\ Starts(r)
<1>k. /\ "category" \in Kinds /\ "tag" \in Kinds /\ "plan" \in Kinds /\ "article" \in Kinds
      /\ "insert" \in Places /\ "upsert" \in Places /\ "count" \in Places /\ "delete" \in Places
      /\ "wipe" \in Places
  BY DEF Kinds, Places
<1>1. ASSUME NEW s \in Slugs, CategoryCreate(p, s) \/ TagCreate(p, s) PROVE Goal
  <2>1. ASSUME NEW k \in Kinds
        PROVE  /\ At("insert", k, s) \in Request /\ At("insert", k, s).at = "insert"
               /\ At("insert", k, s).slug = s /\ ~At("insert", k, s).replan
    BY <1>k, AtType
  <2>2. CASE CategoryCreate(p, s)
    <3>1. Create(p, "category", s, At("insert", "category", s))
      BY <2>2 DEF CategoryCreate
    <3> QED BY <1>k, <2>1, <3>1, CreateStarts
  <2>3. CASE TagCreate(p, s)
    <3>1. Create(p, "tag", s, At("insert", "tag", s))
      BY <2>3 DEF TagCreate
    <3> QED BY <1>k, <2>1, <3>1, CreateStarts
  <2> QED BY <1>1, <2>2, <2>3
<1>2. ASSUME NEW s \in Slugs, TagCreateUnnamed(p, s) PROVE Goal
  <2>1. /\ At("insert", "tag", s) \in Request /\ At("insert", "tag", s).at = "insert"
        /\ At("insert", "tag", s).slug = s /\ ~At("insert", "tag", s).replan
    BY <1>k, AtType
  <2>2. Begin(p, At("insert", "tag", s)) /\ Quiet
    BY <1>2 DEF TagCreateUnnamed, Quiet
  <2> QED BY <2>1, <2>2 DEF Starts, Removes, Wipes
<1>3. ASSUME NEW s \in Slugs, NEW on \in BOOLEAN, PlanCreate(p, s, on) PROVE Goal
  <2> DEFINE r == [At("insert", "plan", s) EXCEPT !.active = on]
  <2>1. /\ At("insert", "plan", s) \in Request /\ At("insert", "plan", s).at = "insert"
        /\ At("insert", "plan", s).slug = s /\ ~At("insert", "plan", s).replan
    BY <1>k, AtType
  <2>2. r \in Request /\ r.at = "insert" /\ r.slug = s /\ ~r.replan
    BY <2>1, FieldTypes
  <2>3. Create(p, "plan", s, r)
    BY <1>3 DEF PlanCreate
  <2> HIDE DEF r
  <2> QED BY <2>2, <2>3, CreateStarts
<1>4. ASSUME NEW s \in Slugs, NEW u \in Users \cup {NoUser}, NEW c \in Rows("category"),
             NEW plans \in SUBSET DtoPlans, ArticleCreate(p, s, u, c, plans)
      PROVE  Goal
  <2> DEFINE a == [ category |-> c, plans |-> plans, author |-> u ]
             r == [At("insert", "article", s) EXCEPT !.article = a]
  <2>1. /\ At("insert", "article", s) \in Request /\ At("insert", "article", s).at = "insert"
        /\ At("insert", "article", s).slug = s /\ ~At("insert", "article", s).replan
    BY <1>k, AtType
  <2>2. a \in Article
    BY DtoType
  <2>3. r \in Request /\ r.at = "insert" /\ r.slug = s /\ ~r.replan
    BY <2>1, <2>2, FieldTypes
  <2>4. Create(p, "article", s, r)
    BY <1>4 DEF ArticleCreate
  <2> HIDE DEF r
  <2> QED BY <2>3, <2>4, CreateStarts
<1>5. ASSUME NEW s \in Slugs, NEW to \in Slugs, CategoryUpdate(p, s, to) \/ TagUpdate(p, s, to)
      PROVE  Goal
  <2>1. ASSUME NEW k \in Kinds, Update(p, k, s, Renaming(k, s, to)) PROVE Goal
    BY <2>1, RenamingType, UpdateStarts DEF Removes
  <2> QED BY <1>5, <1>k, <2>1 DEF CategoryUpdate, TagUpdate
<1>6. ASSUME NEW s \in Slugs, NEW on \in BOOLEAN, NEW t \in Texts, PlanUpdate(p, s, on, t)
      PROVE  Goal
  <2> DEFINE r == PlanRequest(s, on, t)
  <2>1. /\ r \in Request /\ r.at \in { "rename", "taken" } /\ r.kind = "plan"
        /\ r.slug = s /\ r.to = s /\ ~r.replan
    BY PlanUpdateType
  <2>2. Update(p, "plan", s, r)
    BY <1>6 DEF PlanUpdate, PlanRequest
  <2> HIDE DEF r
  <2> QED BY <1>k, <2>1, <2>2, UpdateStarts DEF Removes
<1>7. ASSUME NEW s \in Slugs, NEW t \in Texts, PlanUpsertFieldVisibility(p, s, t) PROVE Goal
  <2> DEFINE r == [At("upsert", "plan", s) EXCEPT !.titles = t]
  <2>1. /\ At("upsert", "plan", s) \in Request /\ At("upsert", "plan", s).at = "upsert"
        /\ At("upsert", "plan", s).kind = "plan" /\ ~At("upsert", "plan", s).replan
    BY <1>k, AtType
  <2>2. r \in Request /\ r.at = "upsert" /\ r.kind = "plan" /\ ~r.replan
    BY <2>1, FieldTypes
  <2>3. Update(p, "plan", s, r)
    BY <1>7 DEF PlanUpsertFieldVisibility
  <2> HIDE DEF r
  <2> QED BY <1>k, <2>2, <2>3, UpdateStarts DEF Removes
<1>8. ASSUME NEW s \in Slugs, NEW to \in Slugs, NEW c \in Rows("category") \cup {0},
             NEW replan \in BOOLEAN, NEW plans \in SUBSET DtoPlans,
             ArticleUpdate(p, s, to, c, replan, plans)
      PROVE  Goal
  <2> DEFINE r == ArticleRequest(s, to, c, replan, plans)
  <2>1. /\ r \in Request /\ r.at \in { "rename", "taken", "wipe" } /\ r.kind = "article"
        /\ r.slug = s /\ r.to = to /\ (r.at = "wipe" => r.replan)
    BY ArticleUpdateType
  <2>2. Update(p, "article", s, r)
    BY <1>8 DEF ArticleUpdate, ArticleRequest
  <2> HIDE DEF r
  <2> QED BY <1>k, <2>1, <2>2, UpdateStarts DEF Removes
<1>9. ASSUME NEW s \in Slugs, CategoryRemove(p, s) \/ PlanRemove(p, s) \/ TagRemove(p, s)
      PROVE  Goal
  <2>1. ASSUME NEW k \in Kinds, k # "article", Update(p, k, s, At("count", k, s)) PROVE Goal
    <3>1. /\ At("count", k, s) \in Request /\ At("count", k, s).at = "count"
          /\ At("count", k, s).kind = k /\ At("count", k, s).slug = s
          /\ ~At("count", k, s).replan
      BY <1>k, AtType
    <3> QED BY <2>1, <3>1, UpdateStarts DEF Removes
  <2>2. ASSUME Update(p, "tag", s, At("delete", "tag", s)) PROVE Goal
    <3>1. /\ At("delete", "tag", s) \in Request /\ At("delete", "tag", s).at = "delete"
          /\ At("delete", "tag", s).kind = "tag" /\ At("delete", "tag", s).slug = s
          /\ ~At("delete", "tag", s).replan
      BY <1>k, AtType
    <3> QED BY <1>k, <2>2, <3>1, UpdateStarts DEF Removes
  <2> QED BY <1>9, <1>k, <2>1, <2>2 DEF CategoryRemove, PlanRemove, TagRemove
<1>10. ASSUME NEW s \in Slugs, NEW u \in Users \cup {NoUser}, ArticleRemove(p, s, u) PROVE Goal
  <2> DEFINE r == [At("wipe", "article", s) EXCEPT !.user = u]
  <2>1. /\ At("wipe", "article", s) \in Request /\ At("wipe", "article", s).at = "wipe"
        /\ At("wipe", "article", s).kind = "article" /\ At("wipe", "article", s).slug = s
        /\ ~At("wipe", "article", s).replan
    BY <1>k, AtType
  <2>2. /\ r \in Request /\ r.at = "wipe" /\ r.kind = "article" /\ r.user = u /\ r.slug = s
        /\ ~r.replan
    BY <2>1, FieldTypes
  <2>3. Update(p, "article", s, r)
    BY <1>10 DEF ArticleRemove
  <2>4. \A i \in Row("article", s) : u \in { NoUser, article[i].author }
    BY <1>10 DEF ArticleRemove
  <2> HIDE DEF r
  <2> QED BY <1>k, <2>2, <2>3, <2>4, UpdateStarts
<1>11. ASSUME NEW u \in Users, NEW i \in Rows("plan"), AssignPlan(p, u, i) PROVE Goal
  <2> DEFINE r == [Idle EXCEPT !.at = "assign", !.kind = "plan", !.id = i, !.user = u]
  <2>1. r \in Request /\ r.at = "assign" /\ r.user \in Users /\ ~r.replan
    BY <1>k, IdleType, IdsAreKeys DEF Request, Places, Idle
  <2>2. Begin(p, r) /\ Quiet
    BY <1>11 DEF AssignPlan, Quiet
  <2> QED BY <2>1, <2>2 DEF Starts, Removes, Wipes
<1>12. ASSUME CategoryFindAll(p) \/ PlanFindAll(p) PROVE Goal
  <2>1. ASSUME NEW k \in Listed
        PROVE  /\ [Idle EXCEPT !.at = "listFind", !.kind = k] \in Request
               /\ [Idle EXCEPT !.at = "listFind", !.kind = k].at = "listFind"
               /\ [Idle EXCEPT !.at = "listFind", !.kind = k].kind \in Listed
               /\ ~[Idle EXCEPT !.at = "listFind", !.kind = k].replan
    BY IdleType DEF Request, Places, Listed, Kinds, Idle
  <2>2. Quiet /\ \E k \in Listed : Begin(p, [Idle EXCEPT !.at = "listFind", !.kind = k])
    BY <1>12 DEF CategoryFindAll, PlanFindAll, Quiet, Listed
  <2> QED BY <2>1, <2>2 DEF Starts, Removes, Wipes
<1>13. ASSUME NEW s \in Slugs,
              \/ \E u \in Users \cup {NoUser}, c \in Rows("category"), plans \in SUBSET DtoPlans :
                   ArticleCreate(p, s, u, c, plans)
              \/ \E to \in Slugs, c \in Rows("category") \cup {0} :
                   \/ ArticleUpdate(p, s, to, c, FALSE, {})
                   \/ \E plans \in SUBSET DtoPlans : ArticleUpdate(p, s, to, c, TRUE, plans)
              \/ \E u \in Users \cup {NoUser} : ArticleRemove(p, s, u)
       PROVE  Goal
  <2>1. {} \in SUBSET DtoPlans /\ FALSE \in BOOLEAN /\ TRUE \in BOOLEAN
    OBVIOUS
  <2>2. CASE \E u \in Users \cup {NoUser}, c \in Rows("category"), plans \in SUBSET DtoPlans :
               ArticleCreate(p, s, u, c, plans)
    BY <1>4, <2>2
  <2>3. CASE \E to \in Slugs, c \in Rows("category") \cup {0} : ArticleUpdate(p, s, to, c, FALSE, {})
    BY <1>8, <2>1, <2>3
  <2>4. CASE \E to \in Slugs, c \in Rows("category") \cup {0}, plans \in SUBSET DtoPlans :
               ArticleUpdate(p, s, to, c, TRUE, plans)
    BY <1>8, <2>1, <2>4
  <2>5. CASE \E u \in Users \cup {NoUser} : ArticleRemove(p, s, u)
    BY <1>10, <2>5
  <2> QED BY <1>13, <2>2, <2>3, <2>4, <2>5
<1>14. ASSUME NEW s \in Slugs,
              \/ CategoryCreate(p, s) \/ TagCreate(p, s) \/ TagCreateUnnamed(p, s)
              \/ \E on \in BOOLEAN : PlanCreate(p, s, on)
              \/ \E t \in Texts, on \in BOOLEAN : PlanUpdate(p, s, on, t)
              \/ \E t \in Texts \ {0} : PlanUpsertFieldVisibility(p, s, t)
              \/ CategoryRemove(p, s) \/ PlanRemove(p, s) \/ TagRemove(p, s)
              \/ \E to \in Slugs : CategoryUpdate(p, s, to) \/ TagUpdate(p, s, to)
       PROVE  Goal
  BY <1>14, <1>1, <1>2, <1>3, <1>5, <1>6, <1>7, <1>9
<1> HIDE DEF Goal
<1> QED
  <2>1. \/ \E s \in Slugs :
            \/ CategoryCreate(p, s) \/ TagCreate(p, s) \/ TagCreateUnnamed(p, s)
            \/ \E on \in BOOLEAN : PlanCreate(p, s, on)
            \/ \E t \in Texts, on \in BOOLEAN : PlanUpdate(p, s, on, t)
            \/ \E t \in Texts \ {0} : PlanUpsertFieldVisibility(p, s, t)
            \/ CategoryRemove(p, s) \/ PlanRemove(p, s) \/ TagRemove(p, s)
            \/ \E to \in Slugs : CategoryUpdate(p, s, to) \/ TagUpdate(p, s, to)
        \/ \E s \in Slugs :
            \/ \E u \in Users \cup {NoUser}, c \in Rows("category"), plans \in SUBSET DtoPlans :
                 ArticleCreate(p, s, u, c, plans)
            \/ \E to \in Slugs, c \in Rows("category") \cup {0} :
                 \/ ArticleUpdate(p, s, to, c, FALSE, {})
                 \/ \E plans \in SUBSET DtoPlans : ArticleUpdate(p, s, to, c, TRUE, plans)
            \/ \E u \in Users \cup {NoUser} : ArticleRemove(p, s, u)
        \/ \E u \in Users, i \in Rows("plan") : AssignPlan(p, u, i)
        \/ CategoryFindAll(p) \/ PlanFindAll(p)
    BY DEF Arrive
  <2> QED BY <1>11, <1>12, <1>13, <1>14, <2>1 DEF Goal

-----------------------------------------------------------------------------
(* How a step moves its request.                                           *)

Others(p) == req' \in [ Procs -> Request ] /\ \A q \in Procs \ {p} : req'[q] = req[q]

LEMMA BeginMoves ==
    ASSUME TypeOK, NEW p \in Procs, NEW r \in Request, Begin(p, r)
    PROVE  Others(p) /\ req[p].at = "idle" /\ req'[p] = r /\ asked' \in 0 .. MaxRequests
  BY CatalogAssumption DEF TypeOK, Begin, Request, Others

Reads(r, to, l) == [r EXCEPT !.at = to, !.list = l]

LEMMA StepTypes ==
    ASSUME NEW r \in Request, NEW to \in Places, NEW l \in Lists
    PROVE  /\ [r EXCEPT !.at = to] \in Request
           /\ [r EXCEPT !.at = to].at = to /\ [r EXCEPT !.at = to].kind = r.kind
           /\ [r EXCEPT !.at = to].id = r.id /\ [r EXCEPT !.at = to].user = r.user
           /\ [r EXCEPT !.at = to].slug = r.slug /\ [r EXCEPT !.at = to].to = r.to
           /\ [r EXCEPT !.at = to].replan = r.replan
           /\ Reads(r, to, l) \in Request
           /\ Reads(r, to, l).at = to /\ Reads(r, to, l).kind = r.kind
           /\ Reads(r, to, l).replan = r.replan /\ Reads(r, to, l).to = r.to
  BY DEF Request, Reads

LEMMA GotoMoves ==
    ASSUME TypeOK, NEW p \in Procs, NEW to \in Places, Goto(p, to)
    PROVE  /\ Others(p) /\ req'[p].at = to /\ req'[p].kind = req[p].kind
           /\ req'[p].id = req[p].id /\ req'[p].user = req[p].user
           /\ req'[p].slug = req[p].slug /\ req'[p].to = req[p].to
           /\ req'[p].replan = req[p].replan
<1>1. req[p] \in Request /\ req' = [req EXCEPT ![p] = [req[p] EXCEPT !.at = to]]
  BY DEF TypeOK, Goto, Request
<1> DEFINE next == [req[p] EXCEPT !.at = to]
<1>2. /\ next \in Request /\ next.at = to /\ next.kind = req[p].kind
      /\ next.id = req[p].id /\ next.user = req[p].user
      /\ next.slug = req[p].slug /\ next.to = req[p].to /\ next.replan = req[p].replan
  BY <1>1, NothingType, StepTypes
<1> HIDE DEF next
<1>3. Others(p) /\ req'[p] = next
  BY <1>1, <1>2 DEF next, TypeOK, Request, Others
<1> QED BY <1>2, <1>3

LEMMA AnswerMoves ==
    ASSUME TypeOK, NEW p \in Procs, Answer(p)
    PROVE  Others(p) /\ req'[p] = Idle /\ req'[p].at = "idle" /\ Plain(req'[p])
<1>1. ~Idle.replan
  BY DEF Idle
<1>2. Plain(Idle)
  BY <1>1, IdleType DEF Plain, Fits, Wipes, Removes
<1> QED BY <1>2, IdleType DEF TypeOK, Answer, Request, Others

LEMMA WrittenMoves ==
    ASSUME TypeOK, NEW p \in Procs, Written(p)
    PROVE  /\ Others(p) /\ req'[p].at \in { "idle", "invalidate" }
           /\ req[p].kind \in Listed => req'[p].at = "invalidate" /\ req'[p].kind = req[p].kind
<1> DEFINE next == IF req[p].kind \in Listed
                     THEN [Idle EXCEPT !.at = "invalidate", !.kind = req[p].kind] ELSE Idle
<1>1. req[p].kind \in Kinds
  BY DEF TypeOK
<1>2. /\ next \in Request /\ next.at \in { "idle", "invalidate" }
      /\ req[p].kind \in Listed => next.at = "invalidate" /\ next.kind = req[p].kind
  BY <1>1, IdleType DEF Request, Places
<1>3. req' = [req EXCEPT ![p] = next]
  BY DEF Written
<1> HIDE DEF next
<1> QED BY <1>2, <1>3 DEF TypeOK, Request, Others

LEMMA ListsType ==
    ASSUME TypeOK
    PROVE  /\ CategoryRows \in Lists /\ PlanRows \in Lists
           /\ \A l \in Lists : WithTitles(l) \in Lists
<1>1. \A i \in Ids : Cardinality({ a \in Articles : article[a].category = i }) \in Nat
  BY IdsAreFinite DEF Articles
<1>2. CategoryRows \in Lists
  BY <1>1 DEF TypeOK, CategoryRows, Lists, Kinds
<1>3. PlanRows \in Lists
  BY DEF TypeOK, PlanRows, Lists, Kinds, Slug0
<1>4. ASSUME NEW l \in Lists PROVE WithTitles(l) \in Lists
  <2> DEFINE w == [ i \in Ids |-> IF l.rows[i] = NoSlug THEN 0 ELSE titles[i] ]
  <2>1. w \in [ Ids -> Nat ]
    BY DEF TypeOK, Texts
  <2>2. WithTitles(l) = [l EXCEPT !.with = w]
    BY DEF WithTitles
  <2> HIDE DEF w
  <2> QED BY <2>1, <2>2 DEF Lists
<1> QED BY <1>2, <1>3, <1>4

-----------------------------------------------------------------------------
(* Steps that write no row.                                                *)

LEMMA ReadsKeepInv ==
    ASSUME CatalogInv, TypeOK', UNCHANGED rows, NEW p \in Procs, Others(p),
           \A q \in Procs \ {p} : since'[q] = since[q],
           Fits(req'[p]), Wipes(req'[p]),
           req'[p].at = "delete" /\ req'[p].kind = "plan" =>
             \A u \in Users : assigned[u] # req'[p].id,
           Removes(req'[p]) =>
             \/ Live("article", req'[p].id) /\ req'[p].user \in { NoUser, article[req'[p].id].author }
             \/ Removes(req[p]) /\ req'[p].id = req[p].id /\ req'[p].user = req[p].user
    PROVE  CatalogInv'
<1> USE DEF rows, Others
<1>1. SlugsAreUnique' /\ KeysAreSpent'
  BY DEF CatalogInv, SlugsAreUnique, KeysAreSpent, Live
<1>2. ReferencesHold'
  BY DEF CatalogInv, ReferencesHold, Articles, Refers, Live
<1>3. CountedAreSpared'
  BY DEF CatalogInv, CountedAreSpared
<1>4. AllowedIsOwn'
  <2> SUFFICES ASSUME NEW q \in Procs
               PROVE  Removes(req'[q]) =>
                           /\ req'[q].id \in Ids /\ req'[q].id <= used["article"]
                           /\ Live("article", req'[q].id) =>
                                req'[q].user \in { NoUser, article[req'[q].id].author }
    BY DEF AllowedIsOwn, Live, Removes
  <2>1. CASE q = p
    BY <2>1 DEF CatalogInv, AllowedIsOwn, KeysAreSpent, Live, Kinds
  <2>2. CASE q # p
    BY <2>2 DEF CatalogInv, AllowedIsOwn
  <2> QED BY <2>1, <2>2
<1>5. RequestsFit'
  BY DEF CatalogInv, RequestsFit, Fits, Wipes
<1> QED BY <1>1, <1>2, <1>3, <1>4, <1>5 DEF CatalogInv

LEMMA PlainKeepsInv ==
    ASSUME CatalogInv, TypeOK', UNCHANGED rows, NEW p \in Procs, Others(p),
           \A q \in Procs \ {p} : since'[q] = since[q], Plain(req'[p])
    PROVE  CatalogInv'
  BY ReadsKeepInv DEF Plain

LEMMA ArriveKeeps ==
    ASSUME CatalogInv, NEW p \in Procs, Arrive(p)
    PROVE  CatalogInv'
<1>1. TypeOK /\ Quiet
  BY ArriveStarts DEF CatalogInv
<1>2. PICK r : Begin(p, r) /\ Starts(r)
  BY ArriveStarts DEF CatalogInv
<1>3. Others(p) /\ req'[p] = r /\ asked' \in 0 .. MaxRequests
  BY <1>1, <1>2, BeginMoves DEF Starts
<1>4. TypeOK'
  BY <1>1, <1>3 DEF TypeOK, Quiet, rows, Others, Request
<1> QED BY <1>1, <1>2, <1>3, <1>4, ReadsKeepInv DEF Quiet, Starts

LEMMA TakenKeeps ==
    ASSUME CatalogInv, NEW p \in Procs, Taken(p) PROVE CatalogInv'
<1>1. TypeOK /\ UNCHANGED <<asked, rows, list, seen, since, missed>>
  BY DEF Taken, CatalogInv
<1>2. Answer(p) \/ (Goto(p, "wipe") /\ req[p].replan) \/ Goto(p, "rename")
  BY DEF Taken
<1>s. /\ req[p].slug \in Slugs /\ req[p].to \in Slugs
      /\ req[p].replan => req[p].kind = "article" /\ req[p].id \in Ids
  BY DEF Taken, CatalogInv, RequestsFit, Fits, Wipes
<1>3. Others(p) /\ Plain(req'[p])
  <2>1. CASE Answer(p)
    BY <1>1, <2>1, AnswerMoves
  <2>2. CASE Goto(p, "wipe") /\ req[p].replan
    <3>1. /\ Others(p) /\ req'[p].at = "wipe" /\ req'[p].kind = req[p].kind /\ req'[p].id = req[p].id
          /\ req'[p].slug = req[p].slug /\ req'[p].to = req[p].to /\ req'[p].replan = req[p].replan
      BY <1>1, <2>2, GotoMoves DEF Places
    <3>2. Wipes(req'[p])
      BY <1>s, <2>2, <3>1 DEF Wipes
    <3> QED BY <1>s, <2>2, <3>1, <3>2 DEF Fits, Removes, Plain
  <2>3. CASE Goto(p, "rename")
    BY <1>1, <1>s, <2>3, GotoMoves DEF Places, Fits, Removes, Wipes, Plain
  <2> QED BY <1>2, <2>1, <2>2, <2>3
<1>4. TypeOK'
  BY <1>1, <1>3 DEF TypeOK, rows, Others, Request
<1> QED BY <1>1, <1>3, <1>4, PlainKeepsInv

\* The transaction of an update that comes with plans, or of a removal.
LEMMA WipeKeeps ==
    ASSUME CatalogInv, NEW p \in Procs, Wipe(p) \/ Wiped(p) PROVE CatalogInv'
<1>1. /\ TypeOK /\ UNCHANGED <<asked, rows, list, since, missed>>
      /\ req[p] \in Request /\ Fits(req[p]) /\ req[p].at \in { "wipe", "wiped" }
      /\ req[p].kind = "article" /\ req[p].id \in Ids
  BY DEF Wipe, Wiped, CatalogInv, TypeOK, RequestsFit, Wipes, Request
<1>2. PICK to \in { "wiped", "rename", "delete" } :
        /\ Goto(p, to)
        /\ to = "rename" => req[p].replan
        /\ to = "delete" => ~req[p].replan
  BY DEF Wipe, Wiped
<1>3. /\ Others(p) /\ req'[p].at = to /\ req'[p].kind = req[p].kind
      /\ req'[p].id = req[p].id /\ req'[p].user = req[p].user
      /\ req'[p].slug = req[p].slug /\ req'[p].to = req[p].to
      /\ req'[p].replan = req[p].replan
  BY <1>1, <1>2, GotoMoves DEF Places
<1>4. Fits(req'[p]) /\ Wipes(req'[p])
  BY <1>1, <1>2, <1>3 DEF Fits, Wipes
<1>6. Removes(req'[p]) => Removes(req[p])
  BY <1>1, <1>2, <1>3 DEF Removes
<1>7. seen' \in [ Procs -> SUBSET Ids ]
  <2>1. CASE Wipe(p)
    <3>1. article[req[p].id].plans \in SUBSET Ids
      BY <1>1 DEF TypeOK, Article
    <3> QED BY <1>1, <2>1, <3>1 DEF Wipe, TypeOK
  <2>2. CASE Wiped(p)
    BY <1>1, <2>2 DEF Wiped, TypeOK
  <2> QED BY <2>1, <2>2
<1>8. TypeOK'
  BY <1>1, <1>3, <1>7 DEF TypeOK, rows, Others, Request
<1> QED BY <1>1, <1>3, <1>4, <1>6, <1>8, ReadsKeepInv

\* Nobody has the plan when its removal goes on.
LEMMA CountKeeps ==
    ASSUME CatalogInv, NEW p \in Procs, Count(p) PROVE CatalogInv'
<1>1. /\ TypeOK /\ UNCHANGED <<asked, rows, seen, list, missed>>
      /\ since' = [since EXCEPT ![p] = {}]
  BY DEF Count, CatalogInv
<1>2. /\ req[p].at = "count" /\ req[p].kind # "article" /\ req[p].slug \in Slugs
      /\ (req[p].replan => req[p].to \in Slugs)
  BY DEF Count, CatalogInv, RequestsFit, Fits
<1>3. CASE Answer(p)
  <2>1. Others(p) /\ Plain(req'[p])
    BY <1>1, <1>3, AnswerMoves
  <2>2. TypeOK'
    BY <1>1, <2>1 DEF TypeOK, rows, Others, Request
  <2> QED BY <1>1, <2>1, <2>2, PlainKeepsInv DEF TypeOK
<1>4. CASE Goto(p, "delete") /\ ~References(req[p].kind, req[p].id)
  <2>1. /\ Others(p) /\ req'[p].at = "delete" /\ req'[p].kind = req[p].kind
        /\ req'[p].id = req[p].id /\ req'[p].slug = req[p].slug
        /\ req'[p].replan = req[p].replan /\ req'[p].to = req[p].to
    BY <1>1, <1>4, GotoMoves DEF Places
  <2>2. TypeOK'
    BY <1>1, <2>1 DEF TypeOK, rows, Others, Request
  <2>3. req[p].kind = "plan" => \A u \in Users : assigned[u] # req[p].id
    BY <1>4 DEF References
  <2>4. \A q \in Procs \ {p} : since'[q] = since[q]
    BY <1>1 DEF TypeOK
  <2>5. Fits(req'[p]) /\ Wipes(req'[p]) /\ ~Removes(req'[p])
    BY <1>2, <2>1 DEF Fits, Wipes, Removes
  <2> QED BY <1>1, <1>2, <2>1, <2>2, <2>3, <2>4, <2>5, ReadsKeepInv
<1> QED BY <1>3, <1>4 DEF Count

LEMMA InvalidateKeeps ==
    ASSUME CatalogInv, NEW p \in Procs, Invalidate(p) PROVE CatalogInv'
<1>1. /\ TypeOK /\ UNCHANGED <<asked, rows, seen, since>> /\ Answer(p)
      /\ list' = [list EXCEPT ![req[p].kind] = Nothing] /\ missed' \subseteq missed
  BY DEF Invalidate, CatalogInv
<1>2. Others(p) /\ Plain(req'[p])
  BY <1>1, AnswerMoves
<1>3. TypeOK'
  BY <1>1, <1>2, NothingType DEF TypeOK, rows, Others, Request
<1> QED BY <1>1, <1>2, <1>3, PlainKeepsInv

LEMMA ListKeeps ==
    ASSUME CatalogInv, NEW p \in Procs, ListFind(p) \/ ListParts(p) PROVE CatalogInv'
<1>1. /\ TypeOK /\ UNCHANGED <<asked, rows, list, seen, since, missed>> /\ req[p].list \in Lists
      /\ req[p] \in Request /\ req[p].kind \in Listed
      /\ (req[p].replan => req[p].to \in Slugs)
  BY DEF ListFind, ListParts, CatalogInv, TypeOK, RequestsFit, Fits, Request
<1>2. ASSUME NEW to \in Places, to \in { "listParts", "listSet" }, NEW l \in Lists,
             req' = [req EXCEPT ![p] = [req[p] EXCEPT !.at = to, !.list = l]]
      PROVE  CatalogInv'
  <2> DEFINE next == Reads(req[p], to, l)
  <2>r. req[p] \in Request
    BY <1>1
  <2>1. next \in Request /\ next.at = to /\ next.kind = req[p].kind
    BY <2>r, StepTypes
  <2>6. next.to = req[p].to
    BY <2>r, StepTypes
  <2>7. next.replan = req[p].replan
    BY <2>r DEF Reads, Request
  <2> HIDE DEF next
  <2>2. Others(p) /\ req'[p] = next
    BY <1>1, <1>2, <2>1 DEF next, Reads, TypeOK, Request, Others
  <2>3. TypeOK'
    BY <1>1, <2>2 DEF TypeOK, rows, Others, Request
  <2>4. Plain(req'[p])
    BY <1>1, <1>2, <2>1, <2>2, <2>6, <2>7 DEF Fits, Plain, Wipes, Removes
  <2> QED BY <1>1, <2>2, <2>3, <2>4, PlainKeepsInv
<1>3. "listParts" \in Places /\ "listSet" \in Places
  BY DEF Places
<1>4. CASE ListFind(p) /\ req[p].kind = "plan"
  <2>1. PlanRows \in Lists
    BY <1>1, ListsType
  <2>2. req' = [req EXCEPT ![p] = [req[p] EXCEPT !.at = "listParts", !.list = PlanRows]]
    BY <1>1, <1>4 DEF ListFind, TypeOK, Request
  <2> QED BY <1>2, <1>3, <2>1, <2>2
<1>5. CASE ListFind(p) /\ req[p].kind # "plan"
  <2>1. CategoryRows \in Lists
    BY <1>1, ListsType
  <2>2. req' = [req EXCEPT ![p] = [req[p] EXCEPT !.at = "listSet", !.list = CategoryRows]]
    BY <1>1, <1>5 DEF ListFind, TypeOK, Request
  <2> QED BY <1>2, <1>3, <2>1, <2>2
<1>6. CASE ListParts(p)
  <2>1. WithTitles(req[p].list) \in Lists
    BY <1>1, ListsType
  <2>2. req' = [req EXCEPT ![p] = [req[p] EXCEPT !.at = "listSet", !.list = WithTitles(req[p].list)]]
    BY <1>1, <1>6 DEF ListParts, TypeOK, Request
  <2> QED BY <1>2, <1>3, <2>1, <2>2
<1> QED BY <1>4, <1>5, <1>6

\* A list is stored, or deleted, or not.
LEMMA ListSetKeeps ==
    ASSUME CatalogInv, NEW p \in Procs, ListSet(p) PROVE CatalogInv'
<1>1. /\ TypeOK /\ UNCHANGED <<asked, rows, seen, since>> /\ Answer(p)
      /\ list' = [list EXCEPT ![req[p].kind] = req[p].list]
      /\ missed' \subseteq missed \cup {req[p].kind} /\ req[p].kind \in Listed
  BY DEF ListSet, CatalogInv, RequestsFit, Fits
<1>2. Others(p) /\ Plain(req'[p])
  BY <1>1, AnswerMoves
<1>3. TypeOK'
  BY <1>1, <1>2 DEF TypeOK, rows, Others, Request
<1> QED BY <1>1, <1>2, <1>3, PlainKeepsInv

LEMMA FailKeeps ==
    ASSUME CatalogInv, NEW p \in Procs, Fail(p) PROVE CatalogInv'
<1>1. /\ TypeOK /\ UNCHANGED <<asked, rows, list, since>> /\ Answer(p)
      /\ missed' \subseteq Listed /\ seen' \in [ Procs -> SUBSET Ids ]
  BY DEF Fail, CatalogInv, RequestsFit, Fits, TypeOK
<1>2. Others(p) /\ Plain(req'[p])
  BY <1>1, AnswerMoves
<1>3. TypeOK'
  BY <1>1, <1>2 DEF TypeOK, rows, Others, Request
<1> QED BY <1>1, <1>2, <1>3, PlainKeepsInv

LEMMA ExpireKeeps ==
    ASSUME CatalogInv, NEW k \in Listed, Expire(k) PROVE CatalogInv'
<1>1. /\ TypeOK /\ UNCHANGED <<asked, rows, req, seen, since>>
      /\ list' = [list EXCEPT ![k] = Nothing] /\ missed' \subseteq missed
  BY DEF Expire, CatalogInv
<1>2. TypeOK'
  BY <1>1, NothingType DEF TypeOK, rows
<1> QED
  BY <1>1, <1>2
     DEF rows, CatalogInv, SlugsAreUnique, KeysAreSpent, ReferencesHold, Articles, Refers, Live,
         CountedAreSpared, AllowedIsOwn, RequestsFit, Fits, Wipes, Removes

LEMMA DeleteUserKeeps ==
    ASSUME CatalogInv, NEW u \in Users, DeleteUser(u) PROVE CatalogInv'
<1>1. /\ TypeOK /\ UNCHANGED <<slug, used, article, active, titles, list, req, seen, since, missed>>
      /\ assigned' = [assigned EXCEPT ![u] = 0] /\ gone' = gone \cup {u}
      /\ asked' \in 0 .. MaxRequests
  BY CatalogAssumption DEF DeleteUser, CatalogInv, TypeOK
<1>2. \A v \in Users : assigned'[v] \in { 0, assigned[v] }
  BY <1>1 DEF TypeOK
<1>3. TypeOK'
  BY <1>1 DEF TypeOK
<1>4. SlugsAreUnique' /\ KeysAreSpent' /\ AllowedIsOwn' /\ RequestsFit'
  BY <1>1 DEF CatalogInv, SlugsAreUnique, KeysAreSpent, Live, AllowedIsOwn, Removes,
              RequestsFit, Fits, Wipes
<1>5. ReferencesHold' /\ CountedAreSpared'
  BY <1>1, <1>2 DEF CatalogInv, ReferencesHold, Articles, Refers, Live, CountedAreSpared
<1> QED BY <1>3, <1>4, <1>5 DEF CatalogInv

-----------------------------------------------------------------------------
(* Steps that write rows.                                                  *)

\* The same of the rows s, for the rows after a step.
LiveIn(s, k, i) == i \in Ids /\ s[k][i] # NoSlug
RefersIn(s, a)  == LiveIn(s, "category", a.category) /\ \A i \in a.plans : LiveIn(s, "plan", i)

LEMMA UsedIsNat ==
    ASSUME NEW f \in [ Kinds -> Ids \cup {0} ]
    PROVE  \A c \in Kinds : f[c] \in Nat
<1>1. \A i \in Ids : i \in Nat
  BY IdsAreKeys
<1>2. ASSUME NEW c \in Kinds PROVE f[c] \in Ids \cup {0}
  OBVIOUS
<1> QED BY <1>1, <1>2

LEMMA LiveMoves ==
    ASSUME TypeOK, NEW k \in Kinds, NEW i \in Ids, NEW s \in Slug0,
           slug' = [slug EXCEPT ![k][i] = s]
    PROVE  \A c \in Kinds : \A j : LiveIn(slug', c, j) <=>
                IF c = k /\ j = i THEN s # NoSlug ELSE LiveIn(slug, c, j)
  BY DEF TypeOK, LiveIn

\* One row gets a slug: a new one that is free, the one it has, or none.
LEMMA SlugMoves ==
    ASSUME CatalogInv, TypeOK', NEW k \in Kinds, NEW i \in Ids, NEW s \in Slug0,
           slug' = [slug EXCEPT ![k][i] = s],
           s = NoSlug \/ s = slug[k][i] \/ Free(k, s),
           i <= used'[k], \A c \in Kinds : used[c] <= used'[c]
    PROVE  SlugsAreUnique' /\ KeysAreSpent'
<1>1. \A c \in Kinds, j \in Ids : slug'[c][j] = IF c = k /\ j = i THEN s ELSE slug[c][j]
  BY DEF CatalogInv, TypeOK
<1>2. SlugsAreUnique'
  BY <1>1 DEF CatalogInv, SlugsAreUnique, Live, Free, Row
<1>3. \A c \in Kinds : used[c] \in Nat /\ used'[c] \in Nat
  BY UsedIsNat DEF CatalogInv, TypeOK
<1>4. \A j \in Ids : j \in Nat
  BY IdsAreKeys
<1>5. ASSUME NEW c \in Kinds, NEW j \in Ids, slug'[c][j] # NoSlug PROVE j <= used'[c]
  <2>1. CASE c = k /\ j = i
    BY <2>1
  <2>2. CASE ~(c = k /\ j = i)
    <3>1. j <= used[c]
      BY <1>1, <1>5, <2>2 DEF CatalogInv, KeysAreSpent, Live
    <3> QED BY <1>3, <1>4, <3>1
  <2> QED BY <2>1, <2>2
<1> QED BY <1>2, <1>5 DEF KeysAreSpent, Live

LEMMA ReferencesMove ==
    ASSUME \A a \in Ids : LiveIn(slug', "article", a) => RefersIn(slug', article'[a]),
           \A u \in Users : assigned'[u] # 0 => LiveIn(slug', "plan", assigned'[u])
    PROVE  ReferencesHold'
  BY DEF ReferencesHold, Articles, Refers, RefersIn, Live, LiveIn

LEMMA ReferencesHeld ==
    ASSUME CatalogInv
    PROVE  /\ \A a \in Ids : LiveIn(slug, "article", a) => RefersIn(slug, article[a])
           /\ \A u \in Users : assigned[u] # 0 => LiveIn(slug, "plan", assigned[u])
  BY DEF CatalogInv, ReferencesHold, Articles, Refers, RefersIn, Live, LiveIn

LEMMA WritesKeepInv ==
    ASSUME CatalogInv, TypeOK', NEW p \in Procs, Others(p), Plain(req'[p]),
           SlugsAreUnique', ReferencesHold', KeysAreSpent', since' = since,
           \A u \in Users : assigned'[u] \in { 0, assigned[u] },
           used["article"] <= used'["article"],
           \A i \in Ids : i <= used["article"] /\ LiveIn(slug', "article", i) =>
               LiveIn(slug, "article", i) /\ article'[i].author = article[i].author
    PROVE  CatalogInv'
<1>1. CountedAreSpared'
  BY DEF CatalogInv, CountedAreSpared, Others, Plain
<1>2. ASSUME NEW q \in Procs, Removes(req'[q])
      PROVE  /\ req'[q].id \in Ids /\ req'[q].id <= used'["article"]
             /\ LiveIn(slug', "article", req'[q].id) =>
                  req'[q].user \in { NoUser, article'[req'[q].id].author }
  <2>1. "article" \in Kinds
    BY DEF Kinds
  <2>2. used["article"] \in Nat /\ used'["article"] \in Nat
    BY <2>1, UsedIsNat DEF CatalogInv, TypeOK
  <2>3. req'[q] = req[q]
    BY <1>2 DEF Others, Plain
  <2> DEFINE i == req[q].id
  <2>4. /\ i \in Ids /\ i <= used["article"]
        /\ LiveIn(slug, "article", i) => req[q].user \in { NoUser, article[i].author }
    BY <1>2, <2>3 DEF CatalogInv, AllowedIsOwn, Live, LiveIn
  <2> HIDE DEF i
  <2>5. i \in Nat
    BY <2>4, IdsAreKeys
  <2>6. i <= used'["article"]
    BY <2>2, <2>4, <2>5
  <2>7. LiveIn(slug', "article", i) => req[q].user \in { NoUser, article'[i].author }
    BY <2>4
  <2> QED BY <2>3, <2>4, <2>6, <2>7 DEF i
<1>3. AllowedIsOwn'
  BY <1>2 DEF AllowedIsOwn, Live, LiveIn, Removes
<1>4. RequestsFit'
  BY DEF CatalogInv, RequestsFit, Fits, Wipes, Others, Plain
<1> QED BY <1>1, <1>3, <1>4 DEF CatalogInv

LEMMA MissedType ==
    ASSUME TypeOK, NEW p \in Procs, Counts(p) PROVE missed' \subseteq Listed
  BY DEF Counts, TypeOK, Listed

LEMMA WrittenFits ==
    ASSUME NEW p \in Procs, TypeOK, Written(p)
    PROVE  Others(p) /\ Plain(req'[p])
<1>1. /\ Others(p) /\ req'[p].at \in { "idle", "invalidate" }
      /\ req[p].kind \in Listed => req'[p].kind = req[p].kind
  BY WrittenMoves
<1>2. req[p].kind \notin Listed => req'[p] = Idle
  BY DEF Written, TypeOK
<1>3. (req'[p].at = "invalidate" => req'[p].kind \in Listed) /\ ~req'[p].replan
  BY <1>1, <1>2, IdleType DEF Written, Idle, TypeOK
<1> QED BY <1>1, <1>3 DEF Fits, Plain, Wipes, Removes

LEMMA InsertKeeps ==
    ASSUME CatalogInv, NEW p \in Procs, Insert(p) PROVE CatalogInv'
<1> DEFINE r == req[p]
           k == r.kind
           i == used[k] + 1
<1>1. /\ TypeOK /\ r \in Request /\ r.slug \in Slugs /\ k \in Kinds /\ Free(k, r.slug)
      /\ used[k] < MaxRows[k] /\ (k = "article" => RefersIn(slug, r.article))
  BY DEF CatalogInv, RequestsFit, Fits, Insert, TypeOK, Request, Refers, RefersIn, Live, LiveIn
<1>2. /\ used' = [used EXCEPT ![k] = i] /\ slug' = [slug EXCEPT ![k][i] = r.slug]
      /\ article' = IF k = "article" THEN [article EXCEPT ![i] = r.article] ELSE article
      /\ active' = IF k = "plan" THEN [active EXCEPT ![i] = r.active] ELSE active
      /\ titles' = IF k = "plan" THEN [titles EXCEPT ![i] = 1] ELSE titles
      /\ Written(p) /\ Counts(p) /\ UNCHANGED <<asked, assigned, gone, list, seen, since>>
  BY DEF Insert
<1>3. r.slug # NoSlug /\ r.slug \in Slug0
  BY <1>1, CatalogAssumption DEF Slug0
<1> HIDE DEF k
<1>4. \A c \in Kinds : used[c] \in Nat
  BY <1>1, UsedIsNat DEF TypeOK
<1>5. i \in Ids /\ i > used[k]
  <2>1. MaxRows[k] \in Nat
    BY <1>1, CatalogAssumption
  <2> QED BY <1>1, <1>4, <2>1, IdsAreKeys
<1>6. Others(p) /\ Plain(req'[p]) /\ missed' \subseteq Listed
  BY <1>1, <1>2, WrittenFits, MissedType
<1> HIDE DEF r, i
<1>7. TypeOK'
  <2>1. slug' \in [ Kinds -> [ Ids -> Slug0 ] ] /\ used' \in [ Kinds -> Ids \cup {0} ]
    BY <1>1, <1>2, <1>3, <1>5 DEF TypeOK
  <2>2. article' \in [ Ids -> Article ]
    BY <1>1, <1>2, <1>5 DEF TypeOK, Request
  <2>3. active' \in [ Ids -> BOOLEAN ] /\ titles' \in [ Ids -> Texts ]
    BY <1>1, <1>2, <1>5 DEF TypeOK, Request, Texts
  <2> QED BY <1>1, <1>2, <1>6, <2>1, <2>2, <2>3 DEF TypeOK, Others, Request
<1>8. /\ used'[k] = i /\ \A j \in Ids : j \in Nat
      /\ \A c \in Kinds : c # k => used'[c] = used[c]
  BY <1>1, <1>2, IdsAreKeys DEF TypeOK
<1>9. \A c \in Kinds : used[c] <= used'[c]
  BY <1>4, <1>5, <1>8
<1>10. SlugsAreUnique' /\ KeysAreSpent'
  <2>1. i <= used'[k]
    BY <1>5, <1>8
  <2> QED BY <1>1, <1>2, <1>3, <1>5, <1>7, <1>9, <2>1, SlugMoves
<1>11. \A c \in Kinds : \A j : LiveIn(slug', c, j) <=> LiveIn(slug, c, j) \/ (c = k /\ j = i)
  <2>1. \A c \in Kinds : \A j : LiveIn(slug', c, j) <=>
                IF c = k /\ j = i THEN r.slug # NoSlug ELSE LiveIn(slug, c, j)
    BY <1>1, <1>2, <1>3, <1>5, LiveMoves
  <2> QED BY <1>3, <2>1
<1>12. \A a : RefersIn(slug, a) => RefersIn(slug', a)
  BY <1>11 DEF RefersIn, Kinds
<1>13. ASSUME NEW a \in Ids, LiveIn(slug', "article", a) PROVE RefersIn(slug', article'[a])
  <2>1. CASE k = "article" /\ a = i
    <3>1. article'[a] = r.article /\ RefersIn(slug, r.article)
      BY <1>1, <1>2, <1>5, <2>1 DEF TypeOK
    <3> QED BY <1>12, <3>1
  <2>2. CASE ~(k = "article" /\ a = i)
    <3>1. article'[a] = article[a] /\ LiveIn(slug, "article", a)
      BY <1>1, <1>2, <1>11, <1>13, <2>2 DEF TypeOK, Kinds
    <3>2. RefersIn(slug, article[a])
      BY <3>1, ReferencesHeld
    <3> QED BY <1>12, <3>1, <3>2
  <2> QED BY <2>1, <2>2
<1>14. \A u \in Users : assigned'[u] # 0 => LiveIn(slug', "plan", assigned'[u])
  BY <1>2, <1>11, ReferencesHeld DEF Kinds
<1>15. ReferencesHold'
  BY <1>13, <1>14, ReferencesMove
<1>16. ASSUME NEW j \in Ids, j <= used["article"], LiveIn(slug', "article", j)
       PROVE  LiveIn(slug, "article", j) /\ article'[j].author = article[j].author
  <2>1. "article" \in Kinds
    BY DEF Kinds
  <2>2. ~(k = "article" /\ j = i)
    BY <1>4, <1>5, <1>8, <1>16, <2>1
  <2>3. article'[j] = article[j]
    BY <1>1, <1>2, <2>2 DEF TypeOK
  <2> QED BY <1>11, <1>16, <2>1, <2>2, <2>3
<1>17. used["article"] <= used'["article"] /\ \A u \in Users : assigned'[u] \in { 0, assigned[u] }
  BY <1>2, <1>9 DEF Kinds
<1>18. since' = since
  BY <1>2
<1> QED BY <1>6, <1>7, <1>10, <1>15, <1>16, <1>17, <1>18, WritesKeepInv

\* A row that is found by its slug is written.
LEMMA RowIsLive ==
    ASSUME CatalogInv, NEW k \in Kinds, NEW s \in Slugs, NEW i \in Row(k, s)
    PROVE  /\ i \in Ids /\ slug[k][i] = s /\ LiveIn(slug, k, i) /\ i <= used[k]
           /\ s # NoSlug /\ s \in Slug0
<1>1. i \in Ids /\ slug[k][i] = s /\ s # NoSlug /\ s \in Slug0
  BY CatalogAssumption DEF Row, Slug0
<1> QED BY <1>1 DEF CatalogInv, KeysAreSpent, Live, LiveIn

LEMMA RewrittenType ==
    ASSUME NEW r \in Request, NEW a \in Article
    PROVE  Rewritten(r, a) \in Article /\ Rewritten(r, a).author = a.author
  BY DEF Rewritten, Request, Article

\* Articles, renamed or rewritten, keep their authors and have what they refer to.
LEMMA RewritesKeepInv ==
    ASSUME CatalogInv, TypeOK', NEW p \in Procs, Written(p), since' = since, used' = used,
           assigned' = assigned,
           NEW k \in Kinds, NEW i \in Row(k, req[p].slug), req[p].slug \in Slugs,
           req[p].to \in Slugs, req[p].to = req[p].slug \/ Free(k, req[p].to),
           slug' = [slug EXCEPT ![k][i] = req[p].to],
           \A a \in Ids : LiveIn(slug, "article", a) =>
               RefersIn(slug, article'[a]) /\ article'[a].author = article[a].author
    PROVE  CatalogInv'
<1>1. /\ i \in Ids /\ slug[k][i] = req[p].slug /\ LiveIn(slug, k, i) /\ i <= used[k]
  BY RowIsLive
<1>2. req[p].to # NoSlug /\ req[p].to \in Slug0
  BY CatalogAssumption DEF Slug0
<1>3. \A c \in Kinds : \A j : LiveIn(slug', c, j) <=> LiveIn(slug, c, j)
  <2>1. \A c \in Kinds : \A j : LiveIn(slug', c, j) <=>
                IF c = k /\ j = i THEN req[p].to # NoSlug ELSE LiveIn(slug, c, j)
    BY <1>1, <1>2, LiveMoves DEF CatalogInv
  <2> QED BY <1>1, <1>2, <2>1
<1>4. \A c \in Kinds : used[c] \in Nat
  BY UsedIsNat DEF CatalogInv, TypeOK
<1>5. SlugsAreUnique' /\ KeysAreSpent'
  <2>1. i <= used'[k] /\ \A c \in Kinds : used[c] <= used'[c]
    BY <1>1, <1>4
  <2> QED BY <1>1, <1>2, <2>1, SlugMoves
<1>6. \A a : RefersIn(slug, a) => RefersIn(slug', a)
  BY <1>3 DEF RefersIn, Kinds
<1>7. "article" \in Kinds /\ "plan" \in Kinds
  BY DEF Kinds
<1>8. \A a \in Ids : LiveIn(slug', "article", a) => RefersIn(slug', article'[a])
  BY <1>3, <1>6, <1>7
<1>9. \A u \in Users : assigned'[u] # 0 => LiveIn(slug', "plan", assigned'[u])
  BY <1>3, <1>7, ReferencesHeld
<1>10. ReferencesHold'
  BY <1>8, <1>9, ReferencesMove
<1>11. Others(p) /\ Plain(req'[p])
  BY WrittenFits DEF CatalogInv
<1>12. \A j \in Ids : j <= used["article"] /\ LiveIn(slug', "article", j) =>
           LiveIn(slug, "article", j) /\ article'[j].author = article[j].author
  BY <1>3, <1>7
<1>13. used["article"] <= used'["article"] /\ \A u \in Users : assigned'[u] \in { 0, assigned[u] }
  BY <1>4, <1>7
<1> QED BY <1>5, <1>10, <1>11, <1>12, <1>13, WritesKeepInv

\* What the transaction of an article's update leaves of each article's plans.
LEMMA PivotsType ==
    ASSUME TypeOK, NEW p \in Procs
    PROVE  /\ \A j \in Ids : Pivots(p, j) \in SUBSET Ids /\ Pivots(p, j) \subseteq article[j].plans
           /\ \A j \in Ids : /\ [article[j] EXCEPT !.plans = Pivots(p, j)] \in Article
                            /\ [article[j] EXCEPT !.plans = Pivots(p, j)].author = article[j].author
                            /\ [article[j] EXCEPT !.plans = Pivots(p, j)].category = article[j].category
                            /\ [article[j] EXCEPT !.plans = Pivots(p, j)].plans = Pivots(p, j)
<1>1. ASSUME NEW j \in Ids
      PROVE  article[j] \in Article /\ Pivots(p, j) \in SUBSET Ids /\ Pivots(p, j) \subseteq article[j].plans
  BY DEF TypeOK, Article, Pivots
<1> QED BY <1>1 DEF Article

LEMMA CommitsType == ASSUME TypeOK, NEW p \in Procs, Commits(p) PROVE seen' \in [ Procs -> SUBSET Ids ]
  BY DEF TypeOK, Commits

LEMMA RenameKeeps ==
    ASSUME CatalogInv, NEW p \in Procs, Rename(p) PROVE CatalogInv'
<1> DEFINE r == req[p]
           k == r.kind
<1>1. /\ TypeOK /\ r \in Request /\ r.slug \in Slugs /\ r.to \in Slugs /\ k \in Kinds
      /\ Commits(p) /\ Written(p) /\ Counts(p) /\ UNCHANGED <<asked, used, assigned, gone, list, since>>
  BY DEF CatalogInv, RequestsFit, Fits, Rename, TypeOK, Request
<1> DEFINE base(i) == Rewritten(r, article[i])
           new(i)  == [base(i) EXCEPT !.plans = Pivots(p, i) \cup r.article.plans]
           left(j) == [article[j] EXCEPT !.plans = Pivots(p, j)]
<1>2. PICK i \in Row(k, r.slug) :
        /\ r.to = r.slug \/ Free(k, r.to)
        /\ slug' = [slug EXCEPT ![k][i] = r.to]
        /\ k = "article" => Refers(new(i))
        /\ article' = IF k # "article" THEN article
                      ELSE [ j \in Ids |-> IF j = i THEN new(i) ELSE left(j) ]
        /\ active' = IF k = "plan" THEN [active EXCEPT ![i] = r.active] ELSE active
        /\ titles' = IF k = "plan" /\ r.titles # 0 THEN [titles EXCEPT ![i] = r.titles] ELSE titles
  BY DEF Rename
<1>3. i \in Ids /\ LiveIn(slug, k, i)
  BY <1>1, <1>2, RowIsLive
<1>4. base(i) \in Article /\ base(i).author = article[i].author
  BY <1>1, <1>3, RewrittenType DEF TypeOK
<1>5. Pivots(p, i) \cup r.article.plans \in SUBSET Ids
  BY <1>1, <1>3, PivotsType DEF Article, Request
<1> HIDE DEF base
<1>6. /\ new(i) \in Article /\ new(i).author = article[i].author
      /\ (k = "article" => RefersIn(slug, new(i)))
  <2>1. new(i) \in Article /\ new(i).author = article[i].author
    BY <1>4, <1>5 DEF Article
  <2> QED BY <1>2, <2>1 DEF Refers, RefersIn, Live, LiveIn
<1>7. Others(p) /\ missed' \subseteq Listed /\ seen' \in [ Procs -> SUBSET Ids ]
  BY <1>1, WrittenFits, MissedType, CommitsType
<1> HIDE DEF r, k, new
<1>8. ASSUME NEW a \in Ids
      PROVE  /\ article'[a] \in Article /\ article'[a].author = article[a].author
             /\ \/ k = "article" /\ article'[a] = new(i)
                \/ /\ article'[a].category = article[a].category
                   /\ article'[a].plans \subseteq article[a].plans
  <2>1. /\ article[a] \in Article /\ left(a) \in Article /\ left(a).author = article[a].author
        /\ left(a).category = article[a].category /\ left(a).plans \subseteq article[a].plans
    BY <1>1, PivotsType DEF TypeOK
  <2> HIDE DEF left
  <2>2. CASE k # "article"
    BY <1>2, <2>1, <2>2
  <2>3. CASE k = "article" /\ a = i
    BY <1>2, <1>6, <2>3
  <2>4. CASE k = "article" /\ a # i
    BY <1>2, <2>1, <2>4
  <2> QED BY <2>2, <2>3, <2>4
<1>9. TypeOK'
  <2>1. slug' \in [ Kinds -> [ Ids -> Slug0 ] ]
    BY <1>1, <1>2, <1>3 DEF TypeOK, Slug0
  <2>2. article' \in [ Ids -> Article ]
    <3>1. article' = [ a \in Ids |-> article'[a] ]
      BY <1>1, <1>2 DEF TypeOK
    <3> QED BY <1>8, <3>1
  <2>3. active' \in [ Ids -> BOOLEAN ] /\ titles' \in [ Ids -> Texts ]
    BY <1>1, <1>2, <1>3 DEF TypeOK, Request
  <2> QED BY <1>1, <1>7, <2>1, <2>2, <2>3 DEF TypeOK, Others, Request
<1>10. ASSUME NEW a \in Ids, LiveIn(slug, "article", a)
       PROVE  RefersIn(slug, article'[a]) /\ article'[a].author = article[a].author
  BY <1>6, <1>8, <1>10, ReferencesHeld DEF RefersIn
<1>11. since' = since /\ used' = used /\ assigned' = assigned
  BY <1>1
<1> QED BY <1>1, <1>2, <1>9, <1>10, <1>11, RewritesKeepInv DEF r, k

\* What goes with a row that is removed.
LEMMA DeleteKeeps ==
    ASSUME CatalogInv, NEW p \in Procs, Delete(p) PROVE CatalogInv'
<1> DEFINE r == req[p]
           k == r.kind
<1>1. /\ TypeOK /\ r \in Request /\ r.slug \in Slugs /\ k \in Kinds
      /\ Commits(p) /\ Written(p) /\ Counts(p) /\ UNCHANGED <<asked, used, active, gone, list, since>>
  BY DEF CatalogInv, RequestsFit, Fits, Delete, TypeOK, Request
<1> DEFINE left(j) == [article[j] EXCEPT !.plans = Pivots(p, j)]
<1>2. PICK i \in Row(k, r.slug) :
        /\ ~Restricted(p, i)
        /\ slug' = [slug EXCEPT ![k][i] = NoSlug]
        /\ article' = IF k # "article" THEN article
                      ELSE [ j \in Ids |-> IF j = i THEN NoArticle ELSE left(j) ]
        /\ assigned' = IF k # "plan" THEN assigned
                       ELSE [ u \in Users |-> IF assigned[u] = i THEN 0 ELSE assigned[u] ]
        /\ titles' = IF k = "plan" THEN [titles EXCEPT ![i] = 0] ELSE titles
  BY DEF Delete
<1>3. i \in Ids /\ LiveIn(slug, k, i) /\ i <= used[k]
  BY <1>1, <1>2, RowIsLive
<1>4. /\ Others(p) /\ Plain(req'[p]) /\ missed' \subseteq Listed
      /\ seen' \in [ Procs -> SUBSET Ids ]
  BY <1>1, WrittenFits, MissedType, CommitsType
<1> HIDE DEF r
<1>5. ASSUME NEW a \in Ids
      PROVE  /\ article'[a] \in Article
             /\ \/ k = "article" /\ a = i
                \/ /\ article'[a].author = article[a].author
                   /\ article'[a].category = article[a].category
                   /\ article'[a].plans \subseteq article[a].plans
  <2>1. /\ article[a] \in Article /\ left(a) \in Article /\ left(a).author = article[a].author
        /\ left(a).category = article[a].category /\ left(a).plans \subseteq article[a].plans
    BY <1>1, PivotsType DEF TypeOK
  <2> HIDE DEF left, k
  <2>2. CASE k # "article"
    BY <1>2, <2>1, <2>2
  <2>3. CASE k = "article" /\ a = i
    BY <1>2, <2>3, NothingType
  <2>4. CASE k = "article" /\ a # i
    BY <1>2, <2>1, <2>4
  <2> QED BY <2>2, <2>3, <2>4
<1> HIDE DEF k, left
<1>6. TypeOK'
  <2>1. slug' \in [ Kinds -> [ Ids -> Slug0 ] ]
    BY <1>1, <1>2, <1>3, NothingType DEF TypeOK
  <2>2. article' \in [ Ids -> Article ]
    <3>1. article' = [ a \in Ids |-> article'[a] ]
      BY <1>1, <1>2 DEF TypeOK
    <3> QED BY <1>5, <3>1
  <2>3. assigned' \in [ Users -> Ids \cup {0} ]
    BY <1>1, <1>2 DEF TypeOK
  <2>4. titles' \in [ Ids -> Texts ]
    BY <1>1, <1>2, <1>3 DEF TypeOK, Texts
  <2> QED BY <1>1, <1>4, <2>1, <2>2, <2>3, <2>4 DEF TypeOK, Others, Request
<1>7. \A c \in Kinds : \A j : LiveIn(slug', c, j) <=> LiveIn(slug, c, j) /\ ~(c = k /\ j = i)
  <2>1. \A c \in Kinds : \A j : LiveIn(slug', c, j) <=>
                IF c = k /\ j = i THEN NoSlug # NoSlug ELSE LiveIn(slug, c, j)
    BY <1>1, <1>2, <1>3, NothingType, LiveMoves
  <2> QED BY <2>1
<1>8. "article" \in Kinds /\ "category" \in Kinds /\ "plan" \in Kinds
  BY DEF Kinds
<1>9. \A c \in Kinds : used[c] \in Nat
  BY <1>1, UsedIsNat DEF TypeOK
<1>10. SlugsAreUnique' /\ KeysAreSpent'
  <2>1. i <= used'[k] /\ \A c \in Kinds : used[c] <= used'[c]
    BY <1>1, <1>3, <1>9
  <2> QED BY <1>1, <1>2, <1>3, <1>6, <2>1, NothingType, SlugMoves
<1>11. ASSUME NEW a \in Ids, LiveIn(slug', "article", a) PROVE RefersIn(slug', article'[a])
  <2>1. LiveIn(slug, "article", a) /\ ~(k = "article" /\ a = i) /\ RefersIn(slug, article[a])
    BY <1>7, <1>8, <1>11, ReferencesHeld
  <2>2. article'[a].category = article[a].category /\ article'[a].plans \subseteq article[a].plans
    BY <1>5, <2>1
  <2>3. a \in Articles
    BY <2>1 DEF Articles, Live, LiveIn
  <2>4. k = "category" => article[a].category # i
    BY <1>2, <2>3 DEF Restricted, k, r
  <2>5. k = "plan" => i \notin article[a].plans
    BY <1>2, <2>3 DEF Restricted, k, r
  <2> QED BY <1>7, <1>8, <2>1, <2>2, <2>4, <2>5 DEF RefersIn
<1>12. ASSUME NEW u \in Users
       PROVE  /\ assigned'[u] \in { 0, assigned[u] }
              /\ assigned'[u] # 0 => LiveIn(slug', "plan", assigned'[u])
  <2>1. CASE k = "plan"
    <3>1. assigned'[u] = IF assigned[u] = i THEN 0 ELSE assigned[u]
      BY <1>2, <2>1
    <3> QED BY <1>7, <1>8, <3>1, ReferencesHeld
  <2>2. CASE k # "plan"
    BY <1>2, <1>7, <1>8, <2>2, ReferencesHeld
  <2> QED BY <2>1, <2>2
<1>13. ReferencesHold'
  BY <1>11, <1>12, ReferencesMove
<1>14. ASSUME NEW j \in Ids, LiveIn(slug', "article", j)
       PROVE  LiveIn(slug, "article", j) /\ article'[j].author = article[j].author
  BY <1>5, <1>7, <1>8, <1>14
<1>15. used["article"] <= used'["article"] /\ since' = since
  BY <1>1, <1>8, <1>9
<1> QED BY <1>4, <1>6, <1>10, <1>12, <1>13, <1>14, <1>15, WritesKeepInv

\* A plan that is being removed may be assigned: that user was not counted.
LEMMA AssignKeeps ==
    ASSUME CatalogInv, NEW p \in Procs, Assign(p) PROVE CatalogInv'
<1> DEFINE r == req[p]
<1>1. /\ TypeOK /\ r \in Request /\ r.at = "assign" /\ Live("plan", r.id)
      /\ assigned' = [assigned EXCEPT ![r.user] = r.id]
      /\ since' = [ q \in Procs |-> IF req[q].at = "delete" THEN since[q] \cup {r.user} ELSE {} ]
      /\ Answer(p)
      /\ UNCHANGED <<asked, slug, used, article, active, titles, gone, seen, list, missed>>
  BY DEF Assign, CatalogInv, TypeOK, Request
<1>2. Others(p) /\ Plain(req'[p])
  BY <1>1, AnswerMoves
<1>3. r.user \in Users /\ r.id \in Ids
  BY <1>1 DEF CatalogInv, RequestsFit, Fits, Live
<1> HIDE DEF r
<1>4. TypeOK'
  <2>1. assigned' \in [ Users -> Ids \cup {0} ]
    BY <1>1, <1>3 DEF TypeOK
  <2>2. since' \in [ Procs -> SUBSET Users ]
    BY <1>1, <1>3 DEF TypeOK
  <2> QED BY <1>1, <1>2, <2>1, <2>2 DEF TypeOK, Others, Request
<1>5. SlugsAreUnique' /\ KeysAreSpent'
  BY <1>1 DEF CatalogInv, SlugsAreUnique, KeysAreSpent, Live
<1>6. ReferencesHold'
  <2>1. ASSUME NEW u \in Users, assigned'[u] # 0 PROVE LiveIn(slug', "plan", assigned'[u])
    <3>1. CASE u = r.user
      BY <1>1, <1>3, <3>1 DEF TypeOK, Live, LiveIn
    <3>2. CASE u # r.user
      BY <1>1, <1>3, <2>1, <3>2, ReferencesHeld DEF TypeOK
    <3> QED BY <3>1, <3>2
  <2>2. \A a \in Ids : LiveIn(slug', "article", a) => RefersIn(slug', article'[a])
    BY <1>1, ReferencesHeld
  <2> QED BY <2>1, <2>2, ReferencesMove
<1>7. CountedAreSpared'
  <2> SUFFICES ASSUME NEW q \in Procs, NEW u \in Users,
                      req'[q].at = "delete", req'[q].kind = "plan",
                      assigned'[u] # 0, assigned'[u] = req'[q].id
               PROVE  u \in since'[q]
    BY DEF CountedAreSpared
  <2>1. q # p /\ req'[q] = req[q]
    BY <1>2 DEF Others, Plain
  <2>2. since'[q] = since[q] \cup {r.user}
    BY <1>1, <2>1
  <2>3. CASE u = r.user
    BY <2>2, <2>3
  <2>4. CASE u # r.user
    <3>1. assigned'[u] = assigned[u]
      BY <1>1, <1>3, <2>4 DEF TypeOK
    <3> QED BY <2>1, <2>2, <3>1 DEF CatalogInv, CountedAreSpared
  <2> QED BY <2>3, <2>4
<1>8. AllowedIsOwn'
  BY <1>1, <1>2 DEF CatalogInv, AllowedIsOwn, Live, Others, Plain, Removes
<1>9. RequestsFit'
  BY <1>2 DEF CatalogInv, RequestsFit, Fits, Others, Plain, Wipes
<1> QED BY <1>4, <1>5, <1>6, <1>7, <1>8, <1>9 DEF CatalogInv

LEMMA UpsertKeeps ==
    ASSUME CatalogInv, NEW p \in Procs, Upsert(p) PROVE CatalogInv'
<1>1. /\ TypeOK /\ req[p] \in Request /\ Live("plan", req[p].id)
      /\ titles' = [titles EXCEPT ![req[p].id] = req[p].titles] /\ Written(p)
      /\ UNCHANGED <<asked, slug, used, article, active, assigned, gone, list, seen, since, missed>>
  BY DEF Upsert, CatalogInv, TypeOK, Request
<1>2. Others(p) /\ Plain(req'[p])
  BY <1>1, WrittenFits
<1>3. TypeOK'
  <2>1. titles' \in [ Ids -> Texts ]
    BY <1>1 DEF TypeOK, Request
  <2> QED BY <1>1, <1>2, <2>1 DEF TypeOK, Others, Request
<1>4. SlugsAreUnique' /\ KeysAreSpent'
  BY <1>1 DEF CatalogInv, SlugsAreUnique, KeysAreSpent, Live
<1>5. ReferencesHold'
  BY <1>1 DEF CatalogInv, ReferencesHold, Articles, Refers, Live
<1>6. CountedAreSpared'
  BY <1>1, <1>2 DEF CatalogInv, CountedAreSpared, Others, Plain
<1>7. AllowedIsOwn'
  BY <1>1, <1>2 DEF CatalogInv, AllowedIsOwn, Live, Others, Plain, Removes
<1>8. RequestsFit'
  BY <1>2 DEF CatalogInv, RequestsFit, Fits, Others, Plain, Wipes
<1> QED BY <1>3, <1>4, <1>5, <1>6, <1>7, <1>8 DEF CatalogInv

-----------------------------------------------------------------------------
(* The invariant.                                                          *)

LEMMA InitInv == Init => CatalogInv
<1> SUFFICES ASSUME NEW s \in Slugs, NEW u \in Users, NEW some \in { {}, {"plan"}, Kinds },
                    slug = [ k \in Kinds |-> [ i \in Ids |->
                              IF i = 1 /\ k \in some THEN s ELSE NoSlug ] ],
                    used = [ k \in Kinds |-> IF k \in some THEN 1 ELSE 0 ],
                    article = [ i \in Ids |-> IF i = 1 /\ "article" \in some
                                  THEN [ category |-> 1, plans |-> {1}, author |-> u ]
                                  ELSE NoArticle ],
                    active = [ i \in Ids |-> TRUE ],
                    titles = [ i \in Ids |-> 0 ],
                    assigned = [ v \in Users |-> 0 ], gone = {},
                    seen = [ p \in Procs |-> {} ],
                    list = [ k \in Listed |-> Nothing ],
                    req = [ p \in Procs |-> Idle ],
                    asked = 0,
                    since = [ p \in Procs |-> {} ],
                    missed = {}
             PROVE  CatalogInv
  BY DEF Init
<1>1. 1 \in Ids /\ s \in Slug0 /\ s # NoSlug
  BY IdsAreKeys, CatalogAssumption DEF Slug0
<1>2. ASSUME NEW i \in Ids PROVE article[i] \in Article
  <2>1. [ category |-> 1, plans |-> {1}, author |-> u ] \in Article
    BY <1>1 DEF Article
  <2> QED BY <2>1, NothingType
<1>3. TypeOK
  <2>1. slug \in [ Kinds -> [ Ids -> Slug0 ] ] /\ used \in [ Kinds -> Ids \cup {0} ]
    BY <1>1, NothingType
  <2>2. article \in [ Ids -> Article ]
    BY <1>2
  <2>3. req \in [ Procs -> Request ]
    BY IdleType
  <2>4. asked \in 0 .. MaxRequests
    BY CatalogAssumption
  <2>5. /\ active \in [ Ids -> BOOLEAN ] /\ titles \in [ Ids -> Texts ]
        /\ assigned \in [ Users -> Ids \cup {0} ] /\ gone \subseteq Users
        /\ seen \in [ Procs -> SUBSET Ids ]
    BY DEF Texts
  <2>6. list \in [ Listed -> Lists ] /\ since \in [ Procs -> SUBSET Users ] /\ missed \subseteq Listed
    BY NothingType
  <2> QED BY <2>1, <2>2, <2>3, <2>4, <2>5, <2>6 DEF TypeOK, Request
<1>4. SlugsAreUnique /\ KeysAreSpent
  BY <1>1 DEF SlugsAreUnique, KeysAreSpent, Live
<1>5. ReferencesHold
  <2>1. ASSUME NEW a \in Articles PROVE Refers(article[a])
    <3>1. a = 1 /\ a \in Ids /\ "article" \in some
      BY <2>1 DEF Articles, Live, Kinds
    <3>2. some = Kinds /\ article[a] = [ category |-> 1, plans |-> {1}, author |-> u ]
      BY <3>1
    <3>3. Live("category", 1) /\ Live("plan", 1)
      BY <1>1, <3>2 DEF Live, Kinds
    <3>4. article[a].category = 1 /\ article[a].plans = {1}
      <4> DEFINE first == [ category |-> 1, plans |-> {1}, author |-> u ]
      <4>1. first.category = 1 /\ first.plans = {1}
        OBVIOUS
      <4> HIDE DEF first
      <4>2. article[a] = first
        BY <3>2 DEF first
      <4> QED BY <4>1, <4>2
    <3> QED BY <3>3, <3>4 DEF Refers
  <2> QED BY <2>1 DEF ReferencesHold
<1>6. CountedAreSpared /\ AllowedIsOwn /\ RequestsFit
  <2>1. ~Idle.replan
    BY DEF Idle
  <2> QED BY <2>1, IdleType DEF CountedAreSpared, AllowedIsOwn, Removes, RequestsFit, Fits, Wipes
<1> QED BY <1>3, <1>4, <1>5, <1>6 DEF CatalogInv

LEMMA NextInv == CatalogInv /\ [Next]_vars => CatalogInv'
<1> SUFFICES ASSUME CatalogInv, [Next]_vars PROVE CatalogInv'
  OBVIOUS
<1>1. ASSUME NEW p \in Procs, Arrive(p) \/ Advance(p) \/ Fail(p) PROVE CatalogInv'
  <2>1. CASE Arrive(p)
    BY <2>1, ArriveKeeps
  <2>2. CASE Advance(p)
    BY <2>2, InsertKeeps, TakenKeeps, WipeKeeps, RenameKeeps, CountKeeps, DeleteKeeps,
       AssignKeeps, UpsertKeeps, InvalidateKeeps, ListKeeps, ListSetKeeps DEF Advance
  <2>3. CASE Fail(p)
    BY <2>3, FailKeeps
  <2> QED BY <1>1, <2>1, <2>2, <2>3
<1>2. ASSUME NEW k \in Listed, Expire(k) PROVE CatalogInv'
  BY <1>2, ExpireKeeps
<1>3. CASE UNCHANGED vars
  BY <1>3 DEF vars, rows, CatalogInv, TypeOK, SlugsAreUnique, KeysAreSpent, ReferencesHold,
              Articles, Refers, Live, CountedAreSpared, AllowedIsOwn, Removes, RequestsFit,
              Fits, Wipes
<1> QED BY <1>1, <1>2, <1>3, DeleteUserKeeps DEF Next

\* For any numbers of requests, rows, slugs and users: slugs stay unique,
\* articles and users keep what they refer to, and the steps after a lookup
\* find their rows as the handlers expect them.
THEOREM CatalogInvariant == Spec => []CatalogInv
  BY InitInv, NextInv, PTL DEF Spec

\* A plan's removal costs nobody the plan he had when its users were counted.
THEOREM CountedKeepTheirPlan == Spec => RemovalSparesCounted
<1>1. ASSUME CatalogInv, [Next]_vars,
             NEW p \in Procs, NEW u \in Users,
             assigned[u] # 0, assigned'[u] = 0, Delete(p), req[p].id = assigned[u]
      PROVE  u \in since[p]
  BY <1>1 DEF Delete, CatalogInv, CountedAreSpared
<1>2. CatalogInv /\ [Next]_vars =>
        [ \A p \in Procs, u \in Users :
            assigned[u] # 0 /\ assigned'[u] = 0 /\ Delete(p) /\ req[p].id = assigned[u]
              => u \in since[p] ]_vars
  BY <1>1
<1> QED BY <1>2, CatalogInvariant, PTL DEF Spec, RemovalSparesCounted

\* No editor removes another's article that plans protect.
THEOREM ProtectedAreKept == Spec => ProtectedIsRemovedByItsOwn
<1>1. ASSUME CatalogInv, NEW p \in Procs, NEW a \in Ids,
             Live("article", a), slug'["article"][a] = NoSlug, Delete(p), article[a].plans # {}
      PROVE  req[p].user \in {NoUser, article[a].author}
  <2>k. "article" \in Kinds
    BY DEF Kinds
  <2>1. req[p].at = "delete" /\ req[p].kind \in Kinds
    BY <1>1 DEF Delete, CatalogInv, TypeOK
  <2>2. PICK i \in Row(req[p].kind, req[p].slug) :
          /\ ~Restricted(p, i)
          /\ slug' = [slug EXCEPT ![req[p].kind][i] = NoSlug]
    BY <1>1 DEF Delete
  <2>3. req[p].kind = "article" /\ i = a
    BY <1>1, <2>k, <2>1, <2>2 DEF CatalogInv, TypeOK, Live, Row
  <2>4. a = req[p].id
    BY <1>1, <2>2, <2>3 DEF Restricted, Pivots
  <2> QED BY <1>1, <2>1, <2>3, <2>4 DEF CatalogInv, AllowedIsOwn, Removes
<1>2. CatalogInv /\ [Next]_vars =>
        [ \A p \in Procs, a \in Ids :
            /\ Live("article", a) /\ slug'["article"][a] = NoSlug
            /\ Delete(p)
            /\ article[a].plans # {}
            => req[p].user \in {NoUser, article[a].author} ]_vars
  BY <1>1
<1> QED BY <1>2, CatalogInvariant, PTL DEF Spec, ProtectedIsRemovedByItsOwn

-----------------------------------------------------------------------------
(* Why a list is out of date.                                              *)

\* Plans are replaced for articles only, and texts written or found for plans
\* only.
OfItsKind(r) ==
    /\ r.replan => r.kind = "article"
    /\ r.at \in { "upsert", "listParts" } => r.kind = "plan"

\* The inductive invariant, beside CatalogInv.
StaleInv == (\A p \in Procs : OfItsKind(req[p])) /\ StaleIsExplained

LEMMA BeginKind ==
    ASSUME TypeOK, NEW p \in Procs, NEW r, Begin(p, r), OfItsKind(r)
    PROVE  OfItsKind(req'[p])
<1>1. req'[p] = r
  BY DEF TypeOK, Begin
<1> QED BY <1>1

LEMMA UpdateKind ==
    ASSUME TypeOK, NEW p \in Procs, NEW k, NEW s, NEW r, Update(p, k, s, r),
           \A i : OfItsKind([r EXCEPT !.id = i])
    PROVE  OfItsKind(req'[p])
  BY BeginKind DEF Update

LEMMA ArriveKind ==
    ASSUME TypeOK, NEW p \in Procs, Arrive(p) PROVE OfItsKind(req'[p])
<1> USE DEF OfItsKind, At, Idle
<1>1. ASSUME NEW s \in Slugs, CategoryCreate(p, s) \/ TagCreate(p, s) \/ TagCreateUnnamed(p, s)
      PROVE  OfItsKind(req'[p])
  BY <1>1, BeginKind DEF CategoryCreate, TagCreate, TagCreateUnnamed, Create
<1>2. ASSUME NEW s \in Slugs, NEW on \in BOOLEAN, PlanCreate(p, s, on) PROVE OfItsKind(req'[p])
  BY <1>2, BeginKind DEF PlanCreate, Create
<1>3. ASSUME NEW s \in Slugs, NEW on \in BOOLEAN, NEW t \in Texts, PlanUpdate(p, s, on, t)
      PROVE  OfItsKind(req'[p])
  <2>1. \A i : OfItsKind([[Renaming("plan", s, s) EXCEPT !.active = on, !.titles = t] EXCEPT !.id = i])
    BY DEF Renaming
  <2> QED BY <1>3, <2>1, UpdateKind DEF PlanUpdate
<1>4. ASSUME NEW s \in Slugs, NEW t \in Texts, PlanUpsertFieldVisibility(p, s, t)
      PROVE  OfItsKind(req'[p])
  <2>1. \A i : OfItsKind([[At("upsert", "plan", s) EXCEPT !.titles = t] EXCEPT !.id = i])
    OBVIOUS
  <2> QED BY <1>4, <2>1, UpdateKind DEF PlanUpsertFieldVisibility
<1>5. ASSUME NEW s \in Slugs, CategoryRemove(p, s) \/ PlanRemove(p, s) \/ TagRemove(p, s)
      PROVE  OfItsKind(req'[p])
  <2>1. \A i : /\ OfItsKind([At("count", "category", s) EXCEPT !.id = i])
               /\ OfItsKind([At("count", "plan", s) EXCEPT !.id = i])
               /\ OfItsKind([At("delete", "tag", s) EXCEPT !.id = i])
    OBVIOUS
  <2> QED BY <1>5, <2>1, UpdateKind DEF CategoryRemove, PlanRemove, TagRemove
<1>6. ASSUME NEW s \in Slugs, NEW to \in Slugs, CategoryUpdate(p, s, to) \/ TagUpdate(p, s, to)
      PROVE  OfItsKind(req'[p])
  <2>1. \A i : /\ OfItsKind([Renaming("category", s, to) EXCEPT !.id = i])
               /\ OfItsKind([Renaming("tag", s, to) EXCEPT !.id = i])
    BY DEF Renaming
  <2> QED BY <1>6, <2>1, UpdateKind DEF CategoryUpdate, TagUpdate
<1>7. ASSUME NEW s \in Slugs, NEW u, NEW c, NEW plans, ArticleCreate(p, s, u, c, plans)
      PROVE  OfItsKind(req'[p])
  BY <1>7, BeginKind DEF ArticleCreate, Create
<1>8. ASSUME NEW s \in Slugs, NEW to \in Slugs, NEW c \in Rows("category") \cup {0},
             NEW replan \in BOOLEAN, NEW plans \in SUBSET DtoPlans,
             ArticleUpdate(p, s, to, c, replan, plans)
      PROVE  OfItsKind(req'[p])
  <2> DEFINE r == ArticleRequest(s, to, c, replan, plans)
  <2>1. Update(p, "article", s, r)
    BY <1>8 DEF ArticleUpdate, ArticleRequest
  <2>2. r \in Request /\ r.at \in { "rename", "taken", "wipe" } /\ r.kind = "article"
    BY ArticleUpdateType
  <2> HIDE DEF r
  <2>3. \A i : OfItsKind([r EXCEPT !.id = i])
    BY <2>2 DEF Request
  <2> QED BY <2>1, <2>3, UpdateKind
<1>9. ASSUME NEW s \in Slugs, NEW u, ArticleRemove(p, s, u) PROVE OfItsKind(req'[p])
  <2>1. \A i : OfItsKind([[At("wipe", "article", s) EXCEPT !.user = u] EXCEPT !.id = i])
    OBVIOUS
  <2> QED BY <1>9, <2>1, UpdateKind DEF ArticleRemove
<1>10. ASSUME NEW u, NEW i, AssignPlan(p, u, i) PROVE OfItsKind(req'[p])
  BY <1>10, BeginKind DEF AssignPlan
<1>11. CASE CategoryFindAll(p) \/ PlanFindAll(p)
  BY <1>11, BeginKind DEF CategoryFindAll, PlanFindAll
<1> HIDE DEF OfItsKind, At, Idle
<1>12. CASE \E s \in Slugs :
         \/ CategoryCreate(p, s) \/ TagCreate(p, s) \/ TagCreateUnnamed(p, s)
         \/ \E on \in BOOLEAN : PlanCreate(p, s, on)
         \/ \E t \in Texts, on \in BOOLEAN : PlanUpdate(p, s, on, t)
         \/ \E t \in Texts \ {0} : PlanUpsertFieldVisibility(p, s, t)
         \/ CategoryRemove(p, s) \/ PlanRemove(p, s) \/ TagRemove(p, s)
         \/ \E to \in Slugs : CategoryUpdate(p, s, to) \/ TagUpdate(p, s, to)
         \/ \E u \in Users \cup {NoUser}, c \in Rows("category"), plans \in SUBSET DtoPlans :
              ArticleCreate(p, s, u, c, plans)
         \/ \E to \in Slugs, c \in Rows("category") \cup {0} :
              \/ ArticleUpdate(p, s, to, c, FALSE, {})
              \/ \E plans \in SUBSET DtoPlans : ArticleUpdate(p, s, to, c, TRUE, plans)
         \/ \E u \in Users \cup {NoUser} : ArticleRemove(p, s, u)
  <2>1. {} \in SUBSET DtoPlans /\ FALSE \in BOOLEAN /\ TRUE \in BOOLEAN
    OBVIOUS
  <2>2. PICK s \in Slugs :
          \/ CategoryCreate(p, s) \/ TagCreate(p, s) \/ TagCreateUnnamed(p, s)
          \/ \E on \in BOOLEAN : PlanCreate(p, s, on)
          \/ \E t \in Texts, on \in BOOLEAN : PlanUpdate(p, s, on, t)
          \/ \E t \in Texts : PlanUpsertFieldVisibility(p, s, t)
          \/ CategoryRemove(p, s) \/ PlanRemove(p, s) \/ TagRemove(p, s)
          \/ \E to \in Slugs : CategoryUpdate(p, s, to) \/ TagUpdate(p, s, to)
          \/ \E u, c, plans : ArticleCreate(p, s, u, c, plans)
          \/ \E to \in Slugs, c \in Rows("category") \cup {0}, replan \in BOOLEAN, plans \in SUBSET DtoPlans :
               ArticleUpdate(p, s, to, c, replan, plans)
          \/ \E u : ArticleRemove(p, s, u)
    BY <1>12, <2>1
  <2> QED BY <1>1, <1>2, <1>3, <1>4, <1>5, <1>6, <1>7, <1>8, <1>9, <2>2
<1> QED BY <1>10, <1>11, <1>12 DEF Arrive

\* What is listed depends on the rows alone.
LEMMA PresentIs ==
    /\ UNCHANGED <<slug, article, active, titles>> =>
         \A k \in Listed : Present(k)' = Present(k)
    /\ UNCHANGED active /\ slug'["plan"] = slug["plan"] /\ UNCHANGED titles =>
         Present("plan")' = Present("plan")
    /\ UNCHANGED article /\ slug'["category"] = slug["category"] /\ slug'["article"] = slug["article"] =>
         Present("category")' = Present("category")
<1>1. ASSUME UNCHANGED active, slug'["plan"] = slug["plan"], UNCHANGED titles
      PROVE  Present("plan")' = Present("plan")
  BY <1>1 DEF Present, PlanRows, WithTitles
<1>2. ASSUME UNCHANGED article, slug'["category"] = slug["category"], slug'["article"] = slug["article"]
      PROVE  Present("category")' = Present("category")
  BY <1>2 DEF Present, CategoryRows, Articles, Live
<1>3. ASSUME UNCHANGED <<slug, article, active, titles>>
      PROVE  \A k \in Listed : Present(k)' = Present(k)
  BY <1>1, <1>2, <1>3 DEF Listed
<1> QED BY <1>1, <1>2, <1>3

\* The others' steps are as they were.
LEMMA OthersKind ==
    ASSUME StaleInv, NEW p \in Procs, Others(p), OfItsKind(req'[p])
    PROVE  \A q \in Procs : OfItsKind(req'[q])
  BY DEF StaleInv, Others

\* A step that leaves the rows and the lists, of a request that was not to
\* delete one.
LEMMA QuietStale ==
    ASSUME StaleInv, NEW p \in Procs, Others(p), OfItsKind(req'[p]), req[p].at # "invalidate",
           UNCHANGED <<slug, article, active, titles, list, missed>>
    PROVE  StaleInv'
<1>1. \A q \in Procs : OfItsKind(req'[q])
  BY OthersKind
<1>2. ASSUME NEW k \in Listed, list'[k].here, list'[k] # Present(k)'
      PROVE  k \in missed' \/ \E q \in Procs : req'[q].at = "invalidate" /\ req'[q].kind = k
  <2>1. k \in missed \/ \E q \in Procs : req[q].at = "invalidate" /\ req[q].kind = k
    BY <1>2, PresentIs DEF StaleInv, StaleIsExplained
  <2> QED BY <2>1 DEF Others
<1>3. StaleIsExplained'
  BY <1>2 DEF StaleIsExplained
<1> QED BY <1>1, <1>3 DEF StaleInv

\* A write of a row: its own list is about to be deleted, and the other shows
\* what it showed, or the categories' is known to be behind.
LEMMA WriteStale ==
    ASSUME CatalogInv, StaleInv, NEW p \in Procs, req[p].at # "invalidate",
           Written(p), list' = list, missed \subseteq missed',
           \A k \in Listed : \/ k = req[p].kind \/ k \in missed' \/ Present(k)' = Present(k)
    PROVE  StaleInv'
<1>1. /\ Others(p) /\ req'[p].at \in { "idle", "invalidate" }
      /\ req[p].kind \in Listed => req'[p].at = "invalidate" /\ req'[p].kind = req[p].kind
  BY WrittenMoves DEF CatalogInv
<1>2. OfItsKind(req'[p])
  BY DEF CatalogInv, TypeOK, Written, OfItsKind, Idle
<1>3. \A q \in Procs : OfItsKind(req'[q])
  BY <1>1, <1>2, OthersKind
<1>4. ASSUME NEW k \in Listed, list'[k].here, list'[k] # Present(k)'
      PROVE  k \in missed' \/ \E q \in Procs : req'[q].at = "invalidate" /\ req'[q].kind = k
  <2>1. CASE k = req[p].kind
    BY <1>1, <2>1
  <2>2. CASE k # req[p].kind /\ k \notin missed'
    <3>1. list[k].here /\ list[k] # Present(k)
      BY <1>4, <2>2
    <3>2. \E q \in Procs : req[q].at = "invalidate" /\ req[q].kind = k
      BY <2>2, <3>1 DEF StaleInv, StaleIsExplained
    <3> QED BY <1>1, <3>2 DEF Others
  <2> QED BY <2>1, <2>2
<1>5. StaleIsExplained'
  BY <1>4 DEF StaleIsExplained
<1> QED BY <1>3, <1>5 DEF StaleInv

\* Which list a written row is on.
LEMMA RowStale ==
    ASSUME CatalogInv, NEW p \in Procs, Counts(p), NEW s,
           slug' = [slug EXCEPT ![req[p].kind] = s],
           req[p].kind # "article" => article' = article,
           req[p].kind # "plan" => UNCHANGED <<active, titles>>
    PROVE  /\ missed \subseteq missed'
           /\ \A k \in Listed : \/ k = req[p].kind \/ k \in missed' \/ Present(k)' = Present(k)
<1>1. req[p].kind \in Kinds /\ \A k \in Kinds \ {req[p].kind} : slug'[k] = slug[k]
  BY DEF CatalogInv, TypeOK
<1>2. missed \subseteq missed'
  BY DEF Counts
<1>3. req[p].kind # "plan" => Present("plan")' = Present("plan")
  BY <1>1, PresentIs DEF Kinds
<1>4. CASE req[p].kind = "article"
  BY <1>2, <1>3, <1>4 DEF Counts, Listed
<1>5. CASE req[p].kind \notin { "article", "category" }
  <2>1. Present("category")' = Present("category")
    BY <1>1, <1>5, PresentIs DEF Kinds
  <2> QED BY <1>2, <1>3, <2>1 DEF Listed
<1>6. CASE req[p].kind = "category"
  BY <1>2, <1>3, <1>6 DEF Listed
<1> QED BY <1>4, <1>5, <1>6

LEMMA WritesStale ==
    ASSUME CatalogInv, StaleInv, NEW p \in Procs,
           Insert(p) \/ Rename(p) \/ Delete(p) \/ Upsert(p)
    PROVE  StaleInv'
<1>1. PICK k \in Kinds : k = req[p].kind
  BY DEF CatalogInv, TypeOK
<1>2. slug \in [ Kinds -> [ Ids -> Slug0 ] ]
  BY DEF CatalogInv, TypeOK
<1>4. CASE Insert(p)
  <2>1. PICK i, x : slug' = [slug EXCEPT ![k][i] = x]
    BY <1>1, <1>4 DEF Insert
  <2>2. \E s : slug' = [slug EXCEPT ![req[p].kind] = s]
    BY <1>1, <2>1
  <2> QED BY <1>4, <2>2, RowStale, WriteStale DEF Insert
<1>5. CASE Rename(p)
  <2>1. PICK i, x : slug' = [slug EXCEPT ![k][i] = x]
    BY <1>1, <1>5 DEF Rename
  <2>2. \E s : slug' = [slug EXCEPT ![req[p].kind] = s]
    BY <1>1, <2>1
  <2>3. /\ req[p].kind # "article" => article' = article
        /\ req[p].kind # "plan" => UNCHANGED <<active, titles>>
    BY <1>5 DEF Rename
  <2> QED BY <1>5, <2>2, <2>3, RowStale, WriteStale DEF Rename
<1>7. CASE Delete(p)
  <2>1. PICK i, x : slug' = [slug EXCEPT ![k][i] = x]
    BY <1>1, <1>7 DEF Delete
  <2>2. \E s : slug' = [slug EXCEPT ![req[p].kind] = s]
    BY <1>1, <2>1
  <2>3. /\ req[p].kind # "article" => article' = article
        /\ req[p].kind # "plan" => UNCHANGED <<active, titles>>
    BY <1>7 DEF Delete
  <2> QED BY <1>7, <2>2, <2>3, RowStale, WriteStale DEF Delete
<1>8. CASE Upsert(p)
  <2>1. req[p].kind = "plan" /\ req[p].at = "upsert"
    BY <1>8 DEF Upsert, StaleInv, OfItsKind
  <2>2. Present("category")' = Present("category")
    BY <1>8, PresentIs DEF Upsert
  <2>3. \A l \in Listed : l = req[p].kind \/ Present(l)' = Present(l)
    BY <2>1, <2>2 DEF Listed
  <2> QED BY <1>8, <2>1, <2>3, WriteStale DEF Upsert
<1> QED BY <1>4, <1>5, <1>7, <1>8

\* The steps that read, and those of the lists.
LEMMA ReadsStale ==
    ASSUME CatalogInv, StaleInv, NEW p \in Procs,
           Arrive(p) \/ Taken(p) \/ Wipe(p) \/ Wiped(p) \/ Count(p) \/ Assign(p) \/ ListFind(p) \/ ListParts(p)
    PROVE  StaleInv'
<1>t. TypeOK /\ OfItsKind(req[p])
  BY DEF CatalogInv, StaleInv
<1>1. CASE Arrive(p)
  <2>1. PICK r : Quiet /\ Begin(p, r) /\ Starts(r)
    BY <1>t, <1>1, ArriveStarts
  <2>2. Others(p) /\ req[p].at = "idle"
    BY <1>t, <2>1, BeginMoves DEF Starts
  <2>3. OfItsKind(req'[p])
    BY <1>t, <1>1, ArriveKind
  <2> QED BY <2>1, <2>2, <2>3, QuietStale DEF Quiet, rows
<1>2. ASSUME NEW to \in Places, Goto(p, to), req[p].at \notin { "invalidate" },
             to \notin { "upsert", "listParts" },
             UNCHANGED <<rows, list, missed>>
      PROVE  StaleInv'
  <2>1. Others(p) /\ req'[p].at = to /\ req'[p].kind = req[p].kind
    BY <1>t, <1>2, GotoMoves
  <2>2. req'[p].replan = req[p].replan
    BY <1>t, <1>2 DEF TypeOK, Goto
  <2>3. OfItsKind(req'[p])
    BY <1>t, <1>2, <2>1, <2>2 DEF OfItsKind
  <2> QED BY <1>2, <2>1, <2>3, QuietStale DEF rows
<1>3. ASSUME Answer(p), req[p].at # "invalidate", UNCHANGED <<slug, article, active, titles, list, missed>>
      PROVE  StaleInv'
  <2>1. Others(p) /\ req'[p] = Idle
    BY <1>t, <1>3, AnswerMoves
  <2>2. OfItsKind(req'[p])
    BY <2>1 DEF OfItsKind, Idle
  <2> QED BY <1>3, <2>1, <2>2, QuietStale
<1>4. CASE Taken(p)
  <2>1. /\ req[p].at = "taken" /\ UNCHANGED <<rows, list, missed>>
        /\ Answer(p) \/ \E to \in { "wipe", "rename" } : Goto(p, to)
    BY <1>4 DEF Taken
  <2>2. "wipe" \in Places /\ "rename" \in Places
    BY DEF Places
  <2> QED BY <1>2, <1>3, <2>1, <2>2 DEF rows
<1>w. CASE Wipe(p) \/ Wiped(p)
  <2>1. /\ req[p].at \in { "wipe", "wiped" } /\ UNCHANGED <<rows, list, missed>>
        /\ \E to \in { "wiped", "rename", "delete" } : Goto(p, to)
    BY <1>w DEF Wipe, Wiped
  <2>2. { "wiped", "rename", "delete" } \subseteq Places
    BY DEF Places
  <2> QED BY <1>2, <2>1, <2>2
<1>5. CASE Count(p)
  <2>1. /\ req[p].at = "count" /\ UNCHANGED <<rows, list, missed>>
        /\ Answer(p) \/ Goto(p, "delete")
    BY <1>5 DEF Count
  <2>2. "delete" \in Places
    BY DEF Places
  <2> QED BY <1>2, <1>3, <2>1, <2>2 DEF rows
<1>6. CASE Assign(p)
  BY <1>3, <1>6 DEF Assign
<1>7. CASE ListFind(p) \/ ListParts(p)
  <2>1. PICK to \in { "listParts", "listSet" }, l \in Lists :
          /\ req' = [req EXCEPT ![p] = Reads(req[p], to, l)]
          /\ to = "listParts" => req[p].kind = "plan"
    BY <1>t, <1>7, ListsType DEF ListFind, ListParts, TypeOK, Reads
  <2>2. req[p] \in Request /\ to \in Places
    BY <1>t, <2>1 DEF TypeOK, Request, Places
  <2>3. /\ Reads(req[p], to, l) \in Request /\ Reads(req[p], to, l).at = to
        /\ Reads(req[p], to, l).kind = req[p].kind /\ Reads(req[p], to, l).replan = req[p].replan
    BY <2>1, <2>2, StepTypes DEF Reads, Request
  <2>4. Others(p) /\ req'[p] = Reads(req[p], to, l)
    BY <1>t, <2>1, <2>3 DEF TypeOK, Others, Request
  <2>5. OfItsKind(req'[p])
    BY <1>t, <2>1, <2>3, <2>4 DEF OfItsKind
  <2>6. req[p].at # "invalidate" /\ UNCHANGED <<rows, list, missed>>
    BY <1>7 DEF ListFind, ListParts
  <2> QED BY <2>4, <2>5, <2>6, QuietStale DEF rows
<1> QED BY <1>1, <1>4, <1>w, <1>5, <1>6, <1>7

LEMMA ListsStale ==
    ASSUME CatalogInv, StaleInv, NEW p \in Procs, Invalidate(p) \/ ListSet(p) \/ Fail(p)
    PROVE  StaleInv'
<1>1. PICK c : c = req[p].kind
  OBVIOUS
<1>2. Others(p) /\ req'[p] = Idle
  BY AnswerMoves DEF Invalidate, ListSet, Fail, CatalogInv
<1>3. \A q \in Procs : OfItsKind(req'[q])
  <2>1. OfItsKind(req'[p])
    BY <1>2 DEF OfItsKind, Idle
  <2> QED BY <1>2, <2>1, OthersKind
<1>4. \A k \in Listed : Present(k)' = Present(k)
  BY PresentIs DEF Invalidate, ListSet, Fail, rows
<1>5. list \in [ Listed -> Lists ] /\ Nothing.here = FALSE
  BY DEF CatalogInv, TypeOK, Nothing
<1>6. ASSUME NEW k \in Listed, list'[k].here, list'[k] # Present(k)
      PROVE  k \in missed' \/ \E q \in Procs : req'[q].at = "invalidate" /\ req'[q].kind = k
  <2>1. CASE k = c
    <3>1. CASE Invalidate(p)
      BY <1>1, <1>5, <1>6, <2>1, <3>1 DEF Invalidate
    <3>2. CASE ListSet(p)
      BY <1>1, <1>5, <1>6, <2>1, <3>2 DEF ListSet
    <3>3. CASE Fail(p) /\ req[p].at = "invalidate"
      BY <1>1, <1>6, <2>1, <3>3 DEF Fail
    <3>4. CASE Fail(p) /\ req[p].at # "invalidate"
      <4>1. list' = list /\ missed' = missed
        BY <3>4 DEF Fail
      <4>2. k \in missed \/ \E q \in Procs : req[q].at = "invalidate" /\ req[q].kind = k
        BY <1>6, <4>1 DEF StaleInv, StaleIsExplained
      <4> QED BY <1>2, <3>4, <4>1, <4>2 DEF Others
    <3> QED BY <3>1, <3>2, <3>3, <3>4
  <2>2. CASE k # c
    <3>1. list'[k] = list[k] /\ (k \in missed => k \in missed')
      BY <1>1, <1>5, <2>2 DEF Invalidate, ListSet, Fail
    <3>2. k \in missed \/ \E q \in Procs : req[q].at = "invalidate" /\ req[q].kind = k
      BY <1>6, <3>1 DEF StaleInv, StaleIsExplained
    <3> QED BY <1>1, <1>2, <2>2, <3>1, <3>2 DEF Others
  <2> QED BY <2>1, <2>2
<1>7. StaleIsExplained'
  BY <1>4, <1>6 DEF StaleIsExplained
<1> QED BY <1>3, <1>7 DEF StaleInv

LEMMA NextStale == CatalogInv /\ StaleInv /\ [Next]_vars => StaleInv'
<1> SUFFICES ASSUME CatalogInv, StaleInv, [Next]_vars PROVE StaleInv'
  OBVIOUS
<1>1. ASSUME NEW p \in Procs, Arrive(p) \/ Advance(p) \/ Fail(p) PROVE StaleInv'
  BY <1>1, ReadsStale, WritesStale, ListsStale DEF Advance
<1>2. ASSUME NEW c \in Listed, Expire(c) PROVE StaleInv'
  <2>1. \A k \in Listed : Present(k)' = Present(k)
    BY <1>2, PresentIs DEF Expire, rows
  <2>2. list \in [ Listed -> Lists ] /\ Nothing.here = FALSE
    BY DEF CatalogInv, TypeOK, Nothing
  <2>3. ASSUME NEW k \in Listed, list'[k].here, list'[k] # Present(k)
        PROVE  k \in missed' \/ \E q \in Procs : req'[q].at = "invalidate" /\ req'[q].kind = k
    <3>1. k # c /\ list'[k] = list[k] /\ req' = req /\ (k \in missed => k \in missed')
      BY <1>2, <2>2, <2>3 DEF Expire
    <3> QED BY <2>3, <3>1 DEF StaleInv, StaleIsExplained
  <2>4. req' = req
    BY <1>2 DEF Expire
  <2> QED BY <2>1, <2>3, <2>4 DEF StaleInv, StaleIsExplained, OfItsKind
<1>3. CASE UNCHANGED vars
  <2>1. UNCHANGED <<slug, article, active, titles, list, req, missed>>
    BY <1>3 DEF vars, rows
  <2>2. \A k \in Listed : Present(k)' = Present(k)
    BY <2>1, PresentIs
  <2> QED BY <2>1, <2>2 DEF StaleInv, StaleIsExplained, OfItsKind
<1>4. ASSUME NEW u \in Users, DeleteUser(u) PROVE StaleInv'
  <2>1. UNCHANGED <<slug, article, active, titles, list, req, missed>>
    BY <1>4 DEF DeleteUser
  <2>2. \A k \in Listed : Present(k)' = Present(k)
    BY <2>1, PresentIs
  <2> QED BY <2>1, <2>2 DEF StaleInv, StaleIsExplained, OfItsKind
<1> QED BY <1>1, <1>2, <1>3, <1>4 DEF Next

LEMMA ListsStayExplained == Spec => []StaleInv
<1>1. Init => StaleInv
  <2> SUFFICES ASSUME Init PROVE StaleInv
    OBVIOUS
  <2>1. req = [ p \in Procs |-> Idle ] /\ list = [ k \in Listed |-> Nothing ]
    BY DEF Init
  <2> QED BY <2>1 DEF StaleInv, StaleIsExplained, OfItsKind, Idle, Nothing
<1> QED BY <1>1, NextStale, CatalogInvariant, PTL DEF Spec

\* A list is out of date only while a write is about to delete it, or when an
\* overtaken read stored it, its deletion failed, or an article was written
\* that the categories are listed with.
THEOREM StaleListsAreExplained == Spec => []StaleIsExplained
<1>1. StaleInv => StaleIsExplained
  BY DEF StaleInv
<1> QED BY <1>1, ListsStayExplained, PTL

-----------------------------------------------------------------------------
(* The lists implement CacheAside.                                         *)

Carries(r) == r.at \in { "listParts", "listSet" }
Carried(p) == <<req[p].kind, Seen(req[p].kind, req[p].list)>>

LEMMA FoundAre ==
    /\ \A r : r \in Found <=> \E p \in Procs : Carries(req[p]) /\ r = Carried(p)
    /\ \A r : r \in Found' <=> \E p \in Procs : Carries(req'[p]) /\ r = Carried(p)'
  BY DEF Found, Carried, Carries

\* A step of one request adds what it has found, takes what it stored or gave
\* up, or leaves what was found as it is.
LEMMA FoundMove ==
    ASSUME NEW p \in Procs, Others(p)
    PROVE  /\ ~Carries(req[p]) /\ ~Carries(req'[p]) => Found' = Found
           /\ Carries(req[p]) /\ Carries(req'[p]) /\ Carried(p)' = Carried(p) => Found' = Found
           /\ ~Carries(req[p]) /\ Carries(req'[p]) => Found' = Found \cup {Carried(p)'}
           /\ Carries(req[p]) /\ ~Carries(req'[p]) =>
                Carried(p) \in Found /\ Found' \in { Found, Found \ {Carried(p)} }
<1>1. \A q \in Procs \ {p} : (Carries(req'[q]) <=> Carries(req[q])) /\ Carried(q)' = Carried(q)
  BY DEF Carried, Seen, Others
<1>2. ASSUME \/ ~Carries(req[p]) /\ ~Carries(req'[p])
             \/ Carries(req[p]) /\ Carries(req'[p]) /\ Carried(p)' = Carried(p)
      PROVE  Found' = Found
  <2>1. \A r : r \in Found' <=> r \in Found
    BY <1>1, <1>2, FoundAre
  <2> QED BY <2>1
<1>3. ASSUME ~Carries(req[p]), Carries(req'[p]) PROVE Found' = Found \cup {Carried(p)'}
  <2>1. \A r : r \in Found' <=> r \in Found \cup {Carried(p)'}
    BY <1>1, <1>3, FoundAre
  <2> QED BY <2>1
<1>4. ASSUME Carries(req[p]), ~Carries(req'[p])
      PROVE  Carried(p) \in Found /\ Found' \in { Found, Found \ {Carried(p)} }
  <2>1. Carried(p) \in Found
    BY <1>4, FoundAre
  <2>2. \A r : r # Carried(p) => (r \in Found' <=> r \in Found)
    BY <1>1, <1>4, FoundAre
  <2>3. CASE Carried(p) \in Found'
    <3>1. Found' = Found
      BY <2>1, <2>2, <2>3
    <3> QED BY <2>1, <3>1
  <2>4. CASE Carried(p) \notin Found'
    <3>1. Found' = Found \ {Carried(p)}
      BY <2>2, <2>4
    <3> QED BY <2>1, <3>1
  <2> QED BY <2>3, <2>4
<1> QED BY <1>2, <1>3, <1>4

\* What is seen of a list is a list.
LEMMA SeenType ==
    /\ \A k \in Listed, l \in Lists : Seen(k, l) \in Lists
    /\ \A k \in Listed, l \in Lists : l.here => Seen(k, l).here
<1>1. Nothing \in Lists /\ Nothing.with \in [ Ids -> Nat ]
  BY NothingType DEF Nothing
<1>2. \A l \in Lists : /\ [l EXCEPT !.with = Nothing.with] \in Lists
                       /\ [l EXCEPT !.with = Nothing.with].here = l.here
  BY <1>1 DEF Lists
<1> HIDE DEF Nothing
<1> QED BY <1>1, <1>2 DEF Seen

LEMMA PresentType == ASSUME TypeOK PROVE \A k \in Listed : Present(k) \in Lists /\ Present(k).here
<1>1. CategoryRows.here /\ PlanRows.here
  BY DEF CategoryRows, PlanRows
<1>2. \A l \in Lists : WithTitles(l).here = l.here
  BY DEF WithTitles, Lists
<1> QED BY <1>1, <1>2, ListsType DEF Present

NowShows == Now \in Promise!Shows

LEMMA NowType == (TypeOK => NowShows) /\ (TypeOK' => NowShows')
<1>1. TypeOK => NowShows
  <2> SUFFICES ASSUME TypeOK PROVE Now \in Promise!Shows
    BY DEF NowShows
  <2>1. \A k \in Listed : Seen(k, Present(k)) \in Lists
    BY PresentType, SeenType
  <2> QED BY <2>1 DEF Now, Promise!Shows
<1>2. TypeOK' => NowShows'
  BY <1>1, PTL
<1> QED BY <1>1, <1>2

\* What is kept, and what shows it, list by list.
LEMMA KeptAre ==
    /\ Kept = [ k \in Listed |-> Kept[k] ] /\ Kept' = [ k \in Listed |-> Kept'[k] ]
    /\ \A k \in Listed : /\ Kept[k] = Seen(k, list[k]) /\ Kept'[k] = Seen(k, list'[k])
                         /\ Now[k] = Seen(k, Present(k))
  BY DEF Kept, Now, Seen

\* A step of a request that carries nothing and leaves the lists alone, be it
\* a write or not.
LEMMA WritesChange ==
    ASSUME TypeOK', NEW p \in Procs, Others(p), list' = list,
           ~Carries(req[p]), ~Carries(req'[p])
    PROVE  Promise!Change
<1>1. Found' = Found
  BY FoundMove
<1>2. Kept' = Kept
  BY DEF Kept, Seen
<1>3. Now' \in Promise!Shows
  BY NowType DEF NowShows
<1> QED BY <1>1, <1>2, <1>3 DEF Promise!Change

Stutters == UNCHANGED <<Now, Kept, Found>>

LEMMA RowsShow == ASSUME UNCHANGED rows PROVE Now' = Now
<1>1. \A k \in Listed : Present(k)' = Present(k)
  BY PresentIs DEF rows
<1> QED BY <1>1 DEF Now, Seen

LEMMA ListFindImplements ==
    ASSUME CatalogInv, NEW p \in Procs, ListFind(p)
    PROVE  \E k \in Listed : Promise!Read(k)
<1>1. PICK k \in Listed : k = req[p].kind
  BY DEF CatalogInv, RequestsFit, Fits, ListFind
<1>2. PICK l, to : /\ l = (IF k = "plan" THEN PlanRows ELSE CategoryRows)
                   /\ to = (IF k = "plan" THEN "listParts" ELSE "listSet")
  OBVIOUS
<1>3. TypeOK /\ req[p] \in Request /\ l \in Lists /\ to \in Places /\ to \in { "listParts", "listSet" }
  BY <1>2, ListsType DEF CatalogInv, TypeOK, Request, Places
<1>4. req' = [req EXCEPT ![p] = Reads(req[p], to, l)]
  BY <1>1, <1>2, <1>3 DEF ListFind, Reads, TypeOK
<1>5. /\ Reads(req[p], to, l) \in Request /\ Reads(req[p], to, l).at = to
      /\ Reads(req[p], to, l).kind = k /\ Reads(req[p], to, l).list = l
  BY <1>1, <1>3, StepTypes DEF Reads, Request
<1>6. Others(p) /\ req'[p].at = to /\ req'[p].kind = k /\ req'[p].list = l
  BY <1>3, <1>4, <1>5 DEF TypeOK, Others, Request
<1>7. Found' = Found \cup {<<k, Seen(k, l)>>}
  <2>1. ~Carries(req[p]) /\ Carries(req'[p])
    BY <1>3, <1>6 DEF ListFind, Carries
  <2>2. Carried(p)' = <<k, Seen(k, l)>>
    BY <1>6 DEF Carried, Seen
  <2> QED BY <1>6, <2>1, <2>2, FoundMove
<1>8. Seen(k, l) = Now[k]
  <2>1. CASE k = "category"
    BY <1>1, <1>2, <2>1, KeptAre DEF Present
  <2>2. CASE k = "plan"
    <3>1. l = PlanRows /\ Now[k] = Seen(k, WithTitles(l))
      BY <1>1, <1>2, <2>2, KeptAre DEF Present
    <3>2. /\ WithTitles(l).here = l.here
          /\ [WithTitles(l) EXCEPT !.with = Nothing.with] = [l EXCEPT !.with = Nothing.with]
      BY <1>3 DEF WithTitles, Lists
    <3> QED BY <2>2, <3>1, <3>2 DEF Seen
  <2> QED BY <1>1, <2>1, <2>2 DEF Listed
<1>9. Now[k] # Nothing
  <2>1. Now[k].here
    BY <1>3, PresentType, SeenType, KeptAre
  <2> QED BY <2>1 DEF Nothing
<1>10. UNCHANGED <<Now, Kept>>
  <2>1. UNCHANGED rows /\ list' = list
    BY DEF ListFind
  <2> QED BY <2>1, RowsShow DEF Kept, Seen
<1> QED BY <1>1, <1>7, <1>8, <1>9, <1>10 DEF Promise!Read

\* The texts change nothing in what is seen.
LEMMA ListPartsImplements ==
    ASSUME CatalogInv, StaleInv, NEW p \in Procs, ListParts(p)
    PROVE  Stutters
<1>1. PICK k, l : k = req[p].kind /\ l = WithTitles(req[p].list)
  OBVIOUS
<1>2. TypeOK /\ req[p] \in Request /\ req[p].list \in Lists /\ l \in Lists /\ "listSet" \in Places
  BY <1>1, ListsType DEF CatalogInv, TypeOK, Request, Places
<1>3. req' = [req EXCEPT ![p] = Reads(req[p], "listSet", l)]
  BY <1>1, <1>2 DEF ListParts, Reads, TypeOK
<1>4. /\ Reads(req[p], "listSet", l) \in Request /\ Reads(req[p], "listSet", l).at = "listSet"
      /\ Reads(req[p], "listSet", l).kind = k /\ Reads(req[p], "listSet", l).list = l
  BY <1>1, <1>2, StepTypes DEF Reads, Request
<1>5. Others(p) /\ req'[p].at = "listSet" /\ req'[p].kind = k /\ req'[p].list = l
  BY <1>2, <1>3, <1>4 DEF TypeOK, Others, Request
<1>6. k = "plan"
  BY <1>1 DEF ListParts, StaleInv, OfItsKind
<1>7. Seen(k, l) = Seen(k, req[p].list)
  <2>1. /\ l.here = req[p].list.here
        /\ [l EXCEPT !.with = Nothing.with] = [req[p].list EXCEPT !.with = Nothing.with]
    BY <1>1, <1>2 DEF WithTitles, Lists
  <2> QED BY <1>6, <2>1 DEF Seen
<1>8. Found' = Found
  <2>1. Carried(p)' = Carried(p)
    BY <1>1, <1>5, <1>7 DEF Carried, Seen
  <2>2. Carries(req[p]) /\ Carries(req'[p])
    BY <1>5 DEF ListParts, Carries
  <2> QED BY <1>5, <2>1, <2>2, FoundMove
<1>9. UNCHANGED <<Now, Kept>>
  <2>1. UNCHANGED rows /\ list' = list
    BY DEF ListParts
  <2> QED BY <2>1, RowsShow DEF Kept, Seen
<1> QED BY <1>8, <1>9 DEF Stutters

LEMMA ListSetImplements ==
    ASSUME CatalogInv, NEW p \in Procs, ListSet(p)
    PROVE  \E r \in Found : Promise!Store(r)
<1>1. PICK k \in Listed : k = req[p].kind
  BY DEF CatalogInv, RequestsFit, Fits, ListSet
<1>2. PICK l \in Lists : l = req[p].list
  BY DEF CatalogInv, TypeOK
<1>3. /\ req[p].at = "listSet" /\ UNCHANGED rows /\ Answer(p)
      /\ list' = [list EXCEPT ![k] = l] /\ list \in [ Listed -> Lists ]
  BY <1>1, <1>2 DEF ListSet, CatalogInv, TypeOK
<1>4. Others(p) /\ req'[p].at = "idle"
  BY <1>3, AnswerMoves DEF CatalogInv
<1>5. Carried(p) \in Found /\ Found' \in { Found, Found \ {Carried(p)} }
  BY <1>3, <1>4, FoundMove DEF Carries
<1>6. Carried(p)[1] = k /\ Carried(p)[2] = Seen(k, l)
  BY <1>1, <1>2 DEF Carried
<1>7. Kept' = [Kept EXCEPT ![k] = Seen(k, l)]
  <2>1. Kept'[k] = Seen(k, l) /\ \A j \in Listed \ {k} : Kept'[j] = Kept[j]
    BY <1>1, <1>3, KeptAre
  <2> QED BY <1>1, <2>1, KeptAre
<1>8. Now' = Now
  BY <1>3, RowsShow
<1> QED BY <1>5, <1>6, <1>7, <1>8 DEF Promise!Store

\* A list is deleted, or runs out.
LEMMA DropImplements ==
    ASSUME NEW k \in Listed, list \in [ Listed -> Lists ], list' = [list EXCEPT ![k] = Nothing],
           UNCHANGED rows, Found' = Found
    PROVE  \E S \in SUBSET Listed : Promise!Drop(S)
<1>1. Seen(k, Nothing) = Nothing
  BY DEF Seen, Nothing
<1>2. \A j \in Listed : Kept'[j] = IF j \in {k} THEN Nothing ELSE Kept[j]
  BY <1>1, KeptAre
<1>3. Kept' = [ j \in Listed |-> IF j \in {k} THEN Nothing ELSE Kept[j] ]
  BY <1>2, KeptAre
<1>4. Promise!Drop({k})
  BY <1>3, RowsShow DEF Promise!Drop
<1> QED BY <1>4

LEMMA EndsImplement ==
    ASSUME TypeOK, NEW p \in Procs, Fail(p)
    PROVE  Stutters \/ \E r \in Found : Promise!Forget(r)
<1>1. Others(p) /\ req'[p].at = "idle"
  BY AnswerMoves DEF Fail
<1>2. UNCHANGED <<Now, Kept>>
  <2>1. UNCHANGED rows /\ list' = list
    BY DEF Fail
  <2> QED BY <2>1, RowsShow DEF Kept, Seen
<1>3. ~Carries(req'[p])
  BY <1>1 DEF Carries
<1>4. CASE ~Carries(req[p])
  BY <1>1, <1>2, <1>3, <1>4, FoundMove DEF Stutters
<1>5. CASE Carries(req[p])
  <2>1. Carried(p) \in Found /\ Found' \in { Found, Found \ {Carried(p)} }
    BY <1>1, <1>3, <1>5, FoundMove
  <2> QED BY <1>2, <2>1 DEF Stutters, Promise!Forget
<1> QED BY <1>4, <1>5

\* A handler's own steps, and those that only look.
LEMMA HandlersImplement ==
    ASSUME CatalogInv, TypeOK', NEW p \in Procs,
           \/ Arrive(p) \/ Insert(p) \/ Taken(p) \/ Wipe(p) \/ Wiped(p) \/ Rename(p)
           \/ Count(p) \/ Delete(p) \/ Assign(p) \/ Upsert(p)
    PROVE  Promise!Change
<1>t. TypeOK
  BY DEF CatalogInv
<1>1. /\ list' = list /\ ~Carries(req[p]) /\ ~Carries(req'[p]) /\ Others(p)
  <2>1. CASE Arrive(p)
    <3>1. PICK r : Quiet /\ Begin(p, r) /\ Starts(r)
      BY <1>t, <2>1, ArriveStarts
    <3>2. Others(p) /\ req[p].at = "idle" /\ req'[p] = r
      BY <1>t, <3>1, BeginMoves DEF Starts
    <3> QED BY <3>1, <3>2 DEF Quiet, Starts, Carries
  <2>2. CASE Insert(p) \/ Rename(p) \/ Delete(p) \/ Upsert(p)
    <3>1. /\ Written(p) /\ list' = list
          /\ req[p].at \in { "insert", "rename", "delete", "upsert" }
      BY <2>2 DEF Insert, Rename, Delete, Upsert
    <3> QED BY <1>t, <3>1, WrittenMoves DEF Carries
  <2>3. CASE Taken(p) \/ Wipe(p) \/ Wiped(p) \/ Count(p) \/ Assign(p)
    <3>1. /\ list' = list /\ req[p].at \in { "taken", "wipe", "wiped", "count", "assign" }
          /\ Answer(p) \/ \E to \in { "wipe", "wiped", "rename", "delete" } : Goto(p, to)
      BY <2>3 DEF Taken, Wipe, Wiped, Count, Assign
    <3>2. { "wipe", "wiped", "rename", "delete" } \subseteq Places
      BY DEF Places
    <3> QED BY <1>t, <3>1, <3>2, AnswerMoves, GotoMoves DEF Carries
  <2> QED BY <2>1, <2>2, <2>3
<1> QED BY <1>1, WritesChange

LEMMA InitImplements == Init => Promise!Init
<1> SUFFICES ASSUME Init PROVE Promise!Init
  OBVIOUS
<1>1. TypeOK /\ req = [ p \in Procs |-> Idle ] /\ list = [ k \in Listed |-> Nothing ]
  BY InitInv DEF Init, CatalogInv
<1>2. Now \in Promise!Shows
  BY <1>1, NowType DEF NowShows
<1>3. Found = {}
  BY <1>1, FoundAre DEF Carries, Idle
<1>4. \A k \in Listed : Kept[k] = Nothing
  BY <1>1, KeptAre DEF Seen, Nothing
<1>5. Kept \in Promise!Shows
  BY <1>4, KeptAre DEF Promise!Shows
<1> QED BY <1>2, <1>3, <1>4, <1>5 DEF Promise!Init

\* A list that is kept was the list at some moment, whatever was written while
\* it was found and stored: every step of Catalog is one that CacheAside
\* allows, or none at all.
THEOREM ListsImplementCacheAside == Spec => OnlyWhatWasFound
<1>1. CatalogInv /\ StaleInv /\ CatalogInv' /\ [Next]_vars => [Promise!Next]_<<Now, Kept, Found>>
  <2> SUFFICES ASSUME CatalogInv, StaleInv, CatalogInv', [Next]_vars
               PROVE  Promise!Next \/ Stutters
    BY DEF Stutters
  <2>t. TypeOK /\ TypeOK'
    BY DEF CatalogInv
  <2>1. CASE UNCHANGED vars
    <3>1. UNCHANGED rows /\ UNCHANGED <<list, req>>
      BY <2>1 DEF vars
    <3> QED BY <3>1, RowsShow DEF Stutters, Kept, Found, Seen
  <2>2. ASSUME NEW p \in Procs, Arrive(p) \/ Advance(p) \/ Fail(p) PROVE Promise!Next \/ Stutters
    <3>1. CASE Invalidate(p)
      <4>1. /\ req[p].at = "invalidate" /\ UNCHANGED rows /\ Answer(p)
            /\ list' = [list EXCEPT ![req[p].kind] = Nothing]
        BY <3>1 DEF Invalidate
      <4>2. Others(p) /\ req'[p].at = "idle"
        BY <2>t, <4>1, AnswerMoves
      <4>3. Found' = Found
        BY <4>1, <4>2, FoundMove DEF Carries
      <4>4. req[p].kind \in Listed /\ list \in [ Listed -> Lists ]
        BY <4>1 DEF CatalogInv, RequestsFit, Fits, TypeOK
      <4> QED BY <4>1, <4>3, <4>4, DropImplements DEF Promise!Next
    <3>2. CASE ListFind(p)
      BY <3>2, ListFindImplements DEF Promise!Next
    <3>3. CASE ListParts(p)
      BY <3>3, ListPartsImplements
    <3>4. CASE ListSet(p)
      BY <3>4, ListSetImplements DEF Promise!Next
    <3>5. CASE Fail(p)
      BY <2>t, <3>5, EndsImplement DEF Promise!Next
    <3>6. CASE \/ Arrive(p) \/ Insert(p) \/ Taken(p) \/ Wipe(p) \/ Wiped(p) \/ Rename(p)
               \/ Count(p) \/ Delete(p) \/ Assign(p) \/ Upsert(p)
      BY <2>t, <3>6, HandlersImplement DEF Promise!Next
    <3> QED BY <2>2, <3>1, <3>2, <3>3, <3>4, <3>5, <3>6 DEF Advance
  <2>3. ASSUME NEW k \in Listed, Expire(k) PROVE Promise!Next
    <3>1. /\ list' = [list EXCEPT ![k] = Nothing] /\ UNCHANGED rows /\ req' = req
          /\ list \in [ Listed -> Lists ]
      BY <2>3 DEF Expire, CatalogInv, TypeOK
    <3>2. Found' = Found
      BY <3>1 DEF Found, Seen
    <3> QED BY <3>1, <3>2, DropImplements DEF Promise!Next
  <2>4. ASSUME NEW u \in Users, DeleteUser(u) PROVE Stutters
    <3>1. UNCHANGED <<slug, article, active, titles, list, req>>
      BY <2>4 DEF DeleteUser
    <3>2. \A k \in Listed : Present(k)' = Present(k)
      BY <3>1, PresentIs
    <3> QED BY <3>1, <3>2 DEF Stutters, Now, Kept, Found, Seen
  <2> QED BY <2>1, <2>2, <2>3, <2>4 DEF Next
<1> QED BY <1>1, InitImplements, CatalogInvariant, ListsStayExplained, PTL
        DEF Spec, OnlyWhatWasFound, Promise!Spec

==============================================================================
