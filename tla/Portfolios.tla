----------------------------- MODULE Portfolios -----------------------------
(***************************************************************************)
(* Portfolios, the plans that open them, and the entries Redis keeps of    *)
(* the latest portfolio of each plan, one for each level of the reader and *)
(* one for editors and admins.                                             *)
(*                                                                         *)
(* Each await is a step.  Prisma reads a row and the rows that hang on it  *)
(* by separate statements, outside any transaction.  An update replaces    *)
(* those of the four lists (stocks, information, reasons, signals) that    *)
(* its dto names, inside one transaction at READ COMMITTED: a deleteMany   *)
(* sees the rows of its list that are committed when it starts, and waits  *)
(* for those another transaction has deleted.  What one request inserts    *)
(* into one list is a batch.                                               *)
(***************************************************************************)
EXTENDS Naturals, FiniteSets

CONSTANTS
    Procs,      \* requests being served at the same time
    Plans,      \* slugs of plans
    MaxLevel,   \* the highest level of a plan; a user without a plan has 0
    Readers,    \* the keys that are asked for
    MaxFolios,  \* bound on the number of portfolios
    MaxDate,    \* publication dates are 0 .. MaxDate
    MaxUpdates, \* bound on the number of updates
    MaxLists,   \* the lists of nested rows, in the order of update
    MaxIds,     \* bound on the rows a slug of a plan ever has
    Asked,      \* the changes that updates ask for
    NoPlan, NoFolio, NoDate

Levels  == 0 .. MaxLevel
Admin   == MaxLevel + 1   \* portfolio:<slug>:level:admin
Dates   == 0 .. MaxDate
Folios  == 1 .. MaxFolios
Batches == 0 .. MaxUpdates
Lists   == 1 .. MaxLists
Parts   == [ Lists -> SUBSET Batches ]
NoParts == [ l \in Lists |-> {} ]
Keys    == Plans \X (Levels \cup {Admin})

\* What an update asks for.  The dto leaves out what it likes: the plan to move
\* to, the date, and each of the lists, which may also be empty.
Changes == [ plan : Plans \cup {NoPlan}, date : Dates \cup {NoDate},
             parts : [ Lists -> { "keep", "empty", "rows" } ] ]

ASSUME PortfoliosAssumption ==
    /\ MaxLevel \in Nat /\ MaxDate \in Nat /\ MaxUpdates \in Nat /\ MaxFolios \in Nat
    /\ MaxLists \in Nat \ {0} /\ MaxIds \in Nat \ {0}
    /\ Readers \subseteq Keys
    /\ Asked \subseteq Changes
    /\ NoPlan \notin Plans /\ NoFolio \notin Folios /\ NoDate \notin Dates

VARIABLES
    plan,       \* Plan rows: does it exist, its level, its primary key (of one
                \*   that is gone: the last the slug had)
    folio,      \* Portfolio rows: the plan (NoPlan: no row), publishedAt, the
                \*   version of the row, and the batches of its lists
    used,       \* the last primary key that was given out
    updates,    \* updates begun so far; the number of one names its version
    cache,      \* the entries
    req,        \* where each request is and what it has read
    \* History, read by no step.
    missed,     \* keys stored by a request that was overtaken by a write, or
                \*   left by an invalidation that failed or was never made
    overlapped, \* lists of portfolios that two updates replaced at a time
    raised      \* plans whose level has changed

portfolios == <<folio, used, updates, overlapped>>
entries    == <<cache, missed>>
vars       == <<plan, portfolios, entries, req, raised>>

NoRow   == [ plan |-> NoPlan, date |-> 0, head |-> 0, parts |-> NoParts ]
NoEntry == [ folio |-> NoFolio, head |-> 0, parts |-> NoParts, level |-> 0 ]

Ids      == 0 .. MaxIds
PlanRows == [ live : BOOLEAN, level : Levels, id : Ids ]
Rows     == [ plan : Plans \cup {NoPlan}, date : Dates, head : Batches, parts : Parts ]
Entries  == [ folio : Folios \cup {NoFolio}, head : Batches, parts : Parts, level : Levels ]

Places  == { "idle", "findPlan", "findFolio", "findParts", "findLevel", "set",
             "wipe", "wiped", "replace", "invalidate", "scan" }

\* A request: its key and the entry it makes, or its portfolio and the change;
\* the plan row it was told of, the lists it still has to read or to delete,
\* the nested rows a deleteMany chose and those that were deleted, the keys
\* still to remove.
NoChange == [ plan |-> NoPlan, date |-> NoDate, parts |-> [ l \in Lists |-> "keep" ] ]
Idle == [ at |-> "idle", key |-> <<NoPlan, 0>>, of |-> 0, entry |-> NoEntry,
          folio |-> NoFolio, change |-> NoChange, n |-> 0, left |-> {}, seen |-> {},
          held |-> NoParts, todo |-> {} ]

Requests == [ at : Places, key : Keys \cup {<<NoPlan, 0>>}, of : Ids, entry : Entries,
              folio : Folios \cup {NoFolio}, change : Changes, n : Batches,
              left : SUBSET Lists, seen : SUBSET Batches, held : Parts, todo : SUBSET Keys ]

TypeOK ==
    /\ plan \in [ Plans -> PlanRows ]
    /\ folio \in [ Folios -> Rows ]
    /\ used \in 0 .. MaxFolios
    /\ updates \in 0 .. MaxUpdates
    /\ cache \in [ Keys -> Entries ]
    /\ req \in [ Procs -> Requests ]
    /\ missed \subseteq Keys
    /\ overlapped \subseteq Folios \X Lists
    /\ raised \subseteq Plans

Live(f)    == folio[f].plan # NoPlan
Present(k) == cache[k] # NoEntry

\* The rows that findFirst with orderBy publishedAt may return.
Latest(s) ==
    { f \in Folios : folio[f].plan = s /\
        \A g \in Folios : folio[g].plan = s => folio[g].date <= folio[f].date }

\* The entry shows a latest portfolio, its nested rows and its plan as they are.
Fresh(s, e) ==
    /\ e.folio \in Latest(s)
    /\ e.head = folio[e.folio].head /\ e.parts = folio[e.folio].parts
    /\ e.level = plan[s].level
Stale(k) == Present(k) /\ ~Fresh(k[1], cache[k])

Opens(k, level) == k[2] = Admin \/ level <= k[2]

\* A database with some of the plans, at any level, and no portfolio yet.
Init ==
    /\ plan \in [ Plans -> { r \in PlanRows : IF r.live THEN r.id = 1 ELSE r.level = 0 /\ r.id = 0 } ]
    /\ folio = [ f \in Folios |-> NoRow ]
    /\ used = 0 /\ updates = 0
    /\ cache = [ k \in Keys |-> NoEntry ]
    /\ req = [ p \in Procs |-> Idle ]
    /\ missed = {} /\ overlapped = {} /\ raised = {}

Begin(p, r) == req[p].at = "idle" /\ req' = [req EXCEPT ![p] = r]
Answer(p)   == req' = [req EXCEPT ![p] = Idle]

-----------------------------------------------------------------------------
(* findLatestByPlan.                                                       *)

\* GET; a hit is answered at once.
Get(p, k) ==
    /\ ~Present(k)
    /\ Begin(p, [Idle EXCEPT !.at = "findPlan", !.key = k])
    /\ UNCHANGED <<plan, portfolios, entries, raised>>

\* Slip: the level is compared after the entry is stored.
FindPlan_CachesFirst(p) ==
    LET s == req[p].key[1] IN
    /\ req[p].at = "findPlan"
    /\ IF plan[s].live
         THEN req' = [req EXCEPT ![p].at = "findFolio", ![p].of = plan[s].id]
         ELSE Answer(p)
    /\ UNCHANGED <<plan, portfolios, entries, raised>>

\* The plan's row, and the check of the reader's level.
FindPlan(p) ==
    LET s == req[p].key[1] IN
    /\ req[p].at = "findPlan"
    /\ IF plan[s].live /\ Opens(req[p].key, plan[s].level)
         THEN req' = [req EXCEPT ![p].at = "findFolio", ![p].of = plan[s].id]
         ELSE Answer(p)
    /\ UNCHANGED <<plan, portfolios, entries, raised>>

\* Does the slug still have the plan row that was found?
Stands(s, id) == plan[s].live /\ plan[s].id = id

\* The row of the latest portfolio of the plan row.
FindFolio(p) ==
    LET s == req[p].key[1] IN
    /\ req[p].at = "findFolio"
    /\ \/ ~Stands(s, req[p].of) /\ Answer(p)
       \/ Latest(s) = {} /\ Answer(p)
       \/ \E f \in Latest(s) :
            /\ Stands(s, req[p].of)
            /\ req' = [req EXCEPT ![p].at = "findParts", ![p].left = Lists,
                                  ![p].entry.folio = f, ![p].entry.head = folio[f].head]
    /\ UNCHANGED <<plan, portfolios, entries, raised>>

\* The lists are read, and deleted, one after the other.
First(r, l) == l \in r.left /\ \A m \in r.left : l <= m

\* Each of the lists that hang on it, by a statement of its own.
FindParts(p) ==
    LET f == req[p].entry.folio IN
    /\ req[p].at = "findParts"
    /\ \E l \in Lists :
         /\ First(req[p], l)
         /\ req' = [req EXCEPT ![p].at = IF req[p].left = {l} THEN "findLevel" ELSE @,
                               ![p].entry.parts[l] = folio[f].parts[l],
                               ![p].left = @ \ {l}]
    /\ UNCHANGED <<plan, portfolios, entries, raised>>

\* And its plan, by another; a portfolio whose plan is gone is an error.
FindLevel(p) ==
    LET s == req[p].key[1] IN
    /\ req[p].at = "findLevel"
    /\ IF Stands(s, req[p].of)
         THEN req' = [req EXCEPT ![p].at = "set", ![p].entry.level = plan[s].level]
         ELSE Answer(p)
    /\ UNCHANGED <<plan, portfolios, entries, raised>>

\* SET with EX 3600.
Set(p) ==
    LET k == req[p].key
        e == req[p].entry
    IN
    /\ req[p].at = "set"
    /\ cache' = [cache EXCEPT ![k] = e]
    /\ missed' = IF Fresh(k[1], e) THEN missed \ {k} ELSE missed \cup {k}
    /\ Answer(p)
    /\ UNCHANGED <<plan, portfolios, raised>>

\* An entry runs out.
Expire(k) ==
    /\ Present(k)
    /\ cache' = [cache EXCEPT ![k] = NoEntry]
    /\ missed' = missed \ {k}
    /\ req' = [ p \in Procs |-> [req[p] EXCEPT !.todo = @ \ {k}] ]
    /\ UNCHANGED <<plan, portfolios, raised>>

-----------------------------------------------------------------------------
(* create, update and remove.                                              *)

\* A row with its nested rows, in one statement.  (One with an empty list is
\* what an update leaves.)
Insert(s, date) ==
    /\ used < MaxFolios
    /\ used' = used + 1
    /\ folio' = [folio EXCEPT ![used + 1] = [ plan |-> s, date |-> date, head |-> 0,
                                    parts |-> [ l \in Lists |-> {0} ] ]]

\* The plan is looked up by its id first; the foreign key would refuse too.
Create(p, s, date) ==
    /\ plan[s].live
    /\ Begin(p, [Idle EXCEPT !.at = "invalidate"])
    /\ Insert(s, date)
    /\ UNCHANGED <<plan, updates, overlapped, entries, raised>>

Updating(f) == { p \in Procs : req[p].folio = f /\
                   req[p].at \in { "wipe", "wiped", "replace" } }

Replaces(r, l) == r.change.parts[l] # "keep"

\* Those whose deleteMany has chosen its rows of the list.
Replacing(f, l) ==
    { p \in Updating(f) : /\ Replaces(req[p], l)
                          /\ l \notin req[p].left \/ (req[p].at = "wiped" /\ First(req[p], l)) }

\* The lookup before the transaction.
Update(p, f, change) ==
    LET todo == { l \in Lists : change.parts[l] # "keep" } IN
    /\ Live(f)
    /\ updates < MaxUpdates
    /\ updates' = updates + 1
    /\ Begin(p, [Idle EXCEPT !.at = IF todo = {} THEN "replace" ELSE "wipe",
                             !.of = IF change.plan = NoPlan THEN 0 ELSE plan[change.plan].id,
                             !.folio = f, !.change = change, !.n = updates', !.left = todo])
    /\ UNCHANGED <<plan, folio, used, overlapped, entries, raised>>

\* deleteMany starts, with the rows of the list that it sees ...
Wipe(p) ==
    LET f == req[p].folio IN
    /\ req[p].at = "wipe"
    /\ \E l \in Lists :
         /\ First(req[p], l)
         /\ req' = [req EXCEPT ![p].at = "wiped", ![p].seen = folio[f].parts[l]]
    /\ UNCHANGED <<plan, portfolios, entries, raised>>

HeldByOthers(p, l) ==
    UNION { req[q].held[l] : q \in { q \in Procs \ {p} : req[q].folio = req[p].folio } }

\* ... and deletes those that are still there, once none of them is held.
Wiped(p) ==
    LET f == req[p].folio IN
    /\ req[p].at = "wiped"
    /\ \E l \in Lists :
         /\ First(req[p], l)
         /\ req[p].seen \cap HeldByOthers(p, l) = {}
         /\ req' = [req EXCEPT ![p].at = IF req[p].left = {l} THEN "replace" ELSE "wipe",
                               ![p].held[l] = req[p].seen \cap folio[f].parts[l],
                               ![p].left = @ \ {l}, ![p].seen = {}]
    /\ UNCHANGED <<plan, portfolios, entries, raised>>

\* Slip: the old nested rows are not deleted.
Rewritten_Appends(r, row) ==
    [ plan  |-> IF r.change.plan = NoPlan THEN row.plan ELSE r.change.plan,
      date  |-> IF r.change.date = NoDate THEN row.date ELSE r.change.date,
      head  |-> r.n,
      parts |-> [ l \in Lists |-> row.parts[l]
                                  \cup (IF r.change.parts[l] = "rows" THEN {r.n} ELSE {}) ] ]

\* What becomes of the row and its lists: those the dto leaves out stay.
Rewritten(r, row) ==
    [ plan  |-> IF r.change.plan = NoPlan THEN row.plan ELSE r.change.plan,
      date  |-> IF r.change.date = NoDate THEN row.date ELSE r.change.date,
      head  |-> r.n,
      parts |-> [ l \in Lists |-> (row.parts[l] \ r.held[l])
                                  \cup (IF r.change.parts[l] = "rows" THEN {r.n} ELSE {}) ] ]

\* portfolio.update with the new nested rows, and the commit.  The row must be
\* there; that the plan is, is left to the foreign key.
Replace(p) ==
    LET f == req[p].folio
        c == req[p].change
    IN
    /\ req[p].at = "replace"
    /\ IF Live(f) /\ (c.plan = NoPlan \/ Stands(c.plan, req[p].of))
         THEN /\ folio' = [folio EXCEPT ![f] = Rewritten(req[p], @)]
              /\ req' = [req EXCEPT ![p] = [Idle EXCEPT !.at = "invalidate"]]
              /\ overlapped' = overlapped \cup
                   { <<f, l>> : l \in { l \in Lists : Replaces(req[p], l) /\ Replacing(f, l) # {p} } }
         ELSE /\ Answer(p)
              /\ UNCHANGED <<folio, overlapped>>
    /\ UNCHANGED <<plan, used, updates, entries, raised>>

\* The row goes with its nested rows, unless a transaction has changed those:
\* then one of the two waits for the other, or is ended as a deadlock (Fail).
Gone(f) == [folio EXCEPT ![f] = NoRow]
Unheld(f) == \A p \in Updating(f) : req[p].held = NoParts

RemoveFolio(p, f) ==
    /\ Live(f) /\ Unheld(f)
    /\ Begin(p, [Idle EXCEPT !.at = "invalidate"])
    /\ folio' = Gone(f)
    /\ UNCHANGED <<plan, used, updates, overlapped, entries, raised>>

\* clearCache of portfolio:* : SCAN promises the keys that are there all along.
Scan(p) ==
    /\ req[p].at = "invalidate"
    /\ req' = [req EXCEPT ![p].at = "scan", ![p].todo = { k \in Keys : Present(k) }]
    /\ UNCHANGED <<plan, portfolios, entries, raised>>

\* The keys of a batch go one by one: any that were promised, perhaps others
\* that appeared since.
Unlink(p, k) ==
    /\ req[p].at = "scan" /\ Present(k)
    /\ cache' = [cache EXCEPT ![k] = NoEntry]
    /\ missed' = missed \ {k}
    /\ req' = [ q \in Procs |-> [req[q] EXCEPT !.todo = @ \ {k}] ]
    /\ UNCHANGED <<plan, portfolios, raised>>

\* Slip: one batch is enough.
ScanEnds_FirstBatch(p) ==
    /\ req[p].at = "scan"
    /\ Answer(p)
    /\ UNCHANGED <<plan, portfolios, entries, raised>>

ScanEnds(p) ==
    /\ req[p].at = "scan" /\ req[p].todo = {}
    /\ Answer(p)
    /\ UNCHANGED <<plan, portfolios, entries, raised>>

-----------------------------------------------------------------------------
\* An error or the end of the server: a transaction is rolled back, and an
\* invalidation that failed is only logged.
Fail(p) ==
    /\ req[p].at # "idle"
    /\ missed' = missed \cup
         CASE req[p].at = "invalidate" -> { k \in Keys : Present(k) }
           [] req[p].at = "scan"       -> req[p].todo
           [] OTHER                    -> {}
    /\ Answer(p)
    /\ UNCHANGED <<plan, portfolios, cache, raised>>

Arrive(p) ==
    \/ \E k \in Readers : Get(p, k)
    \/ \E s \in Plans, d \in Dates : Create(p, s, d)
    \/ \E f \in Folios, change \in Asked : Update(p, f, change)
    \/ \E f \in Folios : RemoveFolio(p, f)

Advance(p) ==
    \/ FindPlan(p) \/ FindFolio(p) \/ FindParts(p) \/ FindLevel(p) \/ Set(p)
    \/ Wipe(p) \/ Wiped(p) \/ Replace(p)
    \/ Scan(p) \/ ScanEnds(p)
    \/ \E k \in Keys : Unlink(p, k)

Next ==
    \/ \E p \in Procs : Arrive(p) \/ Advance(p) \/ Fail(p)
    \/ \E k \in Keys : Expire(k)

Spec == Init /\ [][Next]_vars

=============================================================================
