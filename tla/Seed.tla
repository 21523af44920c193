-------------------------------- MODULE Seed --------------------------------
(***************************************************************************)
(* prisma/seed.ts run beside the service: plans, the texts of their        *)
(* dashboards, the admin account and one portfolio for each plan, one      *)
(* statement after the other, with no transaction and no word to Redis.    *)
(* A run may end anywhere, and it may be started again; the admins of the  *)
(* service may remove and insert plans meanwhile.                          *)
(***************************************************************************)
EXTENDS Portfolios

CONSTANT MaxWork  \* bound on seeds, updates and writes of plans together

VARIABLES
    seed,    \* the running seed: the place in main, the plans it still has to
             \*   do there (their order is left open), the one it is at and
             \*   the row it was told of
    texts,   \* plans that have a PlanFieldVisibility row
    account, \* the admin's row: absent or as the seed writes it
    work,    \* seeds started, updates begun and plans written so far
    \* History, read by no step.
    touched  \* plans whose row, or portfolios, the service has written since
             \*   a seed wrote the row

seedVars == <<seed, texts, account, work, touched>>
allVars  == <<vars, seedVars>>

\* The plans of the file, with their levels.
PlanSeeds == [ free |-> 0, titan |-> 1, premium |-> 3, gold |-> 2 ]

\* The plans the file has a portfolio for; all carry one date.
PortfolioSeeds == { "free", "titan", "premium", "gold" }
SeedDate == 0

\* The plans the file has texts for.
VisibilitySeeds == { "free", "titan", "premium", "gold" }

SeededPlans == Plans \cap DOMAIN PlanSeeds

ASSUME SeedAssumption ==
    /\ Plans \subseteq DOMAIN PlanSeeds
    /\ \A s \in Plans : PlanSeeds[s] \in Levels
    /\ MaxWork \in Nat

SeedPlaces == { "off", "plans", "visibilities", "upsertVisibility", "admin",
                "portfolios", "delete", "create", "done" }

SeedTypeOK ==
    /\ TypeOK
    /\ seed \in [ at : SeedPlaces, left : SUBSET Plans, of : Plans \cup {NoPlan}, id : Ids ]
    /\ texts \subseteq Plans
    /\ account \in { "absent", "seeded" }
    /\ work \in 0 .. MaxWork
    /\ touched \subseteq Plans

SeedInit ==
    /\ Init
    /\ seed = [ at |-> "off", left |-> {}, of |-> NoPlan, id |-> 0 ]
    /\ texts = {}
    /\ account = "absent"
    /\ work = 0 /\ touched = {}

Goes(to, left)  == seed' = [ at |-> to, left |-> left, of |-> NoPlan, id |-> 0 ]
Enters(to, s)   == seed' = [ at |-> to, left |-> seed.left, of |-> s, id |-> plan[s].id ]

\* The loop goes on with the rest, or main goes on with the next part.
NextOr(from, s, to, plans) ==
    IF seed.left \ {s} # {} THEN Goes(from, seed.left \ {s}) ELSE Goes(to, plans)

Works == work < MaxWork /\ work' = work + 1

-----------------------------------------------------------------------------
\* main begins, whether or not the admin exists: that only changes its words.
Start ==
    /\ seed.at \in { "off", "done" }
    /\ Works
    /\ Goes("plans", SeededPlans)
    /\ UNCHANGED <<vars, texts, account, touched>>

\* The key a plan row of the slug gets, or has.
NextId(s) == IF plan[s].live THEN plan[s].id ELSE plan[s].id + 1

\* Slip: the level of a plan that is there is left as it is.
UpsertPlan_KeepsLevel(s) ==
    LET new == [ live |-> TRUE, level |-> IF plan[s].live THEN plan[s].level ELSE PlanSeeds[s],
                 id |-> NextId(s) ] IN
    /\ seed.at = "plans" /\ s \in seed.left /\ NextId(s) \in Ids
    /\ NextOr("plans", s, "visibilities", Plans \cap VisibilitySeeds)
    /\ plan' = [plan EXCEPT ![s] = new]
    /\ touched' = touched \ {s}
    /\ UNCHANGED <<portfolios, entries, req, raised, texts, account, work>>

\* plan.upsert: the fields of the file, the level among them, whatever they
\* were; nobody's cache is told.
UpsertPlan(s) ==
    LET new == [ live |-> TRUE, level |-> PlanSeeds[s], id |-> NextId(s) ] IN
    /\ seed.at = "plans" /\ s \in seed.left /\ NextId(s) \in Ids
    /\ NextOr("plans", s, "visibilities", Plans \cap VisibilitySeeds)
    /\ plan' = [plan EXCEPT ![s] = new]
    /\ touched' = touched \ {s}
    /\ missed' = IF plan[s] = new THEN missed
                 ELSE missed \cup { k \in Keys : k[1] = s /\ Present(k) }
    /\ raised' = IF plan[s].live /\ plan[s].level # new.level THEN raised \cup {s} ELSE raised
    /\ UNCHANGED <<portfolios, cache, req, texts, account, work>>

\* seedPlanVisibilities: the plan is looked up ...
FindVisibility(s) ==
    /\ seed.at = "visibilities" /\ s \in seed.left
    /\ IF plan[s].live
         THEN Enters("upsertVisibility", s)
         ELSE NextOr("visibilities", s, "admin", {})
    /\ UNCHANGED <<vars, texts, account, work, touched>>

\* ... and its texts are written, if the row that was found is still there:
\* else the foreign key refuses, and the seed ends (Exit).
UpsertVisibility ==
    LET s == seed.of IN
    /\ seed.at = "upsertVisibility"
    /\ Stands(s, seed.id)
    /\ texts' = texts \cup {s}
    /\ NextOr("visibilities", s, "admin", {})
    /\ UNCHANGED <<vars, account, work, touched>>

\* The admin's password, role and flags are set, whatever they were.
UpsertAdmin ==
    /\ seed.at = "admin"
    /\ account' = "seeded"
    /\ Goes("portfolios", Plans \cap PortfolioSeeds)
    /\ UNCHANGED <<vars, texts, work, touched>>

\* seedPortfolios: the plan is looked up, and skipped when it is gone ...
FindPlanOfPortfolio(s) ==
    /\ seed.at = "portfolios" /\ s \in seed.left
    /\ IF plan[s].live
         THEN Enters("delete", s)
         ELSE NextOr("portfolios", s, "done", {})
    /\ UNCHANGED <<vars, texts, account, work, touched>>

Seeded(s) == { f \in Folios : folio[f].plan = s /\ folio[f].date = SeedDate }

\* Those of the plan row that was found.
OfRow(s, id) == IF Stands(s, id) THEN Seeded(s) ELSE {}

Unseen(S) == missed \cup { k \in Keys : Present(k) /\ cache[k].folio \in S }

\* Slip: a portfolio that is there already is not deleted.
DeletePortfolios_Keeps ==
    /\ seed.at = "delete"
    /\ seed' = [seed EXCEPT !.at = "create"]
    /\ UNCHANGED <<vars, texts, account, work, touched>>

\* ... its portfolios of the date of the file are deleted ...
DeletePortfolios ==
    LET S == OfRow(seed.of, seed.id) IN
    /\ seed.at = "delete"
    /\ \A f \in S : Unheld(f)
    /\ folio' = [ f \in Folios |-> IF f \in S THEN NoRow ELSE folio[f] ]
    /\ missed' = Unseen(S)
    /\ seed' = [seed EXCEPT !.at = "create"]
    /\ UNCHANGED <<plan, used, updates, overlapped, raised, cache, req, texts, account, work, touched>>

\* ... and one is created, or refused by the foreign key; entries of older
\* ones are not the latest any more.
CreatePortfolio ==
    LET s == seed.of IN
    /\ seed.at = "create"
    /\ Stands(s, seed.id)
    /\ Insert(s, SeedDate)
    /\ missed' = missed \cup { k \in Keys : k[1] = s /\ Present(k) }
    /\ NextOr("portfolios", s, "done", {})
    /\ UNCHANGED <<plan, updates, overlapped, raised, cache, req, texts, account, work, touched>>

\* An error, or the end of the process: process.exit(1), nothing is undone.
Exit ==
    /\ seed.at \notin { "off", "done" }
    /\ Goes("off", {})
    /\ UNCHANGED <<vars, texts, account, work, touched>>

SeedNext ==
    \/ Start
    \/ \E s \in Plans : UpsertPlan(s) \/ FindVisibility(s) \/ FindPlanOfPortfolio(s)
    \/ UpsertVisibility \/ UpsertAdmin \/ DeletePortfolios \/ CreatePortfolio \/ Exit

-----------------------------------------------------------------------------
(* The service.                                                            *)

\* The plans whose portfolios a step changes.
Rewriting == { s \in Plans : \E f \in Folios :
                 folio'[f] # folio[f] /\ s \in { folio[f].plan, folio'[f].plan } }

\* A request for a portfolio.
Serve ==
    /\ Next
    /\ IF updates' = updates THEN work' = work ELSE Works
    /\ touched' = touched \cup Rewriting
    /\ UNCHANGED <<seed, texts, account>>

\* An admin inserts a plan, with its texts, at a level that stays (the dto of an
\* update has none).  What is looked up before is the matter of Catalog.
InsertPlan(s, level) ==
    /\ ~plan[s].live /\ NextId(s) \in Ids /\ Works
    /\ plan' = [plan EXCEPT ![s] = [ live |-> TRUE, level |-> level, id |-> NextId(s) ]]
    /\ texts' = texts \cup {s}
    /\ touched' = touched \cup {s}
    /\ UNCHANGED <<portfolios, entries, req, raised, seed, account>>

\* An admin removes one: its portfolios would refuse, its texts go with it.
DeletePlan(s) ==
    /\ plan[s].live /\ Works
    /\ \A f \in Folios : folio[f].plan # s
    /\ plan' = [plan EXCEPT ![s].live = FALSE]
    /\ texts' = texts \ {s}
    /\ touched' = touched \cup {s}
    /\ UNCHANGED <<portfolios, entries, req, raised, seed, account>>

\* An admin writes the texts of one.
WriteTexts(s) ==
    /\ plan[s].live /\ Works
    /\ texts' = texts \cup {s}
    /\ UNCHANGED <<vars, seed, account, touched>>

Administer ==
    \E s \in Plans :
        DeletePlan(s) \/ WriteTexts(s) \/ \E level \in Levels : InsertPlan(s, level)

Both == SeedNext \/ Serve \/ Administer

BothSpec == SeedInit /\ [][Both]_allVars

-----------------------------------------------------------------------------
(* Properties.                                                             *)

\* What is stored for readers of a level shows a plan that was open to them
\* when the plan was checked: the check and the read are two statements, and
\* only a seed can change the level between them.
EntriesAreCovered ==
    \A k \in Keys : Present(k) /\ k[1] \notin raised => Opens(k, cache[k].level)

\* An entry that does not show the latest portfolio, whole and as it is, is
\* being removed, or was stored by a read that a write had overtaken, or was
\* left by a write that clears nothing (the seed) or whose
\* invalidation failed.  A read that mixed rows of two updates is one that
\* was overtaken.
StaleIsExplained ==
    \A k \in Keys :
        Stale(k) =>
            \/ k \in missed
            \/ \E p \in Procs :
                 \/ req[p].at = "invalidate"
                 \/ req[p].at = "scan" /\ k \in req[p].todo

\* What a portfolio has in one of its lists comes from one request, whatever
\* updates named that list or left it out before, unless two of them replaced
\* the list at the same time.
PartsOfOneUpdate ==
    \A f \in Folios, l \in Lists :
        Cardinality(folio[f].parts[l]) <= 1 \/ <<f, l>> \in overlapped

\* However often a seed was cut short before, the one that ends has left each
\* plan its texts, its level and one portfolio of the date of the file, if
\* the service has left the plan and its portfolios alone since the seed wrote
\* its row: a plan that was removed in between is skipped with a warning, or
\* ends the seed.
SeedConverges ==
    seed.at = "done" =>
        \A s \in Plans \ touched :
            /\ plan[s].live /\ s \in texts
            /\ plan[s].level = PlanSeeds[s]
            /\ Cardinality(Seeded(s)) = 1

\* What the first rests on: the plan row that a request past the check was told
\* of had a level that opens it, and has it still, if it is still there.
Checked(r) ==
    LET k == r.key IN
    /\ r.at \in { "findFolio", "findParts", "findLevel" } =>
         /\ r.of <= plan[k[1]].id
         /\ Stands(k[1], r.of) => k[1] \in raised \/ Opens(k, plan[k[1]].level)
    /\ r.at = "set" => k[1] \in raised \/ Opens(k, r.entry.level)

\* What PartsOfOneUpdate rests on: an update that nobody overlapped in a list
\* sees, and then holds, all the rows of it there are.
SeesAll(r) ==
    \A l \in Lists :
        /\ r.at \in { "wipe", "wiped", "replace" } /\ Replaces(r, l)
        /\ <<r.folio, l>> \notin overlapped /\ Live(r.folio)
        => /\ l \notin r.left => r.held[l] = folio[r.folio].parts[l]
           /\ r.at = "wiped" /\ First(r, l) => r.seen = folio[r.folio].parts[l]

\* What the steps of a request may rely on: its key, its portfolio, its lists.
Fits(r) ==
    /\ r.at \in { "findPlan", "findFolio", "findParts", "findLevel", "set" } => r.key \in Keys
    /\ r.at = "findParts" => r.entry.folio \in Folios
    /\ r.at \in { "wipe", "wiped", "replace" } => r.folio \in Folios /\ r.folio <= used
    /\ r.at \in { "wipe", "wiped" } => \A l \in r.left : Replaces(r, l)
    /\ r.at \in { "wipe", "wiped", "replace" } => \A l \in Lists : Replaces(r, l) \/ r.held[l] = {}
    /\ r.at = "replace" => r.left = {}

OneBatch(f, l) == \E b \in Batches : folio[f].parts[l] \subseteq {b}

\* What SeedConverges rests on: the part of the file that a run is past, in the
\* plans the service has left alone.
InPlace(s) == plan[s].live /\ plan[s].level = PlanSeeds[s]
Single(s)  == \E f \in Folios : Seeded(s) = {f}
Alone      == Plans \ touched

SeedProgress ==
    /\ seed.at \in { "upsertVisibility", "delete", "create" } =>
         seed.of \in seed.left /\ (seed.of \in Alone => seed.id = plan[seed.of].id)
    /\ seed.at = "plans" => \A s \in Alone \ seed.left : InPlace(s)
    /\ seed.at \notin { "off", "plans" } => \A s \in Alone : InPlace(s)
    /\ seed.at \in { "visibilities", "upsertVisibility" } => Alone \ seed.left \subseteq texts
    /\ seed.at \in { "admin", "portfolios", "delete", "create", "done" } => Alone \subseteq texts
    /\ seed.at \in { "portfolios", "delete", "create", "done" } =>
         \A s \in Alone \ seed.left : Single(s)
    /\ seed.at = "create" /\ seed.of \in Alone => Seeded(seed.of) = {}
    /\ seed.at = "done" => seed.left = {}

\* The inductive invariant of the cached portfolios, with a seed beside them.
SeedInv ==
    /\ SeedTypeOK
    /\ EntriesAreCovered
    /\ \A p \in Procs : Fits(req[p]) /\ Checked(req[p]) /\ SeesAll(req[p])
    /\ \A f \in Folios : /\ Live(f) => f <= used /\ plan[folio[f].plan].live
                         /\ \A l \in Lists : <<f, l>> \in overlapped \/ OneBatch(f, l)
    /\ SeedProgress

-----------------------------------------------------------------------------
\* backend-deep-review.md: an update of a portfolio completely replaces its
\* nested rows in one ACID transaction; two that overlap leave the rows of both.
UpdateReplaces == \A f \in Folios, l \in Lists : Cardinality(folio[f].parts[l]) <= 1

=============================================================================
