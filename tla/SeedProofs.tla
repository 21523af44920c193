----------------------------- MODULE SeedProofs ------------------------------
(***************************************************************************)
(* What is cached for a level was open to it, what a portfolio has in a    *)
(* list is of one update unless two replaced that list at a time, and a    *)
(* seed that ends has left what its file says in the plans the service     *)
(* left alone, for any number of requests, plans, levels, portfolios,      *)
(* lists, updates and seeds.                                               *)
(***************************************************************************)
EXTENDS Seed, FiniteSetTheorems, TLAPS

-----------------------------------------------------------------------------
(* The invariant, by what a step may change; with the state as a parameter *)
(* where a step takes it apart.                                            *)

StandsIn(pl, s, id) == pl[s].live /\ pl[s].id = id

CheckedIn(r, pl, ra) ==
    /\ r.at \in { "findFolio", "findParts", "findLevel" } =>
         /\ r.of <= pl[r.key[1]].id
         /\ StandsIn(pl, r.key[1], r.of)
            => r.key[1] \in ra \/ Opens(r.key, pl[r.key[1]].level)
    /\ r.at = "set" => r.key[1] \in ra \/ Opens(r.key, r.entry.level)

SeesList(r, l, fo, ov) ==
    /\ r.at \in { "wipe", "wiped", "replace" } /\ Replaces(r, l)
    /\ <<r.folio, l>> \notin ov /\ fo[r.folio].plan # NoPlan
    => /\ l \notin r.left => r.held[l] = fo[r.folio].parts[l]
       /\ r.at = "wiped" /\ First(r, l) => r.seen = fo[r.folio].parts[l]

SeesIn(r, fo, ov) == \A l \in Lists : SeesList(r, l, fo, ov)

FitsIn(r, us) ==
    /\ r.at \in { "findPlan", "findFolio", "findParts", "findLevel", "set" } => r.key \in Keys
    /\ r.at = "findParts" => r.entry.folio \in Folios
    /\ r.at \in { "wipe", "wiped", "replace" } => r.folio \in Folios /\ r.folio <= us
    /\ r.at \in { "wipe", "wiped" } => \A l \in r.left : Replaces(r, l)
    /\ r.at \in { "wipe", "wiped", "replace" } => \A l \in Lists : Replaces(r, l) \/ r.held[l] = {}
    /\ r.at = "replace" => r.left = {}

Good(r, pl, ra, fo, us, ov) ==
    r \in Requests /\ FitsIn(r, us) /\ CheckedIn(r, pl, ra) /\ SeesIn(r, fo, ov)

RequestsInv ==
    /\ req \in [ Procs -> Requests ]
    /\ \A p \in Procs : Good(req[p], plan, raised, folio, used, overlapped)

CacheInv == cache \in [ Keys -> Entries ] /\ raised \subseteq Plans /\ EntriesAreCovered

RowsAre(fo, us, ov) ==
    /\ fo \in [ Folios -> Rows ] /\ us \in 0 .. MaxFolios /\ ov \subseteq Folios \X Lists
    /\ \A f \in Folios :
         /\ fo[f].plan # NoPlan => f <= us
         /\ \A l \in Lists : <<f, l>> \in ov \/ \E b \in Batches : fo[f].parts[l] \subseteq {b}

\* The foreign key of the portfolios.
Housed(fo, pl) == \A f \in Folios : fo[f].plan # NoPlan => pl[fo[f].plan].live

SeededIn(s, fo) == { f \in Folios : fo[f].plan = s /\ fo[f].date = SeedDate }
SingleIn(s, fo) == \E f \in Folios : SeededIn(s, fo) = {f}
PlacedIn(s, pl) == pl[s].live /\ pl[s].level = PlanSeeds[s]

Runs == [ at : SeedPlaces, left : SUBSET Plans, of : Plans \cup {NoPlan}, id : Ids ]

\* What a run has reached in the plans that were left alone: their rows, their
\* texts, their portfolios.
PlansReached(sd, pl, al) ==
    /\ sd.at = "plans" => \A s \in al \ sd.left : PlacedIn(s, pl)
    /\ sd.at \notin { "off", "plans" } => \A s \in al : PlacedIn(s, pl)
TextsReached(sd, tx, al) ==
    /\ sd.at \in { "visibilities", "upsertVisibility" } => al \ sd.left \subseteq tx
    /\ sd.at \in { "admin", "portfolios", "delete", "create", "done" } => al \subseteq tx
FoliosReached(sd, fo, al) ==
    /\ sd.at \in { "portfolios", "delete", "create", "done" } =>
         \A s \in al \ sd.left : SingleIn(s, fo)
    /\ sd.at = "create" /\ sd.of \in al => SeededIn(sd.of, fo) = {}
Located(sd, pl, al) ==
    /\ sd \in Runs
    /\ sd.at \in { "upsertVisibility", "delete", "create" } =>
         sd.of \in sd.left /\ (sd.of \in al => sd.id = pl[sd.of].id)
    /\ sd.at = "done" => sd.left = {}

Reached(sd, pl, tx, fo, al) ==
    /\ Located(sd, pl, al)
    /\ PlansReached(sd, pl, al)
    /\ TextsReached(sd, tx, al)
    /\ FoliosReached(sd, fo, al)

RunInv ==
    /\ plan \in [ Plans -> PlanRows ]
    /\ texts \subseteq Plans /\ account \in { "absent", "seeded" }
    /\ work \in 0 .. MaxWork /\ touched \subseteq Plans
    /\ Reached(seed, plan, texts, folio, Plans \ touched)

Bounds == updates \in 0 .. MaxUpdates /\ missed \subseteq Keys

Together ==
    /\ RequestsInv
    /\ CacheInv
    /\ RowsAre(folio, used, overlapped) /\ Housed(folio, plan)
    /\ RunInv
    /\ Bounds

LEMMA RequestsAre ==
    (/\ req \in [ Procs -> Requests ]
     /\ \A p \in Procs : Fits(req[p]) /\ Checked(req[p]) /\ SeesAll(req[p]))
    <=> RequestsInv
<1>1. ASSUME NEW p \in Procs
      PROVE  /\ Fits(req[p]) <=> FitsIn(req[p], used)
             /\ Checked(req[p]) <=> CheckedIn(req[p], plan, raised)
             /\ SeesAll(req[p]) <=> SeesIn(req[p], folio, overlapped)
  BY DEF Fits, FitsIn, Checked, CheckedIn, SeesAll, SeesIn, SeesList, Live, Stands, StandsIn
<1> QED BY <1>1 DEF RequestsInv, Good

LEMMA ProgressIs ==
    seed \in Runs => (SeedProgress <=> Reached(seed, plan, texts, folio, Plans \ touched))
<1>1. \A s \in Plans : InPlace(s) <=> PlacedIn(s, plan)
  BY DEF InPlace, PlacedIn
<1>2. \A s : Seeded(s) = SeededIn(s, folio)
  BY DEF Seeded, SeededIn
<1>3. \A s : Single(s) <=> SingleIn(s, folio)
  BY <1>2 DEF Single, SingleIn
<1> QED BY <1>1, <1>2, <1>3
           DEF SeedProgress, Alone, Reached, Located, PlansReached, TextsReached, FoliosReached

LEMMA InvariantIs == SeedInv <=> Together
<1>1. RowsAre(folio, used, overlapped) /\ Housed(folio, plan) <=>
        /\ folio \in [ Folios -> Rows ] /\ used \in 0 .. MaxFolios
        /\ overlapped \subseteq Folios \X Lists
        /\ \A f \in Folios : /\ Live(f) => f <= used /\ plan[folio[f].plan].live
                             /\ \A l \in Lists : <<f, l>> \in overlapped \/ OneBatch(f, l)
  BY DEF RowsAre, Housed, Live, OneBatch
<1>2. CASE seed \notin Runs
  BY <1>2 DEF SeedInv, SeedTypeOK, Together, RunInv, Reached, Located, Runs
<1>3. CASE seed \in Runs
  BY <1>1, <1>3, ProgressIs, RequestsAre
     DEF SeedInv, SeedTypeOK, TypeOK, Together, RunInv, CacheInv, Bounds, Runs, RequestsInv
<1> QED BY <1>2, <1>3

-----------------------------------------------------------------------------
(* Requests.                                                               *)

\* The request a step leaves behind is a request.
LEMMA NothingIs == 0 \in Ids /\ 0 \in Batches /\ 0 \in Levels /\ NoParts \in Parts
  BY PortfoliosAssumption DEF Ids, Batches, Levels, NoParts, Parts

LEMMA NoEntryIsEntry == NoEntry \in Entries
  BY NothingIs DEF NoEntry, Entries

LEMMA IdleIsRequest == Idle \in Requests
<1>1. NoChange \in Changes
  BY DEF NoChange, Changes
<1> QED BY <1>1, NothingIs, NoEntryIsEntry DEF Idle, Requests, Places

LEMMA RequestParts ==
    ASSUME NEW r \in Requests
    PROVE  /\ r.at \in Places /\ r.key \in Keys \cup {<<NoPlan, 0>>} /\ r.of \in Ids
           /\ r.folio \in Folios \cup {NoFolio}
           /\ r.entry \in Entries /\ r.change \in Changes /\ r.n \in Batches
           /\ r.left \in SUBSET Lists /\ r.seen \in SUBSET Batches /\ r.held \in Parts
           /\ r.todo \in SUBSET Keys
  BY DEF Requests

LEMMA PlaceMoves ==
    ASSUME NEW r \in Requests, NEW to \in Places
    PROVE  [r EXCEPT !.at = to] \in Requests
  BY DEF Requests

\* A request with nothing in hand may rely on nothing.
LEMMA PlainIsGood ==
    ASSUME NEW r \in Requests, r.at \in { "idle", "invalidate", "scan" },
           NEW pl, NEW ra, NEW fo, NEW us, NEW ov
    PROVE  Good(r, pl, ra, fo, us, ov)
  BY DEF Good, FitsIn, CheckedIn, SeesIn, SeesList

LEMMA RestIsGood ==
    ASSUME NEW pl, NEW ra, NEW fo, NEW us, NEW ov
    PROVE  /\ Good(Idle, pl, ra, fo, us, ov)
           /\ Good([Idle EXCEPT !.at = "invalidate"], pl, ra, fo, us, ov)
<1>1. Idle \in Requests /\ Idle.at = "idle"
  BY IdleIsRequest DEF Idle
<1>2. [Idle EXCEPT !.at = "invalidate"] \in Requests
  BY <1>1, PlaceMoves DEF Places
<1>3. [Idle EXCEPT !.at = "invalidate"].at = "invalidate"
  BY DEF Idle
<1> QED BY <1>1, <1>2, <1>3, PlainIsGood

LEMMA RequestsPrimed ==
    ASSUME req' \in [ Procs -> Requests ],
           \A q \in Procs : Good(req'[q], plan', raised', folio', used', overlapped')
    PROVE  RequestsInv'
<1> SUFFICES ASSUME NEW q \in Procs
             PROVE  Good(req[q], plan, raised, folio, used, overlapped)'
  BY DEF RequestsInv
<1> QED BY DEF Good, FitsIn, CheckedIn, SeesIn, SeesList, Opens, StandsIn, Replaces, First

\* One request moves, and what the others rely on stays.
LEMMA OneMoves ==
    ASSUME RequestsInv, NEW p \in Procs, NEW r,
           req' = [req EXCEPT ![p] = r],
           Good(r, plan', raised', folio', used', overlapped'),
           \A q \in Procs \ {p} : Good(req[q], plan', raised', folio', used', overlapped')
    PROVE  RequestsInv'
<1>1. req' \in [ Procs -> Requests ]
  BY DEF RequestsInv, Good
<1>2. \A q \in Procs : Good(req'[q], plan', raised', folio', used', overlapped')
  BY DEF RequestsInv
<1> QED BY <1>1, <1>2, RequestsPrimed

LEMMA OneMovesAlone ==
    ASSUME RequestsInv, NEW p \in Procs, NEW r,
           req' = [req EXCEPT ![p] = r], Good(r, plan, raised, folio, used, overlapped),
           plan' = plan, raised' = raised, folio' = folio, used' = used, overlapped' = overlapped
    PROVE  RequestsInv'
<1>1. \A q \in Procs : Good(req[q], plan, raised, folio, used, overlapped)
  BY DEF RequestsInv
<1> QED BY <1>1, OneMoves

\* Only the lists of scans become shorter.
LEMMA ListsShrink ==
    ASSUME RequestsInv, NEW k,
           req' = [ p \in Procs |-> [req[p] EXCEPT !.todo = @ \ {k}] ],
           plan' = plan, raised' = raised, folio' = folio, used' = used, overlapped' = overlapped
    PROVE  RequestsInv'
<1>1. ASSUME NEW r \in Requests, Good(r, plan, raised, folio, used, overlapped)
      PROVE  Good([r EXCEPT !.todo = @ \ {k}], plan, raised, folio, used, overlapped)
  <2>1. [r EXCEPT !.todo = @ \ {k}] \in Requests
    BY DEF Requests
  <2>2. /\ [r EXCEPT !.todo = @ \ {k}].at = r.at /\ [r EXCEPT !.todo = @ \ {k}].key = r.key
        /\ [r EXCEPT !.todo = @ \ {k}].folio = r.folio /\ [r EXCEPT !.todo = @ \ {k}].entry = r.entry
        /\ [r EXCEPT !.todo = @ \ {k}].change = r.change /\ [r EXCEPT !.todo = @ \ {k}].seen = r.seen
        /\ [r EXCEPT !.todo = @ \ {k}].held = r.held /\ [r EXCEPT !.todo = @ \ {k}].left = r.left
        /\ [r EXCEPT !.todo = @ \ {k}].of = r.of
    BY DEF Requests
  <2> QED BY <1>1, <2>1, <2>2 DEF Good, FitsIn, CheckedIn, SeesIn, SeesList, Replaces, First
<1>2. \A p \in Procs : /\ Good(req'[p], plan, raised, folio, used, overlapped)
                       /\ req'[p] \in Requests
  BY <1>1 DEF RequestsInv, Good
<1>3. req' \in [ Procs -> Requests ]
  BY <1>2
<1> QED BY <1>2, <1>3, RequestsPrimed

\* The levels a key names.
LEMMA KeyParts ==
    ASSUME NEW k \in Keys
    PROVE  k[1] \in Plans /\ k[2] \in Levels \cup {Admin} /\ k = <<k[1], k[2]>>
  BY DEF Keys

LEMMA CacheKept ==
    ASSUME CacheInv, cache' = cache, raised \subseteq raised', raised' \subseteq Plans
    PROVE  CacheInv'
  BY DEF CacheInv, EntriesAreCovered, Present, Opens

LEMMA ReachedPrimed ==
    ASSUME Reached(seed', plan', texts', folio', Plans \ touched')
    PROVE  Reached(seed, plan, texts, folio, Plans \ touched)'
  BY DEF Reached, Located, PlansReached, TextsReached, FoliosReached, SingleIn, SeededIn, PlacedIn

LEMMA RunServed ==
    ASSUME RunInv, UNCHANGED <<seed, texts, account, plan>>, work' \in 0 .. MaxWork,
           touched' = touched \cup Rewriting
    PROVE  RunInv'
<1>1. touched' \subseteq Plans
  BY DEF RunInv, Rewriting
<1>2. ASSUME NEW s \in Plans \ touched' PROVE SeededIn(s, folio') = SeededIn(s, folio)
  BY <1>2 DEF Rewriting, SeededIn
<1>3. \A s \in Plans \ touched' : s \in Plans \ touched
  OBVIOUS
<1>4. FoliosReached(seed', folio', Plans \ touched')
  BY <1>2, <1>3 DEF RunInv, Reached, FoliosReached, SingleIn
<1>5. /\ Located(seed', plan', Plans \ touched') /\ PlansReached(seed', plan', Plans \ touched')
      /\ TextsReached(seed', texts', Plans \ touched')
  BY <1>3 DEF RunInv, Reached, Located, PlansReached, TextsReached
<1>6. Reached(seed', plan', texts', folio', Plans \ touched')
  BY <1>4, <1>5 DEF Reached
<1> QED BY <1>1, <1>6, ReachedPrimed DEF RunInv

\* Steps that move one request and touch no row.
LEMMA GetMoves ==
    ASSUME Together, NEW p \in Procs, NEW k \in Readers, Get(p, k)
    PROVE  RequestsInv'
<1> DEFINE r == [Idle EXCEPT !.at = "findPlan", !.key = k]
<1>1. r.at = "findPlan" /\ r.key = k /\ k \in Keys
  BY PortfoliosAssumption DEF Idle
<1>2. r \in Requests
  BY <1>1, IdleIsRequest DEF Requests, Places
<1>3. Good(r, plan, raised, folio, used, overlapped)
  BY <1>1, <1>2 DEF Good, FitsIn, CheckedIn, SeesIn, SeesList
<1>4. req' = [req EXCEPT ![p] = r]
      /\ plan' = plan /\ raised' = raised /\ folio' = folio /\ used' = used /\ overlapped' = overlapped
  BY DEF Get, Begin, portfolios, entries
<1> HIDE DEF r
<1> QED BY <1>3, <1>4, OneMovesAlone DEF Together

LEMMA AnswerMoves ==
    ASSUME Together, NEW p \in Procs, Answer(p),
           plan' = plan, raised' = raised, folio' = folio, used' = used, overlapped' = overlapped
    PROVE  RequestsInv'
<1>1. req' = [req EXCEPT ![p] = Idle]
  BY DEF Answer
<1> QED BY <1>1, RestIsGood, OneMovesAlone DEF Together

LEMMA FindPlanMoves ==
    ASSUME Together, NEW p \in Procs, FindPlan(p)
    PROVE  RequestsInv'
<1>1. plan' = plan /\ raised' = raised /\ folio' = folio /\ used' = used /\ overlapped' = overlapped
  BY DEF FindPlan, portfolios, entries
<1>2. /\ req[p] \in Requests /\ req[p].at = "findPlan" /\ req[p].key \in Keys
      /\ req \in [ Procs -> Requests ]
  BY DEF FindPlan, Together, RequestsInv, Good, FitsIn
<1>3. PICK k \in Keys : k = req[p].key
  BY <1>2
<1>4. plan[k[1]] \in PlanRows
  BY KeyParts DEF Together, RunInv
<1>5. CASE /\ Opens(k, plan[k[1]].level)
           /\ req' = [req EXCEPT ![p].at = "findFolio", ![p].of = plan[k[1]].id]
  <2> DEFINE r == [req[p] EXCEPT !.at = "findFolio", !.of = plan[k[1]].id]
  <2>1. r \in Requests
    BY <1>2, <1>4 DEF Requests, Places, PlanRows
  <2>2. r.at = "findFolio" /\ r.key = k /\ r.of = plan[k[1]].id /\ r.of \in Nat
    BY <1>2, <1>3, <1>4, PortfoliosAssumption DEF Requests, PlanRows, Ids
  <2>3. FitsIn(r, used) /\ SeesIn(r, folio, overlapped)
    BY <2>2 DEF FitsIn, SeesIn, SeesList
  <2>4. CheckedIn(r, plan, raised)
    BY <1>5, <2>2 DEF CheckedIn
  <2>5. req' = [req EXCEPT ![p] = r]
    BY <1>2, <1>5
  <2> HIDE DEF r
  <2> QED BY <1>1, <2>1, <2>3, <2>4, <2>5, OneMovesAlone DEF Together, Good
<1>6. CASE Answer(p)
  BY <1>1, <1>6, AnswerMoves
<1> QED BY <1>3, <1>5, <1>6 DEF FindPlan

LEMMA FindFolioMoves ==
    ASSUME Together, NEW p \in Procs, FindFolio(p)
    PROVE  RequestsInv'
<1>1. plan' = plan /\ raised' = raised /\ folio' = folio /\ used' = used /\ overlapped' = overlapped
  BY DEF FindFolio, portfolios, entries
<1>2. CASE Answer(p)
  BY <1>1, <1>2, AnswerMoves
<1>3. ASSUME NEW f \in Latest(req[p].key[1]),
             req' = [req EXCEPT ![p].at = "findParts", ![p].left = Lists,
                                ![p].entry.folio = f, ![p].entry.head = folio[f].head]
      PROVE  RequestsInv'
  <2> DEFINE r == [req[p] EXCEPT !.at = "findParts", !.left = Lists,
                                 !.entry.folio = f, !.entry.head = folio[f].head]
  <2>1. req[p] \in Requests /\ req[p].at = "findFolio" /\ req[p].key \in Keys
        /\ CheckedIn(req[p], plan, raised)
    BY DEF FindFolio, Together, RequestsInv, Good, FitsIn
  <2>2. f \in Folios /\ folio[f].head \in Batches
    BY DEF Latest, Together, RowsAre, Rows
  <2>3. r \in Requests
    BY <2>1, <2>2 DEF Requests, Entries, Places
  <2>4. r.at = "findParts" /\ r.key = req[p].key /\ r.of = req[p].of /\ r.entry.folio = f
    BY <2>1 DEF Requests, Entries
  <2>5. Good(r, plan, raised, folio, used, overlapped)
    BY <2>1, <2>2, <2>3, <2>4 DEF Good, FitsIn, CheckedIn, SeesIn, SeesList
  <2>6. req' = [req EXCEPT ![p] = r]
    BY <1>3, <2>1 DEF Together, RequestsInv, Requests
  <2> HIDE DEF r
  <2> QED BY <1>1, <2>5, <2>6, OneMovesAlone DEF Together
<1> QED BY <1>2, <1>3 DEF FindFolio

LEMMA FindPartsMoves ==
    ASSUME Together, NEW p \in Procs, FindParts(p)
    PROVE  RequestsInv'
<1>1. plan' = plan /\ raised' = raised /\ folio' = folio /\ used' = used /\ overlapped' = overlapped
  BY DEF FindParts, portfolios, entries
<1>2. /\ req[p] \in Requests /\ req[p].at = "findParts" /\ req[p].key \in Keys
      /\ req[p].entry.folio \in Folios /\ CheckedIn(req[p], plan, raised)
  BY DEF FindParts, Together, RequestsInv, Good, FitsIn
<1>3. PICK l \in Lists :
        req' = [req EXCEPT ![p].at = IF req[p].left = {l} THEN "findLevel" ELSE @,
                           ![p].entry.parts[l] = folio[req[p].entry.folio].parts[l],
                           ![p].left = @ \ {l}]
  BY DEF FindParts
<1>4. PICK to, b, rest : /\ to = IF req[p].left = {l} THEN "findLevel" ELSE "findParts"
                         /\ b = folio[req[p].entry.folio].parts[l] /\ rest = req[p].left \ {l}
  OBVIOUS
<1>5. req' = [req EXCEPT ![p].at = to, ![p].entry.parts[l] = b, ![p].left = rest]
  BY <1>2, <1>3, <1>4
<1>6. b \in SUBSET Batches /\ rest \in SUBSET Lists /\ to \in { "findLevel", "findParts" }
  BY <1>2, <1>4, RequestParts DEF Together, RowsAre, Rows, Parts
<1>e. PICK e : e = [req[p].entry EXCEPT !.parts = [req[p].entry.parts EXCEPT ![l] = b]]
  OBVIOUS
<1>r. PICK r : r = [req[p] EXCEPT !.at = to, !.entry = e, !.left = rest]
  OBVIOUS
<1>7. e \in Entries /\ e.folio = req[p].entry.folio
  <2>1. req[p].entry \in Entries
    BY <1>2, RequestParts
  <2>2. [req[p].entry.parts EXCEPT ![l] = b] \in Parts
    BY <1>6, <2>1 DEF Entries, Parts
  <2> QED BY <1>e, <2>1, <2>2 DEF Entries
<1>8. req' = [req EXCEPT ![p] = r]
  BY <1>2, <1>5, <1>e, <1>r DEF Together, RequestsInv, Requests, Entries
<1>9. r \in Requests
  BY <1>2, <1>6, <1>7, <1>r DEF Requests, Places
<1>10. r.at = to /\ r.key = req[p].key /\ r.of = req[p].of /\ r.entry = e
  BY <1>2, <1>r DEF Requests
<1>11. Good(r, plan, raised, folio, used, overlapped)
  BY <1>2, <1>6, <1>7, <1>9, <1>10 DEF Good, FitsIn, CheckedIn, SeesIn, SeesList
<1> QED BY <1>1, <1>8, <1>11, OneMovesAlone DEF Together

LEMMA FindLevelMoves ==
    ASSUME Together, NEW p \in Procs, FindLevel(p)
    PROVE  RequestsInv'
<1>1. plan' = plan /\ raised' = raised /\ folio' = folio /\ used' = used /\ overlapped' = overlapped
  BY DEF FindLevel, portfolios, entries
<1>2. /\ req[p] \in Requests /\ req[p].at = "findLevel" /\ req[p].key \in Keys
      /\ CheckedIn(req[p], plan, raised)
  BY DEF FindLevel, Together, RequestsInv, Good, FitsIn
<1>3. PICK k \in Keys : k = req[p].key
  BY <1>2
<1>4. PICK level \in Levels : level = plan[k[1]].level
  BY KeyParts DEF Together, RunInv, PlanRows
<1>5. CASE /\ Stands(k[1], req[p].of)
           /\ req' = [req EXCEPT ![p].at = "set", ![p].entry.level = level]
  <2> DEFINE r == [req[p] EXCEPT !.at = "set", !.entry.level = level]
  <2>1. r \in Requests
    BY <1>2, RequestParts DEF Requests, Entries, Places
  <2>2. r.at = "set" /\ r.key = k /\ r.entry.level = level
    BY <1>2, <1>3 DEF Requests, Entries
  <2>3. k[1] \in raised \/ Opens(k, level)
    BY <1>2, <1>3, <1>4, <1>5 DEF CheckedIn, Stands, StandsIn
  <2>4. Good(r, plan, raised, folio, used, overlapped)
    BY <2>1, <2>2, <2>3 DEF Good, FitsIn, CheckedIn, SeesIn, SeesList
  <2>5. req' = [req EXCEPT ![p] = r]
    BY <1>2, <1>5 DEF Together, RequestsInv, Requests
  <2> HIDE DEF r
  <2> QED BY <1>1, <2>4, <2>5, OneMovesAlone DEF Together
<1>6. CASE Answer(p)
  BY <1>1, <1>6, AnswerMoves
<1> QED BY <1>3, <1>4, <1>5, <1>6 DEF FindLevel

LEMMA UpdateMoves ==
    ASSUME Together, NEW p \in Procs, NEW f \in Folios, NEW change \in Asked, Update(p, f, change)
    PROVE  RequestsInv' /\ Bounds'
<1>1. PICK todo, to, of :
        /\ todo = { l \in Lists : change.parts[l] # "keep" }
        /\ to = IF todo = {} THEN "replace" ELSE "wipe"
        /\ of = IF change.plan = NoPlan THEN 0 ELSE plan[change.plan].id
  OBVIOUS
<1> DEFINE r == [Idle EXCEPT !.at = to, !.of = of, !.folio = f, !.change = change,
                             !.n = updates + 1, !.left = todo]
<1>2. /\ plan' = plan /\ raised' = raised /\ folio' = folio /\ used' = used
      /\ overlapped' = overlapped /\ missed' = missed
      /\ req' = [req EXCEPT ![p] = r] /\ updates < MaxUpdates /\ updates' = updates + 1
      /\ f <= used
  BY <1>1 DEF Update, Begin, entries, Live, Together, RowsAre
<1>3. updates + 1 \in Batches /\ Bounds'
  BY <1>2, PortfoliosAssumption DEF Together, Bounds, Batches
<1>4. change \in Changes
  BY PortfoliosAssumption
<1>5. of \in Ids
  BY <1>1, <1>4, NothingIs DEF Changes, Together, RunInv, PlanRows
<1>6. r \in Requests
  BY <1>1, <1>3, <1>4, <1>5, IdleIsRequest DEF Requests, Places
<1>7. r.at = to /\ r.folio = f /\ r.change = change /\ r.left = todo /\ \A l \in Lists : r.held[l] = {}
  BY DEF Idle, NoParts
<1>8. FitsIn(r, used)
  BY <1>1, <1>2, <1>7 DEF FitsIn, Replaces
<1>9. CheckedIn(r, plan, raised) /\ SeesIn(r, folio, overlapped)
  BY <1>1, <1>7 DEF CheckedIn, SeesIn, SeesList, Replaces
<1>10. Good(r, plan, raised, folio, used, overlapped)
  BY <1>6, <1>8, <1>9 DEF Good
<1> HIDE DEF r
<1> QED BY <1>2, <1>3, <1>10, OneMovesAlone DEF Together

\* One list comes first.
LEMMA FirstIsOne ==
    ASSUME NEW r, NEW l \in Lists, NEW m \in Lists, First(r, l), First(r, m)
    PROVE  l = m
  BY PortfoliosAssumption DEF First, Lists

LEMMA WipeMoves ==
    ASSUME Together, NEW p \in Procs, Wipe(p)
    PROVE  RequestsInv'
<1>1. plan' = plan /\ raised' = raised /\ folio' = folio /\ used' = used /\ overlapped' = overlapped
  BY DEF Wipe, portfolios, entries
<1>2. /\ req[p] \in Requests /\ req[p].at = "wipe" /\ req[p].folio \in Folios
      /\ FitsIn(req[p], used) /\ SeesIn(req[p], folio, overlapped)
  BY DEF Wipe, Together, RequestsInv, Good, FitsIn
<1>3. PICK l \in Lists : /\ First(req[p], l)
                        /\ req' = [req EXCEPT ![p].at = "wiped", ![p].seen = folio[req[p].folio].parts[l]]
  BY DEF Wipe
<1>4. PICK b \in SUBSET Batches : b = folio[req[p].folio].parts[l]
  BY <1>2 DEF Together, RowsAre, Rows, Parts
<1> DEFINE r == [req[p] EXCEPT !.at = "wiped", !.seen = b]
<1>5. r \in Requests
  BY <1>2 DEF Requests, Places
<1>6. /\ r.at = "wiped" /\ r.folio = req[p].folio /\ r.change = req[p].change /\ r.seen = b
      /\ r.left = req[p].left /\ r.held = req[p].held
  BY <1>2 DEF Requests
<1>7. FitsIn(r, used) /\ CheckedIn(r, plan, raised)
  BY <1>2, <1>6 DEF FitsIn, CheckedIn, Replaces
<1>8. SeesIn(r, folio, overlapped)
  <2> SUFFICES ASSUME NEW m \in Lists PROVE SeesList(r, m, folio, overlapped)
    BY DEF SeesIn
  <2>1. First(r, m) => m = l
    BY <1>3, <1>6, FirstIsOne DEF First
  <2> QED BY <1>2, <1>4, <1>6, <2>1 DEF SeesIn, SeesList, Replaces
<1>9. req' = [req EXCEPT ![p] = r]
  BY <1>2, <1>3, <1>4 DEF Together, RequestsInv
<1>10. Good(r, plan, raised, folio, used, overlapped)
  BY <1>5, <1>7, <1>8 DEF Good
<1> HIDE DEF r
<1> QED BY <1>1, <1>9, <1>10, OneMovesAlone DEF Together

LEMMA WipedMoves ==
    ASSUME Together, NEW p \in Procs, Wiped(p)
    PROVE  RequestsInv'
<1>1. plan' = plan /\ raised' = raised /\ folio' = folio /\ used' = used /\ overlapped' = overlapped
  BY DEF Wiped, portfolios, entries
<1>2. /\ req[p] \in Requests /\ req[p].at = "wiped" /\ req[p].folio \in Folios
      /\ FitsIn(req[p], used) /\ SeesIn(req[p], folio, overlapped)
  BY DEF Wiped, Together, RequestsInv, Good, FitsIn
<1>3. PICK l \in Lists :
        /\ First(req[p], l)
        /\ req' = [req EXCEPT ![p].at = IF req[p].left = {l} THEN "replace" ELSE "wipe",
                              ![p].held[l] = req[p].seen \cap folio[req[p].folio].parts[l],
                              ![p].left = @ \ {l}, ![p].seen = {}]
  BY DEF Wiped
<1>4. PICK to, b, rest : /\ to = IF req[p].left = {l} THEN "replace" ELSE "wipe"
                         /\ b = req[p].seen \cap folio[req[p].folio].parts[l]
                         /\ rest = req[p].left \ {l}
  OBVIOUS
<1> DEFINE r == [req[p] EXCEPT !.at = to, !.held = [req[p].held EXCEPT ![l] = b],
                               !.left = rest, !.seen = {}]
<1>5. req' = [req EXCEPT ![p] = r]
  BY <1>2, <1>3, <1>4 DEF Together, RequestsInv, Requests
<1>6. b \in SUBSET Batches /\ rest \in SUBSET Lists /\ to \in { "replace", "wipe" }
      /\ l \in req[p].left
  BY <1>2, <1>3, <1>4, RequestParts DEF First
<1>7. req[p].held \in Parts
  BY <1>2, RequestParts
<1>8. [req[p].held EXCEPT ![l] = b] \in Parts
  BY <1>6, <1>7 DEF Parts
<1>9. r \in Requests
  BY <1>2, <1>6, <1>8 DEF Requests, Places
<1>10. /\ r.at = to /\ r.folio = req[p].folio /\ r.change = req[p].change
       /\ r.left = rest /\ r.held[l] = b /\ \A m \in Lists \ {l} : r.held[m] = req[p].held[m]
  BY <1>2, <1>7 DEF Requests, Parts
<1>11. FitsIn(r, used) /\ CheckedIn(r, plan, raised)
  <2>1. CheckedIn(r, plan, raised)
    BY <1>6, <1>10 DEF CheckedIn
  <2>2. Replaces(req[p], l)
    BY <1>2, <1>6 DEF FitsIn
  <2>3. \A m \in Lists : Replaces(r, m) \/ r.held[m] = {}
    BY <1>2, <1>10, <2>2 DEF FitsIn, Replaces
  <2> QED BY <1>2, <1>4, <1>6, <1>10, <2>1, <2>3 DEF FitsIn, Replaces
<1>12. SeesIn(r, folio, overlapped)
  <2> SUFFICES ASSUME NEW m \in Lists PROVE SeesList(r, m, folio, overlapped)
    BY DEF SeesIn
  <2>1. SeesList(req[p], m, folio, overlapped)
    BY <1>2 DEF SeesIn
  <2>2. CASE m = l
    <3> SUFFICES ASSUME Replaces(req[p], l), <<req[p].folio, l>> \notin overlapped,
                        folio[req[p].folio].plan # NoPlan
                 PROVE  r.held[l] = folio[req[p].folio].parts[l]
      BY <1>6, <1>10, <2>2 DEF SeesList, Replaces
    <3>1. req[p].seen = folio[req[p].folio].parts[l]
      BY <1>2, <1>3, <2>1, <2>2 DEF SeesList
    <3> QED BY <1>4, <1>10, <3>1
  <2>3. CASE m # l
    BY <1>2, <1>4, <1>6, <1>10, <2>1, <2>3 DEF SeesList, Replaces
  <2> QED BY <2>2, <2>3
<1>13. Good(r, plan, raised, folio, used, overlapped)
  BY <1>9, <1>11, <1>12 DEF Good
<1> HIDE DEF r
<1> QED BY <1>1, <1>5, <1>13, OneMovesAlone DEF Together

LEMMA ScanMoves ==
    ASSUME Together, NEW p \in Procs, Scan(p)
    PROVE  RequestsInv'
<1> DEFINE r == [req[p] EXCEPT !.at = "scan", !.todo = { k \in Keys : Present(k) }]
<1>1. plan' = plan /\ raised' = raised /\ folio' = folio /\ used' = used /\ overlapped' = overlapped
  BY DEF Scan, portfolios, entries
<1>2. req[p] \in Requests
  BY DEF Together, RequestsInv
<1>3. r \in Requests /\ r.at = "scan"
  BY <1>2 DEF Requests, Places
<1>4. Good(r, plan, raised, folio, used, overlapped)
  BY <1>3, PlainIsGood
<1>5. req' = [req EXCEPT ![p] = r]
  BY <1>2 DEF Scan, Together, RequestsInv
<1> HIDE DEF r
<1> QED BY <1>1, <1>4, <1>5, OneMovesAlone DEF Together

\* Steps that leave the rows alone, and the entries too.
LEMMA ReadingKeeps ==
    ASSUME Together, RequestsInv', Bounds',
           plan' = plan, raised' = raised, folio' = folio, used' = used,
           overlapped' = overlapped, cache' = cache,
           UNCHANGED <<seed, texts, account>>, work' \in 0 .. MaxWork,
           touched' = touched \cup Rewriting
    PROVE  Together'
<1>1. CacheInv'
  BY CacheKept DEF Together, CacheInv
<1>2. RunInv'
  BY RunServed DEF Together
<1>3. RowsAre(folio, used, overlapped)' /\ Housed(folio, plan)'
  BY DEF Together, RowsAre, Housed
<1> QED BY <1>1, <1>2, <1>3 DEF Together

\* Steps that change entries, and no row.
LEMMA CachingKeeps ==
    ASSUME Together, RequestsInv', Bounds', CacheInv',
           plan' = plan, raised' = raised, folio' = folio, used' = used, overlapped' = overlapped,
           UNCHANGED <<seed, texts, account>>, work' \in 0 .. MaxWork,
           touched' = touched \cup Rewriting
    PROVE  Together'
<1>2. RunInv'
  BY RunServed DEF Together
<1>3. RowsAre(folio, used, overlapped)' /\ Housed(folio, plan)'
  BY DEF Together, RowsAre, Housed
<1> QED BY <1>2, <1>3 DEF Together

LEMMA SetKeeps ==
    ASSUME Together, NEW p \in Procs, Set(p)
    PROVE  RequestsInv' /\ Bounds' /\ CacheInv'
<1> DEFINE k == req[p].key
           e == req[p].entry
<1>1. /\ plan' = plan /\ raised' = raised /\ folio' = folio /\ used' = used
      /\ overlapped' = overlapped /\ updates' = updates
      /\ cache' = [cache EXCEPT ![k] = e] /\ Answer(p)
  BY DEF Set, portfolios
<1>2. /\ req[p] \in Requests /\ req[p].at = "set" /\ k \in Keys
      /\ k[1] \in raised \/ Opens(k, e.level)
  BY DEF Set, Together, RequestsInv, Good, FitsIn, CheckedIn
<1>3. e \in Entries
  BY <1>2, RequestParts
<1>4. missed' \subseteq Keys
  BY <1>2 DEF Set, Together, Bounds
<1>5. Bounds'
  BY <1>1, <1>4 DEF Together, Bounds
<1>6. cache' \in [ Keys -> Entries ]
  BY <1>1, <1>2, <1>3 DEF Together, CacheInv
<1>7. ASSUME NEW l \in Keys, Present(l)', l[1] \notin raised
      PROVE  Opens(l, cache'[l].level)
  <2>1. CASE l = k
    <3>1. cache'[k] = e
      BY <1>1, <1>2 DEF Together, CacheInv
    <3> QED BY <1>2, <1>7, <2>1, <3>1
  <2>2. CASE l # k
    <3>1. cache'[l] = cache[l]
      BY <1>1, <2>2 DEF Together, CacheInv
    <3> QED BY <1>7, <3>1 DEF Together, CacheInv, EntriesAreCovered, Present
  <2> QED BY <2>1, <2>2
<1>8. CacheInv'
  BY <1>1, <1>6, <1>7 DEF Together, CacheInv, EntriesAreCovered, Opens
<1> QED BY <1>1, <1>5, <1>8, AnswerMoves

\* An entry that goes.
LEMMA EntryGoes ==
    ASSUME Together, NEW k \in Keys, cache' = [cache EXCEPT ![k] = NoEntry], raised' = raised
    PROVE  CacheInv'
<1>2. cache' \in [ Keys -> Entries ]
  BY NoEntryIsEntry DEF Together, CacheInv
<1>3. \A l \in Keys : cache'[l] = NoEntry \/ cache'[l] = cache[l]
  BY DEF Together, CacheInv
<1> QED BY <1>2, <1>3 DEF Together, CacheInv, EntriesAreCovered, Present, Opens

LEMMA ExpireKeeps ==
    ASSUME Together, NEW k \in Keys, Expire(k)
    PROVE  RequestsInv' /\ Bounds' /\ CacheInv'
<1>1. /\ plan' = plan /\ raised' = raised /\ folio' = folio /\ used' = used
      /\ overlapped' = overlapped /\ updates' = updates
      /\ cache' = [cache EXCEPT ![k] = NoEntry] /\ missed' = missed \ {k}
      /\ req' = [ p \in Procs |-> [req[p] EXCEPT !.todo = @ \ {k}] ]
  BY DEF Expire, portfolios
<1> QED BY <1>1, EntryGoes, ListsShrink DEF Together, Bounds

LEMMA UnlinkKeeps ==
    ASSUME Together, NEW p \in Procs, NEW k \in Keys, Unlink(p, k)
    PROVE  RequestsInv' /\ Bounds' /\ CacheInv'
<1>1. /\ plan' = plan /\ raised' = raised /\ folio' = folio /\ used' = used
      /\ overlapped' = overlapped /\ updates' = updates
      /\ cache' = [cache EXCEPT ![k] = NoEntry] /\ missed' = missed \ {k}
      /\ req' = [ q \in Procs |-> [req[q] EXCEPT !.todo = @ \ {k}] ]
  BY DEF Unlink, portfolios
<1> QED BY <1>1, EntryGoes, ListsShrink DEF Together, Bounds

LEMMA FailKeeps ==
    ASSUME Together, NEW p \in Procs, Fail(p)
    PROVE  RequestsInv' /\ Bounds'
<1>1. /\ plan' = plan /\ raised' = raised /\ folio' = folio /\ used' = used
      /\ overlapped' = overlapped /\ updates' = updates /\ Answer(p)
  BY DEF Fail, portfolios
<1>2. req[p].todo \subseteq Keys
  BY RequestParts DEF Together, RequestsInv
<1>3. missed' \subseteq Keys
  <2>1. CASE req[p].at = "invalidate"
    BY <2>1 DEF Fail, Together, Bounds
  <2>2. CASE req[p].at = "scan"
    BY <1>2, <2>2 DEF Fail, Together, Bounds
  <2>3. CASE req[p].at \notin { "invalidate", "scan" }
    BY <2>3 DEF Fail, Together, Bounds
  <2> QED BY <2>1, <2>2, <2>3
<1>4. Bounds'
  BY <1>1, <1>3 DEF Together, Bounds
<1> QED BY <1>1, <1>4, AnswerMoves

-----------------------------------------------------------------------------
(* Steps that change portfolios.                                           *)

\* What a request relies on stays when the rows it is at stay.
LEMMA OthersRelyOn ==
    ASSUME RequestsInv, NEW q \in Procs, plan' = plan, raised' = raised,
           used \in Nat, used' \in Nat, used <= used', overlapped \subseteq overlapped',
           /\ req[q].folio \in Folios /\ req[q].folio <= used
           /\ folio'[req[q].folio].plan # NoPlan
           => \A l \in Lists :
                /\ req[q].at \in { "wipe", "wiped", "replace" } /\ Replaces(req[q], l)
                /\ l \notin req[q].left \/ (req[q].at = "wiped" /\ First(req[q], l))
                /\ <<req[q].folio, l>> \notin overlapped'
                => /\ folio[req[q].folio].plan # NoPlan
                   /\ folio'[req[q].folio].parts[l] = folio[req[q].folio].parts[l]
    PROVE  Good(req[q], plan', raised', folio', used', overlapped')
<1>1. Good(req[q], plan, raised, folio, used, overlapped)
  BY DEF RequestsInv
<1>2. FitsIn(req[q], used')
  <2>1. \A f \in Folios : f <= used => f <= used'
    BY DEF Folios
  <2> QED BY <1>1, <2>1 DEF Good, FitsIn
<1>3. SeesIn(req[q], folio', overlapped')
  <2> SUFFICES ASSUME NEW l \in Lists PROVE SeesList(req[q], l, folio', overlapped')
    BY DEF SeesIn
  <2>1. SeesList(req[q], l, folio, overlapped) /\ FitsIn(req[q], used)
    BY <1>1 DEF Good, SeesIn
  <2> QED BY <2>1 DEF SeesList, FitsIn
<1> QED BY <1>1, <1>2, <1>3 DEF Good

LEMMA NoRowIsRow ==
    NoRow \in Rows /\ NoRow.plan = NoPlan /\ (\A l \in Lists : NoRow.parts[l] = {}) /\ 0 \in Batches
  BY PortfoliosAssumption, NothingIs DEF NoRow, Rows, Dates, NoParts

\* A new portfolio.
LEMMA InsertRows ==
    ASSUME Together, NEW s \in Plans, NEW date \in Dates, Insert(s, date), overlapped' = overlapped
    PROVE  /\ RowsAre(folio, used, overlapped)'
           /\ used \in Nat /\ used' \in Nat /\ used <= used' /\ used + 1 \in Folios
           /\ \A f \in Folios \ {used + 1} : folio'[f] = folio[f]
           /\ folio'[used + 1].plan = s /\ folio'[used + 1].date = date
           /\ plan' = plan /\ raised' = raised
              => \A q \in Procs : Good(req[q], plan', raised', folio', used', overlapped')
<1> DEFINE new == [ plan |-> s, date |-> date, head |-> 0, parts |-> [ l \in Lists |-> {0} ] ]
<1>1. used \in 0 .. MaxFolios /\ used < MaxFolios /\ used' = used + 1
      /\ folio' = [folio EXCEPT ![used + 1] = new] /\ folio \in [ Folios -> Rows ]
  BY DEF Insert, Together, RowsAre
<1>2. used \in Nat /\ used' \in Nat /\ used <= used' /\ used + 1 \in Folios /\ used' \in 0 .. MaxFolios
      /\ \A f \in Folios : f <= used => f <= used' /\ f # used + 1
  BY <1>1, PortfoliosAssumption DEF Folios
<1>3. new \in Rows
  BY NoRowIsRow DEF Rows, Parts
<1>4. /\ folio' \in [ Folios -> Rows ]
      /\ \A f \in Folios \ {used + 1} : folio'[f] = folio[f]
      /\ folio'[used + 1] = new
  BY <1>1, <1>2, <1>3
<1>5. \A f \in Folios :
        /\ folio'[f].plan # NoPlan => f <= used'
        /\ \A l \in Lists : <<f, l>> \in overlapped' \/ \E b \in Batches : folio'[f].parts[l] \subseteq {b}
  <2> TAKE f \in Folios
  <2>1. CASE f = used + 1
    <3>1. f <= used' /\ \A l \in Lists : folio'[f].parts[l] \subseteq {0}
      BY <1>1, <1>2, <1>4, <2>1
    <3> QED BY <3>1, NoRowIsRow
  <2>2. CASE f # used + 1
    BY <1>2, <1>4, <2>2 DEF Together, RowsAre
  <2> QED BY <2>1, <2>2
<1>6. RowsAre(folio, used, overlapped)'
  BY <1>2, <1>4, <1>5 DEF Together, RowsAre
<1>7. ASSUME plan' = plan, raised' = raised, NEW q \in Procs
      PROVE  Good(req[q], plan', raised', folio', used', overlapped')
  <2>1. req[q].folio \in Folios /\ req[q].folio <= used => folio'[req[q].folio] = folio[req[q].folio]
    BY <1>2, <1>4
  <2> QED BY <1>2, <1>7, <2>1, OthersRelyOn DEF Together
<1> QED BY <1>2, <1>4, <1>6, <1>7

\* Portfolios that go.
LEMMA RowsGo ==
    ASSUME Together, NEW S \in SUBSET Folios,
           folio' = [ f \in Folios |-> IF f \in S THEN NoRow ELSE folio[f] ],
           used' = used, overlapped' = overlapped, plan' = plan, raised' = raised
    PROVE  /\ RowsAre(folio, used, overlapped)' /\ Housed(folio, plan)'
           /\ \A q \in Procs : Good(req[q], plan', raised', folio', used', overlapped')
<1>1. used \in Nat /\ used \in 0 .. MaxFolios /\ folio \in [ Folios -> Rows ]
  BY PortfoliosAssumption DEF Together, RowsAre
<1>2. \A f \in Folios : folio'[f] = NoRow \/ folio'[f] = folio[f]
  OBVIOUS
<1>3. folio' \in [ Folios -> Rows ]
  BY <1>1, NoRowIsRow
<1>4. \A f \in Folios :
        /\ folio'[f].plan # NoPlan => f <= used
        /\ \A l \in Lists : <<f, l>> \in overlapped \/ \E b \in Batches : folio'[f].parts[l] \subseteq {b}
  <2> TAKE f \in Folios
  <2>1. CASE folio'[f] = NoRow
    <3>1. folio'[f].plan = NoPlan /\ \A l \in Lists : folio'[f].parts[l] \subseteq {0}
      BY <2>1, NoRowIsRow
    <3> QED BY <3>1, NoRowIsRow
  <2>2. CASE folio'[f] = folio[f]
    BY <2>2 DEF Together, RowsAre
  <2> QED BY <1>2, <2>1, <2>2
<1>5. RowsAre(folio, used, overlapped)'
  BY <1>3, <1>4 DEF Together, RowsAre
<1>6. ASSUME NEW q \in Procs
      PROVE  Good(req[q], plan', raised', folio', used', overlapped')
  <2>1. req[q].folio \in Folios /\ folio'[req[q].folio].plan # NoPlan
        => folio'[req[q].folio] = folio[req[q].folio]
    BY <1>2, NoRowIsRow
  <2> QED BY <1>1, <2>1, OthersRelyOn DEF Together
<1>7. Housed(folio, plan)'
  BY <1>2, NoRowIsRow DEF Together, Housed
<1> QED BY <1>5, <1>6, <1>7

LEMMA CreateKeeps ==
    ASSUME Together, NEW p \in Procs, NEW s \in Plans, NEW date \in Dates, Create(p, s, date)
    PROVE  RequestsInv' /\ RowsAre(folio, used, overlapped)' /\ Housed(folio, plan)'
<1>1. /\ plan' = plan /\ raised' = raised /\ overlapped' = overlapped /\ Insert(s, date)
      /\ req' = [req EXCEPT ![p] = [Idle EXCEPT !.at = "invalidate"]] /\ plan[s].live
  BY DEF Create, Begin, entries
<1>2. \A q \in Procs : Good(req[q], plan', raised', folio', used', overlapped')
  BY <1>1, InsertRows
<1>3. RowsAre(folio, used, overlapped)'
  BY <1>1, InsertRows
<1>4. Housed(folio, plan)'
  BY <1>1, InsertRows DEF Together, Housed
<1> QED BY <1>1, <1>2, <1>3, <1>4, RestIsGood, OneMoves DEF Together

LEMMA RemoveKeeps ==
    ASSUME Together, NEW p \in Procs, NEW f \in Folios, RemoveFolio(p, f)
    PROVE  RequestsInv' /\ RowsAre(folio, used, overlapped)' /\ Housed(folio, plan)'
<1>1. /\ plan' = plan /\ raised' = raised /\ overlapped' = overlapped /\ used' = used
      /\ folio' = [folio EXCEPT ![f] = NoRow]
      /\ req' = [req EXCEPT ![p] = [Idle EXCEPT !.at = "invalidate"]]
  BY DEF RemoveFolio, Begin, Gone, entries
<1>2. folio' = [ g \in Folios |-> IF g \in {f} THEN NoRow ELSE folio[g] ]
  BY <1>1 DEF Together, RowsAre
<1>3. /\ \A q \in Procs : Good(req[q], plan', raised', folio', used', overlapped')
      /\ RowsAre(folio, used, overlapped)' /\ Housed(folio, plan)'
  BY <1>1, <1>2, RowsGo
<1> QED BY <1>1, <1>3, RestIsGood, OneMoves DEF Together

\* What an update makes of a row is a row, of the plan it had or of the one
\* that was asked for.
LEMMA RewrittenRow ==
    ASSUME NEW r \in Requests, NEW row \in Rows
    PROVE  /\ Rewritten(r, row) \in Rows
           /\ Rewritten(r, row).plan = IF r.change.plan = NoPlan THEN row.plan ELSE r.change.plan
           /\ \A l \in Lists : Rewritten(r, row).parts[l] =
                (row.parts[l] \ r.held[l]) \cup (IF r.change.parts[l] = "rows" THEN {r.n} ELSE {})
<1>1. /\ r.change \in Changes /\ r.n \in Batches /\ r.held \in Parts
      /\ row.parts \in Parts /\ row.plan \in Plans \cup {NoPlan} /\ row.date \in Dates
  BY RequestParts DEF Rows
<1>2. PICK parts : parts = [ l \in Lists |-> (row.parts[l] \ r.held[l])
                               \cup (IF r.change.parts[l] = "rows" THEN {r.n} ELSE {}) ]
  OBVIOUS
<1>3. parts \in Parts
  BY <1>1, <1>2 DEF Parts
<1>4. PICK s, d : /\ s = IF r.change.plan = NoPlan THEN row.plan ELSE r.change.plan
                  /\ d = IF r.change.date = NoDate THEN row.date ELSE r.change.date
  OBVIOUS
<1>5. s \in Plans \cup {NoPlan} /\ d \in Dates
  BY <1>1, <1>4 DEF Changes
<1>6. Rewritten(r, row) = [ plan |-> s, date |-> d, head |-> r.n, parts |-> parts ]
  BY <1>2, <1>4 DEF Rewritten
<1> QED BY <1>1, <1>2, <1>3, <1>4, <1>5, <1>6 DEF Rows

LEMMA ReplaceKeeps ==
    ASSUME Together, NEW p \in Procs, Replace(p)
    PROVE  RequestsInv' /\ RowsAre(folio, used, overlapped)' /\ Housed(folio, plan)'
<1>1. plan' = plan /\ raised' = raised /\ used' = used /\ req[p].at = "replace"
  BY DEF Replace, entries
<1>2. /\ req[p] \in Requests /\ req[p].folio \in Folios /\ req[p].folio <= used
      /\ req[p].left = {} /\ SeesIn(req[p], folio, overlapped)
      /\ \A l \in Lists : Replaces(req[p], l) \/ req[p].held[l] = {}
      /\ folio \in [ Folios -> Rows ] /\ used \in Nat /\ used \in 0 .. MaxFolios
  BY <1>1, PortfoliosAssumption DEF Together, RequestsInv, Good, FitsIn, RowsAre
<1>3. PICK f \in Folios : f = req[p].folio
  BY <1>2
<1>4. CASE /\ folio' = folio /\ overlapped' = overlapped /\ Answer(p)
  BY <1>1, <1>4, AnswerMoves DEF Together, RowsAre, Housed
<1>5. CASE /\ Live(f) /\ (req[p].change.plan = NoPlan \/ Stands(req[p].change.plan, req[p].of))
           /\ folio' = [folio EXCEPT ![f] = Rewritten(req[p], @)]
           /\ req' = [req EXCEPT ![p] = [Idle EXCEPT !.at = "invalidate"]]
           /\ overlapped' = overlapped \cup
                { <<f, l>> : l \in { l \in Lists : Replaces(req[p], l) /\ Replacing(f, l) # {p} } }
  <2>1. PICK row, new : row = folio[f] /\ new = Rewritten(req[p], row)
    OBVIOUS
  <2>2. /\ row \in Rows /\ row.plan # NoPlan /\ new \in Rows
        /\ new.plan = IF req[p].change.plan = NoPlan THEN row.plan ELSE req[p].change.plan
        /\ \A l \in Lists : new.parts[l] = (row.parts[l] \ req[p].held[l])
                                \cup (IF req[p].change.parts[l] = "rows" THEN {req[p].n} ELSE {})
    BY <1>2, <1>5, <2>1, RewrittenRow DEF Live
  <2>3. /\ folio' \in [ Folios -> Rows ] /\ folio'[f] = new
        /\ \A g \in Folios \ {f} : folio'[g] = folio[g]
    BY <1>2, <1>5, <2>1, <2>2
  <2>4. overlapped \subseteq overlapped' /\ overlapped' \subseteq Folios \X Lists
        /\ \A l \in Lists : Replaces(req[p], l) /\ Replacing(f, l) # {p} => <<f, l>> \in overlapped'
    BY <1>5 DEF Together, RowsAre
  <2>5. ASSUME NEW l \in Lists, <<f, l>> \notin overlapped'
        PROVE  \E b \in Batches : new.parts[l] \subseteq {b}
    <3>1. CASE ~Replaces(req[p], l)
      <4>1. new.parts[l] \subseteq row.parts[l]
        BY <2>2, <3>1 DEF Replaces
      <4>2. PICK b \in Batches : row.parts[l] \subseteq {b}
        BY <1>2, <2>1, <2>4, <2>5 DEF Together, RowsAre
      <4> QED BY <4>1, <4>2
    <3>2. CASE Replaces(req[p], l)
      <4>1. SeesList(req[p], l, folio, overlapped)
        BY <1>2 DEF SeesIn
      <4>2. req[p].held[l] = row.parts[l]
        BY <1>1, <1>2, <1>3, <2>1, <2>2, <2>4, <2>5, <3>2, <4>1 DEF SeesList
      <4>3. new.parts[l] \subseteq {req[p].n}
        BY <2>2, <4>2
      <4> QED BY <1>2, <4>3, RequestParts
    <3> QED BY <3>1, <3>2
  <2>6. \A g \in Folios :
          /\ folio'[g].plan # NoPlan => g <= used
          /\ \A l \in Lists : <<g, l>> \in overlapped' \/ \E b \in Batches : folio'[g].parts[l] \subseteq {b}
    BY <1>2, <1>3, <2>3, <2>4, <2>5 DEF Together, RowsAre
  <2>7. RowsAre(folio, used, overlapped)'
    BY <1>1, <1>2, <2>3, <2>4, <2>6 DEF RowsAre
  <2>8. Housed(folio, plan)'
    <3>1. plan[new.plan].live
      BY <1>5, <2>1, <2>2 DEF Stands, Together, Housed
    <3> QED BY <1>1, <2>3, <3>1 DEF Together, Housed
  <2>9. ASSUME NEW q \in Procs \ {p}
        PROVE  Good(req[q], plan', raised', folio', used', overlapped')
    <3>1. ASSUME req[q].folio = f, NEW l \in Lists,
                 req[q].at \in { "wipe", "wiped", "replace" }, Replaces(req[q], l),
                 l \notin req[q].left \/ (req[q].at = "wiped" /\ First(req[q], l)),
                 <<f, l>> \notin overlapped'
          PROVE  new.parts[l] = row.parts[l]
      <4>1. q \in Replacing(f, l)
        BY <3>1 DEF Replacing, Updating
      <4>2. ~Replaces(req[p], l)
        BY <2>4, <3>1, <4>1
      <4> QED BY <1>2, <2>2, <4>2 DEF Replaces
    <3>2. CASE req[q].folio = f
      BY <1>1, <1>2, <2>1, <2>2, <2>3, <2>4, <3>1, <3>2, OthersRelyOn DEF Together
    <3>3. CASE req[q].folio # f
      <4>1. req[q].folio \in Folios => folio'[req[q].folio] = folio[req[q].folio]
        BY <2>3, <3>3
      <4> QED BY <1>1, <1>2, <2>4, <4>1, OthersRelyOn DEF Together
    <3> QED BY <3>2, <3>3
  <2> QED BY <1>5, <2>7, <2>8, <2>9, RestIsGood, OneMoves DEF Together
<1> QED BY <1>2, <1>3, <1>4, <1>5 DEF Replace

-----------------------------------------------------------------------------
(* A step of the service.                                                  *)

LEMMA WritingKeeps ==
    ASSUME Together, RequestsInv', Bounds', RowsAre(folio, used, overlapped)', Housed(folio, plan)',
           plan' = plan, raised' = raised, cache' = cache,
           UNCHANGED <<seed, texts, account>>, work' \in 0 .. MaxWork,
           touched' = touched \cup Rewriting
    PROVE  Together'
<1>1. CacheInv'
  BY CacheKept DEF Together, CacheInv
<1>2. RunInv'
  BY RunServed DEF Together
<1> QED BY <1>1, <1>2 DEF Together

LEMMA ServeKeeps ==
    ASSUME Together, Serve
    PROVE  Together'
<1>0. UNCHANGED <<seed, texts, account>> /\ work' \in 0 .. MaxWork /\ touched' = touched \cup Rewriting
  <2>1. work' = work \/ (work < MaxWork /\ work' = work + 1)
    BY DEF Serve, Works
  <2>2. work' \in 0 .. MaxWork
    BY <2>1, SeedAssumption DEF Together, RunInv
  <2> QED BY <2>2 DEF Serve
<1>1. ASSUME NEW p \in Procs, NEW k \in Readers, Get(p, k) PROVE Together'
  <2>1. /\ plan' = plan /\ raised' = raised /\ folio' = folio /\ used' = used
        /\ overlapped' = overlapped /\ cache' = cache /\ Bounds'
    BY <1>1 DEF Get, portfolios, entries, Together, Bounds
  <2> QED BY <1>0, <1>1, <2>1, GetMoves, ReadingKeeps
<1>2. ASSUME NEW p \in Procs, NEW s \in Plans, NEW date \in Dates, Create(p, s, date) PROVE Together'
  <2>1. plan' = plan /\ raised' = raised /\ cache' = cache /\ Bounds'
    BY <1>2 DEF Create, entries, Together, Bounds
  <2> QED BY <1>0, <1>2, <2>1, CreateKeeps, WritingKeeps
<1>3. ASSUME NEW p \in Procs, NEW f \in Folios, NEW change \in Asked, Update(p, f, change)
      PROVE  Together'
  <2>1. /\ plan' = plan /\ raised' = raised /\ folio' = folio /\ used' = used
        /\ overlapped' = overlapped /\ cache' = cache
    BY <1>3 DEF Update, entries
  <2> QED BY <1>0, <1>3, <2>1, UpdateMoves, ReadingKeeps
<1>4. ASSUME NEW p \in Procs, NEW f \in Folios, RemoveFolio(p, f) PROVE Together'
  <2>1. plan' = plan /\ raised' = raised /\ cache' = cache /\ Bounds'
    BY <1>4 DEF RemoveFolio, entries, Together, Bounds
  <2> QED BY <1>0, <1>4, <2>1, RemoveKeeps, WritingKeeps
<1>5. ASSUME NEW p \in Procs, Replace(p) PROVE Together'
  <2>1. plan' = plan /\ raised' = raised /\ cache' = cache /\ Bounds'
    BY <1>5 DEF Replace, entries, Together, Bounds
  <2> QED BY <1>0, <1>5, <2>1, ReplaceKeeps, WritingKeeps
<1>6. ASSUME NEW p \in Procs,
             \/ FindPlan(p) \/ FindFolio(p) \/ FindParts(p) \/ FindLevel(p)
             \/ Wipe(p) \/ Wiped(p) \/ Scan(p) \/ ScanEnds(p)
      PROVE  Together'
  <2>1. /\ plan' = plan /\ raised' = raised /\ folio' = folio /\ used' = used
        /\ overlapped' = overlapped /\ cache' = cache /\ updates' = updates /\ missed' = missed
    BY <1>6 DEF FindPlan, FindFolio, FindParts, FindLevel, Wipe, Wiped, Scan, ScanEnds,
                portfolios, entries
  <2>2. Bounds'
    BY <2>1 DEF Together, Bounds
  <2>3. RequestsInv'
    <3>1. CASE ScanEnds(p)
      BY <2>1, <3>1, AnswerMoves DEF ScanEnds
    <3> QED BY <1>6, <3>1, FindPlanMoves, FindFolioMoves, FindPartsMoves, FindLevelMoves,
               WipeMoves, WipedMoves, ScanMoves
  <2> QED BY <1>0, <2>1, <2>2, <2>3, ReadingKeeps
<1>7. ASSUME NEW p \in Procs, Set(p) PROVE Together'
  <2>1. plan' = plan /\ raised' = raised /\ folio' = folio /\ used' = used /\ overlapped' = overlapped
    BY <1>7 DEF Set, portfolios
  <2> QED BY <1>0, <1>7, <2>1, SetKeeps, CachingKeeps
<1>8. ASSUME NEW p \in Procs, NEW k \in Keys, Unlink(p, k) PROVE Together'
  <2>1. plan' = plan /\ raised' = raised /\ folio' = folio /\ used' = used /\ overlapped' = overlapped
    BY <1>8 DEF Unlink, portfolios
  <2> QED BY <1>0, <1>8, <2>1, UnlinkKeeps, CachingKeeps
<1>9. ASSUME NEW k \in Keys, Expire(k) PROVE Together'
  <2>1. plan' = plan /\ raised' = raised /\ folio' = folio /\ used' = used /\ overlapped' = overlapped
    BY <1>9 DEF Expire, portfolios
  <2> QED BY <1>0, <1>9, <2>1, ExpireKeeps, CachingKeeps
<1>10. ASSUME NEW p \in Procs, Fail(p) PROVE Together'
  <2>1. /\ plan' = plan /\ raised' = raised /\ folio' = folio /\ used' = used
        /\ overlapped' = overlapped /\ cache' = cache
    BY <1>10 DEF Fail, portfolios
  <2> QED BY <1>0, <1>10, <2>1, FailKeeps, ReadingKeeps
<1>11. Next
  BY DEF Serve
<1>12. CASE \E p \in Procs : Arrive(p)
  BY <1>12, <1>1, <1>2, <1>3, <1>4 DEF Arrive
<1>13. CASE \E p \in Procs : Advance(p)
  BY <1>13, <1>5, <1>6, <1>7, <1>8 DEF Advance
<1> QED BY <1>9, <1>10, <1>11, <1>12, <1>13 DEF Next

-----------------------------------------------------------------------------
(* The seed.                                                               *)

\* The file has everything for each of its plans.
LEMMA FileIsWhole ==
    /\ Plans \cap VisibilitySeeds = Plans /\ Plans \cap PortfolioSeeds = Plans /\ SeededPlans = Plans
    /\ \A s \in Plans : PlanSeeds[s] \in Levels
<1>1. DOMAIN PlanSeeds = { "free", "titan", "premium", "gold" }
  BY DEF PlanSeeds
<1> QED BY <1>1, SeedAssumption DEF VisibilitySeeds, PortfolioSeeds, SeededPlans

LEMMA RunNext ==
    ASSUME plan' \in [ Plans -> PlanRows ], texts' \subseteq Plans, account' \in { "absent", "seeded" },
           work' \in 0 .. MaxWork, touched' \subseteq Plans,
           Reached(seed', plan', texts', folio', Plans \ touched')
    PROVE  RunInv'
  BY ReachedPrimed DEF RunInv

\* Steps that the service does not notice.
LEMMA SeedMoves ==
    ASSUME Together, UNCHANGED vars, texts' \subseteq Plans, account' \in { "absent", "seeded" },
           work' \in 0 .. MaxWork, touched' \subseteq Plans,
           Reached(seed', plan, texts', folio, Plans \ touched')
    PROVE  Together'
<1>1. /\ plan' = plan /\ raised' = raised /\ folio' = folio /\ used' = used /\ req' = req
      /\ overlapped' = overlapped /\ cache' = cache /\ updates' = updates /\ missed' = missed
  BY DEF vars, portfolios, entries
<1>2. RequestsInv'
  BY <1>1, RequestsPrimed DEF Together, RequestsInv
<1>3. CacheInv'
  BY <1>1, CacheKept DEF Together, CacheInv
<1>4. RowsAre(folio, used, overlapped)' /\ Housed(folio, plan)' /\ Bounds'
  BY <1>1 DEF Together, RowsAre, Housed, Bounds
<1>5. RunInv'
  BY <1>1, RunNext DEF Together, RunInv
<1> QED BY <1>2, <1>3, <1>4, <1>5 DEF Together

LEMMA StartKeeps ==
    ASSUME Together, Start
    PROVE  Together'
<1>1. /\ work < MaxWork /\ work' = work + 1 /\ touched' = touched
      /\ seed' = [ at |-> "plans", left |-> Plans, of |-> NoPlan, id |-> 0 ]
      /\ UNCHANGED vars /\ texts' = texts /\ account' = account
  BY FileIsWhole DEF Start, Works, Goes
<1>2. work' \in 0 .. MaxWork
  BY <1>1, SeedAssumption DEF Together, RunInv
<1>3. Reached(seed', plan, texts', folio, Plans \ touched')
  BY <1>1, NothingIs
     DEF Reached, Located, Runs, SeedPlaces, PlansReached, TextsReached, FoliosReached
<1> QED BY <1>1, <1>2, <1>3, SeedMoves DEF Together, RunInv

LEMMA ExitKeeps ==
    ASSUME Together, Exit
    PROVE  Together'
<1>1. /\ seed' = [ at |-> "off", left |-> {}, of |-> NoPlan, id |-> 0 ]
      /\ UNCHANGED vars /\ texts' = texts /\ account' = account /\ work' = work /\ touched' = touched
  BY DEF Exit, Goes
<1>2. Reached(seed', plan, texts', folio, Plans \ touched')
  BY <1>1, NothingIs
     DEF Reached, Located, Runs, SeedPlaces, PlansReached, TextsReached, FoliosReached
<1> QED BY <1>1, <1>2, SeedMoves DEF Together, RunInv

\* The texts of a plan are there, or the service has written the plan.
LEMMA TextsGoOn ==
    ASSUME Together, seed.at \in { "visibilities", "upsertVisibility" }, NEW s \in Plans,
           NextOr("visibilities", s, "admin", {}),
           UNCHANGED <<vars, account, work, touched>>,
           texts \subseteq texts', texts' \subseteq Plans, s \in texts' \/ s \in touched
    PROVE  Together'
<1>1. PICK al : al = Plans \ touched
  OBVIOUS
<1>2. /\ seed \in Runs /\ PlansReached(seed, plan, al) /\ TextsReached(seed, texts, al)
      /\ s \in al => s \in texts'
  BY <1>1 DEF Together, RunInv, Reached, Located
<1>3. seed.left \subseteq Plans
  BY <1>2 DEF Runs
<1>4. PICK rest : rest = seed.left \ {s}
  OBVIOUS
<1>5. al \ rest \subseteq texts'
  BY <1>2, <1>4 DEF TextsReached
<1>6. \A t \in al : PlacedIn(t, plan)
  BY <1>2 DEF PlansReached
<1>7. Reached(seed', plan, texts', folio, al)
  <2>1. CASE rest # {} /\ seed' = [ at |-> "visibilities", left |-> rest, of |-> NoPlan, id |-> 0 ]
    BY <1>3, <1>4, <1>5, <1>6, <2>1, NothingIs
       DEF Reached, Located, Runs, SeedPlaces, PlansReached, TextsReached, FoliosReached
  <2>2. CASE rest = {} /\ seed' = [ at |-> "admin", left |-> {}, of |-> NoPlan, id |-> 0 ]
    BY <1>5, <1>6, <2>2, NothingIs
       DEF Reached, Located, Runs, SeedPlaces, PlansReached, TextsReached, FoliosReached
  <2> QED BY <1>4, <2>1, <2>2 DEF NextOr, Goes
<1> QED BY <1>1, <1>7, SeedMoves DEF Together, RunInv

LEMMA FindVisibilityKeeps ==
    ASSUME Together, NEW s \in Plans, FindVisibility(s)
    PROVE  Together'
<1>1. /\ seed.at = "visibilities" /\ s \in seed.left /\ UNCHANGED <<vars, texts, account, work, touched>>
  BY DEF FindVisibility
<1>2. PICK al : al = Plans \ touched
  OBVIOUS
<1>3. /\ seed \in Runs /\ PlansReached(seed, plan, al) /\ TextsReached(seed, texts, al)
      /\ plan[s] \in PlanRows
  BY <1>2 DEF Together, RunInv, Reached, Located
<1>4. CASE seed' = [ at |-> "upsertVisibility", left |-> seed.left, of |-> s, id |-> plan[s].id ]
  <2>1. seed.left \subseteq Plans /\ plan[s].id \in Ids
    BY <1>3 DEF Runs, PlanRows
  <2>2. Reached(seed', plan, texts', folio, al)
    BY <1>1, <1>3, <1>4, <2>1
       DEF Reached, Located, Runs, SeedPlaces, PlansReached, TextsReached, FoliosReached
  <2> QED BY <1>1, <1>2, <2>2, SeedMoves DEF Together, RunInv
<1>5. CASE ~plan[s].live /\ NextOr("visibilities", s, "admin", {})
  <2>1. s \notin al
    BY <1>1, <1>3, <1>5 DEF PlansReached, PlacedIn
  <2> QED BY <1>1, <1>2, <1>5, <2>1, TextsGoOn DEF Together, RunInv
<1> QED BY <1>4, <1>5 DEF FindVisibility, Enters

LEMMA UpsertVisibilityKeeps ==
    ASSUME Together, UpsertVisibility
    PROVE  Together'
<1>1. /\ seed.at = "upsertVisibility" /\ texts' = texts \cup {seed.of}
      /\ UNCHANGED <<vars, account, work, touched>>
      /\ NextOr("visibilities", seed.of, "admin", {})
  BY DEF UpsertVisibility
<1>2. seed.of \in Plans /\ texts \subseteq Plans
  BY <1>1 DEF Together, RunInv, Reached, Located, Runs
<1> QED BY <1>1, <1>2, TextsGoOn

LEMMA UpsertAdminKeeps ==
    ASSUME Together, UpsertAdmin
    PROVE  Together'
<1>1. /\ seed.at = "admin" /\ seed' = [ at |-> "portfolios", left |-> Plans, of |-> NoPlan, id |-> 0 ]
      /\ UNCHANGED <<vars, texts, work, touched>> /\ account' = "seeded"
  BY FileIsWhole DEF UpsertAdmin, Goes
<1>2. PICK al : al = Plans \ touched
  OBVIOUS
<1>3. PlansReached(seed, plan, al) /\ TextsReached(seed, texts, al)
  BY <1>2 DEF Together, RunInv, Reached
<1>4. Reached(seed', plan, texts', folio, al)
  BY <1>1, <1>2, <1>3, NothingIs
     DEF Reached, Located, Runs, SeedPlaces, PlansReached, TextsReached, FoliosReached
<1> QED BY <1>1, <1>2, <1>4, SeedMoves DEF Together, RunInv

\* A plan has its one portfolio, or the service has written it.
LEMMA FoliosGoOn ==
    ASSUME NEW al, NEW fo, NEW s, Reached(seed, plan, texts, folio, al), al \subseteq Plans,
           seed.at \in { "portfolios", "delete", "create" }, texts' = texts,
           NextOr("portfolios", s, "done", {}),
           \A t \in al \ (seed.left \ {s}) : SingleIn(t, fo)
    PROVE  Reached(seed', plan, texts', fo, al)
<1>1. PICK rest : rest = seed.left \ {s}
  OBVIOUS
<1>2. /\ seed \in Runs /\ PlansReached(seed, plan, al) /\ TextsReached(seed, texts, al)
      /\ rest \subseteq Plans
  BY <1>1 DEF Reached, Located, Runs
<1>3. CASE rest # {} /\ seed' = [ at |-> "portfolios", left |-> rest, of |-> NoPlan, id |-> 0 ]
  BY <1>1, <1>2, <1>3, NothingIs
     DEF Reached, Located, Runs, SeedPlaces, PlansReached, TextsReached, FoliosReached
<1>4. CASE rest = {} /\ seed' = [ at |-> "done", left |-> {}, of |-> NoPlan, id |-> 0 ]
  BY <1>1, <1>2, <1>4, NothingIs
     DEF Reached, Located, Runs, SeedPlaces, PlansReached, TextsReached, FoliosReached
<1> QED BY <1>1, <1>3, <1>4 DEF NextOr, Goes

LEMMA FindPlanOfPortfolioKeeps ==
    ASSUME Together, NEW s \in Plans, FindPlanOfPortfolio(s)
    PROVE  Together'
<1>1. /\ seed.at = "portfolios" /\ s \in seed.left /\ UNCHANGED <<vars, texts, account, work, touched>>
  BY DEF FindPlanOfPortfolio
<1>2. PICK al : al = Plans \ touched
  OBVIOUS
<1>3. /\ seed \in Runs /\ Reached(seed, plan, texts, folio, al) /\ plan[s] \in PlanRows
      /\ PlansReached(seed, plan, al) /\ TextsReached(seed, texts, al) /\ FoliosReached(seed, folio, al)
  BY <1>2 DEF Together, RunInv, Reached, Located
<1>4. CASE seed' = [ at |-> "delete", left |-> seed.left, of |-> s, id |-> plan[s].id ]
  <2>1. seed.left \subseteq Plans /\ plan[s].id \in Ids
    BY <1>3 DEF Runs, PlanRows
  <2>2. Reached(seed', plan, texts', folio, al)
    BY <1>1, <1>3, <1>4, <2>1
       DEF Reached, Located, Runs, SeedPlaces, PlansReached, TextsReached, FoliosReached
  <2> QED BY <1>1, <1>2, <2>2, SeedMoves DEF Together, RunInv
<1>5. CASE ~plan[s].live /\ NextOr("portfolios", s, "done", {})
  <2>1. s \notin al
    BY <1>1, <1>3, <1>5 DEF PlansReached, PlacedIn
  <2>2. \A t \in al \ (seed.left \ {s}) : SingleIn(t, folio)
    BY <1>1, <1>3, <2>1 DEF FoliosReached
  <2>3. Reached(seed', plan, texts', folio, al)
    BY <1>1, <1>2, <1>3, <1>5, <2>2, FoliosGoOn
  <2> QED BY <1>1, <1>2, <2>3, SeedMoves DEF Together, RunInv
<1> QED BY <1>4, <1>5 DEF FindPlanOfPortfolio, Enters

\* A plan's row is written: what a request was told stays true of the row, or
\* that row is gone, or its level is known to have changed.
LEMMA PlanWritten ==
    ASSUME Together, NEW s \in Plans, NEW row \in PlanRows, plan' = [plan EXCEPT ![s] = row],
           plan[s].id <= row.id, raised \subseteq raised', raised' \subseteq Plans,
           row.live /\ row.id = plan[s].id
           => plan[s].live /\ (s \in raised' \/ row.level = plan[s].level),
           row.live \/ \A f \in Folios : folio[f].plan # s,
           UNCHANGED <<req, folio, used, overlapped, cache>>
    PROVE  /\ RequestsInv' /\ CacheInv' /\ RowsAre(folio, used, overlapped)' /\ Housed(folio, plan)'
           /\ plan' \in [ Plans -> PlanRows ] /\ plan'[s] = row
           /\ \A t \in Plans \ {s} : plan'[t] = plan[t]
<1>1. plan \in [ Plans -> PlanRows ]
  BY DEF Together, RunInv
<1>2. /\ plan' \in [ Plans -> PlanRows ] /\ plan'[s] = row
      /\ \A t \in Plans \ {s} : plan'[t] = plan[t]
  BY <1>1
<1>3. CacheInv'
  BY CacheKept DEF Together
<1>4. RowsAre(folio, used, overlapped)'
  BY DEF Together, RowsAre
<1>5. Housed(folio, plan)'
  <2> SUFFICES ASSUME NEW f \in Folios, folio[f].plan # NoPlan
               PROVE  plan'[folio[f].plan].live
    BY DEF Housed
  <2>1. folio[f].plan \in Plans /\ plan[folio[f].plan].live
    BY DEF Together, RowsAre, Rows, Housed
  <2> QED BY <1>2, <2>1
<1>6. ASSUME NEW q \in Procs
      PROVE  Good(req[q], plan', raised', folio', used', overlapped')
  <2>1. Good(req[q], plan, raised, folio, used, overlapped)
    BY DEF Together, RequestsInv
  <2>2. CASE req[q].at \in { "findFolio", "findParts", "findLevel" }
    <3>1. PICK t \in Plans : t = req[q].key[1]
      BY <2>1, <2>2, KeyParts DEF Good, FitsIn
    <3>2. /\ req[q].of \in Nat /\ req[q].of <= plan[t].id /\ plan[t].id \in Nat /\ row.id \in Nat
          /\ StandsIn(plan, t, req[q].of) => t \in raised \/ Opens(req[q].key, plan[t].level)
      BY <1>1, <2>1, <2>2, <3>1, RequestParts, PortfoliosAssumption
         DEF Good, CheckedIn, PlanRows, Ids
    <3>3. CASE t = s
      <4>1. plan'[t] = row /\ req[q].of <= row.id
        BY <1>2, <3>2, <3>3
      <4>2. StandsIn(plan', t, req[q].of) => row.live /\ row.id = plan[s].id
        BY <3>2, <3>3, <4>1 DEF StandsIn
      <4>3. StandsIn(plan', t, req[q].of) => t \in raised' \/ Opens(req[q].key, plan'[t].level)
        BY <3>2, <3>3, <4>1, <4>2 DEF StandsIn
      <4>4. CheckedIn(req[q], plan', raised')
        BY <2>2, <3>1, <4>1, <4>3 DEF CheckedIn
      <4> QED BY <2>1, <4>4 DEF Good
    <3>4. CASE t # s
      <4>1. plan'[t] = plan[t]
        BY <1>2, <3>4
      <4>2. CheckedIn(req[q], plan', raised')
        BY <2>2, <3>1, <3>2, <4>1 DEF CheckedIn, StandsIn
      <4> QED BY <2>1, <4>2 DEF Good
    <3> QED BY <3>3, <3>4
  <2>3. CASE req[q].at \notin { "findFolio", "findParts", "findLevel" }
    BY <2>1, <2>3 DEF Good, CheckedIn
  <2> QED BY <2>2, <2>3
<1>7. RequestsInv'
  BY <1>6, RequestsPrimed DEF Together, RequestsInv
<1> QED BY <1>2, <1>3, <1>4, <1>5, <1>7

LEMMA NextIdGrows ==
    ASSUME Together, NEW s \in Plans
    PROVE  /\ plan[s].id \in Nat /\ plan[s].id <= NextId(s)
           /\ NextId(s) = plan[s].id => plan[s].live
  BY PortfoliosAssumption DEF Together, RunInv, PlanRows, Ids, NextId

LEMMA UpsertPlanKeeps ==
    ASSUME Together, NEW s \in Plans, UpsertPlan(s)
    PROVE  Together'
<1>1. PICK new : new = [ live |-> TRUE, level |-> PlanSeeds[s], id |-> NextId(s) ]
  OBVIOUS
<1>2. /\ seed.at = "plans" /\ s \in seed.left /\ NextId(s) \in Ids
      /\ plan' = [plan EXCEPT ![s] = new] /\ touched' = touched \ {s}
      /\ raised' = IF plan[s].live /\ plan[s].level # new.level THEN raised \cup {s} ELSE raised
      /\ UNCHANGED <<req, folio, used, overlapped, updates, cache, texts, account, work>>
  BY <1>1 DEF UpsertPlan, portfolios
<1>3. new \in PlanRows /\ new.live = TRUE /\ new.level = PlanSeeds[s] /\ new.id = NextId(s)
  BY <1>1, <1>2, FileIsWhole DEF PlanRows
<1>4. raised \subseteq raised' /\ raised' \subseteq Plans
  BY <1>2 DEF Together, CacheInv
<1>5. /\ RequestsInv' /\ CacheInv' /\ RowsAre(folio, used, overlapped)' /\ Housed(folio, plan)'
      /\ plan' \in [ Plans -> PlanRows ] /\ plan'[s] = new
      /\ \A t \in Plans \ {s} : plan'[t] = plan[t]
  BY <1>2, <1>3, <1>4, NextIdGrows, PlanWritten
<1>6. Bounds'
  BY <1>2 DEF UpsertPlan, Together, Bounds
<1>7. PICK al : al = Plans \ touched
  OBVIOUS
<1>8. PICK all : all = Plans \ touched'
  OBVIOUS
<1>9. seed.left \subseteq Plans /\ PlansReached(seed, plan, al) /\ all \ {s} \subseteq al
  BY <1>2, <1>7, <1>8 DEF Together, RunInv, Reached, Located, Runs
<1>10. \A t \in all \ (seed.left \ {s}) : PlacedIn(t, plan')
  <2> TAKE t \in all \ (seed.left \ {s})
  <2>1. CASE t = s
    BY <1>3, <1>5, <2>1 DEF PlacedIn
  <2>2. CASE t # s
    <3>1. t \in Plans /\ PlacedIn(t, plan)
      BY <1>2, <1>8, <1>9, <2>2 DEF PlansReached
    <3> QED BY <1>5, <2>2, <3>1 DEF PlacedIn
  <2> QED BY <2>1, <2>2
<1>11. Reached(seed', plan', texts', folio', all)
  <2>1. CASE /\ seed.left \ {s} # {}
             /\ seed' = [ at |-> "plans", left |-> seed.left \ {s}, of |-> NoPlan, id |-> 0 ]
    BY <1>9, <1>10, <2>1, NothingIs
       DEF Reached, Located, Runs, SeedPlaces, PlansReached, TextsReached, FoliosReached
  <2>2. CASE /\ seed.left \ {s} = {}
             /\ seed' = [ at |-> "visibilities", left |-> Plans, of |-> NoPlan, id |-> 0 ]
    BY <1>8, <1>10, <2>2, NothingIs
       DEF Reached, Located, Runs, SeedPlaces, PlansReached, TextsReached, FoliosReached
  <2> QED BY <2>1, <2>2, FileIsWhole DEF UpsertPlan, NextOr, Goes
<1>12. RunInv'
  BY <1>2, <1>5, <1>8, <1>11, RunNext DEF Together, RunInv
<1> QED BY <1>5, <1>6, <1>12 DEF Together

LEMMA DeletePortfoliosKeeps ==
    ASSUME Together, DeletePortfolios
    PROVE  Together'
<1>1. PICK s, S, al : s = seed.of /\ S = OfRow(s, seed.id) /\ al = Plans \ touched
  OBVIOUS
<1>2. /\ seed.at = "delete" /\ seed' = [seed EXCEPT !.at = "create"]
      /\ folio' = [ f \in Folios |-> IF f \in S THEN NoRow ELSE folio[f] ]
      /\ missed' = Unseen(S)
      /\ UNCHANGED <<plan, used, updates, overlapped, raised, cache, req, texts, account, work, touched>>
  BY <1>1 DEF DeletePortfolios
<1>3. /\ seed \in Runs /\ s \in seed.left /\ (s \in al => seed.id = plan[s].id)
      /\ PlansReached(seed, plan, al) /\ TextsReached(seed, texts, al) /\ FoliosReached(seed, folio, al)
  BY <1>1, <1>2 DEF Together, RunInv, Reached, Located
<1>4. s \in Plans /\ S \in SUBSET Folios /\ (S = {} \/ S = SeededIn(s, folio))
  BY <1>1, <1>3 DEF Runs, OfRow, Seeded, SeededIn
<1>5. /\ RowsAre(folio, used, overlapped)' /\ Housed(folio, plan)'
      /\ \A q \in Procs : Good(req[q], plan', raised', folio', used', overlapped')
  BY <1>2, <1>4, RowsGo
<1>6. RequestsInv'
  BY <1>2, <1>5, RequestsPrimed DEF Together, RequestsInv
<1>7. CacheInv'
  BY <1>2, CacheKept DEF Together, CacheInv
<1>8. Bounds'
  BY <1>2 DEF Unseen, Together, Bounds
<1>9. ASSUME s \in al PROVE SeededIn(s, folio') = {}
  <2>1. Stands(s, seed.id)
    BY <1>2, <1>3, <1>9 DEF PlansReached, PlacedIn, Stands
  <2>2. S = SeededIn(s, folio)
    BY <1>1, <2>1 DEF OfRow, Seeded, SeededIn
  <2> QED BY <1>2, <1>4, <2>2, NoRowIsRow, PortfoliosAssumption DEF SeededIn
<1>10. ASSUME NEW t \in Plans \ {s}
       PROVE  SeededIn(t, folio') = SeededIn(t, folio)
  <2>1. \A f \in Folios : f \in S => folio'[f].plan # t /\ folio[f].plan # t
    BY <1>2, <1>4, NoRowIsRow, PortfoliosAssumption DEF SeededIn
  <2>2. \A f \in Folios : f \notin S => folio'[f] = folio[f]
    BY <1>2
  <2> QED BY <2>1, <2>2 DEF SeededIn
<1>11. \A t \in al \ seed.left : SingleIn(t, folio')
  BY <1>1, <1>2, <1>3, <1>10 DEF SingleIn, FoliosReached
<1>12. /\ seed'.at = "create" /\ seed'.left = seed.left /\ seed'.of = s /\ seed'.id = seed.id
       /\ seed' \in Runs
  BY <1>1, <1>2, <1>3 DEF Runs, SeedPlaces
<1>13. Reached(seed', plan', texts', folio', al)
  BY <1>2, <1>3, <1>9, <1>11, <1>12
     DEF Reached, Located, PlansReached, TextsReached, FoliosReached
<1>14. RunInv'
  BY <1>1, <1>2, <1>13, RunNext DEF Together, RunInv
<1> QED BY <1>5, <1>6, <1>7, <1>8, <1>14 DEF Together

LEMMA CreatePortfolioKeeps ==
    ASSUME Together, CreatePortfolio
    PROVE  Together'
<1>1. PICK s, al : s = seed.of /\ al = Plans \ touched
  OBVIOUS
<1>2. /\ seed.at = "create" /\ plan[s].live /\ Insert(s, SeedDate)
      /\ missed' = missed \cup { k \in Keys : k[1] = s /\ Present(k) }
      /\ NextOr("portfolios", s, "done", {})
      /\ UNCHANGED <<plan, updates, overlapped, raised, cache, req, texts, account, work, touched>>
  BY <1>1 DEF CreatePortfolio, Stands
<1>3. seed \in Runs /\ s \in seed.left /\ FoliosReached(seed, folio, al)
  BY <1>1, <1>2 DEF Together, RunInv, Reached, Located
<1>4. s \in Plans /\ SeedDate \in Dates
  BY <1>1, <1>3, PortfoliosAssumption DEF Runs, SeedDate, Dates
<1>5. /\ RowsAre(folio, used, overlapped)' /\ used \in Nat /\ used + 1 \in Folios
      /\ \A f \in Folios \ {used + 1} : folio'[f] = folio[f]
      /\ folio'[used + 1].plan = s /\ folio'[used + 1].date = SeedDate
      /\ \A q \in Procs : Good(req[q], plan', raised', folio', used', overlapped')
  BY <1>2, <1>4, InsertRows
<1>6. RequestsInv'
  BY <1>2, <1>5, RequestsPrimed DEF Together, RequestsInv
<1>7. CacheInv'
  BY <1>2, CacheKept DEF Together, CacheInv
<1>8. Bounds'
  BY <1>2 DEF Together, Bounds
<1>9. Housed(folio, plan)'
  BY <1>2, <1>5 DEF Together, Housed
<1>10. ASSUME SeededIn(s, folio) = {} PROVE SingleIn(s, folio')
  <2>1. SeededIn(s, folio') = {used + 1}
    BY <1>5, <1>10 DEF SeededIn
  <2> QED BY <1>5, <2>1 DEF SingleIn
<1>11. folio[used + 1].plan = NoPlan
  BY <1>5 DEF Together, RowsAre
<1>12. ASSUME NEW t \in Plans \ {s}
       PROVE  SeededIn(t, folio') = SeededIn(t, folio)
  BY <1>5, <1>11, PortfoliosAssumption DEF SeededIn
<1>13. \A t \in al \ (seed.left \ {s}) : SingleIn(t, folio')
  BY <1>1, <1>2, <1>3, <1>10, <1>12 DEF SingleIn, FoliosReached
<1>14. Reached(seed', plan', texts', folio', al)
  BY <1>1, <1>2, <1>13, FoliosGoOn DEF Together, RunInv
<1>15. RunInv'
  BY <1>1, <1>2, <1>14, RunNext DEF Together, RunInv
<1> QED BY <1>5, <1>6, <1>7, <1>8, <1>9, <1>15 DEF Together

-----------------------------------------------------------------------------
(* The admins' writes of plans.                                            *)

\* What is known of the other plans stays.
LEMMA LeftAlone ==
    ASSUME Together, NEW s \in Plans, seed' = seed, folio' = folio, touched' = touched \cup {s},
           \A t \in Plans \ {s} : plan'[t] = plan[t], texts \ {s} \subseteq texts'
    PROVE  Reached(seed', plan', texts', folio', Plans \ touched')
<1>1. PICK al : al = Plans \ touched'
  OBVIOUS
<1>2. /\ al \subseteq Plans \ touched /\ s \notin al
      /\ \A t \in al : plan'[t] = plan[t] /\ (t \in texts => t \in texts')
  BY <1>1
<1>3. Reached(seed, plan, texts, folio, Plans \ touched)
  BY DEF Together, RunInv
<1>4. Located(seed', plan', al) /\ PlansReached(seed', plan', al)
  BY <1>2, <1>3 DEF Reached, Located, PlansReached, PlacedIn
<1>5. TextsReached(seed', texts', al) /\ FoliosReached(seed', folio', al)
  BY <1>2, <1>3 DEF Reached, TextsReached, FoliosReached
<1> QED BY <1>1, <1>4, <1>5 DEF Reached

LEMMA WorksOn ==
    ASSUME Together, Works
    PROVE  work' \in 0 .. MaxWork
  BY SeedAssumption DEF Together, RunInv, Works

LEMMA InsertPlanKeeps ==
    ASSUME Together, NEW s \in Plans, NEW level \in Levels, InsertPlan(s, level)
    PROVE  Together'
<1>1. PICK new : new = [ live |-> TRUE, level |-> level, id |-> NextId(s) ]
  OBVIOUS
<1>2. /\ ~plan[s].live /\ NextId(s) \in Ids /\ Works /\ plan' = [plan EXCEPT ![s] = new]
      /\ texts' = texts \cup {s} /\ touched' = touched \cup {s}
      /\ UNCHANGED <<req, folio, used, overlapped, updates, cache, missed, raised, seed, account>>
  BY <1>1 DEF InsertPlan, portfolios, entries
<1>3. new \in PlanRows /\ new.live = TRUE /\ new.id = NextId(s)
  BY <1>1, <1>2 DEF PlanRows
<1>4. raised' = raised /\ raised \subseteq Plans
  BY <1>2 DEF Together, CacheInv
<1>5. /\ RequestsInv' /\ CacheInv' /\ RowsAre(folio, used, overlapped)' /\ Housed(folio, plan)'
      /\ plan' \in [ Plans -> PlanRows ] /\ \A t \in Plans \ {s} : plan'[t] = plan[t]
  BY <1>2, <1>3, <1>4, NextIdGrows, PlanWritten
<1>6. Reached(seed', plan', texts', folio', Plans \ touched')
  BY <1>2, <1>5, LeftAlone
<1>7. Bounds' /\ texts' \subseteq Plans /\ touched' \subseteq Plans
  BY <1>2 DEF Together, Bounds, RunInv
<1>8. RunInv'
  BY <1>2, <1>5, <1>6, <1>7, WorksOn, RunNext DEF Together, RunInv
<1> QED BY <1>5, <1>7, <1>8 DEF Together

LEMMA DeletePlanKeeps ==
    ASSUME Together, NEW s \in Plans, DeletePlan(s)
    PROVE  Together'
<1>1. /\ Works /\ plan' = [plan EXCEPT ![s].live = FALSE] /\ \A f \in Folios : folio[f].plan # s
      /\ texts' = texts \ {s} /\ touched' = touched \cup {s}
      /\ UNCHANGED <<req, folio, used, overlapped, updates, cache, missed, raised, seed, account>>
  BY DEF DeletePlan, portfolios, entries
<1>2. plan \in [ Plans -> PlanRows ] /\ plan[s] \in PlanRows
  BY DEF Together, RunInv
<1>3. PICK row : row = [plan[s] EXCEPT !.live = FALSE]
  OBVIOUS
<1>4. row \in PlanRows /\ row.live = FALSE /\ row.id = plan[s].id /\ plan[s].id \in Nat
  BY <1>2, <1>3, NextIdGrows DEF PlanRows
<1>5. plan' = [plan EXCEPT ![s] = row]
  BY <1>1, <1>2, <1>3
<1>6. raised' = raised /\ raised \subseteq Plans
  BY <1>1 DEF Together, CacheInv
<1>7. /\ RequestsInv' /\ CacheInv' /\ RowsAre(folio, used, overlapped)' /\ Housed(folio, plan)'
      /\ plan' \in [ Plans -> PlanRows ] /\ \A t \in Plans \ {s} : plan'[t] = plan[t]
  <2>1. plan[s].id <= row.id
    BY <1>4
  <2> QED BY <1>1, <1>4, <1>5, <1>6, <2>1, PlanWritten
<1>8. Reached(seed', plan', texts', folio', Plans \ touched')
  BY <1>1, <1>7, LeftAlone
<1>9. Bounds' /\ texts' \subseteq Plans /\ touched' \subseteq Plans
  BY <1>1 DEF Together, Bounds, RunInv
<1>10. RunInv'
  BY <1>1, <1>7, <1>8, <1>9, WorksOn, RunNext DEF Together, RunInv
<1> QED BY <1>7, <1>9, <1>10 DEF Together

LEMMA WriteTextsKeeps ==
    ASSUME Together, NEW s \in Plans, WriteTexts(s)
    PROVE  Together'
<1>1. /\ Works /\ texts' = texts \cup {s} /\ UNCHANGED <<vars, seed, account, touched>>
  BY DEF WriteTexts
<1>2. PICK al : al = Plans \ touched
  OBVIOUS
<1>3. Reached(seed, plan, texts, folio, al) /\ texts' \subseteq Plans
  BY <1>1, <1>2 DEF Together, RunInv
<1>4. TextsReached(seed, texts', al)
  BY <1>1, <1>3 DEF Reached, TextsReached
<1>5. Reached(seed', plan, texts', folio, al)
  BY <1>1, <1>3, <1>4 DEF Reached
<1> QED BY <1>1, <1>2, <1>3, <1>5, WorksOn, SeedMoves DEF Together, RunInv

-----------------------------------------------------------------------------
(* The theorems.                                                           *)

LEMMA InitTogether == SeedInit => Together
<1> SUFFICES ASSUME SeedInit PROVE Together
  OBVIOUS
<1>1. /\ plan \in [ Plans -> PlanRows ]
      /\ folio = [ f \in Folios |-> NoRow ] /\ used = 0 /\ updates = 0
      /\ cache = [ k \in Keys |-> NoEntry ] /\ req = [ p \in Procs |-> Idle ]
      /\ missed = {} /\ overlapped = {} /\ raised = {}
      /\ seed = [ at |-> "off", left |-> {}, of |-> NoPlan, id |-> 0 ]
      /\ texts = {} /\ account = "absent" /\ work = 0 /\ touched = {}
  BY DEF SeedInit, Init
<1>2. RequestsInv
  BY <1>1, IdleIsRequest, RestIsGood DEF RequestsInv
<1>3. CacheInv
  BY <1>1, NoEntryIsEntry DEF CacheInv, EntriesAreCovered, Present
<1>4. RowsAre(folio, used, overlapped) /\ Housed(folio, plan)
  <2>1. \A f \in Folios : \A l \in Lists : \E b \in Batches : folio[f].parts[l] \subseteq {b}
    BY <1>1, NoRowIsRow
  <2> QED BY <1>1, <2>1, NoRowIsRow, PortfoliosAssumption DEF RowsAre, Housed
<1>5. Bounds
  BY <1>1, PortfoliosAssumption DEF Bounds
<1>6. RunInv
  BY <1>1, SeedAssumption, NothingIs
     DEF RunInv, Reached, Located, Runs, SeedPlaces, PlansReached, TextsReached, FoliosReached
<1> QED BY <1>2, <1>3, <1>4, <1>5, <1>6 DEF Together

LEMMA NextTogether == Together /\ [Both]_allVars => Together'
<1> SUFFICES ASSUME Together, [Both]_allVars PROVE Together'
  OBVIOUS
<1>1. CASE SeedNext
  BY <1>1, StartKeeps, ExitKeeps, UpsertPlanKeeps, FindVisibilityKeeps, UpsertVisibilityKeeps,
     UpsertAdminKeeps, FindPlanOfPortfolioKeeps, DeletePortfoliosKeeps, CreatePortfolioKeeps
     DEF SeedNext
<1>2. CASE Serve
  BY <1>2, ServeKeeps
<1>3. CASE Administer
  BY <1>3, InsertPlanKeeps, DeletePlanKeeps, WriteTextsKeeps DEF Administer
<1>4. CASE UNCHANGED allVars
  <2>1. UNCHANGED vars /\ UNCHANGED <<seed, texts, account, work, touched>>
    BY <1>4 DEF allVars, seedVars
  <2> QED BY <2>1, SeedMoves DEF Together, RunInv
<1> QED BY <1>1, <1>2, <1>3, <1>4 DEF Both

\* The invariant of portfolios, their entries and the seed.
THEOREM SeedInvariant == BothSpec => []SeedInv
<1>1. BothSpec => []Together
  BY InitTogether, NextTogether, PTL DEF BothSpec
<1> QED BY <1>1, InvariantIs, PTL

\* An entry that is kept for readers of a level shows a portfolio that was
\* open to that level, unless a seed has changed the level of its plan.
THEOREM PortfoliosStayCovered == BothSpec => []EntriesAreCovered
<1>1. SeedInv => EntriesAreCovered
  BY DEF SeedInv
<1> QED BY <1>1, SeedInvariant, PTL

\* Nobody but two updates that replace a list at a time leaves the nested rows
\* of two requests in it, whatever lists the updates before left out.
THEOREM PartsAreOfOneUpdate == BothSpec => []PartsOfOneUpdate
<1>1. SeedInv => PartsOfOneUpdate
  <2> SUFFICES ASSUME SeedInv, NEW f \in Folios, NEW l \in Lists, <<f, l>> \notin overlapped
               PROVE  Cardinality(folio[f].parts[l]) <= 1
    BY DEF PartsOfOneUpdate
  <2>1. PICK b \in Batches : folio[f].parts[l] \subseteq {b}
    BY DEF SeedInv, OneBatch
  <2>2. PICK S : S = folio[f].parts[l]
    OBVIOUS
  <2>3. S = {} \/ S = {b}
    BY <2>1, <2>2
  <2>4. Cardinality({}) = 0 /\ Cardinality({b}) = 1
    BY FS_EmptySet, FS_Singleton
  <2>5. Cardinality(S) <= 1
    BY <2>3, <2>4
  <2> QED BY <2>2, <2>5
<1> QED BY <1>1, SeedInvariant, PTL

\* A seed that ends has left what its file says in the plans that the service
\* left alone, whatever earlier ones left undone.
THEOREM SeedsConverge == BothSpec => []SeedConverges
<1>1. SeedInv => SeedConverges
  <2> SUFFICES ASSUME SeedInv, seed.at = "done", NEW s \in Plans \ touched
               PROVE  /\ plan[s].live /\ s \in texts /\ plan[s].level = PlanSeeds[s]
                      /\ Cardinality(Seeded(s)) = 1
    BY DEF SeedConverges
  <2>1. InPlace(s) /\ s \in texts /\ Single(s)
    BY DEF SeedInv, SeedProgress, Alone
  <2>2. PICK f \in Folios : Seeded(s) = {f}
    BY <2>1 DEF Single
  <2>3. Cardinality({f}) = 1
    BY FS_Singleton
  <2> QED BY <2>1, <2>2, <2>3 DEF InPlace
<1> QED BY <1>1, SeedInvariant, PTL

-----------------------------------------------------------------------------
(* Why an entry is out of date.                                            *)

Clears(r, k) == r.at = "invalidate" \/ (r.at = "scan" /\ k \in r.todo)

\* Inductive beside SeedInv.
StaleInv == \A k \in Keys : Stale(k) => k \in missed \/ \E p \in Procs : Clears(req[p], k)

LEMMA StaleIs == StaleIsExplained <=> StaleInv
  BY DEF StaleIsExplained, StaleInv, Clears

\* What is fresh depends on the rows and on the entry alone.
LEMMA StaleSame ==
    ASSUME UNCHANGED <<plan, folio>>, NEW k, cache'[k] = cache[k]
    PROVE  Stale(k)' <=> Stale(k)
  BY DEF Stale, Present, Fresh, Latest

\* A request moves and takes nothing upon itself, nor leaves anything undone.
LEMMA MovesStale ==
    ASSUME Together, StaleInv, NEW p \in Procs, NEW r, req' = [req EXCEPT ![p] = r],
           \A k \in Keys : Stale(k) /\ Clears(req[p], k) => Clears(r, k) \/ k \in missed',
           missed \subseteq missed', UNCHANGED <<plan, folio, cache>>
    PROVE  StaleInv'
<1> SUFFICES ASSUME NEW k \in Keys, Stale(k)', k \notin missed'
             PROVE  \E q \in Procs : Clears(req'[q], k)
  BY DEF StaleInv, Clears
<1>1. Stale(k)
  BY StaleSame
<1>2. req \in [ Procs -> Requests ]
  BY DEF Together, RequestsInv
<1>3. PICK q \in Procs : Clears(req[q], k)
  BY <1>1 DEF StaleInv
<1>4. CASE q = p
  BY <1>1, <1>2, <1>3, <1>4
<1>5. CASE q # p
  BY <1>2, <1>3, <1>5
<1> QED BY <1>4, <1>5

\* A write goes on to clear every entry.
LEMMA WritesStale ==
    ASSUME Together, NEW p \in Procs, Begin(p, [Idle EXCEPT !.at = "invalidate"])
                                      \/ req' = [req EXCEPT ![p] = [Idle EXCEPT !.at = "invalidate"]]
    PROVE  StaleInv'
<1>1. req'[p].at = "invalidate"
  BY DEF Begin, Together, RequestsInv, Idle
<1> QED BY <1>1 DEF StaleInv, Clears

\* An entry goes, and nobody has to remove it any more.
LEMMA EntryStale ==
    ASSUME Together, StaleInv, NEW k \in Keys,
           cache' = [cache EXCEPT ![k] = NoEntry], missed' = missed \ {k},
           req' = [ p \in Procs |-> [req[p] EXCEPT !.todo = @ \ {k}] ],
           UNCHANGED <<plan, folio>>
    PROVE  StaleInv'
<1> SUFFICES ASSUME NEW j \in Keys, Stale(j)'
             PROVE  j \in missed' \/ \E q \in Procs : Clears(req'[q], j)
  BY DEF StaleInv, Clears
<1>1. j # k /\ cache'[j] = cache[j]
  BY DEF Together, CacheInv, Stale, Present
<1>2. Stale(j)
  BY <1>1, StaleSame
<1>3. CASE j \in missed
  BY <1>1, <1>3
<1>4. CASE \E q \in Procs : Clears(req[q], j)
  <2>1. PICK q \in Procs : Clears(req[q], j)
    BY <1>4
  <2>2. req[q] \in Requests /\ req'[q] = [req[q] EXCEPT !.todo = @ \ {k}]
    BY DEF Together, RequestsInv
  <2>3. req'[q].at = req[q].at /\ req'[q].todo = req[q].todo \ {k}
    BY <2>2 DEF Requests
  <2> QED BY <1>1, <2>1, <2>3 DEF Clears
<1> QED BY <1>2, <1>3, <1>4 DEF StaleInv

LEMMA AnswerStale ==
    ASSUME Together, StaleInv, NEW p \in Procs, Answer(p), ~\E k \in Keys : Clears(req[p], k),
           UNCHANGED <<plan, folio, cache, missed>>
    PROVE  StaleInv'
<1>1. req' = [req EXCEPT ![p] = Idle]
  BY DEF Answer
<1> QED BY <1>1, MovesStale

\* An entry is stored: it is as the rows are, or it is noted.
LEMMA SetStale ==
    ASSUME Together, StaleInv, NEW p \in Procs, Set(p)
    PROVE  StaleInv'
<1>0. req[p].key \in Keys /\ req[p].at = "set" /\ req \in [ Procs -> Requests ]
  BY DEF Set, Together, RequestsInv, Good, FitsIn
<1>1. PICK k, e : k \in Keys /\ k = req[p].key /\ e = req[p].entry
  BY <1>0
<1>2. /\ cache' = [cache EXCEPT ![k] = e] /\ req' = [req EXCEPT ![p] = Idle]
      /\ missed' = IF Fresh(k[1], e) THEN missed \ {k} ELSE missed \cup {k}
      /\ UNCHANGED <<plan, folio>>
  BY <1>1 DEF Set, Answer, portfolios
<1> SUFFICES ASSUME NEW j \in Keys, Stale(j)'
             PROVE  j \in missed' \/ \E q \in Procs : Clears(req'[q], j)
  BY DEF StaleInv, Clears
<1>3. CASE j = k
  <2>1. cache'[k] = e
    BY <1>1, <1>2 DEF Together, CacheInv
  <2>2. ~Fresh(k[1], e)
    BY <1>2, <1>3, <2>1 DEF Stale, Fresh, Latest
  <2> QED BY <1>2, <1>3, <2>2
<1>4. CASE j # k
  <2>1. cache'[j] = cache[j]
    BY <1>2, <1>4
  <2>2. Stale(j)
    BY <1>2, <2>1, StaleSame
  <2>3. CASE j \in missed
    BY <1>2, <1>4, <2>3
  <2>4. CASE \E q \in Procs : Clears(req[q], j)
    <3>1. PICK q \in Procs : Clears(req[q], j)
      BY <2>4
    <3>2. q # p
      BY <1>0, <3>1 DEF Clears
    <3>3. req'[q] = req[q]
      BY <1>0, <1>2, <3>2
    <3> QED BY <3>1, <3>3
  <2> QED BY <2>2, <2>3, <2>4 DEF StaleInv
<1> QED BY <1>3, <1>4

\* Steps that move one request, and neither rows nor entries.
LEMMA ReadsStale ==
    ASSUME Together, StaleInv, NEW p \in Procs,
           FindPlan(p) \/ FindFolio(p) \/ FindParts(p) \/ FindLevel(p) \/ Wipe(p) \/ Wiped(p)
    PROVE  StaleInv'
<1>1. /\ UNCHANGED <<plan, folio, cache, missed>>
      /\ req[p].at \notin { "invalidate", "scan" }
  BY DEF FindPlan, FindFolio, FindParts, FindLevel, Wipe, Wiped, portfolios, entries
<1>2. req \in [ Procs -> Requests ] /\ req[p] \in Requests
  BY DEF Together, RequestsInv
<1>3. \E r : req' = [req EXCEPT ![p] = r]
  <2>1. CASE Answer(p)
    BY <2>1 DEF Answer
  <2>2. CASE FindPlan(p) /\ ~Answer(p)
    <3>1. req' = [req EXCEPT ![p] = [req[p] EXCEPT !.at = "findFolio", !.of = plan[req[p].key[1]].id]]
      BY <1>2, <2>2 DEF FindPlan
    <3> QED BY <3>1
  <2>3. ASSUME NEW f \in Latest(req[p].key[1]),
               req' = [req EXCEPT ![p].at = "findParts", ![p].left = Lists,
                                  ![p].entry.folio = f, ![p].entry.head = folio[f].head]
        PROVE  \E r : req' = [req EXCEPT ![p] = r]
    <3>1. PICK r : r = [req[p] EXCEPT !.at = "findParts", !.left = Lists, !.entry.folio = f,
                                      !.entry.head = folio[f].head]
      OBVIOUS
    <3>2. req' = [req EXCEPT ![p] = r]
      BY <1>2, <2>3, <3>1 DEF Requests
    <3> QED BY <3>2
  <2>4. CASE FindParts(p)
    <3>1. PICK l \in Lists :
            req' = [req EXCEPT ![p].at = IF req[p].left = {l} THEN "findLevel" ELSE @,
                               ![p].entry.parts[l] = folio[req[p].entry.folio].parts[l],
                               ![p].left = @ \ {l}]
      BY <2>4 DEF FindParts
    <3>2. PICK to, b, rest : /\ to = IF req[p].left = {l} THEN "findLevel" ELSE req[p].at
                             /\ b = folio[req[p].entry.folio].parts[l] /\ rest = req[p].left \ {l}
      OBVIOUS
    <3>3. req' = [req EXCEPT ![p].at = to, ![p].entry.parts[l] = b, ![p].left = rest]
      BY <1>2, <3>1, <3>2
    <3>4. PICK e : e = [req[p].entry EXCEPT !.parts = [req[p].entry.parts EXCEPT ![l] = b]]
      OBVIOUS
    <3>5. PICK r : r = [req[p] EXCEPT !.at = to, !.entry = e, !.left = rest]
      OBVIOUS
    <3>6. req' = [req EXCEPT ![p] = r]
      BY <1>2, <3>3, <3>4, <3>5 DEF Requests, Entries
    <3> QED BY <3>6
  <2>5. CASE FindLevel(p) /\ ~Answer(p)
    <3>1. PICK r : r = [req[p] EXCEPT !.at = "set", !.entry.level = plan[req[p].key[1]].level]
      OBVIOUS
    <3>2. req' = [req EXCEPT ![p] = r]
      BY <1>2, <2>5, <3>1 DEF FindLevel, Requests
    <3> QED BY <3>2
  <2>6. CASE Wipe(p)
    <3>1. PICK l \in Lists :
            req' = [req EXCEPT ![p].at = "wiped", ![p].seen = folio[req[p].folio].parts[l]]
      BY <2>6 DEF Wipe
    <3>2. req' = [req EXCEPT ![p] = [req[p] EXCEPT !.at = "wiped",
                                                   !.seen = folio[req[p].folio].parts[l]]]
      BY <1>2, <3>1
    <3> QED BY <3>2
  <2>7. CASE Wiped(p)
    <3>1. PICK l \in Lists :
            req' = [req EXCEPT ![p].at = IF req[p].left = {l} THEN "replace" ELSE "wipe",
                               ![p].held[l] = req[p].seen \cap folio[req[p].folio].parts[l],
                               ![p].left = @ \ {l}, ![p].seen = {}]
      BY <2>7 DEF Wiped
    <3>2. PICK to, b, rest : /\ to = IF req[p].left = {l} THEN "replace" ELSE "wipe"
                             /\ b = req[p].seen \cap folio[req[p].folio].parts[l]
                             /\ rest = req[p].left \ {l}
      OBVIOUS
    <3>3. PICK r : r = [req[p] EXCEPT !.at = to, !.held = [req[p].held EXCEPT ![l] = b],
                                      !.left = rest, !.seen = {}]
      OBVIOUS
    <3>4. req' = [req EXCEPT ![p] = r]
      BY <1>2, <3>1, <3>2, <3>3 DEF Requests
    <3> QED BY <3>4
  <2>8. CASE FindFolio(p)
    BY <2>1, <2>3, <2>8 DEF FindFolio
  <2> QED BY <2>1, <2>2, <2>4, <2>5, <2>6, <2>7, <2>8
<1>4. \A k \in Keys : ~Clears(req[p], k)
  BY <1>1 DEF Clears
<1> QED BY <1>1, <1>3, <1>4, MovesStale

LEMMA ScanStale ==
    ASSUME Together, StaleInv, NEW p \in Procs, Scan(p)
    PROVE  StaleInv'
<1> DEFINE r == [req[p] EXCEPT !.at = "scan", !.todo = { k \in Keys : Present(k) }]
<1>1. req \in [ Procs -> Requests ] /\ req[p] \in Requests
  BY DEF Together, RequestsInv
<1>2. req' = [req EXCEPT ![p] = r] /\ UNCHANGED <<plan, folio, cache, missed>>
  BY <1>1 DEF Scan, portfolios, entries
<1>3. r.at = "scan" /\ r.todo = { k \in Keys : Present(k) }
  BY <1>1 DEF Requests
<1>4. \A k \in Keys : Stale(k) => Clears(r, k)
  BY <1>3 DEF Stale, Clears
<1> HIDE DEF r
<1> QED BY <1>2, <1>4, MovesStale

LEMMA FailStale ==
    ASSUME Together, StaleInv, NEW p \in Procs, Fail(p)
    PROVE  StaleInv'
<1>1. req' = [req EXCEPT ![p] = Idle] /\ UNCHANGED <<plan, folio, cache>>
  BY DEF Fail, Answer, portfolios
<1>2. CASE req[p].at = "invalidate"
  <2>1. missed' = missed \cup { k \in Keys : Present(k) }
    BY <1>2 DEF Fail
  <2> QED BY <1>1, <2>1, MovesStale DEF Stale
<1>3. CASE req[p].at = "scan"
  <2>1. missed' = missed \cup req[p].todo
    BY <1>3 DEF Fail
  <2> QED BY <1>1, <1>3, <2>1, MovesStale DEF Clears
<1>4. CASE req[p].at \notin { "invalidate", "scan" }
  <2>1. missed \subseteq missed'
    BY DEF Fail
  <2> QED BY <1>1, <1>4, <2>1, MovesStale DEF Clears
<1> QED BY <1>2, <1>3, <1>4

LEMMA ServeStale ==
    ASSUME Together, StaleInv, Next
    PROVE  StaleInv'
<1>1. ASSUME NEW p \in Procs, NEW k \in Readers, Get(p, k) PROVE StaleInv'
  <2>1. /\ req' = [req EXCEPT ![p] = [Idle EXCEPT !.at = "findPlan", !.key = k]]
        /\ req[p].at = "idle" /\ UNCHANGED <<plan, folio, cache, missed>>
    BY <1>1 DEF Get, Begin, portfolios, entries
  <2>2. \A j \in Keys : ~Clears(req[p], j)
    BY <2>1 DEF Clears
  <2> QED BY <2>1, <2>2, MovesStale
<1>2. ASSUME NEW p \in Procs, NEW s \in Plans, NEW date \in Dates, Create(p, s, date) PROVE StaleInv'
  BY <1>2, WritesStale DEF Create
<1>3. ASSUME NEW p \in Procs, NEW f \in Folios, NEW change \in Asked, Update(p, f, change)
      PROVE  StaleInv'
  <2>1. /\ \E r : req' = [req EXCEPT ![p] = r]
        /\ req[p].at = "idle" /\ UNCHANGED <<plan, folio, cache, missed>>
    BY <1>3 DEF Update, Begin, entries
  <2>2. \A j \in Keys : ~Clears(req[p], j)
    BY <2>1 DEF Clears
  <2> QED BY <2>1, <2>2, MovesStale
<1>4. ASSUME NEW p \in Procs, NEW f \in Folios, RemoveFolio(p, f) PROVE StaleInv'
  BY <1>4, WritesStale DEF RemoveFolio
<1>5. ASSUME NEW p \in Procs, Replace(p) PROVE StaleInv'
  <2>1. CASE req' = [req EXCEPT ![p] = [Idle EXCEPT !.at = "invalidate"]]
    BY <2>1, WritesStale
  <2>2. CASE Answer(p) /\ UNCHANGED <<folio, overlapped>>
    <3>1. UNCHANGED <<plan, folio, cache, missed>> /\ req[p].at = "replace"
      BY <1>5, <2>2 DEF Replace, entries
    <3>2. ~\E k \in Keys : Clears(req[p], k)
      BY <3>1 DEF Clears
    <3> QED BY <2>2, <3>1, <3>2, AnswerStale
  <2> QED BY <1>5, <2>1, <2>2 DEF Replace
<1>6. ASSUME NEW p \in Procs, ScanEnds(p) PROVE StaleInv'
  <2>1. /\ UNCHANGED <<plan, folio, cache, missed>> /\ req[p].at = "scan" /\ req[p].todo = {}
        /\ Answer(p)
    BY <1>6 DEF ScanEnds, portfolios, entries
  <2>2. ~\E k \in Keys : Clears(req[p], k)
    BY <2>1 DEF Clears
  <2> QED BY <2>1, <2>2, AnswerStale
<1>7. ASSUME NEW p \in Procs, NEW k \in Keys, Unlink(p, k) PROVE StaleInv'
  <2>1. UNCHANGED <<plan, folio>>
    BY <1>7 DEF Unlink, portfolios
  <2> QED BY <1>7, <2>1, EntryStale DEF Unlink
<1>8. ASSUME NEW k \in Keys, Expire(k) PROVE StaleInv'
  <2>1. UNCHANGED <<plan, folio>>
    BY <1>8 DEF Expire, portfolios
  <2> QED BY <1>8, <2>1, EntryStale DEF Expire
<1>9. CASE \E p \in Procs : Arrive(p)
  BY <1>9, <1>1, <1>2, <1>3, <1>4 DEF Arrive
<1>10. CASE \E p \in Procs : Advance(p)
  BY <1>10, <1>5, <1>6, <1>7, ReadsStale, SetStale, ScanStale DEF Advance
<1> QED BY <1>8, <1>9, <1>10, FailStale DEF Next

\* A step of the seed: the keys whose entries it makes stale are noted.
LEMMA SeedStale ==
    ASSUME StaleInv, UNCHANGED <<req, cache>>, missed \subseteq missed',
           \A k \in Keys : Stale(k)' => Stale(k) \/ k \in missed'
    PROVE  StaleInv'
  BY DEF StaleInv, Clears

LEMMA UpsertPlanStale ==
    ASSUME Together, StaleInv, NEW s \in Plans, UpsertPlan(s)
    PROVE  StaleInv'
<1>1. PICK new : new = [ live |-> TRUE, level |-> PlanSeeds[s], id |-> NextId(s) ]
  OBVIOUS
<1>2. /\ plan' = [plan EXCEPT ![s] = new] /\ UNCHANGED <<folio, req, cache>>
      /\ missed' = IF plan[s] = new THEN missed
                   ELSE missed \cup { k \in Keys : k[1] = s /\ Present(k) }
  BY <1>1 DEF UpsertPlan, portfolios
<1>3. ASSUME NEW k \in Keys, Stale(k)' PROVE Stale(k) \/ k \in missed'
  <2>1. CASE k[1] = s /\ plan[s] # new
    BY <1>2, <1>3, <2>1 DEF Stale, Present
  <2>2. CASE k[1] # s \/ plan[s] = new
    <3>1. plan'[k[1]] = plan[k[1]]
      BY <1>2, <2>2, KeyParts DEF Together, RunInv
    <3> QED BY <1>2, <1>3, <3>1 DEF Stale, Present, Fresh, Latest
  <2> QED BY <2>1, <2>2
<1> QED BY <1>2, <1>3, SeedStale

\* A plan comes or goes without portfolios: no entry of it was fresh.
LEMMA BarePlanStale ==
    ASSUME Together, StaleInv, NEW s \in Plans, \A f \in Folios : folio[f].plan # s,
           \A t \in Plans \ {s} : plan'[t] = plan[t],
           UNCHANGED <<folio, req, cache, missed>>
    PROVE  StaleInv'
<1>1. ASSUME NEW k \in Keys, Stale(k)' PROVE Stale(k)
  <2>1. CASE k[1] = s
    <3>1. ~Fresh(k[1], cache[k])
      BY <2>1 DEF Fresh, Latest
    <3> QED BY <1>1, <3>1 DEF Stale, Present
  <2>2. CASE k[1] # s
    <3>1. plan'[k[1]] = plan[k[1]]
      BY <2>2, KeyParts
    <3> QED BY <1>1, <3>1 DEF Stale, Present, Fresh, Latest
  <2> QED BY <2>1, <2>2
<1> QED BY <1>1, SeedStale

LEMMA InsertPlanStale ==
    ASSUME Together, StaleInv, NEW s \in Plans, NEW level \in Levels, InsertPlan(s, level)
    PROVE  StaleInv'
<1>1. /\ ~plan[s].live
      /\ plan' = [plan EXCEPT ![s] = [ live |-> TRUE, level |-> level, id |-> NextId(s) ]]
      /\ UNCHANGED <<folio, req, cache, missed>>
  BY DEF InsertPlan, portfolios, entries
<1>2. \A f \in Folios : folio[f].plan # s
  BY <1>1, PortfoliosAssumption DEF Together, Housed
<1>3. \A t \in Plans \ {s} : plan'[t] = plan[t]
  BY <1>1 DEF Together, RunInv
<1> QED BY <1>1, <1>2, <1>3, BarePlanStale

LEMMA DeletePlanStale ==
    ASSUME Together, StaleInv, NEW s \in Plans, DeletePlan(s)
    PROVE  StaleInv'
<1>1. /\ \A f \in Folios : folio[f].plan # s
      /\ plan' = [plan EXCEPT ![s].live = FALSE]
      /\ UNCHANGED <<folio, req, cache, missed>>
  BY DEF DeletePlan, portfolios, entries
<1>2. \A t \in Plans \ {s} : plan'[t] = plan[t]
  BY <1>1 DEF Together, RunInv
<1> QED BY <1>1, <1>2, BarePlanStale

\* Entries of the portfolios that go are noted; the others are as fresh as before.
LEMMA DeletePortfoliosStale ==
    ASSUME Together, StaleInv, DeletePortfolios
    PROVE  StaleInv'
<1>1. PICK S : S = OfRow(seed.of, seed.id)
  OBVIOUS
<1>2. /\ folio' = [ f \in Folios |-> IF f \in S THEN NoRow ELSE folio[f] ]
      /\ missed' = Unseen(S) /\ UNCHANGED <<plan, req, cache>>
  BY <1>1 DEF DeletePortfolios
<1>3. ASSUME NEW k \in Keys, Stale(k)' PROVE Stale(k) \/ k \in missed'
  <2>1. CASE cache[k].folio \in S
    BY <1>2, <1>3, <2>1 DEF Unseen, Stale, Present
  <2>2. CASE cache[k].folio \notin S
    <3>1. SUFFICES ASSUME Fresh(k[1], cache[k]) PROVE Fresh(k[1], cache[k])'
      BY <1>2, <1>3 DEF Stale, Present
    <3>2. PICK f \in Folios : f = cache[k].folio /\ f \in Latest(k[1])
      BY <3>1 DEF Fresh, Latest
    <3>3. folio'[f] = folio[f]
      BY <1>2, <2>2, <3>2
    <3>4. k[1] # NoPlan
      BY KeyParts, PortfoliosAssumption
    <3>5. \A g \in Folios : folio'[g].plan = k[1] => folio'[g] = folio[g]
      BY <1>2, <3>4, NoRowIsRow
    <3>6. f \in Latest(k[1])'
      BY <3>2, <3>3, <3>5 DEF Latest
    <3> QED BY <1>2, <3>1, <3>2, <3>3, <3>6 DEF Fresh
  <2> QED BY <2>1, <2>2
<1>4. missed \subseteq missed'
  BY <1>2 DEF Unseen
<1> QED BY <1>2, <1>3, <1>4, SeedStale

\* The new portfolio is of its plan alone.
LEMMA CreatePortfolioStale ==
    ASSUME Together, StaleInv, CreatePortfolio
    PROVE  StaleInv'
<1>1. PICK s : s = seed.of
  OBVIOUS
<1>2. /\ Insert(s, SeedDate) /\ UNCHANGED <<plan, req, cache>>
      /\ missed' = missed \cup { k \in Keys : k[1] = s /\ Present(k) }
  BY <1>1 DEF CreatePortfolio
<1>3. /\ folio \in [ Folios -> Rows ] /\ used \in Nat /\ used + 1 \in Folios
      /\ folio[used + 1].plan = NoPlan /\ folio'[used + 1].plan = s
      /\ \A g \in Folios \ {used + 1} : folio'[g] = folio[g]
  BY <1>2, PortfoliosAssumption DEF Insert, Together, RowsAre, Folios
<1>4. ASSUME NEW k \in Keys, Stale(k)' PROVE Stale(k) \/ k \in missed'
  <2>1. CASE k[1] = s
    BY <1>2, <1>4, <2>1 DEF Stale, Present
  <2>2. CASE k[1] # s
    <3>1. k[1] # NoPlan
      BY KeyParts, PortfoliosAssumption
    <3>2. \A g \in Folios : (folio'[g].plan = k[1] <=> folio[g].plan = k[1])
                            /\ (folio[g].plan = k[1] => folio'[g] = folio[g])
      BY <1>3, <2>2, <3>1
    <3>3. Latest(k[1])' = Latest(k[1])
      BY <3>2 DEF Latest
    <3>4. \A f \in Latest(k[1]) : folio'[f] = folio[f]
      BY <3>2 DEF Latest
    <3> QED BY <1>2, <1>4, <3>3, <3>4 DEF Stale, Present, Fresh
  <2> QED BY <2>1, <2>2
<1> QED BY <1>2, <1>4, SeedStale

LEMMA InitStale == SeedInit => StaleInv
  BY DEF SeedInit, Init, StaleInv, Stale, Present

LEMMA NextStale == Together /\ StaleInv /\ [Both]_allVars => StaleInv'
<1> SUFFICES ASSUME Together, StaleInv, [Both]_allVars PROVE StaleInv'
  OBVIOUS
<1>1. CASE UNCHANGED vars
  BY <1>1 DEF vars, portfolios, entries, StaleInv, Stale, Present, Fresh, Latest, Clears
<1>2. CASE SeedNext
  <2>1. CASE \/ Start \/ UpsertVisibility \/ UpsertAdmin \/ Exit
             \/ \E s \in Plans : FindVisibility(s) \/ FindPlanOfPortfolio(s)
    BY <1>1, <2>1 DEF Start, FindVisibility, FindPlanOfPortfolio, UpsertVisibility, UpsertAdmin, Exit
  <2> QED BY <1>2, <2>1, UpsertPlanStale, DeletePortfoliosStale, CreatePortfolioStale DEF SeedNext
<1>3. CASE Serve
  BY <1>3, ServeStale DEF Serve
<1>4. CASE Administer
  BY <1>1, <1>4, InsertPlanStale, DeletePlanStale DEF Administer, WriteTexts
<1> QED BY <1>1, <1>2, <1>3, <1>4 DEF Both, allVars

\* Whatever two requests and a seed did in which order, an entry that is out
\* of date is being removed, or was stored after a write it had not seen, or
\* was left by a seed or by an invalidation that failed.
THEOREM StaleFoliosAreExplained == BothSpec => []StaleIsExplained
<1>1. BothSpec => [](Together /\ StaleInv)
  BY InitTogether, NextTogether, InitStale, NextStale, PTL DEF BothSpec
<1> QED BY <1>1, StaleIs, PTL

==============================================================================
