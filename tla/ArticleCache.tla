---------------------------- MODULE ArticleCache ----------------------------
(***************************************************************************)
(* One article, the entries Redis keeps of it, and the requests that read  *)
(* through them or write past them.                                        *)
(*                                                                         *)
(* findBySlug keeps an entry for each plan level and one for editors and   *)
(* admins, findAll one for each page of the list.  Writes commit first and *)
(* then scan for the entries to remove.  Each await is a step, and so is   *)
(* each of the two SELECTs by which Prisma reads an article and its plans. *)
(* The text of an article is its version; a slug that is changed is an     *)
(* article that is gone from this slug.                                    *)
(***************************************************************************)
EXTENDS Naturals

CONSTANTS
    Procs,       \* requests being served at the same time
    MaxLevel,    \* the highest level of a plan; a user without a plan has 0
    Readers,     \* the keys that are asked for
    Ttl,         \* lifetime of an entry, in ticks of the clock: one for all,
                 \*   though a page of the list is kept half as long
    MaxVersions  \* bound on the number of writes

Levels == 0 .. MaxLevel
Admin  == MaxLevel + 1   \* ...:level:admin, for whom the check is bypassed
List   == MaxLevel + 2   \* articles:list:...
Keys   == 0 .. List

ASSUME ArticleCacheAssumption ==
    /\ MaxLevel \in Nat
    /\ Readers \subseteq Keys
    /\ Ttl \in Nat \ {0}
    /\ MaxVersions \in Nat

VARIABLES
    row,     \* the article: its state, the lowest level of its plans (0: no
             \*   plans), its version, and the first version of this article
    cache,   \* the entries: the version of the text, the level its plans had
             \*   when they were read, the ticks left (0: absent), and whether
             \*   it was left by a release that stored more of the author than
             \*   may be shown; and, as a history, the level the plans had when
             \*   the text was read
    req,     \* where each request is, the key it reads and the keys it must
             \*   still remove, and the entry it has read
    missed   \* history, read by no step: entries stored by a request that had
             \*   been overtaken by a write, or left by one that failed

vars == <<row, cache, req, missed>>

Versions == 0 .. MaxVersions
NoEntry  == [ version |-> 0, own |-> 0, need |-> 0, left |-> 0, unsafe |-> FALSE ]
Idle     == [ at |-> "idle", key |-> List, todo |-> {}, entry |-> NoEntry ]
Entries  == [ version : Versions, own : Levels, need : Levels, left : 0 .. Ttl,
              unsafe : BOOLEAN ]

\* Every value keeps its type, and an entry with no time left is absent.
TypeOK ==
    /\ row \in [ state : { "absent", "draft", "published" }, need : Levels,
                 version : Versions, born : Versions ]
    /\ cache \in [ Keys -> Entries ]
    /\ \A k \in Keys : cache[k].left = 0 => cache[k] = NoEntry
    /\ req \in [ Procs -> [ at : { "idle", "find", "plans", "set", "invalidate", "scan" },
                            key : Keys, todo : SUBSET Keys, entry : Entries ] ]
    /\ missed \subseteq Keys

Present(k) == cache[k].left > 0
Stale(k)   == Present(k) /\ cache[k].version # row.version

\* An entry for one level may show what that level's plan covers.
Covers(k, need) == need <= k

\* A published article, perhaps with entries of an earlier release.
Init ==
    /\ \E n \in Levels :
         row = [ state |-> "published", need |-> n, version |-> 0, born |-> 0 ]
    /\ \E legacy \in SUBSET (Readers \ {List}) :
         cache = [ k \in Keys |->
                     IF k \in legacy /\ Covers(k, row.need)
                       THEN [ version |-> 0, own |-> row.need, need |-> row.need,
                              left |-> Ttl, unsafe |-> TRUE ]
                       ELSE NoEntry ]
    /\ req = [ p \in Procs |-> Idle ]
    /\ missed = {}

Goto(p, to) == req' = [req EXCEPT ![p].at = to]
Answer(p)   == req' = [req EXCEPT ![p] = Idle]

-----------------------------------------------------------------------------
(* findBySlug and findAll.                                                 *)

\* Slip: the entry is stored again as it was found.
Get_SavesUncleaned(p, k) ==
    /\ req[p].at = "idle"
    /\ \/ /\ ~Present(k)
          /\ req' = [req EXCEPT ![p].at = "find", ![p].key = k]
       \/ /\ Present(k) /\ cache[k].unsafe
          /\ req' = [req EXCEPT ![p].at = "set", ![p].key = k, ![p].entry = cache[k]]
    /\ UNCHANGED <<row, cache, missed>>

\* GET.  A hit is answered at once, unless the entry must be cleaned.
Get(p, k) ==
    /\ req[p].at = "idle"
    /\ \/ /\ ~Present(k)
          /\ req' = [req EXCEPT ![p].at = "find", ![p].key = k]
       \/ /\ Present(k) /\ cache[k].unsafe
          /\ req' = [req EXCEPT ![p].at = "set", ![p].key = k,
                                ![p].entry = [cache[k] EXCEPT !.unsafe = FALSE]]
    /\ UNCHANGED <<row, cache, missed>>

Seen == [ version |-> row.version, own |-> row.need, need |-> row.need,
          left |-> Ttl, unsafe |-> FALSE ]

\* Slip: whether the article is published is not asked.
Find_Drafts(p) ==
    /\ req[p].at = "find"
    /\ req' = [req EXCEPT ![p].at = IF req[p].key = List THEN "set" ELSE "plans",
                          ![p].entry = Seen]
    /\ UNCHANGED <<row, cache, missed>>

\* The page of the list is read, without the article when it is not
\* published; or the row of the published article.
Find(p) ==
    /\ req[p].at = "find"
    /\ IF req[p].key = List \/ row.state = "published"
         THEN req' = [req EXCEPT ![p].at = IF req[p].key = List THEN "set" ELSE "plans",
                                 ![p].entry = Seen]
         ELSE Answer(p)
    /\ UNCHANGED <<row, cache, missed>>

\* The levels the second SELECT may find: those of the article's plans as
\* they are by now, unless it is gone from this slug; then its plans are gone
\* with it or it has them under another slug, as it may have been given.
LevelsOf(e) ==
    IF row.state # "absent" /\ row.born <= e.version THEN { row.need } ELSE Levels

\* Slip: the plan is checked on the way out, after the entry is stored.
FindPlans_CachesFirst(p) ==
    /\ req[p].at = "plans"
    /\ \E need \in LevelsOf(req[p].entry) :
         req' = [req EXCEPT ![p].at = "set", ![p].entry.need = need]
    /\ UNCHANGED <<row, cache, missed>>

\* The plans of the article that was read, and the check of the reader's
\* level, which editors and admins bypass.
FindPlans(p) ==
    LET k == req[p].key IN
    /\ req[p].at = "plans"
    /\ \E need \in LevelsOf(req[p].entry) :
         IF k = Admin \/ Covers(k, need)
           THEN req' = [req EXCEPT ![p].at = "set", ![p].entry.need = need]
           ELSE Answer(p)
    /\ UNCHANGED <<row, cache, missed>>

\* SET with EX; it replaces whatever is there.
Set(p) ==
    LET k == req[p].key
        e == req[p].entry
    IN
    /\ req[p].at = "set"
    /\ cache' = [cache EXCEPT ![k] = [e EXCEPT !.left = Ttl]]
    /\ missed' = IF e.version # row.version THEN missed \cup {k} ELSE missed \ {k}
    /\ Answer(p)
    /\ UNCHANGED row

-----------------------------------------------------------------------------
(* create, update and remove, and the invalidation they end with.          *)

\* The article as the handler's transaction leaves it.
Commit(p, state, need, born) ==
    /\ req[p].at = "idle"
    /\ row.version < MaxVersions
    /\ row' = [ state |-> state, need |-> need, version |-> row.version + 1, born |-> born ]
    /\ Goto(p, "invalidate")
    /\ UNCHANGED <<cache, missed>>

Create(p, state, need) ==
    row.state = "absent" /\ Commit(p, state, need, row.version + 1)

Update(p, state, need) ==
    row.state # "absent" /\ Commit(p, state, need, row.born)

Remove(p) ==
    row.state # "absent" /\ Commit(p, "absent", 0, row.born)

\* clearCache starts: SCAN promises the keys that are there all along.
Scan(p) ==
    /\ req[p].at = "invalidate"
    /\ req' = [req EXCEPT ![p].at = "scan", ![p].todo = { k \in Keys : Present(k) }]
    /\ UNCHANGED <<row, cache, missed>>

\* A batch of keys is unlinked; others may be among it that appeared since.
\* The command is sent and not waited for: the answer may leave before the
\* last batch is gone, and the request counts as scanning until it is.
Unlink(p, batch) ==
    /\ req[p].at = "scan"
    /\ batch # {}
    /\ cache' = [k \in Keys |-> IF k \in batch THEN NoEntry ELSE cache[k]]
    /\ missed' = missed \ batch
    /\ req' = [req EXCEPT ![p].todo = @ \ batch]
    /\ UNCHANGED row

\* Slip: the loop ends whatever the cursor.
ScanEnds_FirstBatch(p) ==
    /\ req[p].at = "scan"
    /\ Answer(p)
    /\ UNCHANGED <<row, cache, missed>>

\* The cursor is back at 0.
ScanEnds(p) ==
    /\ req[p].at = "scan"
    /\ req[p].todo = {}
    /\ Answer(p)
    /\ UNCHANGED <<row, cache, missed>>

-----------------------------------------------------------------------------
\* A statement or a call to Redis fails, or the server stops.  clearCache
\* only logs what goes wrong: the entries it has not come to stay.
Fail(p) ==
    /\ req[p].at # "idle"
    /\ missed' = missed \cup
         CASE req[p].at = "invalidate" -> { k \in Keys : Present(k) }
           [] req[p].at = "scan"       -> req[p].todo
           [] OTHER                    -> {}
    /\ Answer(p)
    /\ UNCHANGED <<row, cache>>

Older(e) == IF e.left > 1 THEN [e EXCEPT !.left = @ - 1] ELSE NoEntry

Tick ==
    /\ \E k \in Keys : Present(k)
    /\ cache' = [ k \in Keys |-> Older(cache[k]) ]
    /\ missed' = { k \in missed : cache[k].left > 1 }
    /\ req' = [ p \in Procs |-> [req[p] EXCEPT !.todo = { k \in @ : cache[k].left > 1 }] ]
    /\ UNCHANGED row

Arrive(p) ==
    \/ \E k \in Readers : Get(p, k)
    \/ \E state \in { "draft", "published" }, need \in Levels :
         Create(p, state, need) \/ Update(p, state, need)
    \/ Remove(p)

Advance(p) ==
    \/ Find(p) \/ FindPlans(p) \/ Set(p) \/ Scan(p) \/ ScanEnds(p)
    \/ \E batch \in SUBSET Keys : Unlink(p, batch)

Next ==
    \/ \E p \in Procs : Arrive(p) \/ Advance(p) \/ Fail(p)
    \/ Tick

Spec == Init /\ [][Next]_vars

\* Requests end and time passes.
FairSpec == Spec /\ (\A p \in Procs : WF_vars(Advance(p))) /\ WF_vars(Tick)

-----------------------------------------------------------------------------
(* Properties.                                                             *)

\* Premium text is not stored where a lower plan finds it: the plans that were
\* read for an entry of a level are covered by that level, and they are those
\* the article had when its text was read, unless a write took place between
\* the two SELECTs, and then the entry is out of date (the check before the
\* SET, the level in the key, and what two SELECTs leave of it).
EntriesAreCovered ==
    \A k \in Levels :
        Present(k) =>
            /\ Covers(k, cache[k].need)
            /\ cache[k].own = cache[k].need \/ Stale(k)

\* What the comment on the check says it prevents: that the text of an article
\* is found by readers whose plan did not open it when that text was read
\* ("check BEFORE caching to prevent premium content leak").
TextIsCovered ==
    \A k \in Levels : Present(k) => Covers(k, cache[k].own)

\* An entry is out of date only while the write that overtook it is still
\* removing it, or because a read that was overtaken by a write stored it
\* afterwards, or because an invalidation failed: what scans and reads do in
\* any other order ends with fresh entries.
StaleIsExplained ==
    \A k \in Keys :
        Stale(k) =>
            \/ k \in missed
            \/ \E p \in Procs :
                 \/ req[p].at = "invalidate"
                 \/ req[p].at = "scan" /\ k \in req[p].todo

\* An entry's plans are those of its text, or a later write's; and an entry of
\* a level has passed the check.
Whole(e)         == e.version <= row.version /\ (e.own = e.need \/ e.version < row.version)
Checked(k, e)    == k \in Levels => Covers(k, e.need)
EntryIsSound(k)  == Whole(cache[k]) /\ (Present(k) => Checked(k, cache[k]))

\* What a request is about to store is just as sound, and between the two
\* SELECTs it will find the plans of its text, or a write has overtaken it.
RequestIsSound(p) ==
    /\ req[p].at = "set" => Whole(req[p].entry) /\ Checked(req[p].key, req[p].entry)
    /\ req[p].at = "plans" =>
         \/ req[p].entry.version < row.version
         \/ /\ req[p].entry.version = row.version
            /\ req[p].entry.own = row.need
            /\ row.state # "absent"

\* The inductive invariant behind the two.
ArticleCacheInv ==
    /\ TypeOK
    /\ row.born <= row.version
    /\ \A k \in Keys : EntryIsSound(k)
    /\ \A p \in Procs : RequestIsSound(p)
    /\ StaleIsExplained

\* What CacheAside sees: the text a key's readers would be shown of the article
\* now, were their plan to cover it, what the entries show, and what was read
\* and may yet be stored.
Nothing    == MaxVersions + 1   \* no version
Shown(e)   == e.version
Now        == [ k \in Keys |-> IF k = List \/ row.state = "published"
                                 THEN Shown(row) ELSE Nothing ]
EntryShows == [ k \in Keys |-> IF Present(k) THEN Shown(cache[k]) ELSE Nothing ]
Reads      == { <<req[p].key, Shown(req[p].entry)>> :
                  p \in { q \in Procs : req[q].at \in { "plans", "set" } } }

Promise == INSTANCE CacheAside
             WITH Values <- Versions, None <- Nothing,
                  now <- Now, entry <- EntryShows, reads <- Reads

\* Readers are given only texts that were published at some moment since, and
\* were read then: no draft, nothing that a write had already replaced when it
\* was read.  Whatever order reads, writes, invalidations and expiries take,
\* the article's cache implements CacheAside.  Levels are left to
\* EntriesAreCovered: the plans are read after the text.
OnlyWhatWasRead == Promise!Spec

\* No stale entry lives for ever, not even one that an old release left and
\* that is stored again on its way out.
StaleEntriesDie == \A k \in Keys : Stale(k) ~> ~Stale(k)

=============================================================================
