------------------------- MODULE ArticleCacheProofs -------------------------
(***************************************************************************)
(* What is cached of an article has passed the check of the level it is    *)
(* cached for, and is out of date only for the reasons StaleIsExplained    *)
(* names, for any number of requests, levels and writes.                   *)
(***************************************************************************)
EXTENDS ArticleCache, TLAPS

\* The keys are the levels, and two more.
LEMMA KeysAreLevels ==
    /\ Levels \subseteq Keys /\ Admin \in Keys /\ List \in Keys
    /\ List \notin Levels /\ Admin \notin Levels /\ 0 \in Levels /\ 0 \in 0 .. Ttl
    /\ Levels \subseteq Nat /\ 0 \in Versions
  BY ArticleCacheAssumption DEF Keys, Levels, Admin, List, Versions

\* The empty entry is an entry that no one finds.
LEMMA NoEntryIsEmpty == NoEntry \in Entries /\ NoEntry.left = 0
  BY KeysAreLevels DEF NoEntry, Entries

\* One field of a request, or all of them, change at a time.
LEMMA AnswerMoves ==
    ASSUME TypeOK, NEW p \in Procs, Answer(p)
    PROVE  /\ req' \in [ Procs -> [ at : { "idle", "find", "plans", "set", "invalidate", "scan" },
                                    key : Keys, todo : SUBSET Keys, entry : Entries ] ]
           /\ req'[p].at = "idle" /\ req'[p].todo = {}
           /\ \A q \in Procs \ {p} : req'[q] = req[q]
  BY KeysAreLevels, NoEntryIsEmpty DEF TypeOK, Answer, Idle

-----------------------------------------------------------------------------
(* Reads.                                                                  *)

\* Cleaning an entry changes nothing but its mark.
LEMMA CleanedIsEntry ==
    ASSUME NEW e \in Entries
    PROVE  /\ [e EXCEPT !.unsafe = FALSE] \in Entries
           /\ [e EXCEPT !.unsafe = FALSE].need = e.need
           /\ [e EXCEPT !.unsafe = FALSE].own = e.own
           /\ [e EXCEPT !.unsafe = FALSE].version = e.version
BY DEF Entries

\* An entry that is left alone, or removed, stays sound.
LEMMA SoundStays ==
    ASSUME row' = row, NEW k \in Keys, EntryIsSound(k), cache'[k] = cache[k]
    PROVE  EntryIsSound(k)'
  BY DEF EntryIsSound, Whole, Checked, Covers, Present

LEMMA NothingIsSound ==
    ASSUME TypeOK, row' = row, NEW k \in Keys, cache'[k] = NoEntry
    PROVE  EntryIsSound(k)'
<1>1. row'.version \in Nat
  BY ArticleCacheAssumption DEF TypeOK, Versions
<1> QED BY <1>1 DEF NoEntry, EntryIsSound, Whole, Present

\* So does a request that does not move, and one that has nothing to store.
LEMMA RequestsStay ==
    ASSUME row' = row, NEW p \in Procs, RequestIsSound(p),
           \/ req'[p] = req[p]
           \/ req'[p].at \notin { "set", "plans" }
    PROVE  RequestIsSound(p)'
  BY DEF RequestIsSound, Whole, Checked, Covers

LEMMA GetKeeps ==
    ASSUME ArticleCacheInv, NEW p \in Procs, NEW k \in Keys, Get(p, k)
    PROVE  ArticleCacheInv'
<1> DEFINE clean == [cache[k] EXCEPT !.unsafe = FALSE]
<1>0. cache[k] \in Entries
  BY DEF ArticleCacheInv, TypeOK
<1>1. /\ UNCHANGED <<row, cache, missed>>
      /\ req[p].at = "idle"
      /\ \/ req' = [req EXCEPT ![p].at = "find", ![p].key = k]
         \/ /\ Present(k)
            /\ req' = [req EXCEPT ![p].at = "set", ![p].key = k, ![p].entry = clean]
  BY DEF Get
<1>2. /\ clean \in Entries /\ clean.need = cache[k].need
      /\ clean.own = cache[k].own /\ clean.version = cache[k].version
  BY <1>0, CleanedIsEntry
<1> HIDE DEF clean
<1>3. /\ req' \in [ Procs -> [ at : { "idle", "find", "plans", "set", "invalidate", "scan" },
                               key : Keys, todo : SUBSET Keys, entry : Entries ] ]
      /\ \A q \in Procs \ {p} : req'[q] = req[q]
      /\ \/ req'[p].at = "find"
         \/ req'[p].at = "set" /\ req'[p].key = k /\ req'[p].entry = clean /\ Present(k)
  BY <1>1, <1>2 DEF ArticleCacheInv, TypeOK
<1>4. TypeOK'
  BY <1>1, <1>3 DEF ArticleCacheInv, TypeOK
<1>5. StaleIsExplained'
  BY <1>1, <1>3 DEF ArticleCacheInv, StaleIsExplained, Stale, Present
<1>6. \A q \in Procs : RequestIsSound(q)'
  BY <1>1, <1>2, <1>3 DEF ArticleCacheInv, RequestIsSound, EntryIsSound, Whole, Checked, Covers
<1>7. \A x \in Keys : EntryIsSound(x)'
  BY <1>1, SoundStays DEF ArticleCacheInv
<1> QED BY <1>1, <1>4, <1>5, <1>6, <1>7 DEF ArticleCacheInv

\* The text is read, with the plans it has at that moment.
LEMMA FindKeeps ==
    ASSUME ArticleCacheInv, NEW p \in Procs, Find(p) PROVE ArticleCacheInv'
<1> DEFINE k == req[p].key
           to == IF k = List THEN "set" ELSE "plans"
<1>1. /\ UNCHANGED <<row, cache, missed>>
      /\ req[p].at = "find"
      /\ \/ /\ k = List \/ row.state = "published"
            /\ req' = [req EXCEPT ![p].at = to, ![p].entry = Seen]
         \/ Answer(p)
  BY DEF Find
<1>2. /\ Seen \in Entries /\ Seen.need = row.need /\ Seen.own = row.need
      /\ Seen.version = row.version /\ row.version \in Nat
  BY ArticleCacheAssumption DEF ArticleCacheInv, TypeOK, Entries, Seen, Versions
<1>3. /\ req' \in [ Procs -> [ at : { "idle", "find", "plans", "set", "invalidate", "scan" },
                               key : Keys, todo : SUBSET Keys, entry : Entries ] ]
      /\ \A q \in Procs \ {p} : req'[q] = req[q]
      /\ \/ req'[p].at = "idle"
         \/ /\ req'[p].at = to /\ req'[p].key = k /\ req'[p].entry = Seen
            /\ k = List \/ row.state = "published"
  <2>1. CASE /\ req' = [req EXCEPT ![p].at = to, ![p].entry = Seen]
             /\ k = List \/ row.state = "published"
    BY <1>2, <2>1 DEF ArticleCacheInv, TypeOK
  <2>2. CASE Answer(p)
    BY <2>2, AnswerMoves DEF ArticleCacheInv
  <2> QED BY <1>1, <2>1, <2>2
<1>4. TypeOK'
  BY <1>1, <1>3 DEF ArticleCacheInv, TypeOK
<1>5. StaleIsExplained'
  BY <1>1, <1>3 DEF ArticleCacheInv, StaleIsExplained, Stale, Present
<1>6. RequestIsSound(p)'
  <2>1. CASE req'[p].at = "idle"
    BY <2>1 DEF RequestIsSound
  <2>2. CASE req'[p].at = "set" /\ req'[p].entry = Seen /\ req'[p].key = List
    BY <1>1, <1>2, <2>2, KeysAreLevels DEF RequestIsSound, Whole, Checked
  <2>3. CASE req'[p].at = "plans" /\ req'[p].entry = Seen /\ row.state = "published"
    BY <1>1, <1>2, <2>3 DEF RequestIsSound
  <2> QED BY <1>3, <2>1, <2>2, <2>3
<1>7. \A q \in Procs : RequestIsSound(q)'
  BY <1>1, <1>3, <1>6, RequestsStay DEF ArticleCacheInv
<1>8. \A x \in Keys : EntryIsSound(x)'
  BY <1>1, SoundStays DEF ArticleCacheInv
<1> QED BY <1>1, <1>4, <1>5, <1>7, <1>8 DEF ArticleCacheInv

\* The plans are those of the text, unless a write took place since.
LEMMA FindPlansKeeps ==
    ASSUME ArticleCacheInv, NEW p \in Procs, FindPlans(p) PROVE ArticleCacheInv'
<1> DEFINE k == req[p].key
           e == req[p].entry
<1>1. /\ UNCHANGED <<row, cache, missed>>
      /\ req[p].at = "plans" /\ RequestIsSound(p)
      /\ e \in Entries /\ e.version \in Nat /\ row.version \in Nat /\ row.need \in Levels
      /\ row.born <= row.version
  BY ArticleCacheAssumption DEF FindPlans, ArticleCacheInv, TypeOK, Entries, Versions
<1>2. PICK need \in LevelsOf(e) :
        \/ /\ k = Admin \/ Covers(k, need)
           /\ req' = [req EXCEPT ![p].at = "set", ![p].entry.need = need]
        \/ Answer(p)
  BY DEF FindPlans
<1>3. need \in Levels
  BY <1>1, <1>2 DEF LevelsOf
<1>4. e.version <= row.version /\ (e.own = need \/ e.version < row.version)
  <2>1. CASE e.version < row.version
    BY <1>1, <2>1
  <2>2. CASE e.version = row.version /\ e.own = row.need /\ row.state # "absent"
    BY <1>1, <1>2, <2>2 DEF LevelsOf
  <2> QED BY <1>1, <2>1, <2>2 DEF RequestIsSound
<1>5. /\ req' \in [ Procs -> [ at : { "idle", "find", "plans", "set", "invalidate", "scan" },
                               key : Keys, todo : SUBSET Keys, entry : Entries ] ]
      /\ \A q \in Procs \ {p} : req'[q] = req[q]
      /\ \/ req'[p].at = "idle"
         \/ /\ req'[p].at = "set" /\ req'[p].key = k
            /\ req'[p].entry.version = e.version /\ req'[p].entry.own = e.own
            /\ req'[p].entry.need = need
            /\ k = Admin \/ Covers(k, need)
  <2>1. CASE /\ req' = [req EXCEPT ![p].at = "set", ![p].entry.need = need]
             /\ k = Admin \/ Covers(k, need)
    <3>1. [e EXCEPT !.need = need] \in Entries
      BY <1>1, <1>3 DEF Entries
    <3>2. req' = [req EXCEPT ![p] = [req[p] EXCEPT !.at = "set",
                                                   !.entry = [e EXCEPT !.need = need]]]
      BY <2>1 DEF ArticleCacheInv, TypeOK
    <3> HIDE DEF e
    <3>3. [e EXCEPT !.need = need].version = e.version /\ [e EXCEPT !.need = need].own = e.own
          /\ [e EXCEPT !.need = need].need = need
      BY <1>1 DEF Entries
    <3> DEFINE f == [e EXCEPT !.need = need]
    <3> HIDE DEF f
    <3>4. f \in Entries /\ f.version = e.version /\ f.own = e.own /\ f.need = need
          /\ req' = [req EXCEPT ![p] = [req[p] EXCEPT !.at = "set", !.entry = f]]
      BY <3>1, <3>2, <3>3 DEF f
    <3>5. req'[p] = [req[p] EXCEPT !.at = "set", !.entry = f] /\ \A q \in Procs \ {p} : req'[q] = req[q]
      BY <3>4 DEF ArticleCacheInv, TypeOK
    <3>6. req' \in [ Procs -> [ at : { "idle", "find", "plans", "set", "invalidate", "scan" },
                               key : Keys, todo : SUBSET Keys, entry : Entries ] ]
      BY <3>4 DEF ArticleCacheInv, TypeOK
    <3>7. req'[p].at = "set" /\ req'[p].entry = f /\ req'[p].key = k
      BY <3>5 DEF ArticleCacheInv, TypeOK
    <3> QED BY <2>1, <3>4, <3>5, <3>6, <3>7
  <2>2. CASE Answer(p)
    BY <2>2, AnswerMoves DEF ArticleCacheInv
  <2> QED BY <1>2, <2>1, <2>2
<1> HIDE DEF k, e
<1>6. TypeOK'
  BY <1>1, <1>5 DEF ArticleCacheInv, TypeOK
<1>7. StaleIsExplained'
  BY <1>1, <1>5 DEF ArticleCacheInv, StaleIsExplained, Stale, Present
<1>8. RequestIsSound(p)'
  BY <1>1, <1>4, <1>5, KeysAreLevels DEF RequestIsSound, Whole, Checked, Covers
<1>9. \A q \in Procs : RequestIsSound(q)'
  BY <1>1, <1>5, <1>8, RequestsStay DEF ArticleCacheInv
<1>10. \A x \in Keys : EntryIsSound(x)'
  BY <1>1, SoundStays DEF ArticleCacheInv
<1> QED BY <1>1, <1>6, <1>7, <1>9, <1>10 DEF ArticleCacheInv

\* A stored entry is covered because the request checked it, and if it is
\* stale it is recorded as missed.
LEMMA SetKeeps ==
    ASSUME ArticleCacheInv, NEW p \in Procs, Set(p) PROVE ArticleCacheInv'
<1> DEFINE k == req[p].key
           e == [req[p].entry EXCEPT !.left = Ttl]
<1>1. /\ req[p].at = "set" /\ k \in Keys
      /\ cache' = [cache EXCEPT ![k] = e]
      /\ missed' = IF req[p].entry.version # row.version THEN missed \cup {k} ELSE missed \ {k}
      /\ Answer(p)
      /\ row' = row
  BY DEF Set, ArticleCacheInv, TypeOK
<1>2. /\ e \in Entries /\ e.left # 0 /\ e.version = req[p].entry.version
      /\ Whole(e) /\ Checked(k, e)
  BY <1>1, ArticleCacheAssumption
  DEF ArticleCacheInv, TypeOK, Entries, RequestIsSound, Whole, Checked
<1>3. /\ req' \in [ Procs -> [ at : { "idle", "find", "plans", "set", "invalidate", "scan" },
                               key : Keys, todo : SUBSET Keys, entry : Entries ] ]
      /\ req'[p].at = "idle"
      /\ \A q \in Procs \ {p} : req'[q] = req[q]
  BY <1>1, AnswerMoves DEF ArticleCacheInv
<1>4. /\ cache'[k] = e
      /\ \A x \in Keys \ {k} : cache'[x] = cache[x]
      /\ cache' \in [ Keys -> Entries ]
      /\ e.version # row.version => k \in missed'
      /\ \A x \in Keys \ {k} : x \in missed => x \in missed'
  BY <1>1, <1>2 DEF ArticleCacheInv, TypeOK
<1> HIDE DEF k, e
<1>5. TypeOK'
  BY <1>1, <1>2, <1>3, <1>4 DEF ArticleCacheInv, TypeOK
<1>6. \A x \in Keys : EntryIsSound(x)'
  <2> SUFFICES ASSUME NEW x \in Keys PROVE EntryIsSound(x)'
    OBVIOUS
  <2>1. CASE x = k
    BY <1>1, <1>2, <1>4, <2>1 DEF EntryIsSound, Whole, Checked, Covers
  <2> QED BY <1>1, <1>4, <2>1, SoundStays DEF ArticleCacheInv
<1>7. StaleIsExplained'
  <2> SUFFICES ASSUME NEW x \in Keys, Stale(x)', x \notin missed'
               PROVE  \E q \in Procs :
                        \/ req'[q].at = "invalidate"
                        \/ req'[q].at = "scan" /\ x \in req'[q].todo
    BY DEF StaleIsExplained
  <2>1. x # k
    BY <1>1, <1>4 DEF Stale
  <2>2. Stale(x) /\ x \notin missed
    BY <1>1, <1>4, <2>1 DEF Stale, Present
  <2>3. PICK q \in Procs : \/ req[q].at = "invalidate"
                           \/ req[q].at = "scan" /\ x \in req[q].todo
    BY <2>2 DEF ArticleCacheInv, StaleIsExplained
  <2> QED BY <1>1, <1>3, <2>3
<1>8. \A q \in Procs : RequestIsSound(q)'
  BY <1>1, <1>3, RequestsStay DEF ArticleCacheInv
<1> QED BY <1>1, <1>5, <1>6, <1>7, <1>8 DEF ArticleCacheInv

-----------------------------------------------------------------------------
(* Writes and invalidation.                                                *)

\* A write makes entries stale, and is from then on the reason for it.
LEMMA CommitKeeps ==
    ASSUME ArticleCacheInv, NEW p \in Procs,
           NEW state \in { "absent", "draft", "published" }, NEW need \in Levels,
           NEW born, born \in { row.born, row.version + 1 }, Commit(p, state, need, born)
    PROVE  ArticleCacheInv'
<1>1. /\ req' = [req EXCEPT ![p].at = "invalidate"]
      /\ row' = [ state |-> state, need |-> need, version |-> row.version + 1,
                  born |-> born ]
      /\ row.version \in Versions /\ row.version < MaxVersions
      /\ UNCHANGED <<cache, missed>>
  BY DEF Commit, Goto, ArticleCacheInv, TypeOK
<1>2. /\ row.version + 1 \in Versions /\ row.version \in Nat
      /\ born \in Versions /\ born <= row.version + 1
  BY <1>1, ArticleCacheAssumption DEF Versions, ArticleCacheInv, TypeOK
<1>3. /\ req' \in [ Procs -> [ at : { "idle", "find", "plans", "set", "invalidate", "scan" },
                               key : Keys, todo : SUBSET Keys, entry : Entries ] ]
      /\ req'[p].at = "invalidate"
      /\ \A q \in Procs \ {p} : req'[q] = req[q]
  BY <1>1 DEF ArticleCacheInv, TypeOK
<1>4. TypeOK'
  BY <1>1, <1>2, <1>3 DEF ArticleCacheInv, TypeOK
<1>5. StaleIsExplained'
  BY <1>3 DEF StaleIsExplained
<1>6. row'.version = row.version + 1 /\ row'.born <= row'.version
  BY <1>1, <1>2
<1>7. \A e \in Entries : e.version \in Nat
  BY ArticleCacheAssumption DEF Entries, Versions
<1>8. \A e \in Entries : e.version <= row.version => e.version < row'.version
  BY <1>2, <1>6, <1>7
<1>9. \A e \in Entries : e.version < row'.version => e.version <= row'.version
  BY <1>2, <1>6, <1>7
<1>10. \A x \in Keys : cache[x] \in Entries /\ EntryIsSound(x)
  BY DEF ArticleCacheInv, TypeOK
<1>11. \A x \in Keys : EntryIsSound(x)'
  BY <1>1, <1>8, <1>9, <1>10 DEF EntryIsSound, Whole, Present, Checked, Covers
<1>12. ASSUME NEW q \in Procs \ {p} PROVE RequestIsSound(q)'
  <2>1. /\ req'[q] = req[q] /\ req[q].entry \in Entries /\ RequestIsSound(q)
        /\ req[q].entry.version \in Nat
    BY <1>3, <1>7 DEF ArticleCacheInv, TypeOK
  <2>2. CASE req[q].at = "set"
    BY <1>8, <1>9, <2>1, <2>2 DEF RequestIsSound, Whole, Checked, Covers
  <2>3. CASE req[q].at = "plans"
    <3>1. req[q].entry.version <= row.version
      BY <1>2, <2>1, <2>3 DEF RequestIsSound
    <3> QED BY <1>8, <2>1, <2>3, <3>1 DEF RequestIsSound
  <2> QED BY <2>1, <2>2, <2>3 DEF RequestIsSound
<1>13. RequestIsSound(p)'
  BY <1>3 DEF RequestIsSound
<1> QED BY <1>4, <1>5, <1>6, <1>11, <1>12, <1>13 DEF ArticleCacheInv

\* The scan takes over every entry the write has made stale.
LEMMA ScanKeeps ==
    ASSUME ArticleCacheInv, NEW p \in Procs, Scan(p) PROVE ArticleCacheInv'
<1> DEFINE due == { k \in Keys : Present(k) }
<1>1. /\ req' = [req EXCEPT ![p].at = "scan", ![p].todo = due]
      /\ UNCHANGED <<row, cache, missed>>
  BY DEF Scan
<1>2. \A k \in Keys : Stale(k) => k \in due
  BY DEF Stale
<1>3. due \in SUBSET Keys
  OBVIOUS
<1> HIDE DEF due
<1>4. /\ req' \in [ Procs -> [ at : { "idle", "find", "plans", "set", "invalidate", "scan" },
                               key : Keys, todo : SUBSET Keys, entry : Entries ] ]
      /\ req'[p].at = "scan" /\ req'[p].todo = due
      /\ \A q \in Procs \ {p} : req'[q] = req[q]
  BY <1>1, <1>3 DEF ArticleCacheInv, TypeOK
<1>5. TypeOK'
  BY <1>1, <1>4 DEF ArticleCacheInv, TypeOK
<1>6. StaleIsExplained'
  BY <1>1, <1>2, <1>4 DEF StaleIsExplained, Stale, Present
<1>7. \A x \in Keys : EntryIsSound(x)'
  BY <1>1, SoundStays DEF ArticleCacheInv
<1>8. \A q \in Procs : RequestIsSound(q)'
  BY <1>1, <1>4, RequestsStay DEF ArticleCacheInv
<1> QED BY <1>1, <1>5, <1>6, <1>7, <1>8 DEF ArticleCacheInv

\* What the scan no longer has to remove is gone.
LEMMA UnlinkKeeps ==
    ASSUME ArticleCacheInv, NEW p \in Procs, NEW batch \in SUBSET Keys, Unlink(p, batch)
    PROVE  ArticleCacheInv'
<1>1. /\ req[p].at = "scan"
      /\ req' = [req EXCEPT ![p].todo = @ \ batch]
      /\ cache' = [k \in Keys |-> IF k \in batch THEN NoEntry ELSE cache[k]]
      /\ missed' = missed \ batch
      /\ row' = row
  BY DEF Unlink
<1>2. /\ req' \in [ Procs -> [ at : { "idle", "find", "plans", "set", "invalidate", "scan" },
                               key : Keys, todo : SUBSET Keys, entry : Entries ] ]
      /\ req'[p].at = "scan" /\ req'[p].todo = req[p].todo \ batch
      /\ \A q \in Procs \ {p} : req'[q] = req[q]
  BY <1>1 DEF ArticleCacheInv, TypeOK
<1>3. /\ cache' \in [ Keys -> Entries ]
      /\ \A k \in batch : cache'[k].left = 0 /\ cache'[k] = NoEntry
      /\ \A k \in Keys \ batch : cache'[k] = cache[k]
  BY <1>1, NoEntryIsEmpty DEF ArticleCacheInv, TypeOK
<1>4. TypeOK'
  BY <1>1, <1>2, <1>3 DEF ArticleCacheInv, TypeOK
<1>5. StaleIsExplained'
  <2> SUFFICES ASSUME NEW k \in Keys, Stale(k)', k \notin missed'
               PROVE  \E q \in Procs :
                        \/ req'[q].at = "invalidate"
                        \/ req'[q].at = "scan" /\ k \in req'[q].todo
    BY DEF StaleIsExplained
  <2>1. k \notin batch
    BY <1>3 DEF Stale, Present
  <2>2. Stale(k) /\ k \notin missed
    BY <1>1, <1>3, <2>1 DEF Stale, Present
  <2>3. PICK q \in Procs : \/ req[q].at = "invalidate"
                           \/ req[q].at = "scan" /\ k \in req[q].todo
    BY <2>2 DEF ArticleCacheInv, StaleIsExplained
  <2> QED BY <1>1, <1>2, <2>1, <2>3
<1>6. \A x \in Keys : EntryIsSound(x)'
  BY <1>1, <1>3, SoundStays, NothingIsSound DEF ArticleCacheInv
<1>7. \A q \in Procs : RequestIsSound(q)'
  BY <1>1, <1>2, RequestsStay DEF ArticleCacheInv
<1> QED BY <1>1, <1>4, <1>5, <1>6, <1>7 DEF ArticleCacheInv

\* A request that ends, well or not, leaves no entry without a reason.
LEMMA EndsKeep ==
    ASSUME ArticleCacheInv, NEW p \in Procs, ScanEnds(p) \/ Fail(p)
    PROVE  ArticleCacheInv'
<1>1. /\ Answer(p)
      /\ UNCHANGED <<row, cache>>
      /\ missed \subseteq missed' /\ missed' \subseteq Keys
      /\ req[p].at = "invalidate" => \A k \in Keys : Present(k) => k \in missed'
      /\ req[p].at = "scan" => req[p].todo \subseteq missed'
  <2>1. CASE ScanEnds(p)
    BY <2>1 DEF ScanEnds, ArticleCacheInv, TypeOK
  <2>2. CASE Fail(p)
    BY <2>2 DEF Fail, ArticleCacheInv, TypeOK
  <2> QED BY <2>1, <2>2
<1>2. /\ req' \in [ Procs -> [ at : { "idle", "find", "plans", "set", "invalidate", "scan" },
                               key : Keys, todo : SUBSET Keys, entry : Entries ] ]
      /\ req'[p].at = "idle"
      /\ \A q \in Procs \ {p} : req'[q] = req[q]
  BY <1>1, AnswerMoves DEF ArticleCacheInv
<1>3. TypeOK'
  BY <1>1, <1>2 DEF ArticleCacheInv, TypeOK
<1>4. StaleIsExplained'
  <2> SUFFICES ASSUME NEW k \in Keys, Stale(k), k \notin missed'
               PROVE  \E q \in Procs :
                        \/ req'[q].at = "invalidate"
                        \/ req'[q].at = "scan" /\ k \in req'[q].todo
    BY <1>1 DEF StaleIsExplained, Stale, Present
  <2>1. PICK q \in Procs : \/ req[q].at = "invalidate"
                           \/ req[q].at = "scan" /\ k \in req[q].todo
    BY <1>1 DEF ArticleCacheInv, StaleIsExplained
  <2>2. q # p
    BY <1>1, <2>1 DEF Stale
  <2> QED BY <1>2, <2>1, <2>2
<1>5. \A x \in Keys : EntryIsSound(x)'
  BY <1>1, SoundStays DEF ArticleCacheInv
<1>6. \A q \in Procs : RequestIsSound(q)'
  BY <1>1, <1>2, RequestsStay DEF ArticleCacheInv
<1> QED BY <1>1, <1>3, <1>4, <1>5, <1>6 DEF ArticleCacheInv

\* Time takes entries away, and with them the duty to remove them.
LEMMA TickKeeps == ASSUME ArticleCacheInv, Tick PROVE ArticleCacheInv'
<1>1. /\ cache' = [ k \in Keys |-> Older(cache[k]) ]
      /\ missed' = { k \in missed : cache[k].left > 1 }
      /\ req' = [ p \in Procs |-> [req[p] EXCEPT !.todo = { k \in @ : cache[k].left > 1 }] ]
      /\ row' = row
  BY DEF Tick
<1>2. ASSUME NEW e \in Entries, e.left = 0 => e = NoEntry
      PROVE  /\ Older(e) \in Entries
             /\ Older(e).left = 0 => Older(e) = NoEntry
             /\ Older(e).left > 0 => e.left > 1 /\ Older(e).version = e.version
                                              /\ Older(e).need = e.need
                                              /\ Older(e).own = e.own
  <2>1. CASE e.left > 1
    BY <2>1, ArticleCacheAssumption DEF Older, Entries
  <2>2. CASE ~(e.left > 1)
    BY <2>2, NoEntryIsEmpty DEF Older
  <2> QED BY <2>1, <2>2
<1>3. /\ cache' \in [ Keys -> Entries ]
      /\ \A k \in Keys :
           /\ cache'[k].left = 0 => cache'[k] = NoEntry
           /\ cache'[k].left > 0 => /\ cache[k].left > 1
                                    /\ cache'[k].version = cache[k].version
                                    /\ cache'[k].need = cache[k].need
                                    /\ cache'[k].own = cache[k].own
  BY <1>1, <1>2 DEF ArticleCacheInv, TypeOK
<1>4. ASSUME NEW p \in Procs
      PROVE  /\ req'[p] \in [ at : { "idle", "find", "plans", "set", "invalidate", "scan" },
                               key : Keys, todo : SUBSET Keys, entry : Entries ]
             /\ req'[p].at = req[p].at /\ req'[p].key = req[p].key
             /\ req'[p].entry = req[p].entry
             /\ req'[p].todo = { k \in req[p].todo : cache[k].left > 1 }
  BY <1>1 DEF ArticleCacheInv, TypeOK
<1>5. req' \in [ Procs -> [ at : { "idle", "find", "plans", "set", "invalidate", "scan" },
                           key : Keys, todo : SUBSET Keys, entry : Entries ] ]
  BY <1>1, <1>4
<1>6. TypeOK'
  BY <1>1, <1>3, <1>5 DEF ArticleCacheInv, TypeOK
<1>7. \A k \in Keys : Stale(k)' => Stale(k) /\ cache[k].left > 1
  <2> SUFFICES ASSUME NEW k \in Keys, cache'[k].left > 0 /\ cache'[k].version # row.version
               PROVE  /\ cache[k].left > 0 /\ cache[k].version # row.version
                      /\ cache[k].left > 1
    BY <1>1 DEF Stale, Present
  <2>1. cache[k].left \in Nat
    BY ArticleCacheAssumption DEF ArticleCacheInv, TypeOK, Entries
  <2> QED BY <1>3, <2>1
<1>8. StaleIsExplained'
  <2> SUFFICES ASSUME NEW k \in Keys, Stale(k)', k \notin missed'
               PROVE  \E q \in Procs :
                        \/ req'[q].at = "invalidate"
                        \/ req'[q].at = "scan" /\ k \in req'[q].todo
    BY DEF StaleIsExplained
  <2>1. Stale(k) /\ cache[k].left > 1 /\ k \notin missed
    BY <1>1, <1>7
  <2>2. PICK q \in Procs : \/ req[q].at = "invalidate"
                           \/ req[q].at = "scan" /\ k \in req[q].todo
    BY <2>1 DEF ArticleCacheInv, StaleIsExplained
  <2> QED BY <1>4, <2>1, <2>2
<1>9. ASSUME NEW k \in Keys PROVE EntryIsSound(k)'
  <2>1. cache'[k].left \in Nat /\ cache[k].left \in Nat /\ EntryIsSound(k)
    BY <1>3, ArticleCacheAssumption DEF ArticleCacheInv, TypeOK, Entries
  <2>2. CASE cache'[k].left = 0
    BY <1>1, <1>3, <2>2, NothingIsSound DEF ArticleCacheInv
  <2>3. CASE cache'[k].left > 0
    <3>1. Present(k)
      BY <1>3, <2>1, <2>3 DEF Present
    <3> QED BY <1>1, <1>3, <2>1, <2>3, <3>1 DEF EntryIsSound, Whole, Checked, Covers, Present
  <2> QED BY <2>1, <2>2, <2>3
<1>10. ASSUME NEW p \in Procs PROVE RequestIsSound(p)'
  <2>1. /\ row' = row /\ RequestIsSound(p)
        /\ req'[p].at = req[p].at /\ req'[p].key = req[p].key /\ req'[p].entry = req[p].entry
    BY <1>1, <1>4 DEF ArticleCacheInv
  <2> QED BY <2>1 DEF RequestIsSound, Whole, Checked, Covers
<1> QED BY <1>1, <1>6, <1>8, <1>9, <1>10 DEF ArticleCacheInv

-----------------------------------------------------------------------------
(* The theorems.                                                           *)

LEMMA InitEstablishes == Init => ArticleCacheInv
<1> SUFFICES ASSUME Init PROVE ArticleCacheInv
  OBVIOUS
<1> PICK n \in Levels : row = [ state |-> "published", need |-> n, version |-> 0, born |-> 0 ]
  BY DEF Init
<1> PICK legacy \in SUBSET (Readers \ {List}) :
       cache = [ k \in Keys |->
                   IF k \in legacy /\ Covers(k, row.need)
                     THEN [ version |-> 0, own |-> row.need, need |-> row.need,
                            left |-> Ttl, unsafe |-> TRUE ]
                     ELSE NoEntry ]
  BY DEF Init
<1>1. /\ req = [ p \in Procs |-> Idle ] /\ missed = {} /\ row.need = n /\ row.version = 0
      /\ row.state = "published" /\ row.born = 0
  BY DEF Init
<1> DEFINE e == [ version |-> 0, own |-> n, need |-> n, left |-> Ttl, unsafe |-> TRUE ]
<1>2. e \in Entries /\ e.left # 0 /\ e.version = 0 /\ e.need = n /\ e.own = n
  BY KeysAreLevels, ArticleCacheAssumption DEF Entries
<1> HIDE DEF e
<1>3. \A k \in Keys : cache[k] = NoEntry \/ (cache[k] = e /\ Covers(k, n))
  BY <1>1 DEF e
<1>4. cache \in [ Keys -> Entries ]
  BY <1>1, <1>2, NoEntryIsEmpty DEF e
<1>5. TypeOK
  BY <1>1, <1>2, <1>3, <1>4, KeysAreLevels, NoEntryIsEmpty DEF TypeOK, Idle
<1>6. \A k \in Keys : EntryIsSound(k)
  BY <1>1, <1>2, <1>3, NoEntryIsEmpty DEF EntryIsSound, Whole, Checked, Present, Covers, NoEntry
<1>7. StaleIsExplained
  BY <1>1, <1>2, <1>3, NoEntryIsEmpty DEF StaleIsExplained, Stale, Present
<1>8. \A p \in Procs : RequestIsSound(p)
  BY <1>1 DEF RequestIsSound, Idle
<1> QED BY <1>1, <1>5, <1>6, <1>7, <1>8 DEF ArticleCacheInv

\* The invariant of the cached articles holds in every behaviour.
THEOREM ArticleCacheInvariant == Spec => []ArticleCacheInv
<1>1. ArticleCacheInv /\ [Next]_vars => ArticleCacheInv'
  <2> SUFFICES ASSUME ArticleCacheInv, [Next]_vars PROVE ArticleCacheInv'
    OBVIOUS
  <2>1. CASE UNCHANGED vars
    BY <2>1 DEF vars, ArticleCacheInv, TypeOK, EntryIsSound, RequestIsSound, Whole, Checked,
                StaleIsExplained, Stale, Present, Covers
  <2>2. ASSUME NEW p \in Procs, Arrive(p) PROVE ArticleCacheInv'
    <3>1. CASE \E k \in Readers : Get(p, k)
      BY <3>1, GetKeeps, ArticleCacheAssumption
    <3>2. CASE \E state \in { "draft", "published" }, need \in Levels :
                 Create(p, state, need) \/ Update(p, state, need)
      BY <3>2, CommitKeeps DEF Create, Update
    <3>3. CASE Remove(p)
      BY <3>3, CommitKeeps, KeysAreLevels DEF Remove
    <3> QED BY <2>2, <3>1, <3>2, <3>3 DEF Arrive
  <2>3. ASSUME NEW p \in Procs, Advance(p) \/ Fail(p) PROVE ArticleCacheInv'
    BY <2>3, FindKeeps, FindPlansKeeps, SetKeeps, ScanKeeps, UnlinkKeeps, EndsKeep DEF Advance
  <2> QED BY <2>1, <2>2, <2>3, TickKeeps DEF Next
<1> QED BY <1>1, InitEstablishes, PTL DEF Spec

\* The plans read for an entry of a level are covered by it, and they are
\* those of its text or the entry is out of date (findBySlug).
THEOREM PremiumStaysCovered == Spec => []EntriesAreCovered
<1>1. ArticleCacheInv => EntriesAreCovered
  <2> SUFFICES ASSUME ArticleCacheInv, NEW k \in Levels, Present(k)
               PROVE  /\ Covers(k, cache[k].need)
                      /\ cache[k].own = cache[k].need \/ Stale(k)
    BY DEF EntriesAreCovered
  <2>1. /\ k \in Keys /\ EntryIsSound(k) /\ cache[k].version \in Nat /\ row.version \in Nat
    BY KeysAreLevels, ArticleCacheAssumption DEF ArticleCacheInv, TypeOK, Entries, Versions
  <2> QED BY <2>1 DEF EntryIsSound, Whole, Checked, Stale
<1> QED BY <1>1, ArticleCacheInvariant, PTL

\* A stale entry is being removed, or was stored by an overtaken read, or is
\* what a failed invalidation left (invalidateCache, clearCache).
THEOREM StaleEntriesAreExplained == Spec => []StaleIsExplained
<1>1. ArticleCacheInv => StaleIsExplained
  BY DEF ArticleCacheInv
<1> QED BY <1>1, ArticleCacheInvariant, PTL

-----------------------------------------------------------------------------
(* ArticleCache implements CacheAside.                                     *)

\* What a request may yet store is among what was read.
Holds(p)   == req[p].at \in { "plans", "set" }
Carried(p) == <<req[p].key, Shown(req[p].entry)>>

LEMMA ReadsAre ==
    /\ \A r : r \in Reads <=> \E p \in Procs : Holds(p) /\ r = Carried(p)
    /\ \A r : r \in Reads' <=> \E p \in Procs : Holds(p)' /\ r = Carried(p)'
  BY DEF Reads, Carried, Holds

\* A step of one request adds what it has read, takes what it stored or gave
\* up, or leaves what was read as it is.
LEMMA ReadsMove ==
    ASSUME NEW p \in Procs, \A q \in Procs \ {p} : req'[q] = req[q]
    PROVE  /\ ~Holds(p) /\ ~Holds(p)' => Reads' = Reads
           /\ ~Holds(p) /\ Holds(p)' => Reads' = Reads \cup {Carried(p)'}
           /\ Holds(p) /\ ~Holds(p)' =>
                Carried(p) \in Reads /\ Reads' \in { Reads, Reads \ {Carried(p)} }
           /\ Holds(p) /\ Holds(p)' /\ Carried(p)' = Carried(p) => Reads' = Reads
<1>1. \A q \in Procs \ {p} : Holds(q)' = Holds(q) /\ Carried(q)' = Carried(q)
  BY DEF Carried, Shown, Holds
<1>2. ASSUME ~Holds(p), ~Holds(p)' PROVE Reads' = Reads
  <2>1. \A r : r \in Reads' <=> r \in Reads
    BY <1>1, <1>2, ReadsAre
  <2> QED BY <2>1
<1>3. ASSUME ~Holds(p), Holds(p)' PROVE Reads' = Reads \cup {Carried(p)'}
  <2>1. \A r : r \in Reads' => r \in Reads \cup {Carried(p)'}
    BY <1>1, <1>3, ReadsAre
  <2>2. \A r : r \in Reads \cup {Carried(p)'} => r \in Reads'
    BY <1>1, <1>3, ReadsAre
  <2> QED BY <2>1, <2>2
<1>4. ASSUME Holds(p), ~Holds(p)'
      PROVE  Carried(p) \in Reads /\ Reads' \in { Reads, Reads \ {Carried(p)} }
  <2>1. Carried(p) \in Reads
    BY <1>4, ReadsAre
  <2>2. \A r : r # Carried(p) => (r \in Reads' <=> r \in Reads)
    BY <1>1, <1>4, ReadsAre
  <2>3. \A r : r \in Reads' => r \in Reads
    BY <1>1, <1>4, ReadsAre
  <2>4. CASE Carried(p) \in Reads'
    <3>1. Reads' = Reads
      BY <2>1, <2>2, <2>4
    <3> QED BY <2>1, <3>1
  <2>5. CASE Carried(p) \notin Reads'
    <3>1. Reads' = Reads \ {Carried(p)}
      BY <2>2, <2>5
    <3> QED BY <2>1, <3>1
  <2> QED BY <2>4, <2>5
<1>5. ASSUME Holds(p), Holds(p)', Carried(p)' = Carried(p) PROVE Reads' = Reads
  <2>1. \A r : r \in Reads' <=> r \in Reads
    BY <1>1, <1>5, ReadsAre
  <2> QED BY <2>1
<1> QED BY <1>2, <1>3, <1>4, <1>5

\* What a key shows is a text, or nothing.
LEMMA ShownType ==
    /\ \A e \in Entries : Shown(e) \in Versions /\ Shown(e) # Nothing
    /\ TypeOK => Shown(row) \in Versions /\ Shown(row) # Nothing
    /\ TypeOK' => Shown(row') \in Versions
  BY ArticleCacheAssumption DEF Shown, Nothing, Entries, Versions, TypeOK

LEMMA NowType == /\ TypeOK => Now \in Promise!Shows
                 /\ TypeOK' => Now' \in Promise!Shows
  BY ShownType DEF Now, Promise!Shows, Shown

\* What an entry shows, and what shows it.
LEMMA EntryShowsAre ==
    ASSUME NEW k \in Keys
    PROVE  /\ EntryShows[k] = IF Present(k) THEN Shown(cache[k]) ELSE Nothing
           /\ EntryShows'[k] = IF Present(k)' THEN Shown(cache'[k]) ELSE Nothing
           /\ Now[k] = IF k = List \/ row.state = "published"
                         THEN Shown(row) ELSE Nothing
  BY DEF EntryShows, Now, Shown

LEMMA EntryShowsAreFunctions ==
    /\ EntryShows = [ k \in Keys |-> EntryShows[k] ]
    /\ EntryShows' = [ k \in Keys |-> EntryShows'[k] ]
  BY DEF EntryShows

\* A step of a request that leaves the row and the entries alone.
Still == UNCHANGED <<row, cache>>

LEMMA StillShows == ASSUME Still PROVE Now' = Now /\ EntryShows' = EntryShows
  BY DEF Still, Now, EntryShows, Shown, Present

Stutters == UNCHANGED <<Now, EntryShows, Reads>>

LEMMA GetImplements ==
    ASSUME TypeOK, NEW p \in Procs, NEW k \in Keys, Get(p, k)
    PROVE  Promise!Recall(k) \/ Stutters
<1> DEFINE clean == [cache[k] EXCEPT !.unsafe = FALSE]
<1>1. /\ Still /\ req[p].at = "idle"
      /\ \/ req' = [req EXCEPT ![p].at = "find", ![p].key = k]
         \/ /\ Present(k)
            /\ req' = [req EXCEPT ![p].at = "set", ![p].key = k, ![p].entry = clean]
  BY DEF Get, Still
<1>2. cache[k] \in Entries
  BY DEF TypeOK
<1>3. clean.version = cache[k].version
  BY <1>2 DEF Entries
<1>4. Shown(clean) = Shown(cache[k])
  BY <1>3 DEF Shown
<1> HIDE DEF clean
<1>5. /\ \A q \in Procs \ {p} : req'[q] = req[q]
      /\ \/ req'[p].at = "find"
         \/ req'[p].at = "set" /\ req'[p].key = k /\ req'[p].entry = clean /\ Present(k)
  BY <1>1 DEF TypeOK
<1>6. CASE req'[p].at = "find"
  <2>1. Reads' = Reads
    BY <1>1, <1>5, <1>6, ReadsMove DEF Holds
  <2> QED BY <1>1, <2>1, StillShows DEF Stutters
<1>7. CASE req'[p].at = "set" /\ req'[p].key = k /\ req'[p].entry = clean /\ Present(k)
  <2>1. Reads' = Reads \cup {Carried(p)'}
    BY <1>1, <1>5, <1>7, ReadsMove DEF Holds
  <2>2. Carried(p)' = <<k, EntryShows[k]>>
    BY <1>4, <1>7, EntryShowsAre DEF Carried, Shown
  <2>3. EntryShows[k] # Nothing
    BY <1>2, <1>7, EntryShowsAre, ShownType
  <2> QED BY <1>1, <2>1, <2>2, <2>3, StillShows DEF Promise!Recall
<1> QED BY <1>5, <1>6, <1>7

LEMMA FindImplements ==
    ASSUME TypeOK, NEW p \in Procs, Find(p)
    PROVE  (\E k \in Keys : Promise!Read(k)) \/ Stutters
<1> DEFINE k == req[p].key
           to == IF k = List THEN "set" ELSE "plans"
<1>1. /\ Still /\ req[p].at = "find" /\ k \in Keys
      /\ \/ /\ k = List \/ row.state = "published"
            /\ req' = [req EXCEPT ![p].at = to, ![p].entry = Seen]
         \/ Answer(p)
  BY DEF Find, Still, TypeOK
<1>2. CASE /\ k = List \/ row.state = "published"
           /\ req' = [req EXCEPT ![p].at = to, ![p].entry = Seen]
  <2>1. /\ \A q \in Procs \ {p} : req'[q] = req[q]
        /\ req'[p].at = to /\ req'[p].key = k /\ req'[p].entry = Seen
    BY <1>2 DEF TypeOK
  <2>2. Shown(Seen) = Shown(row)
    BY DEF Shown, Seen
  <2>3. Reads' = Reads \cup {Carried(p)'}
    BY <1>1, <2>1, ReadsMove DEF Holds
  <2>4. Now[k] = Shown(row)
    BY <1>1, <1>2, EntryShowsAre
  <2>5. Carried(p)' = <<k, Now[k]>>
    BY <2>1, <2>2, <2>4 DEF Carried, Shown
  <2>6. Now[k] # Nothing
    BY <2>4, ShownType
  <2> HIDE DEF k
  <2> QED BY <1>1, <2>3, <2>5, <2>6, StillShows DEF Promise!Read
<1>3. CASE Answer(p)
  <2>1. ~Holds(p)' /\ \A q \in Procs \ {p} : req'[q] = req[q]
    BY <1>3, AnswerMoves DEF Holds
  <2>2. Reads' = Reads
    BY <1>1, <2>1, ReadsMove DEF Holds
  <2> QED BY <1>1, <2>2, StillShows DEF Stutters
<1> QED BY <1>1, <1>2, <1>3

\* What was read may yet be stored, or is given up.
LEMMA FindPlansImplements ==
    ASSUME TypeOK, NEW p \in Procs, FindPlans(p)
    PROVE  Stutters \/ \E r \in Reads : Promise!Forget(r)
<1>1. Still /\ Holds(p)
  BY DEF FindPlans, Still, Holds
<1>2. PICK need : \/ req' = [req EXCEPT ![p].at = "set", ![p].entry.need = need]
                 \/ Answer(p)
  BY DEF FindPlans
<1>3. CASE req' = [req EXCEPT ![p].at = "set", ![p].entry.need = need]
  <2>1. /\ \A q \in Procs \ {p} : req'[q] = req[q]
        /\ req'[p].at = "set" /\ req'[p].key = req[p].key
        /\ req'[p].entry.version = req[p].entry.version
    BY <1>3 DEF TypeOK, Entries
  <2>2. Carried(p)' = Carried(p) /\ Holds(p)'
    BY <2>1 DEF Carried, Shown, Holds
  <2>3. Reads' = Reads
    BY <1>1, <2>1, <2>2, ReadsMove
  <2> QED BY <1>1, <2>3, StillShows DEF Stutters
<1>4. CASE Answer(p)
  <2>1. ~Holds(p)' /\ \A q \in Procs \ {p} : req'[q] = req[q]
    BY <1>4, AnswerMoves DEF Holds
  <2>2. Carried(p) \in Reads /\ Reads' \in { Reads, Reads \ {Carried(p)} }
    BY <1>1, <2>1, ReadsMove
  <2> QED BY <1>1, <2>2, StillShows DEF Stutters, Promise!Forget
<1> QED BY <1>2, <1>3, <1>4

LEMMA SetImplements ==
    ASSUME TypeOK, NEW p \in Procs, Set(p)
    PROVE  \E r \in Reads : Promise!Store(r)
<1> DEFINE k == req[p].key
           e == [req[p].entry EXCEPT !.left = Ttl]
<1>1. /\ req[p].at = "set" /\ k \in Keys /\ row' = row
      /\ cache' = [cache EXCEPT ![k] = e] /\ Answer(p)
  BY DEF Set, TypeOK
<1>2. req[p].entry \in Entries
  BY DEF TypeOK
<1>3. e.version = req[p].entry.version /\ e.left > 0
  BY <1>2, ArticleCacheAssumption DEF Entries
<1>4. Shown(e) = Shown(req[p].entry)
  BY <1>3 DEF Shown
<1>5. ~Holds(p)' /\ \A q \in Procs \ {p} : req'[q] = req[q]
  BY <1>1, AnswerMoves DEF Holds
<1>6. Carried(p) \in Reads /\ Reads' \in { Reads, Reads \ {Carried(p)} }
  BY <1>1, <1>5, ReadsMove DEF Holds
<1>7. Carried(p)[1] = k /\ Carried(p)[2] = Shown(e)
  BY <1>4 DEF Carried
<1>8. Now' = Now
  BY <1>1 DEF Now, Shown
<1> HIDE DEF k, e
<1>9. cache'[k] = e /\ \A x \in Keys \ {k} : cache'[x] = cache[x]
  BY <1>1 DEF TypeOK
<1>10. EntryShows'[k] = Shown(e)
  BY <1>1, <1>3, <1>9, EntryShowsAre DEF Present
<1>11. \A x \in Keys \ {k} : EntryShows'[x] = EntryShows[x]
  BY <1>9, EntryShowsAre DEF Present
<1>12. EntryShows' = [EntryShows EXCEPT ![k] = Shown(e)]
  BY <1>1, <1>10, <1>11, EntryShowsAreFunctions
<1> QED BY <1>6, <1>7, <1>8, <1>12 DEF Promise!Store

\* Entries that are removed, or run out.
LEMMA DropImplements ==
    ASSUME row' = row, Reads' = Reads, NEW S \in SUBSET Keys,
           \A k \in S : ~Present(k)',
           \A k \in Keys \ S : /\ Present(k)' <=> Present(k)
                               /\ Present(k) => Shown(cache'[k]) = Shown(cache[k])
    PROVE  Promise!Drop(S)
<1>1. \A k \in Keys : EntryShows'[k] = IF k \in S THEN Nothing ELSE EntryShows[k]
  BY EntryShowsAre
<1>2. EntryShows' = [ k \in Keys |-> IF k \in S THEN Nothing ELSE EntryShows[k] ]
  BY <1>1, EntryShowsAreFunctions
<1>3. Now' = Now
  BY DEF Now, Shown
<1> QED BY <1>2, <1>3 DEF Promise!Drop

LEMMA UnlinkImplements ==
    ASSUME TypeOK, NEW p \in Procs, NEW batch \in SUBSET Keys, Unlink(p, batch)
    PROVE  Promise!Drop(batch)
<1>1. /\ req[p].at = "scan" /\ row' = row
      /\ req' = [req EXCEPT ![p].todo = @ \ batch]
      /\ cache' = [k \in Keys |-> IF k \in batch THEN NoEntry ELSE cache[k]]
  BY DEF Unlink
<1>2. req'[p].at = "scan" /\ \A q \in Procs \ {p} : req'[q] = req[q]
  BY <1>1 DEF TypeOK
<1>3. Reads' = Reads
  BY <1>1, <1>2, ReadsMove DEF Holds
<1>4. /\ \A k \in batch : cache'[k].left = 0
      /\ \A k \in Keys \ batch : cache'[k] = cache[k]
  BY <1>1, NoEntryIsEmpty
<1>5. /\ \A k \in batch : ~Present(k)'
      /\ \A k \in Keys \ batch : /\ Present(k)' <=> Present(k)
                                 /\ Present(k) => Shown(cache'[k]) = Shown(cache[k])
  BY <1>4 DEF Present
<1> QED BY <1>1, <1>3, <1>5, DropImplements

LEMMA TickImplements ==
    ASSUME TypeOK, Tick
    PROVE  \E S \in SUBSET Keys : Promise!Drop(S)
<1> DEFINE S == { k \in Keys : ~(cache[k].left > 1) }
<1>1. /\ cache' = [ k \in Keys |-> Older(cache[k]) ] /\ row' = row
      /\ req' = [ p \in Procs |-> [req[p] EXCEPT !.todo = { k \in @ : cache[k].left > 1 }] ]
  BY DEF Tick
<1>2. \A p \in Procs : Holds(p)' = Holds(p) /\ Carried(p)' = Carried(p)
  BY <1>1 DEF TypeOK, Carried, Shown, Holds
<1>3. Reads' = Reads
  <2>1. \A r : r \in Reads' => r \in Reads
    BY <1>2, ReadsAre
  <2>2. \A r : r \in Reads => r \in Reads'
    BY <1>2, ReadsAre
  <2> QED BY <2>1, <2>2
<1>4. ASSUME NEW k \in S PROVE ~Present(k)'
  <2>1. cache'[k] = NoEntry
    BY <1>1 DEF Older
  <2> QED BY <2>1, NoEntryIsEmpty DEF Present
<1>5. ASSUME NEW k \in Keys \ S
      PROVE  /\ Present(k)' <=> Present(k)
             /\ Present(k) => Shown(cache'[k]) = Shown(cache[k])
  <2>1. cache[k] \in Entries /\ cache[k].left > 1 /\ cache'[k] = [cache[k] EXCEPT !.left = @ - 1]
    BY <1>1 DEF TypeOK, Older
  <2>2. /\ cache'[k].left = cache[k].left - 1 /\ cache[k].left \in Nat
        /\ cache'[k].version = cache[k].version
    BY <2>1, ArticleCacheAssumption DEF Entries
  <2> QED BY <2>1, <2>2 DEF Present, Shown
<1> HIDE DEF S
<1>6. S \in SUBSET Keys
  BY DEF S
<1> QED BY <1>1, <1>3, <1>4, <1>5, <1>6, DropImplements

LEMMA CommitImplements ==
    ASSUME TypeOK, TypeOK', NEW p \in Procs, NEW state, NEW need, NEW born,
           Commit(p, state, need, born)
    PROVE  Promise!Change
<1>1. req[p].at = "idle" /\ req' = [req EXCEPT ![p].at = "invalidate"] /\ cache' = cache
  BY DEF Commit, Goto
<1>2. req'[p].at = "invalidate" /\ \A q \in Procs \ {p} : req'[q] = req[q]
  BY <1>1 DEF TypeOK
<1>3. Reads' = Reads
  BY <1>1, <1>2, ReadsMove DEF Holds
<1>4. EntryShows' = EntryShows
  BY <1>1 DEF EntryShows, Present, Shown
<1>5. Now' \in Promise!Shows
  BY NowType
<1> QED BY <1>3, <1>4, <1>5 DEF Promise!Change

\* A scan that starts or ends says nothing about entries; a request that
\* fails stores nothing.
LEMMA ScanImplements == ASSUME TypeOK, NEW p \in Procs, Scan(p) PROVE Stutters
<1>1. /\ req[p].at = "invalidate" /\ Still
      /\ req'[p].at = "scan" /\ \A q \in Procs \ {p} : req'[q] = req[q]
  BY DEF Scan, Still, TypeOK
<1>2. Reads' = Reads
  BY <1>1, ReadsMove DEF Holds
<1> QED BY <1>1, <1>2, StillShows DEF Stutters

LEMMA EndsImplement ==
    ASSUME TypeOK, NEW p \in Procs, ScanEnds(p) \/ Fail(p)
    PROVE  Stutters \/ \E r \in Reads : Promise!Forget(r)
<1>1. Still /\ Answer(p)
  BY DEF ScanEnds, Fail, Still
<1>2. ~Holds(p)' /\ \A q \in Procs \ {p} : req'[q] = req[q]
  BY <1>1, AnswerMoves DEF Holds
<1>3. CASE ~Holds(p)
  <2>1. Reads' = Reads
    BY <1>2, <1>3, ReadsMove DEF Holds
  <2> QED BY <1>1, <2>1, StillShows DEF Stutters
<1>4. CASE Holds(p)
  <2>1. Carried(p) \in Reads /\ Reads' \in { Reads, Reads \ {Carried(p)} }
    BY <1>2, <1>4, ReadsMove DEF Holds
  <2> QED BY <1>1, <2>1, StillShows DEF Stutters, Promise!Forget
<1> QED BY <1>3, <1>4

LEMMA InitImplements == Init => Promise!Init
<1> SUFFICES ASSUME Init PROVE Promise!Init
  OBVIOUS
<1> PICK n \in Levels : row = [ state |-> "published", need |-> n, version |-> 0, born |-> 0 ]
  BY DEF Init
<1> PICK legacy \in SUBSET (Readers \ {List}) :
       cache = [ k \in Keys |->
                   IF k \in legacy /\ Covers(k, row.need)
                     THEN [ version |-> 0, own |-> row.need, need |-> row.need,
                            left |-> Ttl, unsafe |-> TRUE ]
                     ELSE NoEntry ]
  BY DEF Init
<1>1. TypeOK
  BY InitEstablishes DEF ArticleCacheInv
<1>2. Now \in Promise!Shows
  BY <1>1, NowType
<1>3. Reads = {}
  <2>1. \A p \in Procs : ~Holds(p)
    BY DEF Init, Idle, Holds
  <2> QED BY <2>1, ReadsAre
<1>4. row.state = "published" /\ row.need = n /\ row.version = 0
  OBVIOUS
<1>5. ASSUME NEW k \in Keys PROVE EntryShows[k] \in { Nothing, Now[k] }
  <2>1. CASE k \in legacy /\ Covers(k, row.need)
    <3>1. cache[k].version = row.version /\ cache[k].need = row.need
      BY <1>4, <2>1
    <3>2. Shown(cache[k]) = Shown(row)
      BY <3>1 DEF Shown
    <3>3. Now[k] = Shown(row)
      BY <1>4, <2>1, EntryShowsAre
    <3> QED BY <3>2, <3>3, EntryShowsAre
  <2>2. CASE ~(k \in legacy /\ Covers(k, row.need))
    <3>1. ~Present(k)
      BY <2>2, NoEntryIsEmpty DEF Present
    <3> QED BY <3>1, EntryShowsAre
  <2> QED BY <2>1, <2>2
<1>6. ASSUME NEW k \in Keys PROVE EntryShows[k] \in Versions \cup {Nothing}
  <2>1. Shown(cache[k]) \in Versions
    BY <1>1, ShownType DEF TypeOK
  <2> QED BY <2>1, EntryShowsAre
<1>7. EntryShows \in Promise!Shows
  BY <1>6, EntryShowsAreFunctions DEF Promise!Shows
<1> QED BY <1>2, <1>3, <1>5, <1>7 DEF Promise!Init

\* Readers are given only texts that were published, and were read, at some
\* moment since: every step of a request, a write, an invalidation or the clock is a
\* step CacheAside allows, or none at all.
THEOREM CacheImplementsCacheAside == Spec => OnlyWhatWasRead
<1>1. TypeOK /\ TypeOK' /\ [Next]_vars => [Promise!Next]_<<Now, EntryShows, Reads>>
  <2> SUFFICES ASSUME TypeOK, TypeOK', [Next]_vars
               PROVE  Promise!Next \/ Stutters
    BY DEF Stutters
  <2>1. CASE UNCHANGED vars
    BY <2>1 DEF vars, Stutters, Now, EntryShows, Reads, Shown, Present
  <2>2. ASSUME NEW p \in Procs, Arrive(p) PROVE Promise!Next \/ Stutters
    <3>1. CASE \E k \in Readers : Get(p, k)
      BY <3>1, GetImplements, ArticleCacheAssumption DEF Promise!Next
    <3>2. CASE \E state, need, born : Commit(p, state, need, born)
      BY <3>2, CommitImplements DEF Promise!Next
    <3> QED BY <2>2, <3>1, <3>2 DEF Arrive, Create, Update, Remove
  <2>3. ASSUME NEW p \in Procs, Advance(p) \/ Fail(p) PROVE Promise!Next \/ Stutters
    <3>1. CASE Find(p)
      BY <3>1, FindImplements DEF Promise!Next
    <3>6. CASE FindPlans(p)
      BY <3>6, FindPlansImplements DEF Promise!Next
    <3>2. CASE Set(p)
      BY <3>2, SetImplements DEF Promise!Next
    <3>3. CASE Scan(p)
      BY <3>3, ScanImplements
    <3>4. CASE \E batch \in SUBSET Keys : Unlink(p, batch)
      BY <3>4, UnlinkImplements DEF Promise!Next
    <3>5. CASE ScanEnds(p) \/ Fail(p)
      BY <3>5, EndsImplement DEF Promise!Next
    <3> QED BY <2>3, <3>1, <3>2, <3>3, <3>4, <3>5, <3>6 DEF Advance
  <2>4. CASE Tick
    BY <2>4, TickImplements DEF Promise!Next
  <2> QED BY <2>1, <2>2, <2>3, <2>4 DEF Next
<1>2. ArticleCacheInv => TypeOK
  BY DEF ArticleCacheInv
<1> QED BY <1>1, <1>2, InitImplements, ArticleCacheInvariant, PTL
        DEF Spec, OnlyWhatWasRead, Promise!Spec

=============================================================================
