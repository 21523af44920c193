----------------------------- MODULE CacheAside -----------------------------
(***************************************************************************)
(* What a cache promises that is filled by reads and emptied by writes,    *)
(* with no order between the two: an entry holds what its key showed at    *)
(* some moment when it was read, or what an entry of that key held before. *)
(* Nothing else is ever stored, and nothing for a key that shows nothing.  *)
(***************************************************************************)

CONSTANTS Keys, Values, None

VARIABLES
    now,     \* what each key shows: the answer to a read past the cache
    entry,   \* the entries
    reads    \* keys and values that were read and may yet be stored

Shows == [ Keys -> Values \cup {None} ]

\* Entries may have been left by an earlier run.
Init ==
    /\ now \in Shows
    /\ entry \in Shows /\ \A k \in Keys : entry[k] \in { None, now[k] }
    /\ reads = {}

\* A write.
Change ==
    /\ now' \in Shows
    /\ UNCHANGED <<entry, reads>>

\* A read past the cache ...
Read(k) ==
    /\ now[k] # None
    /\ reads' = reads \cup {<<k, now[k]>>}
    /\ UNCHANGED <<now, entry>>

\* ... or of an entry that will be stored again.
Recall(k) ==
    /\ entry[k] # None
    /\ reads' = reads \cup {<<k, entry[k]>>}
    /\ UNCHANGED <<now, entry>>

\* What was read is stored, however old it is by now.
Store(r) ==
    /\ entry' = [entry EXCEPT ![r[1]] = r[2]]
    /\ reads' \in { reads, reads \ {r} }
    /\ UNCHANGED now

\* Or it is not.
Forget(r) ==
    /\ reads' = reads \ {r}
    /\ UNCHANGED <<now, entry>>

\* Entries are removed or run out.
Drop(S) ==
    /\ entry' = [ k \in Keys |-> IF k \in S THEN None ELSE entry[k] ]
    /\ UNCHANGED <<now, reads>>

Next ==
    \/ Change
    \/ \E k \in Keys : Read(k) \/ Recall(k)
    \/ \E r \in reads : Store(r) \/ Forget(r)
    \/ \E S \in SUBSET Keys : Drop(S)

Spec == Init /\ [][Next]_<<now, entry, reads>>
=============================================================================
