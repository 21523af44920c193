SPECIFICATION FairSpec
CONSTANTS
    Procs = {p1, p2}
    MaxLevel = 1
    Readers = {0, 3}
    Ttl = 2
    MaxVersions = 2
INVARIANTS
    EntriesAreCovered
    StaleIsExplained
PROPERTIES
    StaleEntriesDie
    OnlyWhatWasRead
CHECK_DEADLOCK FALSE
