SPECIFICATION BothSpec
CONSTANTS
    Procs = {p1, p2}
    Plans = {"titan"}
    MaxLevel = 1
    Readers <- MCReaders
    MaxFolios = 2
    MaxDate = 1
    MaxUpdates = 2
    Asked <- MCAsked
    MaxWork = 2
    MaxLists = 2
    MaxIds = 2
    NoPlan = NoPlan
    NoDate = NoDate
    NoFolio = NoFolio
SYMMETRY Symmetry
INVARIANTS
    SeedInv
    EntriesAreCovered
    StaleIsExplained
    PartsOfOneUpdate
    SeedConverges
CHECK_DEADLOCK FALSE
