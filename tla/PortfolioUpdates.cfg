SPECIFICATION BothSpec
CONSTANTS
    Procs = {p1, p2}
    Plans = {"titan"}
    MaxLevel = 1
    Readers <- MCReaders
    MaxFolios = 1
    MaxDate = 1
    MaxUpdates = 2
    Asked <- MCAsked
    MaxWork = 2
    MaxLists = 2
    MaxIds = 2
    NoPlan = NoPlan
    NoDate = NoDate
    NoFolio = NoFolio
SYMMETRY Symmetry
CHECK_DEADLOCK FALSE
INVARIANT UpdateReplaces
