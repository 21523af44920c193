SPECIFICATION Spec
CONSTANTS
    Procs = {p1, p2}
    Users = {a, b}
    Workers = {w1}
    MaxRequests = 2
    Attempts = 2
    MaxStalls = 1
    GivenRoles = {"user"}
    MaxFaults = 1
    NoUser = NoUser
    NoWorker = NoWorker
    NoJob = NoJob
SYMMETRY Symmetry
INVARIANTS
    WritesAreAccounted
PROPERTY ChangesAreAuthorised
CHECK_DEADLOCK FALSE
