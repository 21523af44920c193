SPECIFICATION Spec
CONSTANTS
    Procs = {p1, p2}
    Slugs = {a, b}
    MaxRows <- MCMaxRows
    MaxRequests = 3
    DtoPlans = {1, 2}
    Users = {ed, vip}
    NoSlug = NoSlug
    NoUser = NoUser
SYMMETRY Symmetry
INVARIANTS
    CatalogInv
    StaleIsExplained
PROPERTIES
    RemovalSparesCounted
    ProtectedIsRemovedByItsOwn
    OnlyWhatWasFound
CHECK_DEADLOCK FALSE
