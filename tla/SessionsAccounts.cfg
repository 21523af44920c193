SPECIFICATION FairSpec
CONSTANTS
    Procs = {p1, p2}
    Users = {adm, ann}
    Admins = {adm}
    Members = {}
    Roles = {"user", "editor", "admin"}
    Tokens = {t1, t2}
    Requests = {"login", "register", "refresh", "blockUser", "unblockUser", "deleteUser"}
    MaxExpired = 0
    NoProc = NoProc
    NoUser = NoUser
    NoToken = NoToken
INVARIANTS
    DeadlocksAreKnown
    BlockEndsSessions
    NoOrphanTokens
PROPERTY EveryRequestEnds
CHECK_DEADLOCK FALSE
