SPECIFICATION Spec
CONSTANTS
    Procs = {p1, p2, p3}
    Users = {ann}
    Admins = {}
    Members = {ann}
    Roles = {"user", "editor", "admin"}
    Tokens = {t1, t2, t3}
    Requests = {"login", "refresh", "logout", "handleExpiredTokens"}
    MaxExpired = 1
    NoProc = NoProc
    NoUser = NoUser
    NoToken = NoToken
SYMMETRY Symmetry
INVARIANTS
    OneActivePerChain
    AlarmReachesSuccessor
    NoFalseAlarm
PROPERTIES
    ExchangeKeepsSession
    EndedStaysEnded
