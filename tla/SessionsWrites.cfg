SPECIFICATION Spec
CONSTANTS
    Procs = {p1, p2}
    Users = {adm, ann}
    Admins = {adm}
    Members = {ann}
    Roles = {"user", "admin"}
    Tokens = {t1}
    Requests = {"login", "changePassword", "resetPassword", "updateRole", "assignPlan", "adminUpdateUser","register","blockUser","unblockUser","deleteUser"}
    MaxExpired = 0
    NoProc = NoProc
    NoUser = NoUser
    NoToken = NoToken
SYMMETRY Symmetry
INVARIANT SessionInv
CHECK_DEADLOCK FALSE
