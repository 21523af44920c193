SPECIFICATION Spec
CONSTANTS
    Limit = 3
    Ttl = 4
    BlockDuration = 4
    Second = 3
INVARIANTS
    BurstBound
    AfreshAfterBlock
    ThrottlerInv
PROPERTY WaitIsHonoured
